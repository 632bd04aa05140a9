----------------------------- MODULE LinkProofs -----------------------------
(***************************************************************************)
(* Proofs about Training and about LocalLink, which feeds it what the      *)
(* board shows.                                                            *)
(*                                                                         *)
(* Training, for every set of beds, every valuation of a visit and every   *)
(* bound.  The inductive invariant IInv adds to the type invariant and the *)
(* two invariants on the visit's flags that the totals already committed   *)
(* agree with each other.  Every operation of a session is one of Ledger.  *)
(*                                                                         *)
(* LocalLink: polls, messages and gaps, for every board, every number of   *)
(* darts, changes, messages under way and faults, if HTTP answers do not   *)
(* overtake messages.                                                      *)
(*                                                                         *)
(* What may still be observed is a line of reports, from the one shown to  *)
(* the one the board has now.  Every step of the coordinator shortens this *)
(* line or leaves it alone; a step of the board adds one report to its     *)
(* end.  So what is true of each two or three reports of the line stays    *)
(* true unless the new report breaks it: a dart that is gone does not come *)
(* back (Between), darts only move to earlier places (Down), and fewer     *)
(* darts without a takeout are a withdrawn detection (Stays).              *)
(***************************************************************************)
EXTENDS LocalLink, FiniteSetTheorems, SequenceTheorems, TLAPS

-----------------------------------------------------------------------------
(* The training session.                                                   *)

IInv ==
    /\ TypeOK
    /\ CountingSound
    /\ RemovingQuiet
    /\ Agree(committed)

\* A list of throws is a sequence: its domain is 1..Len.
LEMMA ThrowsAreSequences ==
    ASSUME NEW t \in Throws
    PROVE  /\ t \in Seq(Bed)
           /\ Len(t) \in 0..MaxThrows
           /\ DOMAIN t = 1..Len(t)
           /\ t \in [1..Len(t) -> Bed]
<1>1. PICK n \in 0..MaxThrows : t \in [1..n -> Bed]
  BY DEF Throws
<1>2. n \in Nat
  BY <1>1, BoundAssumption
<1>3. t \in Seq(Bed)
  BY <1>1, <1>2, SeqDef
<1>4. Len(t) = n
  BY <1>1, <1>2, <1>3, LenProperties
<1> QED BY <1>1, <1>2, <1>3, <1>4, BoundAssumption

\* A part of the places of a visit has at most MaxThrows members.
LEMMA PlacesAreFew ==
    ASSUME NEW t \in Throws, NEW S \in SUBSET DOMAIN t
    PROVE  IsFiniteSet(S) /\ Cardinality(S) \in 0..MaxThrows
<1>1. DOMAIN t = 1..Len(t) /\ Len(t) \in 0..MaxThrows
  BY ThrowsAreSequences
<1>2. IsFiniteSet(1..Len(t)) /\ Cardinality(1..Len(t)) = Len(t)
  <2>1. Len(t) \in Nat /\ Len(t) \in Int
    BY <1>1, BoundAssumption
  <2>2. /\ IsFiniteSet(1..Len(t))
        /\ Cardinality(1..Len(t)) = IF 1 > Len(t) THEN 0 ELSE Len(t) - 1 + 1
    BY SMTT(30), <2>1, FS_Interval
  <2> QED BY <2>1, <2>2
<1>3. IsFiniteSet(S) /\ Cardinality(S) <= Len(t)
  BY <1>1, <1>2, FS_Subset
<1>4. Cardinality(S) \in Nat
  BY <1>3, FS_CardinalityType
<1> QED BY <1>1, <1>3, <1>4, BoundAssumption

\* What the counted darts of a visit are: a finite set of places, with a
\* number of hits per bed that Worth can value.
LEMMA CountedType ==
    ASSUME TypeOK
    PROVE  /\ Cardinality(Counted) \in Nat
           /\ Counted # {} => Cardinality(Counted) > 0
           /\ Counted = {} => Cardinality(Counted) = 0
           /\ CountedHits \in [Bed -> 0..MaxThrows]
           /\ Worth(CountedHits) \in Nat
<1>1. active \in Throws /\ Counted \in SUBSET DOMAIN active
  BY DEF TypeOK, Counted
<1>2. IsFiniteSet(Counted) /\ Cardinality(Counted) \in 0..MaxThrows
  BY <1>1, PlacesAreFew
<1>3. Cardinality(Counted) \in Nat /\ (Cardinality(Counted) = 0 <=> Counted = {})
  BY <1>2, FS_EmptySet, FS_CardinalityType
<1>4. ASSUME NEW b \in Bed
      PROVE  Cardinality({i \in Counted : active[i] = b}) \in 0..MaxThrows
  BY <1>1, PlacesAreFew
<1>5. CountedHits \in [Bed -> 0..MaxThrows]
  BY <1>4 DEF CountedHits
<1>6. Worth(CountedHits) \in Nat
  BY <1>5, WorthAssumption
<1> QED BY <1>3, <1>5, <1>6

\* Adding a visit to totals that agree gives totals that agree: a visit is
\* worth at most the highest one, and it has darts exactly if it counts.
LEMMA SnapshotAgrees ==
    ASSUME TypeOK
    PROVE  /\ Snapshot \in Totals
           /\ Agree(committed) => Agree(Snapshot)
<1> DEFINE w == Worth(CountedHits)
           c == Cardinality(Counted)
           v == IF Counted = {} THEN 0 ELSE 1
           h == Greater(committed.highest, w)
<1>1. /\ committed.darts \in Nat /\ committed.points \in Nat
      /\ committed.visits \in Nat /\ committed.highest \in Nat
      /\ committed.hits \in [Bed -> Nat]
  BY DEF TypeOK, Totals
<1>2. /\ c \in Nat /\ w \in Nat /\ v \in 0..1
      /\ CountedHits \in [Bed -> 0..MaxThrows]
      /\ v <= c /\ (c > 0 => v = 1)
  BY CountedType
<1>3. h \in Nat /\ committed.highest <= h /\ w <= h /\ h <= committed.highest + w
  BY <1>1, <1>2 DEF Greater
<1>4. [b \in Bed |-> committed.hits[b] + CountedHits[b]] \in [Bed -> Nat]
  BY <1>1, <1>2, BoundAssumption
<1>5. Snapshot \in Totals
  BY <1>1, <1>2, <1>3, <1>4 DEF Snapshot, Totals
<1>6. ASSUME Agree(committed)
      PROVE  Agree(Snapshot)
  <2>1. /\ committed.visits <= committed.darts
        /\ committed.darts > 0 => committed.visits > 0
        /\ committed.highest <= committed.points
        /\ committed.points <= committed.highest * committed.visits
    BY <1>6 DEF Agree
  <2>2. Counted = {} => w = 0
    <3>1. Counted = {} => CountedHits = Nothing
      BY FS_EmptySet DEF CountedHits, Nothing
    <3> QED BY <3>1, NothingAssumption
  <2>3. committed.points + w <= h * (committed.visits + v)
    <3>1. committed.highest * committed.visits <= h * committed.visits
      BY <1>1, <1>3
    <3>2. h * (committed.visits + v) = h * committed.visits + h * v
      BY <1>1, <1>2, <1>3
    <3>3. w <= h * v
      BY <1>2, <1>3, <2>2
    <3>4. h * committed.visits \in Nat /\ committed.highest * committed.visits \in Nat
          /\ h * v \in Nat
      BY <1>1, <1>2, <1>3
    <3>5. \A p, x, y, u, z \in Nat : p <= x /\ x <= y /\ u <= z => p + u <= y + z
      OBVIOUS
    <3> HIDE DEF w, h, v
    <3>6. committed.points + w <= h * committed.visits + h * v
      BY <1>1, <1>2, <2>1, <3>1, <3>3, <3>4, <3>5
    <3> QED BY <3>2, <3>6
  <2>4. h <= committed.points + w
    BY <1>1, <1>2, <1>3, <2>1
  <2>5. /\ committed.visits + v <= committed.darts + c
        /\ committed.darts + c > 0 => committed.visits + v > 0
    BY <1>1, <1>2, <2>1
  <2> QED BY <2>3, <2>4, <2>5 DEF Agree, Snapshot
<1> QED BY <1>5, <1>6

-----------------------------------------------------------------------------
(* IInv is inductive.                                                      *)

\* The empty visit is a visit.
LEMMA EmptyVisit == <<>> \in Throws /\ DOMAIN <<>> = {}
<1>1. <<>> \in Seq(Bed) /\ Len(<<>>) = 0
  BY EmptySeq
<1>2. <<>> \in [1..0 -> Bed]
  BY <1>1, LenProperties
<1> QED BY <1>2, BoundAssumption DEF Throws

\* Darts at rest are typed, and none of them is announced or counted.
LEMMA RestIsQuiet ==
    ASSUME NEW t \in Throws, Rest(t)
    PROVE  /\ active' = t
           /\ active' \in Throws
           /\ tracked' \in [DOMAIN active' -> BOOLEAN]
           /\ counting' \in [DOMAIN active' -> BOOLEAN]
           /\ \A i \in DOMAIN active' : ~tracked'[i] /\ ~counting'[i]
           /\ Tracked' = {} /\ Counted' = {}
BY DEF Rest, AllFalse, Tracked, Counted

\* Folding the visit keeps the committed totals typed and in agreement.
LEMMA FoldAgrees ==
    ASSUME IInv, committed' \in {committed, Snapshot, ZeroTotals}
    PROVE  committed' \in Totals /\ Agree(committed')
<1>1. committed \in Totals /\ Agree(committed)
  BY DEF IInv, TypeOK
<1>2. Snapshot \in Totals /\ Agree(Snapshot)
  BY SnapshotAgrees DEF IInv
<1>3. ZeroTotals \in Totals /\ Agree(ZeroTotals)
  BY DEF ZeroTotals, Totals, Nothing, Agree
<1> QED BY <1>1, <1>2, <1>3

\* The initial state satisfies the inductive invariant.
LEMMA InitIInv == Init => IInv
<1> SUFFICES ASSUME Init PROVE IInv
  OBVIOUS
<1> USE DEF Init
<1>1. TypeOK
  <2>1. ZeroTotals \in Totals
    BY DEF ZeroTotals, Totals, Nothing
  <2>2. <<>> \in [DOMAIN <<>> -> BOOLEAN]
    BY EmptySeq, LenProperties
  <2> QED BY <2>1, <2>2, EmptyVisit DEF TypeOK
<1>2. CountingSound
  BY EmptyVisit DEF CountingSound
<1>3. RemovingQuiet
  BY DEF RemovingQuiet
<1>4. Agree(committed)
  BY DEF Agree, ZeroTotals
<1> QED BY <1>1, <1>2, <1>3, <1>4 DEF IInv

\* The operations that put the darts at rest.
LEMMA RestIInv ==
    ASSUME IInv, NEW t \in Throws, Rest(t),
           committed' = Snapshot,
           session' = session, autoStart' = autoStart,
           initialized' \in BOOLEAN, removing' \in BOOLEAN,
           removing' => initialized' /\ t # <<>>,
           ~initialized' => t = <<>>
    PROVE  IInv'
<1>1. TypeOK'
  BY RestIsQuiet, FoldAgrees DEF IInv, TypeOK
<1>2. CountingSound'
  BY RestIsQuiet DEF CountingSound
<1>3. RemovingQuiet'
  BY RestIsQuiet DEF RemovingQuiet
<1>4. Agree(committed)'
  BY FoldAgrees DEF Agree
<1> QED BY <1>1, <1>2, <1>3, <1>4 DEF IInv

\* The operations on the session leave the darts and stop counting them.
LEMMA SessionIInv ==
    ASSUME IInv,
           UNCHANGED <<active, tracked, flags, autoStart>>,
           counting' = AllFalse(active),
           session' \in BOOLEAN,
           committed' \in {Snapshot, ZeroTotals}
    PROVE  IInv'
<1>1. TypeOK'
  BY FoldAgrees DEF IInv, TypeOK, AllFalse, flags
<1>2. CountingSound'
  BY DEF CountingSound, AllFalse
<1>3. RemovingQuiet'
  BY DEF IInv, RemovingQuiet, Tracked, flags
<1>4. Agree(committed)'
  BY FoldAgrees DEF Agree
<1> QED BY <1>1, <1>2, <1>3, <1>4 DEF IInv

\* A withdrawn detection: the darts left keep the flags they had.
LEMMA WithdrawIInv ==
    ASSUME IInv, NEW state \in States, Withdraw(state)
    PROVE  IInv'
<1> DEFINE t == state.throws
<1>1. t \in Throws
  BY DEF Withdraw, Live, States
<1>2. PICK m \in FirstMatches(active, t) :
        /\ active' = t
        /\ tracked' = [j \in DOMAIN t |-> tracked[m[j]]]
        /\ counting' = [j \in DOMAIN t |-> counting[m[j]]]
  BY DEF Withdraw
<1>3. \A j \in DOMAIN t : m[j] \in DOMAIN active
  BY <1>2 DEF FirstMatches
<1>4. TypeOK'
  BY <1>1, <1>2, <1>3 DEF IInv, TypeOK, Withdraw, flags
<1>5. CountingSound'
  BY <1>2, <1>3 DEF IInv, CountingSound, Withdraw
<1>6. RemovingQuiet'
  BY <1>2, <1>3 DEF IInv, RemovingQuiet, Withdraw, Live, Withdrawn, Removed, Tracked, flags
<1>7. Agree(committed)'
  BY DEF IInv, Withdraw, Agree
<1> QED BY <1>4, <1>5, <1>6, <1>7 DEF IInv

\* New and corrected darts.
LEMMA TakeDartsIInv ==
    ASSUME IInv, NEW state \in States, TakeDarts(state)
    PROVE  IInv'
<1> DEFINE t      == state.throws
           missed == MissedTakeout(state)
           known  == IF missed THEN 0 ELSE Len(active)
           places == DOMAIN t
           new    == places \ (1..known)
           starts == new # {} /\ ~session /\ autoStart
<1>1. t \in Throws /\ places = 1..Len(t) /\ Len(t) \in Nat
  <2>1. Live(state)
    BY DEF TakeDarts
  <2>2. t \in Throws
    BY <2>1 DEF Live, States
  <2> QED BY <2>2, ThrowsAreSequences, BoundAssumption
<1>2. active \in Throws /\ DOMAIN active = 1..Len(active) /\ Len(active) \in Nat
  BY ThrowsAreSequences, BoundAssumption DEF IInv, TypeOK
<1>3. /\ session' = (session \/ starts)
      /\ active' = t
      /\ tracked' = [i \in places |-> i \in new \/ tracked[i]]
      /\ counting' = [i \in places |->
                        IF i \in new THEN session' ELSE counting[i] /\ ~starts]
      /\ committed' \in {committed, Snapshot, ZeroTotals}
      /\ removing' = FALSE
      /\ initialized /\ initialized' = initialized
      /\ autoStart' = autoStart
  BY DEF TakeDarts, Live
<1>4. \A i \in places \ new : i \in DOMAIN active
  BY <1>1, <1>2
<1>5. session' \in BOOLEAN
  BY <1>3 DEF IInv, TypeOK
<1>6. TypeOK'
  <2>1. tracked' \in [DOMAIN active' -> BOOLEAN]
    BY <1>3, <1>4 DEF IInv, TypeOK
  <2>2. counting' \in [DOMAIN active' -> BOOLEAN]
    BY <1>3, <1>4, <1>5 DEF IInv, TypeOK
  <2> QED BY <1>1, <1>3, <1>5, <2>1, <2>2, FoldAgrees DEF IInv, TypeOK
<1>7. CountingSound'
  BY <1>3, <1>4 DEF IInv, CountingSound
<1>8. RemovingQuiet'
  BY <1>3 DEF RemovingQuiet
<1>9. Agree(committed)'
  BY <1>3, FoldAgrees DEF Agree
<1> QED BY <1>6, <1>7, <1>8, <1>9 DEF IInv

\* So does a step that leaves every variable alone.
LEMMA StutterIInv ==
    ASSUME IInv, UNCHANGED <<board, flags, session, autoStart, committed>>
    PROVE  IInv'
BY DEF IInv, TypeOK, CountingSound, RemovingQuiet, Agree, Tracked, board, flags, Totals

\* An operation of the session, without the bound on its darts.
Operates ==
    \/ \E state \in States : Observe(state)
    \/ Forget \/ Start \/ End \/ NewSession \/ SetAutoStart \/ Restart

\* The inductive invariant is kept by every operation of the session.
LEMMA OperationIInv ==
    ASSUME IInv, Operates \/ UNCHANGED vars
    PROVE  IInv'
<1>1. ASSUME NEW state \in States, Observe(state)
      PROVE  IInv'
  <2>0. state.throws # NoSegments => state.throws \in Throws
    BY DEF States
  <2>1. CASE Ignore(state)
    BY <2>1, StutterIInv DEF Ignore
  <2>2. CASE Baseline(state)
    BY <2>0, <2>2, RestIInv DEF Baseline, Commit
  <2>3. CASE RemoveDarts(state)
    BY <2>0, <2>3, RestIInv DEF RemoveDarts, Commit, Live
  <2>4. CASE Withdraw(state)
    BY <2>4, WithdrawIInv
  <2>5. CASE StillRemoving(state)
    <3>1. state.throws \in Throws /\ active \in Throws
      BY <2>0, <2>5 DEF StillRemoving, Live, IInv, TypeOK
    <3>2. state.throws # <<>>
      BY <2>5, <3>1, ThrowsAreSequences, EmptySeq
         DEF StillRemoving, IInv, RemovingQuiet
    <3>3. TypeOK' /\ CountingSound' /\ RemovingQuiet'
      BY <2>5, <3>1, <3>2, RestIsQuiet
         DEF StillRemoving, Live, IInv, TypeOK, CountingSound, RemovingQuiet, flags
    <3>4. Agree(committed)'
      BY <2>5 DEF StillRemoving, IInv, Agree
    <3> QED BY <3>3, <3>4 DEF IInv
  <2>6. CASE TakeDarts(state)
    BY <2>6, TakeDartsIInv
  <2> QED BY <1>1, <2>1, <2>2, <2>3, <2>4, <2>5, <2>6 DEF Observe
<1>2. CASE Forget
  BY <1>2, EmptyVisit, RestIInv DEF Forget, Commit
<1>3. CASE Start
  BY <1>3, SessionIInv DEF Start
<1>4. CASE End
  BY <1>4, SessionIInv DEF End
<1>5. CASE NewSession
  BY <1>5, SessionIInv DEF NewSession
<1>6. CASE SetAutoStart
  BY <1>6 DEF SetAutoStart, IInv, TypeOK, CountingSound, RemovingQuiet, Agree,
              Tracked, board, flags
<1>7. CASE Restart
  BY <1>7, EmptyVisit, RestIInv DEF Restart
<1>8. CASE UNCHANGED vars
  BY <1>8, StutterIInv DEF vars, board, flags
<1> QED BY <1>1, <1>2, <1>3, <1>4, <1>5, <1>6, <1>7, <1>8 DEF Operates

\* A step is an operation, or changes nothing.
LEMMA StepOperates == [Next]_vars => Operates \/ UNCHANGED vars
BY DEF Next, Operates

\* So is it by every step.
THEOREM StepIInv == IInv /\ [Next]_vars => IInv'
BY OperationIInv, StepOperates

\* The state of a session is always typed (training.py, TrainingSession).
THEOREM TypeCorrect == Spec => []TypeOK
<1>1. IInv => TypeOK
  BY DEF IInv
<1> QED BY <1>1, InitIInv, StepIInv, PTL DEF Spec

\* Only announced darts of the running session count, and darts that are
\* being removed are neither announced nor counted.
THEOREM FlagsSound == Spec => [](CountingSound /\ RemovingQuiet)
<1>1. IInv => CountingSound /\ RemovingQuiet
  BY DEF IInv
<1> QED BY <1>1, InitIInv, StepIInv, PTL DEF Spec

\* The counters of a session tell the same story whatever the beds are worth.
THEOREM CountersSound == Spec => []CountersAgree
<1>1. IInv => CountersAgree
  BY SnapshotAgrees DEF IInv, CountersAgree
<1> QED BY <1>1, InitIInv, StepIInv, PTL DEF Spec

-----------------------------------------------------------------------------
(* What ends or interrupts a visit keeps the totals.                       *)

\* Folding a visit whose darts no longer count leaves the totals shown.
LEMMA FoldKeepsScore ==
    ASSUME TypeOK, committed' = Snapshot, Counted' = {}
    PROVE  Snapshot' = Snapshot
<1>1. Snapshot \in Totals
  BY SnapshotAgrees
<1>2. CountedHits' = Nothing /\ Cardinality(Counted') = 0
  BY FS_EmptySet DEF CountedHits, Nothing
<1>3. Snapshot' = [darts   |-> Snapshot.darts + 0,
                   points  |-> Snapshot.points + 0,
                   visits  |-> Snapshot.visits + 0,
                   highest |-> Greater(Snapshot.highest, 0),
                   hits    |-> [b \in Bed |-> Snapshot.hits[b] + Nothing[b]]]
  <2>1. Snapshot' =
          [darts   |-> committed'.darts + Cardinality(Counted'),
           points  |-> committed'.points + Worth(CountedHits'),
           visits  |-> committed'.visits + (IF Counted' = {} THEN 0 ELSE 1),
           highest |-> Greater(committed'.highest, Worth(CountedHits')),
           hits    |-> [b \in Bed |-> committed'.hits[b] + CountedHits'[b]]]
    BY DEF Snapshot
  <2> HIDE DEF Snapshot
  <2> QED BY <1>2, <2>1, NothingAssumption
<1>4. /\ Greater(Snapshot.highest, 0) = Snapshot.highest
      /\ [b \in Bed |-> Snapshot.hits[b] + Nothing[b]] = Snapshot.hits
  BY <1>1 DEF Totals, Greater, Nothing
<1> QED BY <1>1, <1>3, <1>4 DEF Totals

Names == {"visit_completed", "dart_corrected", "session_started", "dart_detected"}
Kinds == [kind : Names, n : Nat]
Has(s, e) == \E i \in DOMAIN s : s[i].kind = e

\* Event makes an event of its kind.
LEMMA EventTyped ==
    ASSUME NEW e \in Names, NEW m \in Nat
    PROVE  Event(e, m) \in Kinds /\ Event(e, m).kind = e
BY DEF Event, Kinds

\* One event is a list of events.
LEMMA OneEvent ==
    ASSUME NEW e \in Kinds
    PROVE  <<e>> \in Seq(Kinds)
OBVIOUS

\* A function from the places 1 to n is a list of events.
LEMMA EventList ==
    ASSUME NEW n \in Nat, NEW f \in [1..n -> Kinds]
    PROVE  f \in Seq(Kinds)
BY SeqDef

\* An element of either part is an element of the concatenation.
LEMMA ConcatHas ==
    ASSUME NEW s \in Seq(Kinds), NEW t \in Seq(Kinds), NEW e,
           Has(s, e) \/ Has(t, e)
    PROVE  Has(s \o t, e)
<1>1. /\ s \o t \in Seq(Kinds) /\ Len(s \o t) = Len(s) + Len(t)
      /\ \A i \in 1 .. Len(s) + Len(t) :
           (s \o t)[i] = IF i <= Len(s) THEN s[i] ELSE t[i - Len(s)]
  BY ConcatProperties
<1>2. /\ DOMAIN s = 1..Len(s) /\ Len(s) \in Nat
      /\ DOMAIN t = 1..Len(t) /\ Len(t) \in Nat
      /\ DOMAIN (s \o t) = 1..(Len(s) + Len(t))
  BY <1>1, LenProperties
<1>3. CASE Has(s, e)
  <2>1. PICK i \in DOMAIN s : s[i].kind = e
    BY <1>3 DEF Has
  <2>2. i \in 1..(Len(s) + Len(t)) /\ i <= Len(s)
    BY <1>2, <2>1
  <2> QED BY <1>1, <1>2, <2>1, <2>2 DEF Has
<1>4. CASE Has(t, e)
  <2>1. PICK i \in DOMAIN t : t[i].kind = e
    BY <1>4 DEF Has
  <2>2. /\ Len(s) + i \in 1..(Len(s) + Len(t))
        /\ ~(Len(s) + i <= Len(s)) /\ (Len(s) + i) - Len(s) = i
    BY <1>2, <2>1
  <2>3. (s \o t)[Len(s) + i] = t[i]
    BY <1>1, <2>2
  <2> QED BY <1>2, <2>1, <2>2, <2>3 DEF Has
<1> QED BY <1>3, <1>4

\* Without an announced dart, the dart loop leaves the totals shown.
LEMMA TakeDartsKeepsScore ==
    ASSUME IInv, NEW state \in States, TakeDarts(state)
    PROVE  \/ Snapshot' = Snapshot
           \/ Says("dart_detected")'
           \/ Says("dart_corrected")'
<1> DEFINE t         == state.throws
           missed    == MissedTakeout(state)
           known     == IF missed THEN 0 ELSE Len(active)
           places    == DOMAIN t
           corrected == {i \in 1..known : t[i] # active[i]}
           new       == places \ (1..known)
           starts    == new # {} /\ ~session /\ autoStart
<1>1. t \in Throws /\ places = 1..Len(t) /\ Len(t) \in Nat /\ t \in Seq(Bed)
  <2>1. Live(state)
    BY DEF TakeDarts
  <2>2. t \in Throws
    BY <2>1 DEF Live, States
  <2> QED BY <2>2, ThrowsAreSequences, BoundAssumption
<1>2. /\ DOMAIN active = 1..Len(active) /\ Len(active) \in Nat
      /\ active \in Seq(Bed)
  BY ThrowsAreSequences, BoundAssumption DEF IInv, TypeOK
<1>3. known \in Nat /\ known <= Len(t)
  <2>1. CASE missed
    BY <1>1, <2>1
  <2>2. CASE ~missed
    <3>1. ~Fewer(state)
      BY <2>2 DEF TakeDarts
    <3> QED BY <1>1, <1>2, <2>2, <3>1 DEF Fewer
  <2> QED BY <2>1, <2>2
<1>4. PICK order \in Orders(corrected) :
        events' = (IF missed THEN VisitEvents ELSE <<>>)
                  \o [i \in DOMAIN order |-> Event("dart_corrected", order[i])]
                  \o (IF starts THEN <<Event("session_started", 0)>> ELSE <<>>)
                  \o [i \in 1..(Len(t) - known) |-> Event("dart_detected", known + i)]
  BY DEF TakeDarts
<1>5. IsFiniteSet(corrected) /\ Cardinality(corrected) \in Nat
  <2>1. corrected \subseteq 1..known /\ IsFiniteSet(1..known)
    BY <1>3, FS_Interval
  <2> QED BY <2>1, FS_Subset, FS_CardinalityType
<1>6. order \in [1..Cardinality(corrected) -> corrected]
  BY <1>4 DEF Orders
<1> DEFINE completed   == IF missed THEN VisitEvents ELSE <<>>
           corrections == [i \in DOMAIN order |-> Event("dart_corrected", order[i])]
           started     == IF starts THEN <<Event("session_started", 0)>> ELSE <<>>
           detections  == [i \in 1..(Len(t) - known) |-> Event("dart_detected", known + i)]
<1>7. completed \in Seq(Kinds)
  <2>1. Tracked \in SUBSET DOMAIN active /\ active \in Throws
    BY DEF Tracked, IInv, TypeOK
  <2>2. Cardinality(Tracked) \in Nat
    BY <2>1, PlacesAreFew, BoundAssumption
  <2>3. Event("visit_completed", Cardinality(Tracked)) \in Kinds
    BY <2>2, EventTyped DEF Names
  <2>4. <<Event("visit_completed", Cardinality(Tracked))>> \in Seq(Kinds)
    BY <2>3, OneEvent
  <2> QED BY <2>4, EmptySeq DEF VisitEvents
<1>8. corrections \in Seq(Kinds)
  <2>1. \A i \in DOMAIN order : order[i] \in Nat
    BY <1>3, <1>6
  <2>2. \A i \in DOMAIN order : Event("dart_corrected", order[i]) \in Kinds
    BY <2>1, EventTyped DEF Names
  <2>3. corrections \in [1..Cardinality(corrected) -> Kinds]
    BY <1>6, <2>2
  <2> HIDE DEF corrections
  <2> QED BY <1>5, <2>3, EventList
<1>9. started \in Seq(Kinds)
  <2>1. Event("session_started", 0) \in Kinds
    BY EventTyped DEF Names
  <2>2. <<Event("session_started", 0)>> \in Seq(Kinds)
    BY <2>1, OneEvent
  <2> QED BY <2>2, EmptySeq
<1>10. detections \in Seq(Kinds)
  <2>1. Len(t) - known \in Nat
    BY <1>1, <1>3
  <2>2. \A i \in 1..(Len(t) - known) : known + i \in Nat
    BY <1>3, <2>1
  <2>3. \A i \in 1..(Len(t) - known) : Event("dart_detected", known + i) \in Kinds
    BY <2>2, EventTyped DEF Names
  <2>4. detections \in [1..(Len(t) - known) -> Kinds]
    BY <2>3
  <2> HIDE DEF detections
  <2> QED BY <2>1, <2>4, EventList
<1>11. /\ completed \o corrections \in Seq(Kinds)
       /\ (completed \o corrections) \o started \in Seq(Kinds)
  BY <1>7, <1>8, <1>9, ConcatProperties
<1>12. events' = ((completed \o corrections) \o started) \o detections
  BY <1>4
<1>13. CASE new # {}
  <2>1. Len(t) - known \in Nat /\ 1 \in 1..(Len(t) - known)
    BY <1>1, <1>3, <1>13
  <2>2. Event("dart_detected", known + 1).kind = "dart_detected"
    BY <1>3, EventTyped DEF Names
  <2>3. Has(detections, "dart_detected")
    BY <2>1, <2>2 DEF Has
  <2> HIDE DEF detections, started, corrections, completed
  <2>4. Has(events', "dart_detected")
    BY <1>10, <1>11, <1>12, <2>3, ConcatHas
  <2> QED BY <2>4 DEF Says, Has
<1>14. CASE corrected # {}
  <2>1. Cardinality(corrected) # 0
    BY <1>5, <1>14, FS_EmptySet
  <2>2. 1 \in DOMAIN order /\ order[1] \in Nat
    BY <1>3, <1>5, <1>6, <2>1
  <2>3. Event("dart_corrected", order[1]).kind = "dart_corrected"
    BY <2>2, EventTyped DEF Names
  <2>4. Has(corrections, "dart_corrected")
    BY <2>2, <2>3 DEF Has
  <2> HIDE DEF detections, started, corrections, completed
  <2>5. Has(completed \o corrections, "dart_corrected")
    BY <1>7, <1>8, <2>4, ConcatHas
  <2>6. Has((completed \o corrections) \o started, "dart_corrected")
    BY <1>9, <1>11, <2>5, ConcatHas
  <2>7. Has(events', "dart_corrected")
    BY <1>10, <1>11, <1>12, <2>6, ConcatHas
  <2> QED BY <2>7 DEF Says, Has
<1>15. CASE new = {} /\ corrected = {}
  <2>1. ~missed
    <3>1. missed => t # <<>>
      BY DEF MissedTakeout, Removed
    <3>2. t # <<>> => Len(t) # 0
      BY <1>1, EmptySeq
    <3> QED BY <1>1, <1>15, <3>1, <3>2
  <2>2. Len(t) = Len(active)
    BY <1>1, <1>2, <1>3, <1>15, <2>1
  <2>3. \A i \in 1..Len(active) : t[i] = active[i]
    BY <1>15, <2>1
  <2>4. t = active
    BY <1>1, <1>2, <2>2, <2>3, SeqEqual
  <2>5. ~starts
    BY <1>15
  <2>6. /\ active' = t
        /\ counting' = [i \in places |->
                          IF i \in new THEN session' ELSE counting[i] /\ ~starts]
        /\ committed' = IF starts THEN ZeroTotals
                        ELSE IF missed THEN Snapshot ELSE committed
    BY DEF TakeDarts
  <2>7. active' = active /\ committed' = committed
    BY <2>1, <2>4, <2>5, <2>6
  <2>8. counting' = counting
    BY <1>15, <2>4, <2>5, <2>6 DEF IInv, TypeOK
  <2> QED BY <2>7, <2>8 DEF Snapshot, Counted, CountedHits
<1> QED BY <1>13, <1>14, <1>15

\* Of two events put together, the second one is at the second place.
LEMMA SecondOfTwo ==
    ASSUME NEW a, NEW b
    PROVE  2 \in DOMAIN (<<a>> \o <<b>>) /\ (<<a>> \o <<b>>)[2] = b
<1>1. <<a>> \in Seq({a, b}) /\ Len(<<a>>) = 1 /\ <<b>> \in Seq({a, b}) /\ Len(<<b>>) = 1
  OBVIOUS
<1>2. /\ Len(<<a>> \o <<b>>) = 2
      /\ (<<a>> \o <<b>>)[2] = <<b>>[1]
      /\ <<a>> \o <<b>> \in Seq({a, b})
  BY <1>1, ConcatProperties
<1> QED BY <1>2, LenProperties

\* Every step keeps the score, or says why it does not.
LEMMA StepKeepsScore ==
    ASSUME IInv, [Next]_vars
    PROVE  \/ Snapshot' = Snapshot
           \/ Says("dart_detected")' \/ Says("dart_corrected")'
           \/ Says("session_started")'
           \/ 0 < Len(active') /\ Len(active') < Len(active) /\ initialized' /\ ~removing'
<1>0. TypeOK
  BY DEF IInv
<1>1. ASSUME NEW state \in States, Observe(state)
      PROVE  \/ Snapshot' = Snapshot
             \/ Says("dart_detected")' \/ Says("dart_corrected")'
             \/ 0 < Len(active') /\ Len(active') < Len(active)
                /\ initialized' /\ ~removing'
  <2>0. state.throws # NoSegments => state.throws \in Throws
    BY DEF States
  <2>1. CASE Ignore(state)
    BY <2>1 DEF Ignore, board, Snapshot, Counted, CountedHits
  <2>2. CASE Baseline(state)
    <3>1. committed' = Snapshot /\ Counted' = {}
      BY <2>0, <2>2, RestIsQuiet DEF Baseline, Commit
    <3> QED BY <1>0, <3>1, FoldKeepsScore
  <2>3. CASE RemoveDarts(state)
    <3>1. committed' = Snapshot /\ Counted' = {}
      BY <2>0, <2>3, RestIsQuiet DEF RemoveDarts, Commit, Live
    <3> QED BY <1>0, <3>1, FoldKeepsScore
  <2>4. CASE Withdraw(state)
    <3>1. state.throws \in Throws /\ state.throws # <<>>
      BY <2>0, <2>4 DEF Withdraw, Live, Withdrawn, Removed
    <3>2. 0 < Len(state.throws)
      BY <3>1, ThrowsAreSequences, EmptySeq
    <3>3. removing => Takeout(state) \/ Tracked = {}
      BY DEF IInv, RemovingQuiet
    <3>4. CASE ~removing
      BY <2>4, <3>2, <3>4 DEF Withdraw, Live, Withdrawn, Fewer, flags
    <3>5. CASE removing
      <4>1. \A i \in DOMAIN active : ~counting[i]
        BY <3>5 DEF IInv, CountingSound, RemovingQuiet, Tracked
      <4>2. PICK m \in FirstMatches(active, state.throws) :
              /\ active' = state.throws
              /\ counting' = [j \in DOMAIN state.throws |-> counting[m[j]]]
        BY <2>4 DEF Withdraw
      <4>3. \A j \in DOMAIN state.throws : m[j] \in DOMAIN active
        BY <4>2 DEF FirstMatches
      <4>4. Counted = {} /\ Counted' = {} /\ committed' = committed
        BY <2>4, <4>1, <4>2, <4>3 DEF Counted, Withdraw
      <4>5. CountedHits = CountedHits' /\ Cardinality(Counted) = Cardinality(Counted')
        BY <4>4, FS_EmptySet DEF CountedHits
      <4> QED BY <4>4, <4>5 DEF Snapshot
    <3> QED BY <3>4, <3>5 DEF IInv, TypeOK
  <2>5. CASE StillRemoving(state)
    <3>1. \A i \in DOMAIN active : ~counting[i]
      BY <2>5 DEF StillRemoving, IInv, CountingSound, RemovingQuiet, Tracked
    <3>2. Counted = {} /\ Counted' = {} /\ committed' = committed
      BY <2>0, <2>5, <3>1, RestIsQuiet DEF StillRemoving, Live, Counted
    <3>3. CountedHits = CountedHits' /\ Cardinality(Counted) = Cardinality(Counted')
      BY <3>2, FS_EmptySet DEF CountedHits
    <3> QED BY <3>2, <3>3 DEF Snapshot
  <2>6. CASE TakeDarts(state)
    BY <2>6, TakeDartsKeepsScore
  <2> QED BY <1>1, <2>1, <2>2, <2>3, <2>4, <2>5, <2>6 DEF Observe
<1>2. CASE Forget
  <2>1. committed' = Snapshot /\ Counted' = {}
    BY <1>2, EmptyVisit, RestIsQuiet DEF Forget, Commit
  <2> QED BY <1>0, <2>1, FoldKeepsScore
<1>3. CASE Start
  <2>1. Event("session_started", 0).kind = "session_started"
    BY DEF Event
  <2>2. 1 \in DOMAIN events' /\ events'[1] = Event("session_started", 0)
    BY <1>3 DEF Start
  <2> QED BY <2>1, <2>2 DEF Says
<1>4. CASE End
  <2>1. committed' = Snapshot /\ Counted' = {}
    BY <1>4 DEF End, AllFalse, Counted
  <2> QED BY <1>0, <2>1, FoldKeepsScore
<1>5. CASE NewSession
  <2>1. \E i \in DOMAIN events' : events'[i] = Event("session_started", 0)
    <3>1. CASE session
      <4>1. events' = <<Event("session_ended", Snapshot.darts)>>
                      \o <<Event("session_started", 0)>>
        BY <1>5, <3>1 DEF NewSession
      <4> HIDE DEF Snapshot
      <4> QED BY <4>1, SecondOfTwo
    <3>2. CASE ~session
      <4>1. events' = <<>> \o <<Event("session_started", 0)>>
        BY <1>5, <3>2 DEF NewSession
      <4>2. events' = <<Event("session_started", 0)>>
        BY <4>1
      <4> QED BY <4>2
    <3> QED BY <3>1, <3>2 DEF IInv, TypeOK
  <2> QED BY <2>1 DEF Says, Event
<1>6. CASE SetAutoStart
  BY <1>6 DEF SetAutoStart, board, Snapshot, Counted, CountedHits
<1>7. CASE Restart
  <2>1. committed' = Snapshot /\ Counted' = {}
    BY <1>7, EmptyVisit, RestIsQuiet DEF Restart
  <2> QED BY <1>0, <2>1, FoldKeepsScore
<1>8. CASE UNCHANGED vars
  BY <1>8 DEF vars, Snapshot, Counted, CountedHits
<1> QED BY <1>1, <1>2, <1>3, <1>4, <1>5, <1>6, <1>7, <1>8 DEF Next

\* Takeouts, missed takeouts, stops of the detection, gaps, restarts and the
\* end of a session keep the totals shown (training.py, _fold and _commit).
THEOREM ScoreKept == Spec => ScoreIsKept
<1>1. IInv /\ [Next]_vars =>
        [ \/ Snapshot' = Snapshot
          \/ Says("dart_detected")' \/ Says("dart_corrected")'
          \/ Says("session_started")'
          \/ 0 < Len(active') /\ Len(active') < Len(active) /\ initialized' /\ ~removing'
        ]_vars
  BY StepKeepsScore
<1> QED BY <1>1, InitIInv, StepIInv, PTL DEF Spec, ScoreIsKept
-----------------------------------------------------------------------------
(* What the events of an operation say.                                    *)

\* A list with one more part at its end: the first part stays where it is.
LEMMA Joined ==
    ASSUME NEW S, NEW s \in Seq(S), NEW t \in Seq(S)
    PROVE  /\ s \o t \in Seq(S) /\ Len(s) \in Nat /\ Len(t) \in Nat
           /\ Len(s \o t) = Len(s) + Len(t)
           /\ DOMAIN (s \o t) = 1..(Len(s) + Len(t))
           /\ \A i \in 1..Len(s) : (s \o t)[i] = s[i]
           /\ \A i \in 1..Len(t) : (s \o t)[Len(s) + i] = t[i]
<1>1. /\ s \o t \in Seq(S) /\ Len(s \o t) = Len(s) + Len(t)
      /\ \A i \in 1..(Len(s) + Len(t)) :
           (s \o t)[i] = IF i <= Len(s) THEN s[i] ELSE t[i - Len(s)]
  BY ConcatProperties
<1>2. Len(s) \in Nat /\ Len(t) \in Nat /\ DOMAIN (s \o t) = 1..(Len(s) + Len(t))
  BY <1>1, LenProperties
<1>3. ASSUME NEW i \in 1..Len(s)
      PROVE  (s \o t)[i] = s[i]
  <2>1. i \in 1..(Len(s) + Len(t)) /\ i <= Len(s)
    BY <1>2
  <2> QED BY <1>1, <2>1
<1>4. ASSUME NEW i \in 1..Len(t)
      PROVE  (s \o t)[Len(s) + i] = t[i]
  <2>1. /\ Len(s) + i \in 1..(Len(s) + Len(t)) /\ ~(Len(s) + i <= Len(s))
        /\ (Len(s) + i) - Len(s) = i
    BY <1>2
  <2> QED BY <1>1, <2>1
<1> QED BY <1>1, <1>2, <1>3, <1>4

\* The places of a visit's darts that the dart loop takes for known ones.
Known(state) == IF MissedTakeout(state) THEN 0 ELSE Len(active)

\* The known darts are not more than the reported ones.
LEMMA KnownAreFewer ==
    ASSUME active \in Throws, NEW state, state.throws \in Throws, TakeDarts(state)
    PROVE  /\ Known(state) \in Nat /\ Known(state) <= Len(state.throws)
           /\ Len(state.throws) - Known(state) \in Nat
           /\ Len(state.throws) \in Nat /\ DOMAIN state.throws = 1..Len(state.throws)
           /\ Len(active) \in Nat /\ DOMAIN active = 1..Len(active)
           /\ MissedTakeout(state) => Len(state.throws) > 0
<1>1. /\ Len(state.throws) \in Nat /\ DOMAIN state.throws = 1..Len(state.throws)
      /\ state.throws \in Seq(Bed)
      /\ Len(active) \in Nat /\ DOMAIN active = 1..Len(active)
  BY ThrowsAreSequences, BoundAssumption
<1>2. ~MissedTakeout(state) => ~Fewer(state)
  BY DEF TakeDarts
<1>3. MissedTakeout(state) => Len(state.throws) > 0
  BY <1>1, EmptySeq DEF MissedTakeout, Removed
<1>4. CASE MissedTakeout(state)
  BY <1>1, <1>3, <1>4 DEF Known
<1>5. CASE ~MissedTakeout(state)
  BY <1>1, <1>2, <1>5 DEF Known, Fewer
<1> QED BY <1>1, <1>3, <1>4, <1>5

\* The dart loop announces the missed visit, the corrections and a session
\* start, and then each new dart once, in its order.
LEMMA TakeDartsEvents ==
    ASSUME active \in Throws, NEW state, state.throws \in Throws, TakeDarts(state)
    PROVE  \E k \in Nat :
              /\ events' \in Seq(Kinds)
              /\ DOMAIN events' = 1..(k + (Len(state.throws) - Known(state)))
              /\ \A i \in 1..k : events'[i].kind # "dart_detected"
              /\ \A i \in 1..(Len(state.throws) - Known(state)) :
                    events'[k + i] = Event("dart_detected", Known(state) + i)
              /\ (\E i \in DOMAIN events' : events'[i].kind = "session_started")
                 <=> Known(state) < Len(state.throws) /\ ~session /\ autoStart
              /\ MissedTakeout(state) /\ Tracked # {} =>
                    \E i \in DOMAIN events' :
                       events'[i] = Event("visit_completed", Cardinality(Tracked))
<1> DEFINE t         == state.throws
           missed    == MissedTakeout(state)
           known     == Known(state)
           places    == DOMAIN t
           corrected == {i \in 1..known : t[i] # active[i]}
           new       == places \ (1..known)
           starts    == new # {} /\ ~session /\ autoStart
<1>1. /\ known \in Nat /\ known <= Len(t) /\ Len(t) - known \in Nat
      /\ Len(t) \in Nat /\ places = 1..Len(t)
  BY KnownAreFewer
<1>2. PICK order \in Orders(corrected) :
        events' = (IF missed THEN VisitEvents ELSE <<>>)
                  \o [i \in DOMAIN order |-> Event("dart_corrected", order[i])]
                  \o (IF starts THEN <<Event("session_started", 0)>> ELSE <<>>)
                  \o [i \in 1..(Len(t) - known) |-> Event("dart_detected", known + i)]
  BY DEF TakeDarts, Known
<1>3. IsFiniteSet(corrected) /\ Cardinality(corrected) \in Nat
  <2>1. corrected \subseteq 1..known /\ IsFiniteSet(1..known)
    BY <1>1, FS_Interval
  <2> QED BY <2>1, FS_Subset, FS_CardinalityType
<1>4. order \in [1..Cardinality(corrected) -> corrected]
  BY <1>2 DEF Orders
<1> DEFINE completed   == IF missed THEN VisitEvents ELSE <<>>
           corrections == [i \in DOMAIN order |-> Event("dart_corrected", order[i])]
           started     == IF starts THEN <<Event("session_started", 0)>> ELSE <<>>
           detections  == [i \in 1..(Len(t) - known) |-> Event("dart_detected", known + i)]
<1>5. /\ completed \in Seq(Kinds)
      /\ \A i \in 1..Len(completed) : completed[i].kind = "visit_completed"
      /\ missed /\ Tracked # {} =>
           1 \in 1..Len(completed) /\ completed[1] = Event("visit_completed", Cardinality(Tracked))
  <2>1. Cardinality(Tracked) \in Nat
    <3>1. Tracked \in SUBSET DOMAIN active
      BY DEF Tracked
    <3> QED BY <3>1, PlacesAreFew, BoundAssumption
  <2>2. /\ Event("visit_completed", Cardinality(Tracked)) \in Kinds
        /\ Event("visit_completed", Cardinality(Tracked)).kind = "visit_completed"
    BY <2>1, EventTyped DEF Names
  <2> DEFINE e == Event("visit_completed", Cardinality(Tracked))
  <2>3. completed = IF missed /\ Tracked # {} THEN <<e>> ELSE <<>>
    BY DEF VisitEvents
  <2> HIDE DEF e, completed, missed
  <2>4. CASE missed /\ Tracked # {}
    <3>1. completed = <<e>>
      BY <2>3, <2>4
    <3>2. <<e>> \in Seq(Kinds) /\ Len(<<e>>) = 1 /\ <<e>>[1] = e
      BY <2>2 DEF e
    <3> QED BY <2>2, <3>1, <3>2 DEF e
  <2>5. CASE ~(missed /\ Tracked # {})
    BY <2>3, <2>5, EmptySeq
  <2> QED BY <2>4, <2>5
<1>6. /\ corrections \in Seq(Kinds)
      /\ \A i \in 1..Len(corrections) : corrections[i].kind = "dart_corrected"
  <2>1. \A i \in DOMAIN order : order[i] \in Nat
    BY <1>1, <1>4
  <2>2. \A i \in DOMAIN order : /\ Event("dart_corrected", order[i]) \in Kinds
                                /\ Event("dart_corrected", order[i]).kind = "dart_corrected"
    BY <2>1, EventTyped DEF Names
  <2>3. corrections \in [1..Cardinality(corrected) -> Kinds]
    BY <1>4, <2>2
  <2>4. \A i \in DOMAIN corrections : corrections[i].kind = "dart_corrected"
    BY <2>2
  <2> HIDE DEF corrections
  <2>5. corrections \in Seq(Kinds)
    BY <1>3, <2>3, EventList
  <2>6. DOMAIN corrections = 1..Len(corrections)
    BY <2>5, LenProperties
  <2> QED BY <2>4, <2>5, <2>6
<1>7. /\ started \in Seq(Kinds)
      /\ \A i \in 1..Len(started) : started[i].kind = "session_started"
      /\ IF starts THEN 1 \in 1..Len(started) ELSE Len(started) = 0
  <2> DEFINE e == Event("session_started", 0)
  <2>1. e \in Kinds /\ e.kind = "session_started"
    BY EventTyped DEF Names
  <2> HIDE DEF e
  <2>2. started = IF starts THEN <<e>> ELSE <<>>
    BY DEF e
  <2> HIDE DEF started, starts
  <2>3. CASE starts
    <3>1. started = <<e>>
      BY <2>2, <2>3
    <3>2. <<e>> \in Seq(Kinds) /\ Len(<<e>>) = 1 /\ <<e>>[1] = e
      BY <2>1
    <3> QED BY <2>1, <2>3, <3>1, <3>2
  <2>4. CASE ~starts
    BY <2>2, <2>4, EmptySeq
  <2> QED BY <2>3, <2>4
<1>8. /\ detections \in Seq(Kinds) /\ Len(detections) = Len(t) - known
      /\ \A i \in 1..(Len(t) - known) : detections[i].kind = "dart_detected"
  <2>1. \A i \in 1..(Len(t) - known) : known + i \in Nat
    BY <1>1
  <2>2. \A i \in 1..(Len(t) - known) : /\ Event("dart_detected", known + i) \in Kinds
                                       /\ Event("dart_detected", known + i).kind = "dart_detected"
    BY <2>1, EventTyped DEF Names
  <2>3. detections \in [1..(Len(t) - known) -> Kinds]
    BY <2>2
  <2>4. \A i \in 1..(Len(t) - known) : detections[i].kind = "dart_detected"
    BY <2>2
  <2> HIDE DEF detections
  <2>5. detections \in Seq(Kinds)
    BY <1>1, <2>3, EventList
  <2>6. Len(detections) = Len(t) - known
    BY <1>1, <2>3, <2>5, LenProperties
  <2> QED BY <2>4, <2>5, <2>6
<1>9. \A i \in 1..(Len(t) - known) : detections[i] = Event("dart_detected", known + i)
  OBVIOUS
<1>10. events' = ((completed \o corrections) \o started) \o detections
  BY <1>2
<1>11. starts <=> known < Len(t) /\ ~session /\ autoStart
  <2> HIDE DEF known
  <2>1. new # {} => known < Len(t)
    BY <1>1
  <2>2. known < Len(t) => known + 1 \in new
    BY <1>1
  <2> QED BY <2>1, <2>2
<1> DEFINE one == completed \o corrections
           two == one \o started
           k   == Len(two)
<1> HIDE DEF detections, started, corrections, completed, known, starts
<1>12. /\ one \in Seq(Kinds) /\ Len(completed) \in Nat /\ Len(corrections) \in Nat
       /\ Len(one) = Len(completed) + Len(corrections)
       /\ \A i \in 1..Len(completed) : one[i] = completed[i]
       /\ \A i \in 1..Len(corrections) : one[Len(completed) + i] = corrections[i]
  BY <1>5, <1>6, Joined
<1> HIDE DEF one
<1>13. /\ two \in Seq(Kinds) /\ Len(one) \in Nat /\ Len(started) \in Nat
       /\ Len(two) = Len(one) + Len(started)
       /\ \A i \in 1..Len(one) : two[i] = one[i]
       /\ \A i \in 1..Len(started) : two[Len(one) + i] = started[i]
  <2>1. one \in Seq(Kinds) /\ started \in Seq(Kinds)
    BY <1>7, <1>12
  <2> QED BY <2>1, Joined
<1> HIDE DEF two
<1>14. /\ events' \in Seq(Kinds) /\ k \in Nat
       /\ DOMAIN events' = 1..(k + (Len(t) - known))
       /\ \A i \in 1..k : events'[i] = two[i]
       /\ \A i \in 1..(Len(t) - known) : events'[k + i] = detections[i]
  <2>1. events' = two \o detections
    BY <1>10 DEF one, two
  <2>2. two \in Seq(Kinds) /\ detections \in Seq(Kinds) /\ Len(detections) = Len(t) - known
    BY <1>8, <1>13
  <2> QED BY <2>1, <2>2, Joined
<1>15. \A i \in 1..Len(one) : one[i].kind \in {"visit_completed", "dart_corrected"}
  <2>1. ASSUME NEW i \in 1..Len(one)
        PROVE  i \in 1..Len(completed) \/ \E j \in 1..Len(corrections) : i = Len(completed) + j
    <3>1. CASE i <= Len(completed)
      BY <1>12, <3>1
    <3>2. CASE ~(i <= Len(completed))
      <4>1. i - Len(completed) \in 1..Len(corrections) /\ i = Len(completed) + (i - Len(completed))
        BY <1>12, <3>2
      <4> QED BY <4>1
    <3> QED BY <3>1, <3>2
  <2>2. \A i \in 1..Len(completed) : one[i].kind = "visit_completed"
    BY <1>5, <1>12
  <2>3. \A j \in 1..Len(corrections) : one[Len(completed) + j].kind = "dart_corrected"
    BY <1>6, <1>12
  <2> QED BY <2>1, <2>2, <2>3
<1>16. ASSUME NEW i \in 1..Len(two)
       PROVE  i \in 1..Len(one) \/ \E j \in 1..Len(started) : i = Len(one) + j
  <2>1. CASE i <= Len(one)
    BY <1>13, <2>1
  <2>2. CASE ~(i <= Len(one))
    <3>1. i - Len(one) \in 1..Len(started) /\ i = Len(one) + (i - Len(one))
      BY <1>13, <2>2
    <3> QED BY <3>1
  <2> QED BY <2>1, <2>2
<1>17. \A i \in 1..k : events'[i].kind # "dart_detected"
  <2>1. \A i \in 1..Len(one) : two[i].kind # "dart_detected"
    BY <1>13, <1>15
  <2>2. \A j \in 1..Len(started) : two[Len(one) + j].kind # "dart_detected"
    BY <1>7, <1>13
  <2>3. \A i \in 1..Len(two) : two[i].kind # "dart_detected"
    BY <1>16, <2>1, <2>2
  <2> QED BY <1>14, <2>3
<1>18. \A i \in 1..(Len(t) - known) : events'[k + i] = Event("dart_detected", known + i)
  BY <1>9, <1>14
<1>19. (\E i \in DOMAIN events' : events'[i].kind = "session_started") <=> starts
  <2>1. CASE starts
    <3>1. Len(one) + 1 \in 1..k /\ two[Len(one) + 1] = started[1] /\ 1 \in 1..Len(started)
      BY <1>7, <1>13, <2>1
    <3>2. Len(one) + 1 \in DOMAIN events' /\ events'[Len(one) + 1].kind = "session_started"
      BY <1>1, <1>7, <1>14, <3>1 DEF known
    <3> QED BY <2>1, <3>2
  <2>2. ASSUME ~starts, NEW i \in DOMAIN events', events'[i].kind = "session_started"
        PROVE  FALSE
    <3>1. CASE i <= k
      <4>1. i \in 1..k /\ i \in 1..Len(two)
        BY <1>14, <3>1
      <4>2. i \in 1..Len(one)
        BY <1>7, <1>16, <2>2, <4>1
      <4> QED BY <1>13, <1>14, <1>15, <2>2, <4>1, <4>2
    <3>2. CASE ~(i <= k)
      <4>1. i - k \in 1..(Len(t) - known) /\ k + (i - k) = i
        BY <1>1, <1>14, <3>2 DEF known
      <4>2. events'[i] = detections[i - k]
        BY <1>14, <4>1
      <4> QED BY <1>8, <2>2, <4>1, <4>2
    <3> QED BY <1>14, <3>1, <3>2
  <2> QED BY <2>1, <2>2
<1>20. ASSUME missed, Tracked # {}
       PROVE  \E i \in DOMAIN events' : events'[i] = Event("visit_completed", Cardinality(Tracked))
  <2>1. 1 \in 1..Len(completed) /\ completed[1] = Event("visit_completed", Cardinality(Tracked))
    BY <1>5, <1>20
  <2>2. 1 \in 1..Len(one) /\ 1 \in 1..k /\ 1 \in DOMAIN events'
    BY SMTT(30), <1>1, <1>12, <1>13, <1>14, <2>1 DEF known
  <2> QED BY <1>12, <1>13, <1>14, <2>1, <2>2
<1> QED BY SMTT(30), <1>11, <1>14, <1>17, <1>18, <1>19, <1>20 DEF known
\* What is announced when: an operation that is not an observation announces
\* no darts, and only one that starts a session announces a start.
LEMMA OtherEvents ==
    ASSUME IInv
    PROVE  /\ Forget \/ SetAutoStart \/ Restart => events' = <<>>
           /\ Start \/ NewSession =>
                Says("session_started")' /\ Heard("dart_detected")' = {}
           /\ End => ~Says("session_started")' /\ Heard("dart_detected")' = {}
           /\ Start \/ (NewSession /\ ~session) => ~Says("session_ended")'
           /\ End \/ (NewSession /\ session) => Says("session_ended")'
<1> DEFINE s == Event("session_started", 0)
           e == Event("session_ended", Snapshot.darts)
<1>1. s.kind = "session_started" /\ e.kind = "session_ended"
  BY DEF Event
<1>2. Forget \/ SetAutoStart \/ Restart => events' = <<>>
  BY DEF Forget, SetAutoStart, Restart
<1>3. /\ Start => events' = <<s>>
      /\ End => events' = <<e>>
      /\ NewSession => events' = (IF session THEN <<e>> ELSE <<>>) \o <<s>>
  BY DEF Start, End, NewSession
<1> HIDE DEF s, e
<1>4. \A x : DOMAIN <<x>> = {1} /\ <<x>>[1] = x
  OBVIOUS
<1>5. events' = <<s>> => /\ Says("session_started")' /\ Heard("dart_detected")' = {}
                         /\ ~Says("session_ended")'
  BY <1>1, <1>4 DEF Says, Heard
<1>6. events' = <<e>> => /\ ~Says("session_started")' /\ Heard("dart_detected")' = {}
                         /\ Says("session_ended")'
  BY <1>1, <1>4 DEF Says, Heard
<1>7. CASE session
  <2>1. /\ <<e>> \in Seq({e, s}) /\ <<s>> \in Seq({e, s})
        /\ Len(<<e>>) = 1 /\ Len(<<s>>) = 1 /\ <<e>>[1] = e /\ <<s>>[1] = s
    OBVIOUS
  <2>2. /\ DOMAIN (<<e>> \o <<s>>) = 1..(1 + 1)
        /\ (<<e>> \o <<s>>)[1] = <<e>>[1] /\ (<<e>> \o <<s>>)[1 + 1] = <<s>>[1]
    BY <2>1, Joined
  <2>3. DOMAIN (<<e>> \o <<s>>) = 1..2 /\ (<<e>> \o <<s>>)[1] = e /\ (<<e>> \o <<s>>)[2] = s
    BY <2>1, <2>2
  <2>4. NewSession => /\ Says("session_started")' /\ Heard("dart_detected")' = {}
                      /\ Says("session_ended")'
    BY <1>1, <1>3, <1>7, <2>3 DEF Says, Heard
  <2> QED BY <1>2, <1>3, <1>5, <1>6, <1>7, <2>4
<1>8. CASE ~session
  <2>1. <<>> \o <<s>> = <<s>>
    OBVIOUS
  <2>2. NewSession => events' = <<s>>
    BY <1>3, <1>8, <2>1
  <2>3. ~End
    BY <1>8 DEF End
  <2> QED BY <1>2, <1>3, <1>5, <1>8, <2>2, <2>3
<1> QED BY <1>7, <1>8 DEF IInv, TypeOK

\* The visit that a takeout or a stop of the detection completes is the only
\* event it makes.
LEMMA VisitIsOneEvent ==
    ASSUME events' \in {<<>>, VisitEvents}
    PROVE  /\ Heard("dart_detected")' = {}
           /\ ~Says("session_started")' /\ ~Says("session_ended")'
           /\ events' = VisitEvents /\ Tracked # {} =>
                \E i \in DOMAIN events' :
                   events'[i] = Event("visit_completed", Cardinality(Tracked))
<1> DEFINE e == Event("visit_completed", Cardinality(Tracked))
<1>1. e.kind = "visit_completed"
  BY DEF Event
<1>2. VisitEvents = IF Tracked = {} THEN <<>> ELSE <<e>>
  BY DEF VisitEvents
<1> HIDE DEF e
<1>3. CASE events' = <<>>
  <2>1. <<e>> # <<>>
    OBVIOUS
  <2> QED BY <1>2, <1>3, <2>1 DEF Says, Heard
<1>4. CASE events' = <<e>>
  <2>1. DOMAIN <<e>> = {1} /\ <<e>>[1] = e
    OBVIOUS
  <2> QED BY <1>1, <1>4, <2>1 DEF Says, Heard, e
<1> QED BY <1>2, <1>3, <1>4

\* The dart loop never says that a session ended, and hears a detection for
\* each new place.
LEMMA TakeDartsSays ==
    ASSUME IInv, NEW state \in States, TakeDarts(state)
    PROVE  /\ ~Says("session_ended")'
           /\ Cardinality(Heard("dart_detected")') = Len(state.throws) - Known(state)
           /\ Len(state.throws) - Known(state) \in Nat
           /\ Says("session_started")' <=>
                Known(state) < Len(state.throws) /\ ~session /\ autoStart
           /\ MissedTakeout(state) /\ Tracked # {} =>
                \E i \in DOMAIN events' :
                   events'[i] = Event("visit_completed", Cardinality(Tracked))
<1>0. active \in Throws /\ state.throws \in Throws
  BY DEF IInv, TypeOK, TakeDarts, Live, States
<1> DEFINE n == Len(state.throws) - Known(state)
<1>1. n \in Nat
  BY <1>0, KnownAreFewer
<1>2. PICK k \in Nat :
        /\ events' \in Seq(Kinds)
        /\ DOMAIN events' = 1..(k + n)
        /\ \A i \in 1..k : events'[i].kind # "dart_detected"
        /\ \A i \in 1..n : events'[k + i] = Event("dart_detected", Known(state) + i)
        /\ (\E i \in DOMAIN events' : events'[i].kind = "session_started")
           <=> Known(state) < Len(state.throws) /\ ~session /\ autoStart
        /\ MissedTakeout(state) /\ Tracked # {} =>
             \E i \in DOMAIN events' :
                events'[i] = Event("visit_completed", Cardinality(Tracked))
  BY <1>0, TakeDartsEvents
<1> HIDE DEF n
<1>3. Heard("dart_detected")' = (k + 1)..(k + n)
  <2>1. ASSUME NEW i \in (k + 1)..(k + n)
        PROVE  i \in DOMAIN events' /\ events'[i].kind = "dart_detected"
    <3>1. i - k \in 1..n /\ k + (i - k) = i /\ i \in 1..(k + n)
      BY <1>1
    <3>2. events'[i] = Event("dart_detected", Known(state) + (i - k))
      BY <1>2, <3>1
    <3> QED BY <1>2, <3>1, <3>2 DEF Event
  <2>2. ASSUME NEW i \in DOMAIN events', events'[i].kind = "dart_detected"
        PROVE  i \in (k + 1)..(k + n)
    <3>1. i \in 1..(k + n) /\ ~(i \in 1..k)
      BY <1>2, <2>2
    <3> QED BY <1>1, <3>1
  <2> QED BY <2>1, <2>2 DEF Heard
<1>4. Cardinality((k + 1)..(k + n)) = n
  <2>1. k + 1 \in Int /\ k + n \in Int
    BY <1>1
  <2>2. Cardinality((k + 1)..(k + n)) =
          IF k + 1 > k + n THEN 0 ELSE (k + n) - (k + 1) + 1
    BY <2>1, FS_Interval
  <2> QED BY <1>1, <2>2
<1>5. ~Says("session_ended")'
  <2>1. \A i \in DOMAIN events' : events'[i] \in Kinds
    BY <1>2, LenProperties, ElementOfSeq
  <2> QED BY <2>1 DEF Says, Kinds, Names
<1>6. Says("session_started")' <=> \E i \in DOMAIN events' : events'[i].kind = "session_started"
  BY DEF Says
<1> QED BY <1>1, <1>2, <1>3, <1>4, <1>5, <1>6 DEF n
-----------------------------------------------------------------------------
(* Every announced dart counts once.                                       *)

\* A session starts with the darts announced with its start, a running one
\* grows by the darts announced, and without new darts none are added.
Counts ==
    LET new == Cardinality(Heard("dart_detected")') IN
    IF Says("session_started")' THEN Snapshot.darts' = new
    ELSE IF new > 0
    THEN Snapshot.darts' = Snapshot.darts + (IF session THEN new ELSE 0)
    ELSE Snapshot.darts' <= Snapshot.darts

\* The darts shown are the ones committed and the counted ones.
LEMMA DartsShown ==
    /\ Snapshot.darts = committed.darts + Cardinality(Counted)
    /\ Snapshot.darts' = committed'.darts + Cardinality(Counted')
BY DEF Snapshot

\* A withdrawn detection takes its dart along, and no other.
LEMMA WithdrawCounts ==
    ASSUME IInv, NEW state \in States, Withdraw(state)
    PROVE  Cardinality(Counted') <= Cardinality(Counted)
<1> DEFINE t == state.throws
<1>1. t \in Throws
  BY DEF Withdraw, Live, States
<1>2. PICK m \in FirstMatches(active, t) :
        /\ active' = t
        /\ counting' = [j \in DOMAIN t |-> counting[m[j]]]
  BY DEF Withdraw
<1>3. /\ m \in [DOMAIN t -> DOMAIN active]
      /\ \A j \in DOMAIN t : \A k \in 1..(j - 1) : m[k] # m[j]
  BY <1>2 DEF FirstMatches
<1>4. DOMAIN t = 1..Len(t) /\ Len(t) \in Nat
  BY <1>1, ThrowsAreSequences, BoundAssumption
<1>5. \A i, j \in DOMAIN t : m[i] = m[j] => i = j
  <2>1. ASSUME NEW i \in DOMAIN t, NEW j \in DOMAIN t, i < j
        PROVE  m[i] # m[j]
    <3>1. i \in 1..(j - 1)
      BY <1>4, <2>1
    <3> QED BY <1>3, <3>1
  <2>2. ASSUME NEW i \in DOMAIN t, NEW j \in DOMAIN t, m[i] = m[j]
        PROVE  i = j
    <3>1. i \in Nat /\ j \in Nat
      BY <1>4
    <3> QED BY <2>1, <2>2, <3>1
  <2> QED BY <2>2
<1>6. \A j \in Counted' : j \in DOMAIN t /\ m[j] \in Counted
  BY <1>2, <1>3 DEF Counted
<1> DEFINE f == [j \in Counted' |-> m[j]]
<1>7. f \in Injection(Counted', Counted)
  BY <1>5, <1>6 DEF Injection, IsInjective
<1>8. IsFiniteSet(Counted) /\ Cardinality(Counted) \in Nat
  BY PlacesAreFew, CountedType DEF Counted, IInv, TypeOK
<1>9. Cardinality(Counted') <= Cardinality(Counted) /\ Cardinality(Counted') \in Nat
  BY <1>7, <1>8, FS_Injection, FS_CardinalityType
<1> QED BY <1>9

\* The dart loop counts the darts it announces.
LEMMA TakeDartsCounts ==
    ASSUME IInv, NEW state \in States, TakeDarts(state)
    PROVE  Counts
<1> DEFINE t      == state.throws
           known  == Known(state)
           places == DOMAIN t
           new    == places \ (1..known)
           starts == new # {} /\ ~session /\ autoStart
           n      == Len(t) - known
<1>0. active \in Throws /\ t \in Throws
  BY DEF IInv, TypeOK, TakeDarts, Live, States
<1>1. /\ known \in Nat /\ known <= Len(t) /\ n \in Nat
      /\ Len(t) \in Nat /\ places = 1..Len(t)
      /\ Len(active) \in Nat /\ DOMAIN active = 1..Len(active)
  BY <1>0, KnownAreFewer
<1>2. /\ session' = (session \/ starts)
      /\ active' = t
      /\ counting' = [i \in places |->
                        IF i \in new THEN session' ELSE counting[i] /\ ~starts]
      /\ committed' = IF starts THEN ZeroTotals
                      ELSE IF MissedTakeout(state) THEN Snapshot ELSE committed
  BY DEF TakeDarts, Known
<1>3. /\ Cardinality(Heard("dart_detected")') = n
      /\ Says("session_started")' <=> starts
  <2>1. /\ Cardinality(Heard("dart_detected")') = n
        /\ Says("session_started")' <=> known < Len(t) /\ ~session /\ autoStart
    BY TakeDartsSays
  <2>2. new # {} => known < Len(t)
    BY <1>1
  <2>3. known < Len(t) => known + 1 \in new
    BY <1>1
  <2> QED BY <2>1, <2>2, <2>3
<1>4. new = (known + 1)..Len(t) /\ IsFiniteSet(new) /\ Cardinality(new) = n
  <2>1. new = (known + 1)..Len(t)
    BY <1>1
  <2>2. known + 1 \in Int /\ Len(t) \in Int
    BY <1>1
  <2>3. /\ IsFiniteSet((known + 1)..Len(t))
        /\ Cardinality((known + 1)..Len(t)) =
             IF known + 1 > Len(t) THEN 0 ELSE Len(t) - (known + 1) + 1
    BY <2>2, FS_Interval
  <2> HIDE DEF new, known
  <2> QED BY <1>1, <2>1, <2>3
<1>5. /\ IsFiniteSet(Counted) /\ Cardinality(Counted) \in Nat
      /\ committed.darts \in Nat
  BY PlacesAreFew, CountedType DEF Counted, IInv, TypeOK, Totals
<1>6. session \in BOOLEAN /\ session' \in BOOLEAN
  BY <1>2 DEF IInv, TypeOK
<1>7. Counted' = {i \in places : counting'[i]}
  BY <1>2 DEF Counted
<1> HIDE DEF Snapshot
<1>8. CASE starts
  <2>1. Counted' = new
    BY <1>2, <1>7, <1>8
  <2>2. committed'.darts = 0
    BY <1>2, <1>8 DEF ZeroTotals
  <2>3. Snapshot.darts' = n
    BY <1>1, <1>4, <2>1, <2>2, DartsShown
  <2> QED BY <1>3, <1>8, <2>3 DEF Counts
<1>9. CASE ~starts
  <2> DEFINE kept == IF MissedTakeout(state) THEN {} ELSE Counted
             base == IF MissedTakeout(state) THEN Snapshot ELSE committed
  <2>1. Counted' = kept \cup (IF session THEN new ELSE {})
    <3>1. CASE MissedTakeout(state)
      <4>1. new = places
        BY <1>1, <3>1 DEF Known
      <4> QED BY <1>2, <1>6, <1>7, <1>9, <3>1, <4>1
    <3>2. CASE ~MissedTakeout(state)
      <4>1. known = Len(active) /\ 1..known \subseteq places
        BY <1>1, <3>2 DEF Known
      <4>2. Counted = {i \in 1..known : counting[i]}
        BY <1>1, <4>1 DEF Counted
      <4>3. \A i \in places : counting'[i] = IF i \in new THEN session ELSE counting[i]
        BY <1>2, <1>6, <1>9, <4>1, <1>1 DEF IInv, TypeOK
      <4> HIDE DEF known
      <4> QED BY <1>7, <3>2, <4>1, <4>2, <4>3
    <3> QED BY <3>1, <3>2
  <2>2. kept \cap new = {} /\ IsFiniteSet(kept) /\ Cardinality(kept) \in Nat
    <3>1. CASE MissedTakeout(state)
      BY <3>1, FS_EmptySet
    <3>2. CASE ~MissedTakeout(state)
      <4>1. Counted \subseteq 1..known
        BY <1>1, <3>2 DEF Counted, Known
      <4> QED BY <1>5, <3>2, <4>1
    <3> QED BY <3>1, <3>2
  <2>3. Cardinality(Counted') = Cardinality(kept) + (IF session THEN n ELSE 0)
    <3>1. CASE session
      <4>1. Counted' = kept \cup new
        BY <2>1, <3>1
      <4>2. Cardinality(kept \cup new) =
              Cardinality(kept) + Cardinality(new) - Cardinality(kept \cap new)
        BY <1>4, <2>2, FS_Union
      <4>3. Cardinality(kept \cap new) = 0
        BY <2>2, FS_EmptySet
      <4> HIDE DEF kept, new, known
      <4> QED BY <1>1, <1>4, <2>2, <3>1, <4>1, <4>2, <4>3
    <3>2. CASE ~session
      <4>1. Counted' = kept
        BY <2>1, <3>2
      <4> HIDE DEF kept
      <4> QED BY <2>2, <3>2, <4>1
    <3> QED BY <1>6, <3>1, <3>2
  <2>4. Snapshot.darts = base.darts + Cardinality(kept) /\ base.darts \in Nat
    <3>1. Snapshot.darts = committed.darts + Cardinality(Counted) /\ Snapshot.darts \in Nat
      BY <1>5, DartsShown
    <3>2. CASE MissedTakeout(state)
      BY <3>1, <3>2, FS_EmptySet
    <3>3. CASE ~MissedTakeout(state)
      BY <1>5, <3>1, <3>3
    <3> QED BY <3>2, <3>3
  <2>5. Snapshot.darts' = base.darts + Cardinality(Counted')
    BY <1>2, <1>9, DartsShown
  <2> HIDE DEF base, kept, n, known, starts
  <2>6. Snapshot.darts' = Snapshot.darts + (IF session THEN n ELSE 0)
    BY <1>1, <1>6, <2>2, <2>3, <2>4, <2>5
  <2>7. n = 0 => Snapshot.darts' <= Snapshot.darts
    BY <1>6, <2>2, <2>4, <2>6
  <2> QED BY <1>1, <1>3, <1>9, <2>6, <2>7 DEF Counts
<1> QED BY <1>8, <1>9

-----------------------------------------------------------------------------
(* Every visit is announced when its darts leave the board.                *)

\* The visit_completed of all announced darts.
Announces == \E i \in DOMAIN events' :
    events'[i] = Event("visit_completed", Cardinality(Tracked))

\* Darts that the dart loop knows stay announced.
LEMMA KnownStayTracked ==
    ASSUME IInv, NEW state \in States, TakeDarts(state), ~MissedTakeout(state)
    PROVE  Tracked \subseteq Tracked'
<1>0. active \in Throws /\ state.throws \in Throws
  BY DEF IInv, TypeOK, TakeDarts, Live, States
<1>1. Known(state) = Len(active) /\ Known(state) <= Len(state.throws)
  BY <1>0, KnownAreFewer DEF Known
<1>2. /\ DOMAIN state.throws = 1..Len(state.throws) /\ Len(state.throws) \in Nat
      /\ DOMAIN active = 1..Len(active) /\ Len(active) \in Nat
  BY <1>0, KnownAreFewer
<1>3. \A i \in DOMAIN active : i \in DOMAIN state.throws
  BY <1>1, <1>2
<1>4. \A i \in DOMAIN active : tracked[i] => tracked'[i]
  <2>1. tracked' = [i \in DOMAIN state.throws |->
                      i \in (DOMAIN state.throws) \ (1..Known(state)) \/ tracked[i]]
    BY DEF TakeDarts, Known
  <2> QED BY <1>3, <2>1 DEF IInv, TypeOK
<1>5. active' = state.throws
  BY DEF TakeDarts
<1> QED BY <1>3, <1>4, <1>5 DEF Tracked

\* A visit is over when it is announced, or when a detection is withdrawn.
LEMMA StepAnnounces ==
    ASSUME IInv, [Next]_vars, Tracked # {}, Tracked' = {}, initialized'
    PROVE  \/ Announces
           \/ 0 < Len(active') /\ Len(active') < Len(active) /\ ~removing'
<1>1. initialized /\ ~removing
  BY DEF IInv, RemovingQuiet, Tracked
<1>2. ASSUME NEW state \in States, Observe(state)
      PROVE  \/ Announces
             \/ 0 < Len(active') /\ Len(active') < Len(active) /\ ~removing'
  <2>1. CASE Ignore(state)
    BY <2>1 DEF Ignore, board, Tracked
  <2>2. CASE Baseline(state) \/ RemoveDarts(state)
    <3>1. events' = VisitEvents
      BY <1>1, <2>2 DEF Baseline, RemoveDarts
    <3> QED BY <3>1, VisitIsOneEvent DEF Announces
  <2>3. CASE Withdraw(state)
    <3>1. state.throws \in Throws /\ state.throws # <<>>
      BY <2>3 DEF Withdraw, Live, Withdrawn, Removed, States, IInv, RemovingQuiet, Takeout
    <3>2. 0 < Len(state.throws)
      BY <3>1, ThrowsAreSequences, EmptySeq
    <3> QED BY <1>1, <2>3, <3>2 DEF Withdraw, Withdrawn, Fewer, flags
  <2>4. CASE StillRemoving(state)
    BY <1>1, <2>4 DEF StillRemoving
  <2>5. CASE TakeDarts(state)
    <3>1. MissedTakeout(state)
      BY <2>5, KnownStayTracked
    <3> QED BY <2>5, <3>1, TakeDartsSays DEF Announces
  <2> QED BY <1>2, <2>1, <2>2, <2>3, <2>4, <2>5 DEF Observe
<1>3. CASE Forget \/ Restart
  BY <1>3 DEF Forget, Restart
<1>4. CASE Start \/ End \/ NewSession \/ SetAutoStart \/ UNCHANGED vars
  BY <1>4 DEF Start, End, NewSession, SetAutoStart, board, vars, Tracked
<1> QED BY <1>2, <1>3, <1>4 DEF Next

\* A visit whose darts leave the board is announced with all of its darts,
\* unless the baseline was lost (training.py, _commit and its callers).
THEOREM VisitAnnounced == Spec => VisitIsAnnounced
<1>1. IInv /\ [Next]_vars =>
        [ /\ Tracked # {} /\ Tracked' = {} /\ initialized'
          => \/ Announces
             \/ 0 < Len(active') /\ Len(active') < Len(active) /\ ~removing' ]_vars
  BY StepAnnounces
<1> QED BY <1>1, InitIInv, StepIInv, PTL DEF Spec, VisitIsAnnounced, Announces

-----------------------------------------------------------------------------
(* The history of finished sessions.                                       *)

\* The history is a list of summaries.
Summaries == [darts : Nat, points : Nat]
Shelf == history \in Seq(Summaries)

\* A list that is kept starts with what was put in front of it.
LEMMA KeepsFirst ==
    ASSUME NEW S, NEW x \in S, NEW h \in Seq(S), NEW n \in Nat \ {0}
    PROVE  /\ Keep(<<x>> \o h, n) \in Seq(S)
           /\ Keep(<<x>> \o h, n) # <<>>
           /\ Head(Keep(<<x>> \o h, n)) = x
           /\ Len(Keep(<<x>> \o h, n)) <= n
<1> DEFINE l == <<x>> \o h
<1>1. <<x>> \in Seq(S) /\ Len(<<x>>) = 1 /\ <<x>>[1] = x
  OBVIOUS
<1>2. l \in Seq(S) /\ Len(l) = 1 + Len(h) /\ Len(h) \in Nat /\ l[1] = x
  BY <1>1, Joined
<1> HIDE DEF l
<1>3. CASE Len(l) <= n
  <2>1. Keep(l, n) = l
    BY <1>3 DEF Keep
  <2>2. l # <<>>
    BY <1>2, EmptySeq
  <2>3. Head(l) = l[1]
    BY <1>2, <2>2, HeadTailProperties
  <2> QED BY <1>2, <1>3, <2>1, <2>2, <2>3 DEF l
<1>4. CASE ~(Len(l) <= n)
  <2> DEFINE k == SubSeq(l, 1, n)
  <2>1. Keep(l, n) = k
    BY <1>4 DEF Keep
  <2>2. \A i \in 1..n : l[i] \in S
    BY <1>2, <1>4, ElementOfSeq
  <2>3. 1 \in Int /\ n \in Int
    OBVIOUS
  <2>4. /\ k \in Seq(S) /\ Len(k) = IF 1 <= n THEN n - 1 + 1 ELSE 0
        /\ \A i \in 1..(n - 1 + 1) : k[i] = l[1 + i - 1]
    BY <2>2, <2>3, SubSeqProperties
  <2> HIDE DEF k
  <2>5. Len(k) = n /\ 1 \in 1..(n - 1 + 1)
    BY <2>4
  <2>6. k[1] = l[1 + 1 - 1] /\ 1 + 1 - 1 = 1
    BY <2>4, <2>5
  <2>7. k # <<>>
    BY <2>4, <2>5, EmptySeq
  <2>8. Head(k) = k[1]
    BY <2>4, <2>7, HeadTailProperties
  <2>9. Len(k) <= n
    BY <2>5
  <2> QED BY <1>2, <2>1, <2>4, <2>6, <2>7, <2>8, <2>9 DEF l
<1> QED BY <1>3, <1>4 DEF l

\* A finished session is put in front of the history.
LEMMA FinishedFirst ==
    ASSUME TypeOK, Shelf
    PROVE  /\ Finished \in Seq(Summaries)
           /\ Snapshot.darts > 0 => Finished # <<>> /\ Head(Finished) = Summary(Snapshot)
           /\ ~(Snapshot.darts > 0) => Finished = history
<1>1. Snapshot \in Totals
  BY SnapshotAgrees
<1> HIDE DEF Snapshot
<1>2. Summary(Snapshot) \in Summaries
  BY <1>1 DEF Summary, Summaries, Totals
<1>3. HistorySize \in Nat \ {0}
  BY BoundAssumption
<1> DEFINE x == Summary(Snapshot)
           kept == Keep(<<x>> \o history, HistorySize)
<1>4. Finished = IF Snapshot.darts > 0 THEN kept ELSE history
  BY DEF Finished
<1> HIDE DEF x
<1>5. x \in Summaries /\ history \in Seq(Summaries)
  BY <1>2 DEF x, Shelf
<1>6. \A y \in Summaries, h \in Seq(Summaries), n \in Nat \ {0} :
        /\ Keep(<<y>> \o h, n) \in Seq(Summaries)
        /\ Keep(<<y>> \o h, n) # <<>>
        /\ Head(Keep(<<y>> \o h, n)) = y
        /\ Len(Keep(<<y>> \o h, n)) <= n
  BY KeepsFirst
<1>7. kept \in Seq(Summaries) /\ kept # <<>> /\ Head(kept) = x
  BY <1>3, <1>5, <1>6, Zenon
<1> HIDE DEF kept
<1> QED BY <1>4, <1>5, <1>7 DEF x

\* What FinishedIsKept says of a step.
Keeps ==
    IF session /\ Says("session_ended")' /\ Snapshot.darts > 0
    THEN history' # <<>> /\ Head(history') = Summary(Snapshot)
    ELSE history' = history

\* Every step keeps the history, or puts the finished session in front of it.
LEMMA StepKeeps ==
    ASSUME IInv, Shelf, [Next]_vars
    PROVE  Shelf' /\ (Keeps \/ UNCHANGED vars)
<1>1. ASSUME NEW state \in States, Observe(state)
      PROVE  Shelf' /\ Keeps
  <2>1. history' = history
    BY <1>1 DEF Observe, Ignore, Baseline, RemoveDarts, Withdraw, StillRemoving, TakeDarts
  <2>2. CASE Ignore(state) \/ Withdraw(state) \/ StillRemoving(state)
    <3>1. events' = <<>>
      BY <2>2 DEF Ignore, Withdraw, StillRemoving
    <3>2. ~Says("session_ended")'
      BY <3>1 DEF Says
    <3> QED BY <2>1, <3>2 DEF Shelf, Keeps
  <2>3. CASE Baseline(state) \/ RemoveDarts(state)
    <3>1. events' \in {<<>>, VisitEvents}
      BY <2>3 DEF Baseline, RemoveDarts
    <3>2. ~Says("session_ended")'
      BY <3>1, VisitIsOneEvent
    <3> QED BY <2>1, <3>2 DEF Shelf, Keeps
  <2>4. CASE TakeDarts(state)
    <3>1. ~Says("session_ended")'
      BY <2>4, TakeDartsSays
    <3> QED BY <2>1, <3>1 DEF Shelf, Keeps
  <2> QED BY <1>1, <2>2, <2>3, <2>4 DEF Observe
<1>2. CASE Forget \/ Restart \/ SetAutoStart
  <2>1. history' = history /\ events' = <<>>
    BY <1>2 DEF Forget, Restart, SetAutoStart
  <2>2. ~Says("session_ended")'
    BY <2>1 DEF Says
  <2> QED BY <2>1, <2>2 DEF Shelf, Keeps
<1>3. CASE Start \/ (NewSession /\ ~session)
  <2>1. history' = history
    BY <1>3 DEF Start, NewSession
  <2>2. ~Says("session_ended")'
    BY <1>3, OtherEvents
  <2> QED BY <2>1, <2>2 DEF Shelf, Keeps
<1>4. CASE End \/ (NewSession /\ session)
  <2>1. history' = Finished
    BY <1>4 DEF End, NewSession
  <2>2. Finished \in Seq(Summaries)
    BY FinishedFirst DEF IInv
  <2>3. Says("session_ended")'
    BY <1>4, OtherEvents
  <2>4. CASE Snapshot.darts > 0
    <3>1. Finished # <<>> /\ Head(Finished) = Summary(Snapshot)
      BY <2>4, FinishedFirst DEF IInv
    <3>2. session
      BY <1>4 DEF End
    <3> HIDE DEF Finished, Snapshot
    <3> QED BY <2>1, <2>2, <2>3, <2>4, <3>1, <3>2 DEF Shelf, Keeps
  <2>5. CASE ~(Snapshot.darts > 0)
    <3>1. Finished = history
      BY <2>5, FinishedFirst DEF IInv
    <3> HIDE DEF Finished, Snapshot
    <3> QED BY <2>1, <2>2, <2>5, <3>1 DEF Shelf, Keeps
  <2> QED BY <2>4, <2>5
<1>5. CASE UNCHANGED vars
  BY <1>5 DEF vars, Shelf
<1> QED BY <1>1, <1>2, <1>3, <1>4, <1>5 DEF Next, IInv, TypeOK

\* A finished session is kept, newest first, with the totals it ended with,
\* and nothing else writes the history (training.py, end and new_session).
THEOREM FinishedKept == Spec => FinishedIsKept
<1>1. Init => Shelf
  <2>1. <<>> \in Seq(Summaries)
    BY EmptySeq
  <2> QED BY <2>1 DEF Init, Shelf
<1>2. IInv /\ Shelf /\ [Next]_vars => Shelf' /\ [Keeps]_vars
  BY StepKeeps
<1> QED BY <1>1, <1>2, InitIInv, StepIInv, PTL DEF Spec, FinishedIsKept, Keeps

-----------------------------------------------------------------------------
(* The session implements Ledger.                                          *)

\* The visit in progress as Ledger sees it, and the totals with it.
LEMMA VisitIs ==
    IInv => /\ L!IsVisit(OpenVisit, Cardinality(Counted))
            /\ OpenVisit.darts = Cardinality(Counted) /\ Cardinality(Counted) \in Nat
            /\ Counted = {} => Cardinality(Counted) = 0 /\ OpenVisit = L!Nil
            /\ Snapshot.darts \in Nat
            /\ L!Total = Summary(Snapshot)
<1> SUFFICES ASSUME IInv
             PROVE  /\ L!IsVisit(OpenVisit, Cardinality(Counted))
                    /\ OpenVisit.darts = Cardinality(Counted) /\ Cardinality(Counted) \in Nat
                    /\ Counted = {} => Cardinality(Counted) = 0 /\ OpenVisit = L!Nil
                    /\ Snapshot.darts \in Nat
                    /\ L!Total = Summary(Snapshot)
  OBVIOUS
<1>1. /\ Cardinality(Counted) \in Nat /\ Worth(CountedHits) \in Nat
      /\ Counted # {} => Cardinality(Counted) > 0
      /\ Counted = {} => Cardinality(Counted) = 0
  BY CountedType DEF IInv
<1>2. Counted = {} => Worth(CountedHits) = 0
  <2>1. Counted = {} => CountedHits = Nothing
    BY FS_EmptySet DEF CountedHits, Nothing
  <2> QED BY <2>1, NothingAssumption
<1>3. /\ OpenVisit.darts = Cardinality(Counted) /\ OpenVisit.points = Worth(CountedHits)
      /\ OpenVisit \in [darts : {Cardinality(Counted)}, points : Nat]
  BY <1>1 DEF OpenVisit
<1>4. Counted = {} => OpenVisit = L!Nil
  BY <1>1, <1>2 DEF OpenVisit, L!Nil
<1>5. L!IsVisit(OpenVisit, Cardinality(Counted))
  BY <1>1, <1>3, <1>4 DEF L!IsVisit
<1>6. Snapshot.darts \in Nat
  BY SnapshotAgrees DEF IInv, Totals
<1>7. L!Total = Summary(Snapshot)
  <2>1. /\ Snapshot.darts = committed.darts + Cardinality(Counted)
        /\ Snapshot.points = committed.points + Worth(CountedHits)
    BY DEF Snapshot
  <2> HIDE DEF Snapshot
  <2> QED BY <1>3, <2>1 DEF L!Total, Summary
<1> QED BY <1>1, <1>3, <1>4, <1>5, <1>6, <1>7

\* So it is after a step.
LEMMA NextVisitIs ==
    ASSUME IInv'
    PROVE  /\ L!IsVisit(OpenVisit', Cardinality(Counted'))
           /\ Cardinality(Counted') \in Nat
           /\ Counted' = {} => Cardinality(Counted') = 0 /\ OpenVisit' = L!Nil
<1>1. (IInv => /\ L!IsVisit(OpenVisit, Cardinality(Counted))
               /\ Cardinality(Counted) \in Nat
               /\ Counted = {} => Cardinality(Counted) = 0 /\ OpenVisit = L!Nil)'
  BY VisitIs, PTL
<1> QED BY <1>1 DEF L!IsVisit, L!Nil

\* Nothing is announced that Ledger speaks of.
Silent == /\ Heard("dart_detected")' = {}
          /\ ~Says("session_started")' /\ ~Says("session_ended")'

\* What Ledger is told by an operation.
LEMMA ToldIs ==
    ASSUME NEW n, Cardinality(Heard("dart_detected")') = n,
           NEW s \in BOOLEAN, Says("session_started")' <=> s,
           NEW e \in BOOLEAN, Says("session_ended")' <=> e
    PROVE  L!Tells(n, s, e) /\ Announced'.darts = n
<1>1. Says("session_started")' = s /\ Says("session_ended")' = e
  BY DEF Says
<1> QED BY <1>1 DEF L!Tells, Announced

\* The visit is folded.
LEMMA Closes ==
    ASSUME IInv, IInv', Silent, Counted' = {}, committed' = Snapshot,
           UNCHANGED <<session, history>>
    PROVE  L!Close
<1>1. Cardinality(Heard("dart_detected")') = 0
  BY FS_EmptySet DEF Silent
<1>2. L!Tells(0, FALSE, FALSE)
  BY <1>1, ToldIs DEF Silent
<1>3. Summary(committed)' = L!Total /\ OpenVisit' = L!Nil
  BY VisitIs, NextVisitIs DEF Summary
<1> QED BY <1>2, <1>3 DEF L!Close

\* Its darts change, and none is added.
LEMMA Revises ==
    ASSUME IInv, IInv', Silent, Cardinality(Counted') <= Cardinality(Counted),
           UNCHANGED <<session, history, committed>>
    PROVE  L!Revise
<1>1. Cardinality(Heard("dart_detected")') = 0
  BY FS_EmptySet DEF Silent
<1>2. L!Tells(0, FALSE, FALSE)
  BY <1>1, ToldIs DEF Silent
<1>3. L!IsVisit(OpenVisit', Cardinality(Counted')) /\ Cardinality(Counted') \in 0..OpenVisit.darts
  BY VisitIs, NextVisitIs
<1>4. Summary(committed)' = Summary(committed)
  BY DEF Summary
<1> QED BY <1>2, <1>3, <1>4 DEF L!Revise

\* A finished session goes into the history.
LEMMA Archives ==
    ASSUME IInv, Shelf
    PROVE  L!Archived = Finished
<1>1. L!Total = Summary(Snapshot) /\ Snapshot.darts \in Nat
  BY VisitIs
<1>2. Summary(Snapshot).darts = Snapshot.darts
  BY DEF Summary
<1> HIDE DEF Snapshot, Summary
<1>3. CASE Snapshot.darts = 0
  BY <1>1, <1>2, <1>3 DEF L!Archived, Finished
<1>4. CASE Snapshot.darts > 0
  <2>1. L!Total.darts # 0
    BY <1>1, <1>2, <1>4
  <2>2. Finished = Keep(<<Summary(Snapshot)>> \o history, HistorySize)
    BY <1>4 DEF Finished
  <2>3. L!Archived = Keep(<<L!Total>> \o history, HistorySize)
    BY <2>1 DEF L!Archived, Keep
  <2> QED BY <1>1, <2>2, <2>3
<1> QED BY <1>1, <1>3, <1>4

\* The dart loop revises the visit, adds the announced darts to it or to the
\* next one, or begins a session with them.
LEMMA TakesDarts ==
    ASSUME IInv, IInv', NEW state \in States, TakeDarts(state)
    PROVE  L!Revise \/ L!Throw \/ L!Begin
<1> DEFINE n == Cardinality(Heard("dart_detected")')
           starts == Says("session_started")'
           missed == MissedTakeout(state)
<1>1. /\ n = Len(state.throws) - Known(state) /\ n \in Nat /\ ~Says("session_ended")'
      /\ starts <=> Known(state) < Len(state.throws) /\ ~session /\ autoStart
  BY TakeDartsSays
<1>2. /\ active \in Throws /\ state.throws \in Throws /\ session \in BOOLEAN
  BY DEF IInv, TypeOK, TakeDarts, Live, States
<1>3. /\ Known(state) \in Nat /\ Len(state.throws) \in Nat
      /\ DOMAIN state.throws = 1..Len(state.throws)
  BY <1>2, KnownAreFewer
<1>4. starts <=> DOMAIN state.throws \ (1..Known(state)) # {} /\ ~session /\ autoStart
  <2>1. DOMAIN state.throws \ (1..Known(state)) # {} <=> Known(state) < Len(state.throws)
    <3>1. Known(state) < Len(state.throws) =>
            Known(state) + 1 \in DOMAIN state.throws \ (1..Known(state))
      BY <1>3
    <3> QED BY <1>3, <3>1
  <2> QED BY <1>1, <2>1
<1>5. /\ session' = (session \/ starts) /\ history' = history
      /\ committed' = IF starts THEN ZeroTotals ELSE IF missed THEN Snapshot ELSE committed
  BY <1>4 DEF TakeDarts, Known
<1>6. /\ starts => Snapshot.darts' = n
      /\ ~starts /\ n > 0 => Snapshot.darts' = Snapshot.darts + (IF session THEN n ELSE 0)
      /\ ~starts /\ ~(n > 0) => Snapshot.darts' <= Snapshot.darts
  BY TakeDartsCounts DEF Counts
<1>7. missed => n > 0
  <2>1. missed => Known(state) = 0 /\ state.throws # <<>>
    BY DEF Known, MissedTakeout, Removed
  <2>2. state.throws # <<>> => Len(state.throws) # 0
    BY <1>2, ThrowsAreSequences, EmptySeq
  <2> QED BY <1>1, <1>3, <2>1, <2>2
<1>8. /\ Snapshot.darts = committed.darts + Cardinality(Counted)
      /\ Snapshot.darts' = committed'.darts + Cardinality(Counted')
      /\ committed.darts \in Nat /\ Snapshot.darts \in Nat
  BY DartsShown, VisitIs DEF IInv, TypeOK, Totals
<1>9. /\ L!IsVisit(OpenVisit', Cardinality(Counted')) /\ Cardinality(Counted') \in Nat
      /\ Cardinality(Counted) \in Nat /\ OpenVisit.darts = Cardinality(Counted)
      /\ L!Total = Summary(Snapshot)
  BY VisitIs, NextVisitIs
<1> HIDE DEF Snapshot, starts, n, missed
<1>10. CASE starts
  <2>1. session' = TRUE /\ ~session /\ history' = history /\ committed' = ZeroTotals
    BY <1>1, <1>5, <1>10
  <2>2. Summary(committed)' = L!Nil
    BY <2>1 DEF Summary, ZeroTotals, L!Nil
  <2>3. Cardinality(Counted') = n
    BY <1>6, <1>8, <1>9, <1>10, <2>1 DEF ZeroTotals
  <2>4. L!Tells(n, TRUE, FALSE) /\ Announced'.darts = n
    BY <1>1, <1>10, ToldIs DEF n, starts
  <2> QED BY <1>1, <1>9, <2>1, <2>2, <2>3, <2>4 DEF L!Begin
<1>11. CASE ~starts /\ n > 0
  <2>1. session' = session /\ history' = history
    BY <1>2, <1>5, <1>11
  <2>2. L!Tells(n, FALSE, FALSE) /\ Announced'.darts = n
    BY <1>1, <1>11, ToldIs DEF n, starts
  <2>3. n \in Nat \ {0}
    BY <1>1, <1>11
  <2>4. CASE session
    <3>1. CASE missed
      <4>1. committed' = Snapshot
        BY <1>5, <1>11, <3>1
      <4>2. Summary(committed)' = L!Total
        BY <1>9, <4>1 DEF Summary
      <4>3. Cardinality(Counted') = n
        BY SMTT(30), <1>1, <1>6, <1>8, <1>9, <1>11, <2>4, <4>1
      <4> QED BY <1>9, <2>1, <2>2, <2>3, <2>4, <4>2, <4>3 DEF L!Throw
    <3>2. CASE ~missed
      <4>1. committed' = committed
        BY <1>5, <1>11, <3>2
      <4>2. Summary(committed)' = Summary(committed)
        BY <4>1 DEF Summary
      <4>3. Snapshot.darts' = Snapshot.darts + n
        BY <1>6, <1>11, <2>4
      <4>4. Cardinality(Counted') = Cardinality(Counted) + n
        <5>1. committed.darts + Cardinality(Counted') = (committed.darts + Cardinality(Counted)) + n
          BY <1>8, <4>1, <4>3
        <5>2. \A a, b, c, d \in Nat : a + b = (a + c) + d => b = c + d
          OBVIOUS
        <5>3. committed.darts \in Nat /\ n \in Nat
          BY <1>1, <1>8
        <5>4. Cardinality(Counted) \in Nat /\ Cardinality(Counted') \in Nat
          BY <1>9
        <5> QED BY <5>1, <5>2, <5>3, <5>4
      <4>5. L!IsVisit(OpenVisit', OpenVisit.darts + Announced'.darts)
        BY <1>9, <2>2, <4>4
      <4> QED BY <2>1, <2>2, <2>3, <2>4, <4>2, <4>5 DEF L!Throw
    <3> QED BY <3>1, <3>2
  <2>5. CASE ~session
    <3>1. Counted = {} /\ Counted' = {}
      BY <2>1, <2>5 DEF IInv, CountingSound, Counted
    <3>2. OpenVisit' = OpenVisit
      BY <3>1, VisitIs, NextVisitIs
    <3>3. Summary(committed)' = Summary(committed)
      <4>1. Worth(CountedHits) = 0 /\ Cardinality(Counted) = 0
        BY <3>1, VisitIs DEF OpenVisit, L!Nil
      <4>2. /\ Snapshot.darts = committed.darts /\ Snapshot.points = committed.points
        BY <4>1 DEF Snapshot, IInv, TypeOK, Totals
      <4> QED BY <1>5, <1>11, <4>2 DEF Summary
    <3> QED BY <2>1, <2>2, <2>3, <2>5, <3>2, <3>3 DEF L!Throw
  <2> QED BY <1>2, <2>4, <2>5
<1>12. CASE ~starts /\ ~(n > 0)
  <2>1. ~missed /\ committed' = committed /\ session' = session /\ history' = history
    BY <1>2, <1>5, <1>7, <1>12
  <2>2. Cardinality(Counted') <= Cardinality(Counted)
    BY <1>6, <1>8, <1>9, <1>12, <2>1
  <2>3. n = 0 /\ IsFiniteSet(Heard("dart_detected")')
    <3>1. n = 0
      BY <1>1, <1>12
    <3>2. events' \in Seq(Kinds)
      BY <1>2, TakeDartsEvents
    <3>3. DOMAIN events' = 1..Len(events') /\ Len(events') \in Nat
      BY <3>2, LenProperties
    <3>4. IsFiniteSet(1..Len(events'))
      BY <3>3, FS_Interval
    <3>5. Heard("dart_detected")' \subseteq 1..Len(events')
      BY <3>3 DEF Heard
    <3> QED BY <3>1, <3>4, <3>5, FS_Subset
  <2>4. Silent
    BY <1>1, <1>12, <2>3, FS_EmptySet DEF Silent, n, starts
  <2> QED BY <2>1, <2>2, <2>4, Revises
<1> QED BY <1>10, <1>11, <1>12

\* Every operation is one of Ledger, or stutters.
LEMMA OperatesLedger ==
    ASSUME IInv, Shelf, Operates
    PROVE  L!Next
<1>0. IInv'
  BY OperationIInv
<1>1. ASSUME NEW state \in States, Observe(state)
      PROVE  L!Next
  <2>0. state.throws # NoSegments => state.throws \in Throws
    BY DEF States
  <2>1. CASE Ignore(state)
    <3>1. Counted' = Counted /\ UNCHANGED <<session, history, committed>> /\ events' = <<>>
      BY <2>1 DEF Ignore, board, Counted
    <3>2. Cardinality(Counted') <= Cardinality(Counted)
      BY <3>1, VisitIs
    <3>3. Silent
      BY <3>1 DEF Silent, Heard, Says
    <3> QED BY <1>0, <3>1, <3>2, <3>3, Revises DEF L!Next
  <2>2. CASE Baseline(state)
    <3>1. committed' = Snapshot /\ Counted' = {} /\ events' \in {<<>>, VisitEvents}
      BY <2>0, <2>2, RestIsQuiet DEF Baseline, Commit
    <3>2. UNCHANGED <<session, history>> /\ Silent
      BY <2>2, <3>1, VisitIsOneEvent DEF Baseline, Silent
    <3> QED BY <1>0, <3>1, <3>2, Closes DEF L!Next
  <2>3. CASE RemoveDarts(state)
    <3>1. committed' = Snapshot /\ Counted' = {} /\ events' \in {<<>>, VisitEvents}
      BY <2>0, <2>3, RestIsQuiet DEF RemoveDarts, Commit, Live
    <3>2. UNCHANGED <<session, history>> /\ Silent
      BY <2>3, <3>1, VisitIsOneEvent DEF RemoveDarts, Silent
    <3> QED BY <1>0, <3>1, <3>2, Closes DEF L!Next
  <2>4. CASE Withdraw(state)
    <3>1. UNCHANGED <<session, history, committed>> /\ events' = <<>>
      BY <2>4 DEF Withdraw
    <3>2. Silent
      BY <3>1 DEF Silent, Heard, Says
    <3>3. Cardinality(Counted') <= Cardinality(Counted)
      BY <2>4, WithdrawCounts
    <3> QED BY <1>0, <3>1, <3>2, <3>3, Revises DEF L!Next
  <2>5. CASE StillRemoving(state)
    <3>1. Counted' = {} /\ UNCHANGED <<session, history, committed>> /\ events' = <<>>
      BY <2>0, <2>5, RestIsQuiet DEF StillRemoving, Live
    <3>2. Silent
      BY <3>1 DEF Silent, Heard, Says
    <3>3. Cardinality(Counted') <= Cardinality(Counted)
      BY <1>0, <3>1, VisitIs, NextVisitIs
    <3> QED BY <1>0, <3>1, <3>2, <3>3, Revises DEF L!Next
  <2>6. CASE TakeDarts(state)
    BY <1>0, <2>6, TakesDarts DEF L!Next
  <2> QED BY <1>1, <2>1, <2>2, <2>3, <2>4, <2>5, <2>6 DEF Observe
<1>2. CASE Forget \/ Restart
  <2>1. /\ committed' = Snapshot /\ Counted' = {} /\ events' = <<>>
        /\ UNCHANGED <<session, history>>
    BY <1>2, EmptyVisit, RestIsQuiet DEF Forget, Commit, Restart
  <2>2. Silent
    BY <2>1 DEF Silent, Heard, Says
  <2> QED BY <1>0, <2>1, <2>2, Closes DEF L!Next
<1>3. CASE SetAutoStart
  <2>1. Counted' = Counted /\ UNCHANGED <<session, history, committed>> /\ events' = <<>>
    BY <1>3 DEF SetAutoStart, board, Counted
  <2>2. Cardinality(Counted') <= Cardinality(Counted)
    BY <2>1, VisitIs
  <2>3. Silent
    BY <2>1 DEF Silent, Heard, Says
  <2> QED BY <1>0, <2>1, <2>2, <2>3, Revises DEF L!Next
<1>4. CASE Start \/ End \/ NewSession
  <2>1. /\ Heard("dart_detected")' = {} /\ Cardinality(Heard("dart_detected")') = 0
        /\ Says("session_started")' <=> Start \/ NewSession
        /\ Says("session_ended")' <=> End \/ (NewSession /\ session)
    BY <1>4, OtherEvents, FS_EmptySet
  <2>2. /\ Counted' = {} /\ session \in BOOLEAN
        /\ committed' = IF End THEN Snapshot ELSE ZeroTotals
    BY <1>4 DEF Start, End, NewSession, AllFalse, Counted, IInv, TypeOK
  <2>3. OpenVisit' = L!Nil /\ L!IsVisit(OpenVisit', 0)
    BY <1>0, <2>2, NextVisitIs
  <2>4. Summary(ZeroTotals) = L!Nil /\ L!Total = Summary(Snapshot) /\ L!Archived = Finished
    BY VisitIs, Archives DEF Summary, ZeroTotals, L!Nil
  <2> HIDE DEF Snapshot, Finished
  <2>5. CASE End
    <3>1. session /\ session' = FALSE /\ history' = Finished /\ ~Start /\ ~NewSession
      BY <2>5 DEF End, Start, NewSession
    <3>2. L!Tells(0, FALSE, TRUE)
      BY <2>1, <2>5, <3>1, ToldIs
    <3>3. Summary(committed)' = L!Total
      BY <2>2, <2>4, <2>5 DEF Summary
    <3> QED BY <2>3, <2>4, <3>1, <3>2, <3>3 DEF L!End, L!Next
  <2>6. CASE ~End /\ ~session
    <3>1. session' = TRUE /\ history' = history /\ (Start \/ NewSession)
      BY <1>4, <2>6 DEF Start, NewSession
    <3>2. L!Tells(0, TRUE, FALSE) /\ Announced'.darts = 0
      BY <2>1, <2>6, <3>1, ToldIs
    <3>3. Summary(committed)' = L!Nil
      BY <2>2, <2>4, <2>6 DEF Summary
    <3>4. Announced'.darts \in Nat /\ L!IsVisit(OpenVisit', Announced'.darts)
      BY <2>3, <3>2
    <3>5. L!Tells(Announced'.darts, TRUE, FALSE)
      BY <3>2
    <3>6. L!Begin
      BY <2>6, <3>1, <3>3, <3>4, <3>5 DEF L!Begin
    <3> QED BY <3>6 DEF L!Next
  <2>7. CASE ~End /\ session
    <3>1. session' = TRUE /\ history' = Finished /\ NewSession
      BY <1>4, <2>7 DEF Start, NewSession
    <3>2. L!Tells(0, TRUE, TRUE)
      BY <2>1, <2>7, <3>1, ToldIs
    <3>3. Summary(committed)' = L!Nil
      BY <2>2, <2>4, <2>7 DEF Summary
    <3> QED BY <2>3, <2>4, <2>7, <3>1, <3>2, <3>3 DEF L!Renew, L!Next
  <2> QED BY <2>2, <2>5, <2>6, <2>7
<1> QED BY <1>1, <1>2, <1>3, <1>4 DEF Operates

\* Initially nothing is counted and nothing was announced.
LEMMA InitLedger == Init => L!Init /\ Shelf
<1> SUFFICES ASSUME Init PROVE L!Init /\ Shelf
  OBVIOUS
<1>1. IInv
  BY InitIInv
<1>2. /\ active = <<>> /\ session = TRUE /\ committed = ZeroTotals
      /\ history = <<>> /\ events = <<>>
  BY DEF Init
<1>3. Counted = {}
  BY <1>2 DEF Counted
<1>4. OpenVisit = L!Nil /\ Summary(committed) = L!Nil
  BY <1>1, <1>2, <1>3, VisitIs DEF Summary, ZeroTotals, L!Nil
<1>5. Announced = [darts |-> 0, start |-> FALSE, end |-> FALSE]
  <2>1. Heard("dart_detected") = {} /\ Says("session_started") = FALSE /\ Says("session_ended") = FALSE
    BY <1>2 DEF Heard, Says
  <2> QED BY <2>1, FS_EmptySet DEF Announced
<1>6. Shelf
  BY <1>2, EmptySeq DEF Shelf
<1> QED BY <1>2, <1>4, <1>5, <1>6 DEF L!Init

\* A step that leaves the session alone leaves its ledger alone.
LEMMA LedgerStutters ==
    ASSUME UNCHANGED vars
    PROVE  UNCHANGED L!ledger
BY DEF vars, L!ledger, Summary, OpenVisit, Announced, Counted, CountedHits, Heard, Says

\* The history stays a list of summaries.
LEMMA OperationShelf ==
    ASSUME IInv, Shelf, Operates \/ UNCHANGED vars
    PROVE  Shelf'
<1>1. history' \in {history, Finished}
  BY DEF Operates, Observe, Ignore, Baseline, RemoveDarts, Withdraw, StillRemoving, TakeDarts,
         Forget, Start, End, NewSession, SetAutoStart, Restart, vars
<1>2. Finished \in Seq(Summaries)
  BY FinishedFirst DEF IInv
<1> QED BY <1>1, <1>2 DEF Shelf

\* The session of training.py implements the ledger: whatever the board shows
\* and whoever starts and ends sessions meanwhile, each announced dart counts
\* once, in the session that runs after it, and what is closed stays.
THEOREM SessionIsLedger == Spec => ImplementsLedger
<1>1. IInv /\ Shelf /\ [Next]_vars => (IInv /\ Shelf)' /\ [L!Next]_(L!ledger)
  <2> SUFFICES ASSUME IInv, Shelf, [Next]_vars
               PROVE  (IInv /\ Shelf)' /\ [L!Next]_(L!ledger)
    OBVIOUS
  <2>1. Operates \/ UNCHANGED vars
    BY StepOperates
  <2> QED BY <2>1, OperationIInv, OperationShelf, OperatesLedger, LedgerStutters
<1> QED BY <1>1, InitIInv, InitLedger, PTL DEF Spec, ImplementsLedger, L!Spec

\* Ledger's own account: types, nothing open without a session, and no empty
\* session in the history.
LedgerInv ==
    /\ Summary(committed) \in Summaries /\ OpenVisit \in Summaries
    /\ ~session => OpenVisit = L!Nil
    /\ history \in Seq([darts : Nat \ {0}, points : Nat]) /\ Len(history) <= HistorySize

\* What Ledger promises, on its own.
THEOREM LedgerIsSound == L!Spec => []L!SessionsFit
<1> DEFINE Kept == [darts : Nat \ {0}, points : Nat]
<1>1. L!Init => LedgerInv
  <2>1. L!Nil \in Summaries
    BY DEF L!Nil, Summaries
  <2>2. <<>> \in Seq(Kept) /\ Len(<<>>) = 0
    BY EmptySeq
  <2> QED BY <2>1, <2>2, BoundAssumption DEF L!Init, LedgerInv
<1>2. LedgerInv /\ [L!Next]_(L!ledger) => LedgerInv'
  <2> SUFFICES ASSUME LedgerInv, [L!Next]_(L!ledger) PROVE LedgerInv'
    OBVIOUS
  <2>1. /\ L!Nil \in Summaries /\ L!Total \in Summaries
        /\ OpenVisit.darts \in Nat
        /\ \A n \in Nat : L!IsVisit(OpenVisit', n) => OpenVisit' \in Summaries
        /\ L!IsVisit(OpenVisit', 0) => OpenVisit' = L!Nil
    BY DEF LedgerInv, Summaries, L!Nil, L!Total, L!IsVisit
  <2>2. L!Archived \in Seq(Kept) /\ Len(L!Archived) <= HistorySize
    <3>1. history \in Seq(Kept) /\ Len(history) <= HistorySize /\ HistorySize \in Nat \ {0}
      BY BoundAssumption DEF LedgerInv
    <3>2. CASE L!Total.darts = 0
      BY <3>1, <3>2 DEF L!Archived
    <3>3. CASE L!Total.darts # 0
      <4>1. L!Total \in Kept
        BY <2>1, <3>3 DEF Summaries
      <4>2. L!Archived = Keep(<<L!Total>> \o history, HistorySize)
        BY <3>3 DEF L!Archived, Keep
      <4> HIDE DEF Kept
      <4> QED BY <3>1, <4>1, <4>2, KeepsFirst
    <3> QED BY <3>2, <3>3
  <2>3. CASE L!Close
    BY <2>1, <2>3 DEF L!Close, LedgerInv
  <2>4. CASE L!Revise
    <3>1. PICK n \in 0..OpenVisit.darts : L!IsVisit(OpenVisit', n)
      BY <2>4 DEF L!Revise
    <3>2. n \in Nat
      BY <2>1, <3>1
    <3>3. ~session => OpenVisit.darts = 0
      BY DEF LedgerInv, L!Nil
    <3>4. ~session => n = 0
      BY <3>1, <3>3
    <3> QED BY <2>1, <2>4, <3>1, <3>2, <3>4 DEF L!Revise, LedgerInv
  <2>5. CASE L!Throw
    <3>1. OpenVisit.darts + Announced'.darts \in Nat /\ Announced'.darts \in Nat
      BY <2>1, <2>5 DEF L!Throw
    <3>2. OpenVisit' \in Summaries
      BY <2>1, <2>5, <3>1 DEF L!Throw, LedgerInv
    <3>3. Summary(committed)' \in Summaries
      BY <2>1, <2>5 DEF L!Throw, LedgerInv
    <3>4. ~session' => OpenVisit' = L!Nil
      BY <2>5 DEF L!Throw, LedgerInv
    <3> QED BY <2>5, <3>2, <3>3, <3>4 DEF L!Throw, LedgerInv
  <2>6. CASE L!Begin
    <3>1. OpenVisit' \in Summaries /\ Summary(committed)' = L!Nil /\ session' = TRUE
      BY <2>1, <2>6 DEF L!Begin
    <3> QED BY <2>1, <2>6, <3>1 DEF L!Begin, LedgerInv
  <2>7. CASE L!End
    BY <2>1, <2>2, <2>7 DEF L!End, LedgerInv
  <2>8. CASE L!Renew
    BY <2>1, <2>2, <2>8 DEF L!Renew, LedgerInv
  <2>9. CASE UNCHANGED L!ledger
    BY <2>9 DEF L!ledger, LedgerInv
  <2> QED BY <2>3, <2>4, <2>5, <2>6, <2>7, <2>8, <2>9 DEF L!Next
<1>3. LedgerInv => L!SessionsFit
  <2> SUFFICES ASSUME LedgerInv PROVE L!SessionsFit
    OBVIOUS
  <2>1. history \in Seq(Kept) /\ DOMAIN history = 1..Len(history)
    BY LenProperties DEF LedgerInv
  <2>2. ASSUME NEW i \in DOMAIN history PROVE history[i].darts > 0
    <3>1. history[i] \in Kept
      BY <2>1, <2>2, ElementOfSeq
    <3> QED BY <3>1
  <2> QED BY <2>2 DEF LedgerInv, L!SessionsFit
<1> QED BY <1>1, <1>2, <1>3, PTL DEF L!Spec

-----------------------------------------------------------------------------
(* Polls and the event stream.                                             *)

Ids(r) == {r.darts[i].id : i \in DOMAIN r.darts}

IsReport(r) ==
    /\ r \in Report
    /\ Len(r.darts) <= MaxThrows
    /\ \A i, j \in DOMAIN r.darts : r.darts[i].id = r.darts[j].id => i = j

\* What may still be observed: messages, an answer that counts, what the board
\* sees now; and what was observed last.
Answers == IF poll = "answered" /\ ~overtaken THEN {answer} ELSE {}
Pending == {queue[i] : i \in DOMAIN queue} \cup Answers \cup {report}
Line == IF shown = Nobody THEN Pending ELSE Pending \cup {shown}

LinkTypes ==
    /\ \A r \in Line : IsReport(r) /\ Ids(r) \subseteq 1..thrown
    /\ queue \in Seq(Report)
    /\ thrown \in 0..MaxThrown /\ followed \subseteq 1..thrown
    /\ link \in {"up", "broken", "down"}
    /\ overtaken \in BOOLEAN /\ available \in BOOLEAN /\ fixing \in BOOLEAN

\* No message is missing between two others; while the stream is up they lead
\* to the report; and what is shown is older than what is pending.
Ordered ==
    /\ \A i, j \in DOMAIN queue : queue[i].version + j = queue[j].version + i
    /\ link = "up" =>
         \A i \in DOMAIN queue : queue[i].version = (report.version - Len(queue)) + i
    /\ link = "down" => queue = <<>> /\ followed = {}
    /\ \A r \in Line : r.version <= report.version
    /\ shown # Nobody => \A r \in Line : shown.version <= r.version
    /\ shown # Nobody => \A i \in DOMAIN queue : shown.version < queue[i].version
    /\ \A p, q \in Line : p.version = q.version => p = q

Between == \A p, q, r \in Line :
    p.version <= q.version /\ q.version <= r.version => Ids(p) \cap Ids(r) \subseteq Ids(q)

Down == \A p, q \in Line : p.version <= q.version =>
    \A i \in DOMAIN p.darts, j \in DOMAIN q.darts :
        p.darts[i].id = q.darts[j].id => j <= i

Beds(r) == StateOf(r).throws

Stays == \A p, q \in Line : p.version < q.version /\ q.status = "throw" =>
    \/ Ids(p) \cap Ids(q) \subseteq left
    \/ Len(p.darts) <= Len(q.darts)
    \/ fixing /\ UpToDate /\ (q.version = p.version + 1 => Contains(Beds(p), Beds(q)))

\* A dart that was announced is not in a later report unless it is in all
\* between.
Seen ==
    /\ detected \in [1..MaxThrown -> Nat]
    /\ \A d \in 1..MaxThrown : detected[d] > 0 =>
         /\ d <= thrown
         /\ \A q, r \in Line : q.version <= r.version /\ d \in Ids(r) => d \in Ids(q)

LinkInv ==
    /\ LinkTypes /\ BaselineIsShown /\ Ordered /\ Between /\ Down /\ Stays /\ Seen /\ CountedOnce

\* A dart that is new in a report is its last one.
Grows == \A p, q \in Line : q.version = p.version + 1 =>
    \A j \in DOMAIN q.darts : q.darts[j].id \notin Ids(p) =>
        q.running /\ q.status = "throw" /\ j = Len(p.darts) + 1

\* A followed dart is announced, or the message of its throw is under way and
\* nothing is missing before it.
Follows == \A d \in followed :
    \/ detected[d] > 0
    \/ /\ shown # Nobody /\ initialized
       /\ \E i \in DOMAIN queue :
            /\ d \in Ids(queue[i])
            /\ queue[i].version = shown.version + i
            /\ \A r \in Line : r.version < queue[i].version => d \notin Ids(r)

-----------------------------------------------------------------------------
(* Lists of darts.                                                         *)

\* A set of numbers has a least one.
LEMMA LeastOf ==
    ASSUME NEW S, S \subseteq Nat, S # {}
    PROVE  \E n \in S : \A m \in S : n <= m
<1> DEFINE R == StrictSubsetOrdering(Nat)
           F == FiniteSubsetsOf(Nat)
           T == {0..n : n \in S}
<1>1. IsWellFoundedOn(R, F)
  BY FS_StrictSubsetOrderingWellFounded
<1>2. T \subseteq F /\ T # {}
  <2>1. ASSUME NEW n \in S
        PROVE  0..n \in F
    BY FS_Interval DEF FiniteSubsetsOf
  <2> QED BY <2>1
<1>3. \E x \in T : \A y \in T : ~ (<<y, x>> \in R)
  <2> HIDE DEF R, F, T
  <2> QED BY <1>1, <1>2, WFMin
<1>4. PICK n \in S : \A m \in S : ~ (<<0..m, 0..n>> \in R)
  BY <1>3
<1>5. ASSUME NEW m \in S, m < n
      PROVE  <<0..m, 0..n>> \in R
  BY <1>5 DEF StrictSubsetOrdering
<1>6. ASSUME NEW m \in S
      PROVE  n <= m
  <2>1. ~ (m < n)
    BY <1>4, <1>5
  <2>2. m \in Nat /\ n \in Nat
    OBVIOUS
  <2> QED BY <2>1, <2>2
<1> QED BY <1>6

\* A bounded set of numbers has a greatest one.
LEMMA GreatestOf ==
    ASSUME NEW k \in Nat, NEW S, S \subseteq 0..k, S # {}
    PROVE  \E n \in S : \A m \in S : m <= n
<1> DEFINE T == {k - n : n \in S}
<1>1. \A m \in S : m \in 0..k
  OBVIOUS
<1>2. \A m \in S : m \in Nat /\ m <= k /\ k - m \in Nat
  BY <1>1
<1>3. T \subseteq Nat /\ T # {}
  BY <1>2
<1>4. PICK t \in T : \A u \in T : t <= u
  <2> HIDE DEF T
  <2> QED BY <1>3, LeastOf
<1>5. PICK n \in S : t = k - n
  OBVIOUS
<1>6. \A m \in S : k - n <= k - m
  BY <1>4, <1>5
<1>7. \A m \in S : m <= n
  BY <1>2, <1>6
<1> QED BY <1>7

\* The darts without one of them.
LEMMA WithoutOne ==
    ASSUME NEW S, NEW s \in Seq(S), NEW i \in DOMAIN s
    PROVE  /\ Without(s, i) \in Seq(S)
           /\ Len(s) \in Nat \ {0} /\ Len(Without(s, i)) = Len(s) - 1
           /\ i \in 1..Len(s)
           /\ \A j \in 1..(Len(s) - 1) : Without(s, i)[j] = IF j < i THEN s[j] ELSE s[j + 1]
<1>1. Len(s) \in Nat /\ i \in 1..Len(s) /\ \A j \in 1..Len(s) : s[j] \in S
  BY LenProperties, ElementOfSeq
<1> DEFINE a == SubSeq(s, 1, i - 1)
           b == SubSeq(s, i + 1, Len(s))
<1>2. a \in Seq(S) /\ Len(a) = i - 1 /\ \A j \in 1..(i - 1) : a[j] = s[j]
  <2>1. \A j \in 1..(i - 1) : s[j] \in S
    BY <1>1
  <2>2. 1 \in Int /\ i - 1 \in Int
    BY <1>1
  <2>3. /\ a \in Seq(S) /\ Len(a) = IF 1 <= i - 1 THEN i - 1 - 1 + 1 ELSE 0
        /\ \A j \in 1..(i - 1 - 1 + 1) : a[j] = s[1 + j - 1]
    BY <2>1, <2>2, SubSeqProperties
  <2> HIDE DEF a
  <2> QED BY <1>1, <2>3
<1>3. b \in Seq(S) /\ Len(b) = Len(s) - i /\ \A j \in 1..(Len(s) - i) : b[j] = s[i + j]
  <2>1. \A j \in (i + 1)..Len(s) : s[j] \in S
    BY <1>1
  <2>2. i + 1 \in Int /\ Len(s) \in Int
    BY <1>1
  <2>3. /\ b \in Seq(S) /\ Len(b) = IF i + 1 <= Len(s) THEN Len(s) - (i + 1) + 1 ELSE 0
        /\ \A j \in 1..(Len(s) - (i + 1) + 1) : b[j] = s[i + 1 + j - 1]
    BY <2>1, <2>2, SubSeqProperties
  <2> HIDE DEF b
  <2>4. Len(s) - (i + 1) + 1 = Len(s) - i /\ \A j \in 1..(Len(s) - i) : i + 1 + j - 1 = i + j
    BY <1>1
  <2> QED BY <1>1, <2>3, <2>4
<1> HIDE DEF a, b
<1>4. /\ a \o b \in Seq(S) /\ Len(a \o b) = Len(a) + Len(b)
      /\ \A j \in 1..(Len(a) + Len(b)) : (a \o b)[j] = IF j <= Len(a) THEN a[j] ELSE b[j - Len(a)]
  BY <1>2, <1>3, ConcatProperties
<1>5. Without(s, i) = a \o b
  BY DEF Without, a, b
<1>7. Len(a) + Len(b) = Len(s) - 1
  BY <1>1, <1>2, <1>3
<1>6. ASSUME NEW j \in 1..(Len(s) - 1)
      PROVE  (a \o b)[j] = IF j < i THEN s[j] ELSE s[j + 1]
  <2>1. j \in 1..(Len(a) + Len(b))
    BY <1>1, <1>2, <1>3
  <2>2. CASE j < i
    BY <1>1, <1>2, <1>4, <2>1, <2>2
  <2>3. CASE ~(j < i)
    <3>1. j - Len(a) \in 1..(Len(s) - i) /\ i + (j - Len(a)) = j + 1 /\ ~(j <= Len(a))
      BY <1>1, <1>2, <2>3
    <3> QED BY <1>1, <1>3, <1>4, <2>1, <2>3, <3>1
  <2> QED BY <2>2, <2>3
<1>8. Without(s, i) \in Seq(S) /\ Len(Without(s, i)) = Len(s) - 1
  BY <1>4, <1>5, <1>7
<1> QED BY <1>1, <1>5, <1>6, <1>8

\* The greatest place from i to j where a list has b.
Latest(a, b, i, j) ==
    CHOOSE k \in i..j : a[k] = b /\ \A m \in i..j : a[m] = b => m <= k

\* It exists if the list has b at place i.
LEMMA LatestIs ==
    ASSUME NEW a, NEW i \in Nat, NEW j \in Nat, i <= j
    PROVE  LET k == Latest(a, a[i], i, j) IN
           k \in i..j /\ a[k] = a[i] /\ \A m \in i..j : a[m] = a[i] => m <= k
<1> DEFINE P == {k \in i..j : a[k] = a[i]}
<1>1. P \subseteq 0..j /\ i \in P
  OBVIOUS
<1>2. PICK k \in P : \A m \in P : m <= k
  <2> HIDE DEF P
  <2> QED BY <1>1, GreatestOf
<1>3. \E x \in i..j : a[x] = a[i] /\ \A m \in i..j : a[m] = a[i] => m <= x
  BY <1>2
<1> QED BY <1>3 DEF Latest

\* A list without one of its members is found in it, member by member.
LEMMA WithoutIsContained ==
    ASSUME NEW a, NEW n \in Nat, DOMAIN a = 1..n, NEW i \in 1..n,
           NEW o, DOMAIN o = 1..(n - 1),
           \A j \in 1..(n - 1) : o[j] = IF j < i THEN a[j] ELSE a[j + 1]
    PROVE  Contains(a, o)
<1> DEFINE b == a[i]
           g(j) == Latest(a, b, i, j)
           h(j) == IF j < i THEN j ELSE IF a[j + 1] = b THEN g(j) ELSE j + 1
           m == [j \in 1..(n - 1) |-> h(j)]
<1>1. i \in Nat /\ 1 <= i /\ i <= n /\ \A j \in 1..(n - 1) : j \in Nat
  OBVIOUS
<1>2. \A j \in 1..(n - 1) : i <= j =>
        g(j) \in i..j /\ a[g(j)] = b /\ \A k \in i..j : a[k] = b => k <= g(j)
  BY <1>1, LatestIs
<1> HIDE DEF g
<1>3. \A j \in 1..(n - 1) : h(j) \in 1..n
  BY <1>1, <1>2
<1>4. m \in [DOMAIN o -> DOMAIN a] /\ \A j \in 1..(n - 1) : m[j] = h(j)
  BY <1>3
<1>5. \A j \in 1..(n - 1) : a[h(j)] = o[j]
  BY <1>1, <1>2
<1>6. ASSUME NEW j \in 1..(n - 1), NEW k \in 1..(j - 1)
      PROVE  h(k) # h(j)
  <2>0. k \in 1..(n - 1) /\ k < j /\ j \in Nat /\ k \in Nat
    OBVIOUS
  <2>1. CASE j < i
    BY <1>1, <2>0, <2>1
  <2>2. CASE i <= j /\ k < i
    BY <1>1, <1>2, <2>0, <2>2
  <2>3. CASE i <= k /\ a[j + 1] # b
    <3>1. h(j) = j + 1 /\ h(k) <= k + 1
      BY <1>1, <1>2, <2>0, <2>3
    <3>2. h(k) \in Nat
      BY <1>3, <2>0
    <3> QED BY <2>0, <3>1, <3>2
  <2>4. CASE i <= k /\ a[j + 1] = b /\ a[k + 1] # b
    <3>1. h(j) = g(j) /\ h(k) = k + 1 /\ a[g(j)] = b
      BY <1>1, <1>2, <2>0, <2>4
    <3> QED BY <2>4, <3>1
  <2>5. CASE i <= k /\ a[j + 1] = b /\ a[k + 1] = b
    <3>1. h(j) = g(j) /\ h(k) = g(k) /\ g(k) \in i..k /\ k + 1 \in i..j
      BY <1>1, <1>2, <2>0, <2>5
    <3>2. k + 1 <= g(j) /\ g(j) \in i..j
      BY SMTT(30), <1>1, <1>2, <2>0, <2>5, <3>1
    <3> QED BY <1>1, <2>0, <3>1, <3>2
  <2> QED BY <1>1, <2>0, <2>1, <2>2, <2>3, <2>4, <2>5
<1>7. ASSUME NEW j \in 1..(n - 1), NEW x \in 1..(h(j) - 1), a[x] = o[j]
      PROVE  \E k \in 1..(j - 1) : h(k) = x
  <2>0. x \in Nat /\ x < h(j) /\ h(j) \in 1..n /\ j \in Nat /\ 1 <= x
    BY <1>3
  <2>1. CASE x < i /\ x < j
    <3>1. h(x) = x /\ x \in 1..(j - 1)
      BY <1>1, <2>0, <2>1
    <3> QED BY <3>1
  <2>2. CASE j < i
    <3>1. h(j) = j
      BY <2>2
    <3> QED BY <2>0, <2>1, <2>2, <3>1, <1>1
  <2>3. CASE i <= j /\ a[j + 1] # b /\ i <= x
    <3>1. h(j) = j + 1 /\ o[j] = a[j + 1] /\ a[x] # b
      BY <1>1, <1>7, <2>0, <2>3
    <3>2. x # i /\ x - 1 \in 1..(j - 1) /\ i <= x - 1 /\ (x - 1) + 1 = x
      BY <1>1, <2>0, <2>3, <3>1
    <3>3. h(x - 1) = x
      BY <1>1, <2>0, <3>1, <3>2
    <3> QED BY <3>2, <3>3
  <2>4. CASE i <= j /\ a[j + 1] = b /\ i <= x
    <3>1. /\ h(j) = g(j) /\ o[j] = b /\ a[x] = b
          /\ g(j) \in i..j /\ a[g(j)] = b /\ x < g(j)
      BY <1>1, <1>2, <1>7, <2>0, <2>4
    <3> DEFINE Q == {y \in Nat : x < y /\ y <= j /\ a[y] = b}
    <3>2. Q \subseteq Nat /\ g(j) \in Q
      BY <1>1, <2>0, <3>1
    <3>3. PICK z \in Q : \A y \in Q : z <= y
      <4> HIDE DEF Q
      <4> QED BY <3>2, LeastOf
    <3>4. z \in Nat /\ x < z /\ z <= j /\ a[z] = b
      OBVIOUS
    <3>5. z - 1 \in 1..(j - 1) /\ i <= z - 1 /\ (z - 1) + 1 = z /\ x \in i..(z - 1)
      BY <1>1, <2>0, <2>4, <3>4
    <3>6. h(z - 1) = g(z - 1)
      BY <1>1, <3>4, <3>5
    <3>7. /\ g(z - 1) \in i..(z - 1) /\ a[g(z - 1)] = b
          /\ \A k \in i..(z - 1) : a[k] = b => k <= g(z - 1)
      <4>1. z - 1 \in 1..(n - 1)
        BY <2>0, <3>5
      <4> QED BY <1>2, <3>5, <4>1
    <3>8. x <= g(z - 1)
      BY <3>1, <3>5, <3>7
    <3>9. ~(x < g(z - 1))
      <4>1. SUFFICES ASSUME x < g(z - 1) PROVE FALSE
        OBVIOUS
      <4>2. g(z - 1) \in Q
        BY <1>1, <2>0, <3>4, <3>7, <4>1
      <4>3. z <= g(z - 1)
        BY <3>3, <4>2
      <4> QED BY <1>1, <3>4, <3>7, <4>3
    <3>10. g(z - 1) = x
      BY <1>1, <2>0, <3>4, <3>7, <3>8, <3>9
    <3> QED BY <3>5, <3>6, <3>10
  <2>5. i <= j /\ x < i => x < j
    BY <1>1, <2>0
  <2> QED BY <1>1, <2>0, <2>1, <2>2, <2>3, <2>4, <2>5
<1> HIDE DEF h, m
<1>8. ASSUME NEW j \in 1..(n - 1)
      PROVE  /\ a[m[j]] = o[j]
             /\ \A k \in 1..(j - 1) : m[k] # m[j]
             /\ \A x \in 1..(m[j] - 1) :
                  a[x] = o[j] => \E k \in 1..(j - 1) : m[k] = x
  <2>1. \A k \in 1..(j - 1) : k \in 1..(n - 1) /\ m[k] = h(k)
    BY <1>4
  <2>2. m[j] = h(j)
    BY <1>4
  <2>3. a[m[j]] = o[j]
    BY <1>5, <2>2
  <2>4. \A k \in 1..(j - 1) : m[k] # m[j]
    BY <1>6, <2>1, <2>2
  <2>5. ASSUME NEW x \in 1..(m[j] - 1), a[x] = o[j]
        PROVE  \E k \in 1..(j - 1) : m[k] = x
    <3>1. x \in 1..(h(j) - 1)
      BY <2>2
    <3>2. PICK k \in 1..(j - 1) : h(k) = x
      BY <1>7, <2>5, <3>1
    <3> QED BY <2>1, <3>2
  <2> QED BY <2>3, <2>4, <2>5
<1>9. m \in FirstMatches(a, o)
  BY <1>4, <1>8 DEF FirstMatches
<1> QED BY <1>9 DEF Contains
-----------------------------------------------------------------------------
(* A change of the board.                                                  *)

Common(p, q) == Ids(p) \cap Ids(q)

\* What a step of the board does: one more report, whose darts were in the one
\* before, at the same or a later place, but for one new dart at the end.
Changes ==
    /\ report'.version = report.version + 1
    /\ queue' = IF link = "up" THEN Append(queue, report') ELSE queue
    /\ UNCHANGED <<vars, link, pollVars, viewVars, fixing>>
    /\ left \subseteq left'
    /\ IsReport(report')
    /\ thrown' \in {thrown, thrown + 1} /\ thrown' <= MaxThrown
    /\ \A i \in DOMAIN report.darts, j \in DOMAIN report'.darts :
         report.darts[i].id = report'.darts[j].id => j <= i
    /\ \A j \in DOMAIN report'.darts : report'.darts[j].id \notin Ids(report) =>
         /\ report'.darts[j].id = thrown + 1 /\ thrown' = thrown + 1
         /\ report'.running /\ report'.status = "throw" /\ j = Len(report.darts) + 1
    /\ report'.status = "throw" =>
         \/ Common(report, report') \subseteq left'
         \/ /\ report.status = "throw"
            /\ \/ Len(report.darts) <= Len(report'.darts)
               \/ fixing /\ UpToDate /\ Contains(Beds(report), Beds(report'))
    /\ \/ followed' = followed
       \/ /\ followed' = followed \cup {thrown + 1}
          /\ UpToDate /\ thrown' = thrown + 1 /\ thrown + 1 \in Ids(report')

\* A report is a record whose darts are a sequence.
LEMMA ReportParts ==
    ASSUME NEW r, IsReport(r)
    PROVE  /\ r.version \in Nat /\ r.running \in BOOLEAN
           /\ r.status \in {"throw", "takeout"}
           /\ r.darts \in Seq(Dart) /\ Len(r.darts) \in Nat /\ Len(r.darts) <= MaxThrows
           /\ DOMAIN r.darts = 1..Len(r.darts)
           /\ \A i \in DOMAIN r.darts : /\ r.darts[i] \in Dart
                                        /\ r.darts[i].id \in 1..MaxThrown
                                        /\ r.darts[i].bed \in Bed
           /\ \A i, j \in DOMAIN r.darts : r.darts[i].id = r.darts[j].id => i = j
           /\ r # Nobody
<1>1. r \in Report /\ r.darts \in Seq(Dart)
  BY DEF IsReport, Report
<1>2. DOMAIN r.darts = 1..Len(r.darts) /\ Len(r.darts) \in Nat
  BY <1>1, LenProperties
<1>3. \A i \in DOMAIN r.darts : r.darts[i] \in Dart
  BY <1>1, <1>2, ElementOfSeq
<1>4. /\ r.version \in Nat /\ r.running \in BOOLEAN /\ r.status \in {"throw", "takeout"}
      /\ r # Nobody
  BY <1>1, NobodyAssumption DEF Report
<1> QED BY <1>1, <1>2, <1>3, <1>4 DEF IsReport, Dart

\* What Reports makes of its parameters.
LEMMA NewReport ==
    ASSUME report \in Report,
           NEW run \in BOOLEAN, NEW st \in {"throw", "takeout"}, NEW d \in Seq(Dart),
           Len(d) <= MaxThrows,
           \A i, j \in DOMAIN d : d[i].id = d[j].id => i = j,
           Reports(run, st, d)
    PROVE  /\ IsReport(report') /\ report'.version = report.version + 1
           /\ report'.running = run /\ report'.status = st /\ report'.darts = d
           /\ queue' = IF link = "up" THEN Append(queue, report') ELSE queue
           /\ UNCHANGED <<vars, link, pollVars, viewVars>>
<1>1. report' = [version |-> report.version + 1, running |-> run, status |-> st, darts |-> d]
  BY DEF Reports
<1>2. report.version + 1 \in Nat
  BY DEF Report
<1>3. /\ report'.version = report.version + 1 /\ report'.running = run
      /\ report'.status = st /\ report'.darts = d
  BY <1>1
<1>4. report' \in Report
  BY <1>1, <1>2 DEF Report
<1>5. IsReport(report')
  BY <1>3, <1>4 DEF IsReport
<1> QED BY <1>3, <1>5 DEF Reports

\* A dart is thrown.
LEMMA ThrowChanges ==
    ASSUME IsReport(report), Ids(report) \subseteq 1..thrown, thrown \in 0..MaxThrown,
           NEW b \in Bed, Throw(b)
    PROVE  Changes
<1> DEFINE d == report.darts
           x == [id |-> thrown + 1, bed |-> b]
           e == Append(d, x)
<1>1. /\ d \in Seq(Dart) /\ Len(d) \in Nat /\ DOMAIN d = 1..Len(d)
      /\ \A i, j \in DOMAIN d : d[i].id = d[j].id => i = j
      /\ report \in Report
  BY ReportParts DEF IsReport
<1>2. thrown + 1 \in 1..MaxThrown /\ thrown \in Nat
  BY LinkAssumption DEF Throw
<1>3. x \in Dart /\ x.id = thrown + 1
  BY <1>2 DEF Dart
<1> HIDE DEF x
<1>4. /\ e \in Seq(Dart) /\ Len(e) = Len(d) + 1 /\ DOMAIN e = 1..(Len(d) + 1)
      /\ \A i \in 1..Len(d) : e[i] = d[i]
      /\ e[Len(d) + 1] = x
  BY <1>1, <1>3, AppendProperties, LenProperties
<1> HIDE DEF e
<1>5. \A i \in DOMAIN d : d[i].id # thrown + 1
  <2>1. \A i \in DOMAIN d : d[i].id \in 1..thrown
    BY DEF Ids
  <2> QED BY <1>2, <2>1
<1>6. \A i \in DOMAIN e : (i \in DOMAIN d /\ e[i] = d[i]) \/ (i = Len(d) + 1 /\ e[i] = x)
  BY <1>1, <1>4
<1>7. \A i, j \in DOMAIN e : e[i].id = e[j].id => i = j
  BY <1>1, <1>3, <1>5, <1>6
<1>8. Len(e) <= MaxThrows
  BY <1>1, <1>4, BoundAssumption DEF Throw
<1>9. Reports(TRUE, "throw", e)
  BY DEF Throw, e, x
<1>10. /\ IsReport(report') /\ report'.version = report.version + 1
       /\ report'.running = TRUE /\ report'.status = "throw" /\ report'.darts = e
       /\ queue' = IF link = "up" THEN Append(queue, report') ELSE queue
       /\ UNCHANGED <<vars, link, pollVars, viewVars>>
  BY <1>1, <1>4, <1>7, <1>8, <1>9, NewReport
<1>11. /\ thrown' = thrown + 1 /\ left' = left /\ fixing' = fixing
       /\ \/ followed' = followed
          \/ UpToDate /\ followed' = followed \cup {thrown + 1}
  BY DEF Throw
<1>12. \A i \in DOMAIN d, j \in DOMAIN e : d[i].id = e[j].id => j <= i
  <2>1. ASSUME NEW i \in DOMAIN d, NEW j \in DOMAIN e, d[i].id = e[j].id
        PROVE  j <= i
    <3>1. j \in DOMAIN d /\ e[j] = d[j]
      BY <1>3, <1>5, <1>6, <2>1
    <3>2. i = j /\ i \in Nat
      BY <1>1, <2>1, <3>1
    <3> QED BY <3>2
  <2> QED BY <2>1
<1>13. \A j \in DOMAIN e : e[j].id \notin Ids(report) =>
         e[j].id = thrown + 1 /\ j = Len(d) + 1
  BY <1>3, <1>6 DEF Ids
<1>14. report.status = "throw"
  BY DEF Throw, Detects
<1>15. thrown + 1 \in Ids(report')
  <2>1. Len(d) + 1 \in DOMAIN e /\ e[Len(d) + 1].id = thrown + 1
    BY <1>1, <1>3, <1>4
  <2> QED BY <1>10, <2>1 DEF Ids
<1>16. Len(d) <= Len(e)
  BY <1>1, <1>4
<1> QED BY <1>2, <1>10, <1>11, <1>12, <1>13, <1>14, <1>15, <1>16 DEF Changes
\* The board corrects the bed of a dart.
LEMMA CorrectChanges ==
    ASSUME IsReport(report), thrown \in 0..MaxThrown,
           NEW i \in DOMAIN report.darts, NEW b \in Bed, Correct(i, b)
    PROVE  Changes
<1> DEFINE d == report.darts
           e == [d EXCEPT ![i].bed = b]
<1>1. /\ d \in Seq(Dart) /\ Len(d) \in Nat /\ DOMAIN d = 1..Len(d) /\ Len(d) <= MaxThrows
      /\ \A k, j \in DOMAIN d : d[k].id = d[j].id => k = j
      /\ \A k \in DOMAIN d : d[k] \in Dart
      /\ report \in Report
  BY ReportParts DEF IsReport
<1>2. e \in [1..Len(d) -> Dart] /\ \A k \in 1..Len(d) : e[k].id = d[k].id
  <2>1. d \in [1..Len(d) -> Dart]
    BY <1>1
  <2>2. \A k \in 1..Len(d) : e[k] = IF k = i THEN [d[k] EXCEPT !.bed = b] ELSE d[k]
    BY <1>1, <2>1
  <2>3. \A x \in Dart : /\ [x EXCEPT !.bed = b] \in Dart
                        /\ [x EXCEPT !.bed = b].id = x.id
    BY DEF Dart
  <2>4. DOMAIN e = 1..Len(d) /\ e = [k \in 1..Len(d) |-> e[k]]
    BY <1>1, <2>1
  <2>5. \A k \in 1..Len(d) : e[k] \in Dart /\ e[k].id = d[k].id
    BY <1>1, <2>2, <2>3
  <2> HIDE DEF e
  <2> QED BY <2>4, <2>5
<1> HIDE DEF e
<1>3. e \in Seq(Dart) /\ Len(e) = Len(d) /\ DOMAIN e = 1..Len(d)
  <2>1. e \in Seq(Dart)
    BY <1>1, <1>2, SeqDef
  <2> QED BY <1>1, <1>2, <2>1, LenProperties
<1>4. \A k, j \in DOMAIN e : e[k].id = e[j].id => k = j
  BY <1>1, <1>2, <1>3
<1>5. Reports(TRUE, "throw", e)
  BY DEF Correct, e
<1>6. Len(e) <= MaxThrows
  BY <1>1, <1>3
<1>7. /\ IsReport(report') /\ report'.version = report.version + 1
      /\ report'.running = TRUE /\ report'.status = "throw" /\ report'.darts = e
      /\ queue' = IF link = "up" THEN Append(queue, report') ELSE queue
      /\ UNCHANGED <<vars, link, pollVars, viewVars>>
  BY <1>1, <1>3, <1>4, <1>5, <1>6, NewReport
<1>8. /\ thrown' = thrown /\ left' = left /\ fixing' = fixing /\ followed' = followed
      /\ report.status = "throw" /\ thrown <= MaxThrown
  BY LinkAssumption DEF Correct, Detects
<1>9. \A k \in DOMAIN d, j \in DOMAIN e : d[k].id = e[j].id => j <= k
  <2>1. ASSUME NEW k \in DOMAIN d, NEW j \in DOMAIN e, d[k].id = e[j].id
        PROVE  j <= k
    <3>1. j = k /\ k \in Nat
      BY <1>1, <1>2, <1>3, <2>1
    <3> QED BY <3>1
  <2> QED BY <2>1
<1>10. \A j \in DOMAIN e : e[j].id \in Ids(report)
  BY <1>1, <1>2, <1>3 DEF Ids
<1>11. Len(d) <= Len(e)
  BY <1>1, <1>3
<1> QED BY <1>7, <1>8, <1>9, <1>10, <1>11 DEF Changes

\* A dart leaves the list: its detection is withdrawn, or it is pulled.
LEMMA ShorterChanges ==
    ASSUME IsReport(report), thrown \in 0..MaxThrown,
           NEW i \in DOMAIN report.darts, WithdrawDetection(i) \/ Pull(i)
    PROVE  Changes
<1> DEFINE d == report.darts
           e == Without(d, i)
<1>1. /\ d \in Seq(Dart) /\ Len(d) \in Nat /\ DOMAIN d = 1..Len(d) /\ Len(d) <= MaxThrows
      /\ \A k, j \in DOMAIN d : d[k].id = d[j].id => k = j
      /\ report \in Report /\ report.running \in BOOLEAN
  BY ReportParts DEF IsReport
<1>2. /\ e \in Seq(Dart) /\ Len(e) = Len(d) - 1 /\ Len(d) \in Nat \ {0}
      /\ \A j \in 1..(Len(d) - 1) : e[j] = IF j < i THEN d[j] ELSE d[j + 1]
  BY <1>1, WithoutOne
<1> HIDE DEF e
<1>3. DOMAIN e = 1..(Len(d) - 1) /\ Len(e) <= MaxThrows /\ i \in 1..Len(d)
  BY <1>1, <1>2, BoundAssumption, LenProperties
<1>4. ASSUME NEW j \in DOMAIN e
      PROVE  \E k \in DOMAIN d : e[j] = d[k] /\ j <= k /\ k = IF j < i THEN j ELSE j + 1
  <2>1. j \in 1..(Len(d) - 1)
    BY <1>3
  <2>2. CASE j < i
    <3>1. j \in DOMAIN d /\ e[j] = d[j] /\ j <= j
      BY <1>1, <1>2, <2>1, <2>2
    <3> QED BY <2>2, <3>1
  <2>3. CASE ~(j < i)
    <3>1. j + 1 \in DOMAIN d /\ e[j] = d[j + 1] /\ j <= j + 1
      BY <1>1, <1>2, <2>1, <2>3
    <3> QED BY <2>3, <3>1
  <2> QED BY <2>2, <2>3
<1>5. \A k, j \in DOMAIN e : e[k].id = e[j].id => k = j
  <2>1. ASSUME NEW k \in DOMAIN e, NEW j \in DOMAIN e, e[k].id = e[j].id
        PROVE  k = j
    <3>1. PICK x \in DOMAIN d : e[k] = d[x] /\ x = IF k < i THEN k ELSE k + 1
      BY <1>4
    <3>2. PICK y \in DOMAIN d : e[j] = d[y] /\ y = IF j < i THEN j ELSE j + 1
      BY <1>4
    <3>3. x = y
      BY <1>1, <2>1, <3>1, <3>2
    <3>4. k \in Nat /\ j \in Nat /\ i \in Nat
      BY <1>1, <1>3
    <3> QED BY <3>1, <3>2, <3>3, <3>4
  <2> QED BY <2>1
<1>6. \A k \in DOMAIN d, j \in DOMAIN e : d[k].id = e[j].id => j <= k
  BY <1>1, <1>4
<1>7. \A j \in DOMAIN e : e[j].id \in Ids(report)
  BY <1>4 DEF Ids
<1>8. CASE WithdrawDetection(i)
  <2>1. Reports(TRUE, "throw", e)
    BY <1>8 DEF WithdrawDetection, e
  <2>2. /\ IsReport(report') /\ report'.version = report.version + 1
        /\ report'.running = TRUE /\ report'.status = "throw" /\ report'.darts = e
        /\ queue' = IF link = "up" THEN Append(queue, report') ELSE queue
        /\ UNCHANGED <<vars, link, pollVars, viewVars>>
    BY <1>1, <1>2, <1>3, <1>5, <2>1, NewReport
  <2>3. /\ thrown' = thrown /\ left' = left /\ fixing' = fixing /\ followed' = followed
        /\ report.status = "throw" /\ thrown <= MaxThrown /\ fixing /\ UpToDate
    BY <1>8, LinkAssumption DEF WithdrawDetection, Detects, Fixes
  <2>4. Contains(Beds(report), Beds(report'))
    <3> DEFINE a == Beds(report)
               o == Beds(report')
    <3>1. a = [k \in DOMAIN d |-> d[k].bed] /\ o = [k \in DOMAIN e |-> e[k].bed]
      BY <2>2 DEF Beds, StateOf
    <3>2. DOMAIN a = 1..Len(d) /\ DOMAIN o = 1..(Len(d) - 1)
      BY <1>1, <1>3, <3>1
    <3>3. ASSUME NEW j \in 1..(Len(d) - 1)
          PROVE  o[j] = IF j < i THEN a[j] ELSE a[j + 1]
      <4>1. o[j] = e[j].bed
        BY <1>3, <3>1
      <4>2. j \in DOMAIN d /\ j + 1 \in DOMAIN d
        BY <1>1
      <4>3. a[j] = d[j].bed /\ a[j + 1] = d[j + 1].bed
        BY <3>1, <4>2
      <4> QED BY <1>2, <4>1, <4>3
    <3> HIDE DEF a, o
    <3>4. Len(d) \in Nat /\ i \in 1..Len(d)
      BY <1>1, <1>3
    <3>5. \A j \in 1..(Len(d) - 1) : o[j] = IF j < i THEN a[j] ELSE a[j + 1]
      BY <3>3
    <3>6. Contains(a, o)
      BY <3>2, <3>4, <3>5, WithoutIsContained
    <3> QED BY <3>6 DEF a, o
  <2> QED BY <1>6, <1>7, <2>2, <2>3, <2>4 DEF Changes
<1>9. CASE Pull(i)
  <2>1. Reports(report.running, "takeout", e)
    BY <1>9 DEF Pull, e
  <2>2. /\ IsReport(report') /\ report'.version = report.version + 1
        /\ report'.status = "takeout" /\ report'.darts = e
        /\ queue' = IF link = "up" THEN Append(queue, report') ELSE queue
        /\ UNCHANGED <<vars, link, pollVars, viewVars>>
    BY ZenonT(40), <1>1, <1>2, <1>3, <1>5, <2>1, NewReport
  <2>3. /\ thrown' = thrown /\ left' = left /\ fixing' = fixing /\ followed' = followed
        /\ thrown <= MaxThrown
    BY <1>9, LinkAssumption DEF Pull
  <2> QED BY <1>6, <1>7, <2>2, <2>3 DEF Changes
<1> QED BY <1>8, <1>9

\* The status changes and the darts do not.
LEMMA StatusChanges ==
    ASSUME IsReport(report), thrown \in 0..MaxThrown, BeginTakeout \/ EndTakeout \/ Toggle
    PROVE  Changes
<1> DEFINE d == report.darts
           run == IF Toggle THEN ~report.running ELSE report.running
           st == IF BeginTakeout THEN "takeout" ELSE "throw"
<1>1. /\ d \in Seq(Dart) /\ Len(d) \in Nat /\ DOMAIN d = 1..Len(d) /\ Len(d) <= MaxThrows
      /\ \A k, j \in DOMAIN d : d[k].id = d[j].id => k = j
      /\ report \in Report /\ report.running \in BOOLEAN
      /\ report.status \in {"throw", "takeout"}
  BY ReportParts DEF IsReport
<1>2. PICK r \in BOOLEAN, s \in {"throw", "takeout"} :
        /\ Reports(r, s, d)
        /\ s = "throw" => Leaves
        /\ s = "takeout" => left' = left
  BY <1>1 DEF BeginTakeout, EndTakeout, Toggle, Detects
<1>3. /\ IsReport(report') /\ report'.version = report.version + 1
      /\ report'.status = s /\ report'.darts = d
      /\ queue' = IF link = "up" THEN Append(queue, report') ELSE queue
      /\ UNCHANGED <<vars, link, pollVars, viewVars>>
  BY <1>1, <1>2, NewReport
<1>4. /\ thrown' = thrown /\ fixing' = fixing /\ followed' = followed
      /\ thrown <= MaxThrown
  <2>1. thrown <= MaxThrown
    BY LinkAssumption
  <2>2. BeginTakeout => thrown' = thrown /\ fixing' = fixing /\ followed' = followed
    BY DEF BeginTakeout
  <2>3. EndTakeout => thrown' = thrown /\ fixing' = fixing /\ followed' = followed
    BY DEF EndTakeout
  <2>4. Toggle => thrown' = thrown /\ fixing' = fixing /\ followed' = followed
    BY DEF Toggle
  <2> QED BY <2>1, <2>2, <2>3, <2>4
<1>5. left \subseteq left'
  BY <1>2 DEF Leaves
<1>6. s = "throw" /\ report.status # "throw" => Common(report, report') \subseteq left'
  BY <1>1, <1>2 DEF Leaves, Common, Ids
<1>7. \A k \in DOMAIN d, j \in DOMAIN d : d[k].id = d[j].id => j <= k
  <2>1. ASSUME NEW k \in DOMAIN d, NEW j \in DOMAIN d, d[k].id = d[j].id
        PROVE  j <= k
    <3>1. j = k /\ k \in Nat
      BY <1>1, <2>1
    <3> QED BY <3>1
  <2> QED BY <2>1
<1>8. \A j \in DOMAIN d : d[j].id \in Ids(report)
  BY DEF Ids
<1>9. Len(d) <= Len(d)
  BY <1>1
<1> QED BY <1>3, <1>4, <1>5, <1>6, <1>7, <1>8, <1>9 DEF Changes

\* Every step of the board.
LEMMA BoardChanges ==
    ASSUME IsReport(report), Ids(report) \subseteq 1..thrown, thrown \in 0..MaxThrown,
           BoardStep
    PROVE  Changes
BY ThrowChanges, CorrectChanges, ShorterChanges, StatusChanges DEF BoardStep
-----------------------------------------------------------------------------
(* An observation.                                                         *)

\* The beds of a report are throws that the session can compare.
LEMMA BedsAreThrows ==
    ASSUME NEW r, IsReport(r)
    PROVE  /\ StateOf(r).throws = Beds(r) /\ StateOf(r).running = r.running
           /\ StateOf(r).status = r.status
           /\ Beds(r) \in Throws /\ Beds(r) # NoSegments
           /\ DOMAIN Beds(r) = DOMAIN r.darts /\ Len(Beds(r)) = Len(r.darts)
           /\ r.darts = <<>> <=> Beds(r) = <<>>
<1> DEFINE o == [i \in DOMAIN r.darts |-> r.darts[i].bed]
           n == Len(r.darts)
<1>1. /\ r.darts \in Seq(Dart) /\ n \in Nat /\ n <= MaxThrows /\ DOMAIN r.darts = 1..n
      /\ \A i \in DOMAIN r.darts : r.darts[i].bed \in Bed
  BY ReportParts
<1>2. StateOf(r).throws = o /\ StateOf(r).running = r.running /\ StateOf(r).status = r.status
  BY DEF StateOf
<1>3. o \in [1..n -> Bed]
  BY <1>1
<1>4. DOMAIN o = DOMAIN r.darts
  OBVIOUS
<1> HIDE DEF o
<1>5. n \in 0..MaxThrows
  BY <1>1, BoundAssumption
<1>6. o \in Throws
  BY <1>3, <1>5 DEF Throws
<1>7. o # NoSegments
  BY <1>3, <1>5, NoSegmentsAssumption
<1>8. o \in Seq(Bed) /\ Len(o) = n
  BY <1>1, <1>3, <1>4, <1>6, ThrowsAreSequences, LenProperties
<1>9. r.darts = <<>> <=> o = <<>>
  BY <1>1, <1>8, EmptySeq
<1> QED BY <1>2, <1>4, <1>6, <1>7, <1>8, <1>9 DEF Beds

\* Whatever an observation does, the session then compares with its report.
LEMMA ObserveShows ==
    ASSUME NEW r, IsReport(r), Observe(StateOf(r))
    PROVE  initialized' /\ active' = Beds(r)
<1>1. StateOf(r).throws = Beds(r) /\ Beds(r) # NoSegments
  BY BedsAreThrows
<1>2. ~Ignore(StateOf(r))
  BY <1>1 DEF Ignore
<1>3. CASE Baseline(StateOf(r))
  BY <1>1, <1>3 DEF Baseline, Rest
<1>4. CASE RemoveDarts(StateOf(r))
  BY <1>1, <1>4 DEF RemoveDarts, Rest, Live
<1>5. CASE Withdraw(StateOf(r))
  BY <1>1, <1>5 DEF Withdraw, Live, flags
<1>6. CASE StillRemoving(StateOf(r))
  BY <1>1, <1>6 DEF StillRemoving, Rest, Live, flags
<1>7. CASE TakeDarts(StateOf(r))
  <2>1. /\ initialized /\ initialized' = initialized
        /\ active' = StateOf(r).throws
    BY <1>7 DEF TakeDarts, Live
  <2> QED BY <1>1, <2>1
<1> QED BY <1>2, <1>3, <1>4, <1>5, <1>6, <1>7 DEF Observe

\* The events of an operation that announce the dart d of the report r.
Hits(r, d) == {i \in DOMAIN events' :
    events'[i].kind = "dart_detected" /\ r.darts[events'[i].n].id = d}

\* Only the dart loop announces darts.
LEMMA OnlyDartsAreNew ==
    ASSUME NEW r, IsReport(r), Observe(StateOf(r)), ~TakeDarts(StateOf(r)), NEW d
    PROVE  Hits(r, d) = {}
<1>1. events' \in {<<>>, VisitEvents}
  BY DEF Observe, Ignore, Baseline, RemoveDarts, Withdraw, StillRemoving
<1>2. Heard("dart_detected")' = {}
  BY <1>1, VisitIsOneEvent
<1>3. \A i \in DOMAIN events' : events'[i].kind # "dart_detected"
  BY <1>2 DEF Heard
<1> QED BY <1>3 DEF Hits

\* The dart loop announces each dart beyond the known ones once.
LEMMA NewDartsOnce ==
    ASSUME active \in Throws, NEW r, IsReport(r), TakeDarts(StateOf(r)), NEW d
    PROVE  /\ Cardinality(Hits(r, d)) \in {0, 1}
           /\ Cardinality(Hits(r, d)) = 1 <=>
                \E j \in DOMAIN r.darts : j > Known(StateOf(r)) /\ r.darts[j].id = d
<1> DEFINE s == StateOf(r)
           n == Len(s.throws) - Known(s)
<1>1. /\ s.throws \in Throws /\ Len(s.throws) = Len(r.darts)
      /\ DOMAIN r.darts = 1..Len(r.darts) /\ Len(r.darts) \in Nat
      /\ \A i, j \in DOMAIN r.darts : r.darts[i].id = r.darts[j].id => i = j
  BY BedsAreThrows, ReportParts
<1>2. n \in Nat /\ Known(s) \in Nat
  BY <1>1, KnownAreFewer
<1>3. PICK k \in Nat :
        /\ DOMAIN events' = 1..(k + n)
        /\ \A i \in 1..k : events'[i].kind # "dart_detected"
        /\ \A i \in 1..n : events'[k + i] = Event("dart_detected", Known(s) + i)
  BY <1>1, TakeDartsEvents
<1>4. ASSUME NEW i \in 1..n
      PROVE  k + i \in Hits(r, d) <=> r.darts[Known(s) + i].id = d
  <2>1. k + i \in DOMAIN events'
    BY <1>2, <1>3
  <2>2. events'[k + i] = Event("dart_detected", Known(s) + i)
    BY <1>3
  <2>3. /\ Event("dart_detected", Known(s) + i).kind = "dart_detected"
        /\ Event("dart_detected", Known(s) + i).n = Known(s) + i
    BY DEF Event
  <2> QED BY <2>1, <2>2, <2>3 DEF Hits
<1>5. ASSUME NEW h \in Hits(r, d)
      PROVE  h - k \in 1..n /\ k + (h - k) = h /\ h \in Int
  <2>1. h \in 1..(k + n) /\ h \notin 1..k
    BY <1>3 DEF Hits
  <2> HIDE DEF n
  <2> QED BY <1>2, <2>1
<1>6. \A i \in 1..n : Known(s) + i \in DOMAIN r.darts /\ Known(s) + i > Known(s)
  BY <1>1, <1>2
<1> HIDE DEF n, s
<1>7. CASE \E j \in DOMAIN r.darts : j > Known(s) /\ r.darts[j].id = d
  <2>1. PICK j \in DOMAIN r.darts : j > Known(s) /\ r.darts[j].id = d
    BY <1>7
  <2>2. j - Known(s) \in 1..n /\ Known(s) + (j - Known(s)) = j
    BY <1>1, <1>2, <2>1 DEF n
  <2>3. k + (j - Known(s)) \in Hits(r, d)
    BY <1>4, <2>1, <2>2
  <2>4. ASSUME NEW h \in Hits(r, d)
        PROVE  h = k + (j - Known(s))
    <3>1. h - k \in 1..n /\ k + (h - k) = h
      BY <1>5
    <3>2. r.darts[Known(s) + (h - k)].id = d
      BY <1>4, <3>1
    <3>3. Known(s) + (h - k) = j
      BY <1>1, <1>6, <2>1, <3>1, <3>2
    <3> QED BY <1>2, <1>5, <2>2, <3>1, <3>3
  <2>5. Hits(r, d) = {k + (j - Known(s))}
    BY <2>3, <2>4
  <2>6. Cardinality(Hits(r, d)) = 1
    BY <2>5, FS_Singleton
  <2> QED BY <1>7, <2>6 DEF s
<1>8. CASE ~(\E j \in DOMAIN r.darts : j > Known(s) /\ r.darts[j].id = d)
  <2>1. Hits(r, d) = {}
    <3>1. ASSUME NEW h \in Hits(r, d)
          PROVE  FALSE
      <4>1. h - k \in 1..n /\ k + (h - k) = h
        BY <1>5
      <4>2. r.darts[Known(s) + (h - k)].id = d
        BY <1>4, <4>1
      <4> QED BY <1>6, <1>8, <4>1, <4>2
    <3> QED BY <3>1
  <2>2. Cardinality(Hits(r, d)) = 0
    BY <2>1, FS_EmptySet
  <2> QED BY <1>8, <2>2 DEF s
<1> QED BY <1>7, <1>8
-----------------------------------------------------------------------------
(* The board keeps the line in order.                                      *)

\* The reports of the line, and what the invariant says of each.
LEMMA LineParts ==
    ASSUME LinkTypes, Ordered
    PROVE  /\ report \in Line /\ (shown # Nobody => shown \in Line)
           /\ \A i \in DOMAIN queue : queue[i] \in Line
           /\ \A r \in Line : /\ IsReport(r) /\ Ids(r) \subseteq 1..thrown
                              /\ r.version \in Nat /\ r.version <= report.version
           /\ Len(queue) \in Nat /\ DOMAIN queue = 1..Len(queue)
<1>1. Len(queue) \in Nat /\ DOMAIN queue = 1..Len(queue)
  BY LenProperties DEF LinkTypes
<1>2. report \in Line /\ (shown # Nobody => shown \in Line)
  BY DEF Line, Pending
<1>3. \A i \in DOMAIN queue : queue[i] \in Line
  BY DEF Line, Pending
<1>4. \A r \in Line : IsReport(r) /\ Ids(r) \subseteq 1..thrown
  BY DEF LinkTypes
<1>5. \A r \in Line : r.version \in Nat
  BY <1>4, ReportParts
<1>6. \A r \in Line : r.version <= report.version
  BY DEF Ordered
<1> QED BY <1>1, <1>2, <1>3, <1>4, <1>5, <1>6

\* A change of the board puts its report at the end of the line.
LEMMA ChangedLine ==
    ASSUME LinkTypes, Ordered, Changes
    PROVE  /\ report' \in Line' /\ \A r \in Line' : r \in Line \/ r = report'
           /\ \A r \in Line : r.version < report'.version
           /\ queue' \in Seq(Report)
           /\ IF link = "up"
              THEN /\ Len(queue') = Len(queue) + 1 /\ DOMAIN queue' = 1..(Len(queue) + 1)
                   /\ queue'[Len(queue) + 1] = report'
              ELSE queue' = queue
           /\ \A i \in DOMAIN queue : i \in DOMAIN queue' /\ queue'[i] = queue[i]
<1>1. /\ Len(queue) \in Nat /\ DOMAIN queue = 1..Len(queue) /\ queue \in Seq(Report)
      /\ \A r \in Line : r.version \in Nat /\ r.version <= report.version
      /\ report \in Line
  BY LineParts DEF LinkTypes
<1>2. /\ report'.version = report.version + 1 /\ report' \in Report
      /\ queue' = IF link = "up" THEN Append(queue, report') ELSE queue
      /\ UNCHANGED <<poll, answer, overtaken, shown>>
  BY DEF Changes, IsReport, pollVars, viewVars
<1>3. /\ Append(queue, report') \in Seq(Report)
      /\ Len(Append(queue, report')) = Len(queue) + 1
      /\ \A i \in 1..Len(queue) : Append(queue, report')[i] = queue[i]
      /\ Append(queue, report')[Len(queue) + 1] = report'
  BY <1>1, <1>2, AppendProperties
<1>4. DOMAIN Append(queue, report') = 1..(Len(queue) + 1)
  BY <1>3, LenProperties
<1> DEFINE more == Append(queue, report')
<1> HIDE DEF more
<1>5. /\ more \in Seq(Report) /\ Len(more) = Len(queue) + 1 /\ DOMAIN more = 1..(Len(queue) + 1)
      /\ \A i \in 1..Len(queue) : more[i] = queue[i]
      /\ more[Len(queue) + 1] = report'
      /\ queue' = IF link = "up" THEN more ELSE queue
  BY <1>2, <1>3, <1>4 DEF more
<1>6. \A i \in DOMAIN queue : i \in DOMAIN queue' /\ queue'[i] = queue[i]
  BY <1>1, <1>5
<1>7. \A i \in DOMAIN queue' : queue'[i] = report' \/ \E j \in DOMAIN queue : queue'[i] = queue[j]
  <2>1. CASE link = "up"
    <3>1. \A i \in DOMAIN more : i = Len(queue) + 1 \/ i \in DOMAIN queue
      BY <1>1, <1>5
    <3> QED BY <1>1, <1>5, <2>1, <3>1
  <2>2. CASE link # "up"
    BY <1>5, <2>2
  <2> QED BY <2>1, <2>2
<1>8. \A r \in Line' : r \in Line \/ r = report'
  <2>1. \A r \in Pending' : r \in Pending \/ r = report'
    BY <1>2, <1>7 DEF Pending, Answers
  <2> QED BY <1>2, <2>1 DEF Line
<1>9. report' \in Line'
  BY DEF Line, Pending
<1>10. \A r \in Line : r.version < report'.version
  BY <1>1, <1>2
<1>11. IF link = "up"
       THEN /\ Len(queue') = Len(queue) + 1 /\ DOMAIN queue' = 1..(Len(queue) + 1)
            /\ queue'[Len(queue) + 1] = report'
       ELSE queue' = queue
  BY <1>5
<1>12. queue' \in Seq(Report)
  BY <1>1, <1>5
<1> QED BY <1>6, <1>8, <1>9, <1>10, <1>11, <1>12

\* Types and order after a change.
LEMMA ChangeKeepsOrder ==
    ASSUME LinkTypes, Ordered, Changes
    PROVE  LinkTypes' /\ Ordered'
<1>1. /\ Len(queue) \in Nat /\ DOMAIN queue = 1..Len(queue)
      /\ \A r \in Line : /\ r.version \in Nat /\ r.version <= report.version
                         /\ IsReport(r) /\ Ids(r) \subseteq 1..thrown
      /\ report \in Line /\ \A i \in DOMAIN queue : queue[i] \in Line
      /\ shown # Nobody => shown \in Line
  BY LineParts
<1>2. /\ report' \in Line' /\ \A r \in Line' : r \in Line \/ r = report'
      /\ \A r \in Line : r.version < report'.version
      /\ queue' \in Seq(Report)
      /\ IF link = "up"
         THEN /\ Len(queue') = Len(queue) + 1 /\ DOMAIN queue' = 1..(Len(queue) + 1)
              /\ queue'[Len(queue) + 1] = report'
         ELSE queue' = queue
      /\ \A i \in DOMAIN queue : i \in DOMAIN queue' /\ queue'[i] = queue[i]
  BY ChangedLine
<1>3. /\ report'.version = report.version + 1 /\ IsReport(report')
      /\ thrown' \in {thrown, thrown + 1} /\ thrown' <= MaxThrown
      /\ UNCHANGED <<link, overtaken, shown, available, fixing>>
      /\ \/ followed' = followed
         \/ followed' = followed \cup {thrown + 1} /\ UpToDate /\ thrown' = thrown + 1
  BY DEF Changes, pollVars, viewVars
<1>4. thrown \in Nat /\ thrown' \in 0..MaxThrown /\ thrown <= thrown'
  BY <1>3, LinkAssumption DEF LinkTypes
<1>5. Ids(report') \subseteq 1..thrown'
  <2>1. ASSUME NEW j \in DOMAIN report'.darts
        PROVE  report'.darts[j].id \in 1..thrown'
    <3>1. CASE report'.darts[j].id \in Ids(report)
      BY <1>1, <1>4, <3>1
    <3>2. CASE report'.darts[j].id \notin Ids(report)
      <4>1. report'.darts[j].id = thrown + 1 /\ thrown' = thrown + 1
        BY <3>2 DEF Changes
      <4> QED BY <1>4, <4>1
    <3> QED BY <3>1, <3>2
  <2> QED BY <2>1 DEF Ids
<1>6. LinkTypes'
  <2>1. \A r \in Line' : IsReport(r) /\ Ids(r) \subseteq 1..thrown'
    <3>1. 1..thrown \subseteq 1..thrown'
      BY <1>4
    <3> QED BY <1>1, <1>2, <1>3, <1>5, <3>1
  <2>2. followed' \subseteq 1..thrown'
    <3>1. followed \subseteq 1..thrown'
      BY <1>4 DEF LinkTypes
    <3>2. thrown' = thrown + 1 => thrown + 1 \in 1..thrown'
      BY <1>4
    <3> QED BY <1>3, <3>1, <3>2
  <2> QED BY <1>2, <1>3, <1>4, <2>1, <2>2 DEF LinkTypes
<1>7. ASSUME NEW i \in DOMAIN queue', link = "up"
      PROVE  queue'[i].version = (report'.version - Len(queue')) + i
  <2>1. CASE i = Len(queue) + 1
    BY <1>1, <1>2, <1>3, <1>7, <2>1
  <2>2. CASE i \in DOMAIN queue
    <3>1. queue[i].version = (report.version - Len(queue)) + i
      BY <1>7, <2>2 DEF Ordered
    <3> QED BY <1>1, <1>2, <1>3, <1>7, <2>2, <3>1
  <2> QED BY <1>1, <1>2, <1>7, <2>1, <2>2
<1>8. \A i, j \in DOMAIN queue' : queue'[i].version + j = queue'[j].version + i
  <2>1. CASE link = "up"
    <3>1. DOMAIN queue' \subseteq Nat /\ report'.version \in Nat /\ Len(queue') \in Nat
      BY <1>1, <1>2, <1>3, <2>1
    <3> QED BY <1>7, <2>1, <3>1
  <2>2. CASE link # "up"
    BY <1>2, <2>2 DEF Ordered
  <2> QED BY <2>1, <2>2
<1>9. link = "down" => queue' = <<>> /\ followed' = {}
  BY <1>2, <1>3 DEF Ordered, UpToDate
<1>10. \A r \in Line' : r.version <= report'.version
  BY <1>1, <1>2, <1>3
<1>11. shown # Nobody => \A r \in Line' : shown.version <= r.version
  BY <1>1, <1>2, <1>3 DEF Ordered
<1>12. shown # Nobody => \A i \in DOMAIN queue' : shown.version < queue'[i].version
  <2>1. \A i \in DOMAIN queue' : i \in DOMAIN queue \/ queue'[i] = report'
    BY <1>1, <1>2
  <2> QED BY <1>1, <1>2, <1>3, <2>1 DEF Ordered
<1>13. \A p, q \in Line' : p.version = q.version => p = q
  <2>1. \A r \in Line : r.version # report'.version
    BY <1>1, <1>2, <1>3
  <2> QED BY <1>2, <2>1 DEF Ordered
<1>14. link' = link /\ shown' = shown
  BY <1>3
<1>15. Ordered'
  BY <1>7, <1>8, <1>9, <1>10, <1>11, <1>12, <1>13, <1>14 DEF Ordered
<1> QED BY <1>6, <1>15
\* A dart that is gone does not come back, and darts only move to earlier
\* places.
LEMMA ChangeKeepsDarts ==
    ASSUME LinkInv, Grows, Changes
    PROVE  Between' /\ Down' /\ Grows'
<1>1. /\ \A r \in Line : /\ r.version \in Nat /\ r.version <= report.version
                         /\ IsReport(r) /\ Ids(r) \subseteq 1..thrown
      /\ report \in Line
  BY LineParts DEF LinkInv
<1>2. /\ \A r \in Line' : r \in Line \/ r = report'
      /\ \A r \in Line : r.version < report'.version
  BY ChangedLine DEF LinkInv
<1>3. report'.version = report.version + 1 /\ IsReport(report') /\ report'.version \in Nat
  BY <1>1 DEF Changes
<1>4. \A d \in Ids(report') : d \in Ids(report) \/ d = thrown + 1
  BY DEF Changes, Ids
<1>5. \A r \in Line : thrown + 1 \notin Ids(r)
  BY <1>1 DEF LinkInv, LinkTypes
<1>6. ASSUME NEW p \in Line', NEW q \in Line', NEW r \in Line',
             p.version <= q.version, q.version <= r.version
      PROVE  Ids(p) \cap Ids(r) \subseteq Ids(q)
  <2>1. CASE r \in Line
    <3>1. p \in Line /\ q \in Line
      BY <1>1, <1>2, <1>3, <1>6, <2>1
    <3> QED BY <1>6, <2>1, <3>1 DEF LinkInv, Between
  <2>2. CASE r = report' /\ q = report'
    BY <2>2
  <2>3. CASE r = report' /\ q \in Line /\ p \in Line
    <3>1. Ids(p) \cap Ids(r) \subseteq Ids(report)
      BY <1>4, <1>5, <2>3
    <3>2. Ids(p) \cap Ids(report) \subseteq Ids(q)
      BY <1>1, <1>6, <2>3 DEF LinkInv, Between
    <3> QED BY <3>1, <3>2
  <2>4. CASE q \in Line /\ p = report'
    BY <1>1, <1>2, <1>3, <1>6, <2>4
  <2> QED BY <1>2, <2>1, <2>2, <2>3, <2>4
<1>7. ASSUME NEW p \in Line', NEW q \in Line', p.version <= q.version,
             NEW i \in DOMAIN p.darts, NEW j \in DOMAIN q.darts,
             p.darts[i].id = q.darts[j].id
      PROVE  j <= i
  <2>1. CASE q \in Line
    <3>1. p \in Line
      BY <1>1, <1>2, <1>3, <1>7, <2>1
    <3> QED BY <1>7, <2>1, <3>1 DEF LinkInv, Down
  <2>2. CASE q = report' /\ p = report'
    <3>1. j = i /\ i \in Nat
      BY <1>3, <1>7, <2>2, ReportParts
    <3> QED BY <3>1
  <2>3. CASE q = report' /\ p \in Line
    <3>1. q.darts[j].id \in Ids(report)
      <4>1. q.darts[j].id # thrown + 1
        BY <1>5, <1>7, <2>3 DEF Ids
      <4> QED BY <1>4, <2>3, <4>1 DEF Ids
    <3>2. PICK k \in DOMAIN report.darts : report.darts[k].id = q.darts[j].id
      BY <3>1 DEF Ids
    <3>3. j <= k
      BY <2>3, <3>2 DEF Changes
    <3>4. k <= i
      BY <1>1, <1>7, <2>3, <3>2 DEF LinkInv, Down
    <3>5. i \in Nat /\ j \in Nat /\ k \in Nat
      <4>1. /\ DOMAIN p.darts = 1..Len(p.darts) /\ DOMAIN q.darts = 1..Len(q.darts)
            /\ DOMAIN report.darts = 1..Len(report.darts)
        BY <1>1, <1>3, <2>3, ReportParts
      <4> QED BY <4>1
    <3> QED BY <3>3, <3>4, <3>5
  <2> QED BY <1>2, <2>1, <2>2, <2>3
<1>8. ASSUME NEW p \in Line', NEW q \in Line', q.version = p.version + 1,
             NEW j \in DOMAIN q.darts, q.darts[j].id \notin Ids(p)
      PROVE  q.running /\ q.status = "throw" /\ j = Len(p.darts) + 1
  <2>1. CASE q \in Line
    <3>1. p \in Line
      BY <1>1, <1>2, <1>3, <1>8, <2>1
    <3> QED BY <1>8, <2>1, <3>1 DEF Grows
  <2>2. CASE q = report'
    <3>1. p \in Line /\ p.version = report.version
      BY <1>1, <1>2, <1>3, <1>8, <2>2
    <3>2. p = report
      BY <1>1, <3>1 DEF LinkInv, Ordered
    <3> QED BY <1>8, <2>2, <3>2 DEF Changes
  <2> QED BY <1>2, <2>1, <2>2
<1>9. Between'
  BY <1>6 DEF Between
<1>10. Down'
  BY <1>7 DEF Down
<1>11. Grows'
  BY <1>8 DEF Grows
<1> QED BY <1>9, <1>10, <1>11

\* UpToDate survives a change of the board: its message is under way.
LEMMA ChangeKeepsUpToDate ==
    ASSUME LinkInv, Changes, UpToDate
    PROVE  UpToDate' /\ shown # Nobody /\ shown.version + Len(queue) = report.version
<1>1. link = "up" /\ initialized /\ shown.version + Len(queue) >= report.version
  BY DEF UpToDate
<1>2. shown # Nobody /\ shown \in Line
  BY <1>1, LineParts DEF LinkInv, BaselineIsShown
<1>3. /\ shown.version \in Nat /\ report.version \in Nat /\ shown.version <= report.version
      /\ Len(queue) \in Nat /\ DOMAIN queue = 1..Len(queue)
  BY <1>2, LineParts DEF LinkInv
<1>4. shown.version + Len(queue) <= report.version
  <2>1. CASE Len(queue) = 0
    BY <1>3, <2>1
  <2>2. CASE Len(queue) # 0
    <3>1. 1 \in DOMAIN queue
      BY <1>3, <2>2
    <3>2. queue[1].version = (report.version - Len(queue)) + 1
      BY <1>1, <3>1 DEF LinkInv, Ordered
    <3>3. shown.version < queue[1].version
      BY <1>2, <3>1 DEF LinkInv, Ordered
    <3> QED BY <1>3, <3>2, <3>3
  <2> QED BY <2>1, <2>2
<1>5. /\ report'.version = report.version + 1
      /\ link' = link /\ shown' = shown /\ initialized' = initialized
  BY DEF Changes, vars, viewVars
<1>6. Len(queue') = Len(queue) + 1
  BY <1>1, ChangedLine DEF LinkInv
<1>7. shown'.version + Len(queue') >= report'.version
  BY <1>1, <1>3, <1>5, <1>6
<1>8. UpToDate'
  BY <1>1, <1>5, <1>7 DEF UpToDate
<1> QED BY <1>1, <1>2, <1>3, <1>4, <1>8

\* Fewer darts without a takeout are still a withdrawn detection.
LEMMA ChangeKeepsStays ==
    ASSUME LinkInv, Changes
    PROVE  Stays'
<1>1. /\ \A r \in Line : /\ r.version \in Nat /\ r.version <= report.version
                         /\ IsReport(r) /\ Ids(r) \subseteq 1..thrown
      /\ report \in Line
  BY LineParts DEF LinkInv
<1>2. /\ \A r \in Line' : r \in Line \/ r = report'
      /\ \A r \in Line : r.version < report'.version
  BY ChangedLine DEF LinkInv
<1>3. /\ report'.version = report.version + 1 /\ IsReport(report') /\ report'.version \in Nat
      /\ left \subseteq left' /\ fixing' = fixing
  BY <1>1 DEF Changes
<1>4. \A d \in Ids(report') : d \in Ids(report) \/ d = thrown + 1
  BY DEF Changes, Ids
<1>5. \A r \in Line : thrown + 1 \notin Ids(r)
  BY <1>1 DEF LinkInv, LinkTypes
<1>6. \A r \in Line : Ids(r) \cap Ids(report') \subseteq Ids(r) \cap Ids(report)
  BY <1>4, <1>5
<1>7. fixing /\ UpToDate => fixing' /\ UpToDate'
  BY <1>3, ChangeKeepsUpToDate
<1>8. ASSUME NEW p \in Line', NEW q \in Line', p.version < q.version, q.status = "throw"
      PROVE  \/ Ids(p) \cap Ids(q) \subseteq left'
             \/ Len(p.darts) <= Len(q.darts)
             \/ fixing' /\ UpToDate' /\ (q.version = p.version + 1 => Contains(Beds(p), Beds(q)))
  <2>0. p \in Line
    BY <1>1, <1>2, <1>3, <1>8
  <2>1. CASE q \in Line
    <3>1. \/ Ids(p) \cap Ids(q) \subseteq left
          \/ Len(p.darts) <= Len(q.darts)
          \/ fixing /\ UpToDate /\ (q.version = p.version + 1 => Contains(Beds(p), Beds(q)))
      BY <1>8, <2>0, <2>1 DEF LinkInv, Stays
    <3> QED BY <1>3, <1>7, <3>1
  <2>2. CASE q = report'
    <3>1. \/ Ids(report) \cap Ids(q) \subseteq left'
          \/ /\ report.status = "throw"
             /\ \/ Len(report.darts) <= Len(q.darts)
                \/ fixing /\ UpToDate /\ Contains(Beds(report), Beds(q))
      BY <1>8, <2>2 DEF Changes, Common
    <3>2. Ids(p) \cap Ids(q) \subseteq Ids(p) \cap Ids(report)
      BY <1>6, <2>0, <2>2
    <3>3. CASE Ids(report) \cap Ids(q) \subseteq left'
      BY <3>2, <3>3
    <3>4. CASE p = report
      BY <1>7, <3>1, <3>4
    <3>5. CASE p # report /\ report.status = "throw" /\ ~(Ids(report) \cap Ids(q) \subseteq left')
      <4>1. p.version < report.version
        <5>1. p.version # report.version
          BY <1>1, <2>0, <3>5 DEF LinkInv, Ordered
        <5> QED BY <1>1, <2>0, <5>1
      <4>2. \/ Ids(p) \cap Ids(report) \subseteq left
            \/ Len(p.darts) <= Len(report.darts)
            \/ fixing /\ UpToDate
        BY <1>1, <2>0, <3>5, <4>1 DEF LinkInv, Stays
      <4>3. q.version # p.version + 1
        BY <1>1, <1>3, <2>0, <2>2, <4>1
      <4>4. CASE Ids(p) \cap Ids(report) \subseteq left
        BY <1>3, <3>2, <4>4
      <4>5. CASE fixing /\ UpToDate
        BY <1>7, <4>3, <4>5
      <4>6. CASE Len(p.darts) <= Len(report.darts) /\ Len(report.darts) <= Len(q.darts)
        <5>1. Len(p.darts) \in Nat /\ Len(report.darts) \in Nat /\ Len(q.darts) \in Nat
          BY <1>1, <1>3, <2>0, <2>2, ReportParts
        <5> QED BY <4>6, <5>1
      <4> QED BY <3>1, <3>5, <4>2, <4>4, <4>5, <4>6
    <3> QED BY <3>1, <3>3, <3>4, <3>5
  <2> QED BY <1>2, <2>1, <2>2
<1> QED BY <1>8 DEF Stays
\* Followed darts are announced, or their message is still under way.
LEMMA ChangeKeepsFollows ==
    ASSUME LinkInv, Follows, Changes
    PROVE  Follows'
<1>1. /\ \A r \in Line : r.version \in Nat /\ Ids(r) \subseteq 1..thrown
      /\ \A i \in DOMAIN queue : queue[i] \in Line
      /\ Len(queue) \in Nat /\ thrown \in Nat
  BY LineParts, LinkAssumption DEF LinkInv, LinkTypes
<1>2. /\ \A r \in Line' : r \in Line \/ r = report'
      /\ \A r \in Line : r.version < report'.version
      /\ \A i \in DOMAIN queue : i \in DOMAIN queue' /\ queue'[i] = queue[i]
      /\ link = "up" =>
           DOMAIN queue' = 1..(Len(queue) + 1) /\ queue'[Len(queue) + 1] = report'
  BY ChangedLine DEF LinkInv
<1>3. /\ detected' = detected /\ shown' = shown /\ initialized' = initialized
      /\ report'.version = report.version + 1
  BY DEF Changes, vars, viewVars
<1>4. ASSUME NEW d \in followed
      PROVE  \/ detected'[d] > 0
             \/ /\ shown' # Nobody /\ initialized'
                /\ \E i \in DOMAIN queue' :
                     /\ d \in Ids(queue'[i])
                     /\ queue'[i].version = shown'.version + i
                     /\ \A r \in Line' : r.version < queue'[i].version => d \notin Ids(r)
  <2>1. CASE detected[d] > 0
    BY <1>3, <2>1
  <2>2. CASE ~(detected[d] > 0)
    <3>1. /\ shown # Nobody /\ initialized
          /\ \E i \in DOMAIN queue :
               /\ d \in Ids(queue[i])
               /\ queue[i].version = shown.version + i
               /\ \A r \in Line : r.version < queue[i].version => d \notin Ids(r)
      BY <2>2 DEF Follows
    <3>2. PICK i \in DOMAIN queue :
               /\ d \in Ids(queue[i])
               /\ queue[i].version = shown.version + i
               /\ \A r \in Line : r.version < queue[i].version => d \notin Ids(r)
      BY <3>1
    <3>3. queue[i] \in Line /\ queue[i].version < report'.version
      BY <1>1, <1>2
    <3>4. ~(report'.version < queue[i].version)
      BY <1>1, <1>3, <3>3, LineParts DEF LinkInv
    <3>5. \A r \in Line' : r.version < queue[i].version => d \notin Ids(r)
      BY <1>2, <3>2, <3>4
    <3>6. i \in DOMAIN queue' /\ queue'[i] = queue[i]
      BY <1>2
    <3> QED BY <1>3, <3>1, <3>2, <3>5, <3>6
  <2> QED BY <2>1, <2>2
<1>5. ASSUME followed' = followed \cup {thrown + 1}, UpToDate, thrown + 1 \in Ids(report')
      PROVE  /\ shown' # Nobody /\ initialized'
             /\ \E i \in DOMAIN queue' :
                  /\ thrown + 1 \in Ids(queue'[i])
                  /\ queue'[i].version = shown'.version + i
                  /\ \A r \in Line' : r.version < queue'[i].version => thrown + 1 \notin Ids(r)
  <2>1. /\ link = "up" /\ initialized /\ shown # Nobody
        /\ shown.version + Len(queue) = report.version
    BY <1>5, ChangeKeepsUpToDate DEF UpToDate
  <2>2. Len(queue) + 1 \in DOMAIN queue' /\ queue'[Len(queue) + 1] = report'
    BY <1>1, <1>2, <2>1
  <2>3. report'.version = shown.version + (Len(queue) + 1)
    <3>1. shown \in Line
      BY <2>1, LineParts DEF LinkInv
    <3> QED BY <1>1, <1>3, <2>1, <3>1
  <2>4. \A r \in Line : thrown + 1 \notin Ids(r)
    BY <1>1
  <2>5. \A r \in Line' : r.version < report'.version => thrown + 1 \notin Ids(r)
    <3>1. report'.version \in Nat
      BY <1>1, <1>3, LineParts DEF LinkInv
    <3> QED BY <1>2, <2>4, <3>1
  <2> QED BY <1>3, <1>5, <2>1, <2>2, <2>3, <2>5
<1>6. \/ followed' = followed
      \/ followed' = followed \cup {thrown + 1} /\ UpToDate /\ thrown + 1 \in Ids(report')
  BY DEF Changes
<1> QED BY <1>4, <1>5, <1>6 DEF Follows

\* A step of the board keeps the whole invariant.
LEMMA BoardKeeps ==
    ASSUME LinkInv, Grows, Follows, BoardStep
    PROVE  LinkInv' /\ Grows' /\ Follows'
<1>1. Changes
  BY LineParts, BoardChanges DEF LinkInv, LinkTypes
<1>2. LinkTypes' /\ Ordered'
  BY <1>1, ChangeKeepsOrder DEF LinkInv
<1>3. Between' /\ Down' /\ Grows'
  BY <1>1, ChangeKeepsDarts
<1>4. Stays'
  BY <1>1, ChangeKeepsStays
<1>5. Follows'
  BY <1>1, ChangeKeepsFollows
<1>6. /\ UNCHANGED <<detected, shown, available, active, initialized>>
      /\ left \subseteq left' /\ thrown' \in {thrown, thrown + 1}
  BY <1>1 DEF Changes, viewVars, vars
<1>7. BaselineIsShown'
  BY <1>6 DEF LinkInv, BaselineIsShown
<1>8. CountedOnce'
  BY <1>6 DEF LinkInv, CountedOnce
<1>9. Seen'
  <2>1. /\ \A r \in Line' : r \in Line \/ r = report'
        /\ \A r \in Line : r.version < report'.version
        /\ \A r \in Line : r.version \in Nat /\ r.version <= report.version
        /\ report \in Line /\ thrown \in Nat
        /\ report'.version = report.version + 1
    BY <1>1, ChangedLine, LineParts, LinkAssumption DEF LinkInv, LinkTypes, Changes
  <2>2. \A d \in Ids(report') : d \in Ids(report) \/ d = thrown + 1
    BY <1>1 DEF Changes, Ids
  <2>3. ASSUME NEW d \in 1..MaxThrown, detected[d] > 0,
               NEW q \in Line', NEW r \in Line', q.version <= r.version, d \in Ids(r)
        PROVE  d \in Ids(q)
    <3>1. d <= thrown /\ \A x, y \in Line : x.version <= y.version /\ d \in Ids(y) => d \in Ids(x)
      BY <2>3 DEF LinkInv, Seen
    <3>2. CASE r \in Line
      <4>1. q \in Line
        BY <2>1, <2>3, <3>2
      <4> QED BY <2>3, <3>1, <3>2, <4>1
    <3>3. CASE r = report' /\ q \in Line
      <4>1. d \in Ids(report)
        BY <2>1, <2>2, <2>3, <3>1, <3>3
      <4> QED BY <2>1, <3>1, <3>3, <4>1
    <3>4. CASE r = report' /\ q = report'
      BY <2>3, <3>4
    <3> QED BY <2>1, <3>2, <3>3, <3>4
  <2>4. \A d \in 1..MaxThrown : detected[d] > 0 => d <= thrown'
    <3>1. ASSUME NEW d \in 1..MaxThrown, detected[d] > 0
          PROVE  d <= thrown'
      <4>1. d <= thrown /\ d \in Nat
        BY <3>1 DEF LinkInv, Seen
      <4> QED BY <1>6, <2>1, <4>1
    <3> QED BY <3>1
  <2>5. detected' \in [1..MaxThrown -> Nat]
    BY <1>6 DEF LinkInv, Seen
  <2> QED BY <1>6, <2>3, <2>4, <2>5 DEF Seen
<1> QED BY <1>2, <1>3, <1>4, <1>5, <1>7, <1>8, <1>9 DEF LinkInv
-----------------------------------------------------------------------------
(* The coordinator shortens the line.                                      *)

\* What holds of each report, pair and triple of the line holds of its parts.
LEMMA LineShrinks ==
    ASSUME LinkInv, Grows, Line' \subseteq Line,
           UNCHANGED <<report, thrown, left, fixing>>,
           fixing /\ UpToDate => UpToDate'
    PROVE  /\ \A r \in Line' : IsReport(r) /\ Ids(r) \subseteq 1..thrown'
           /\ \A r \in Line' : r.version <= report'.version
           /\ \A p, q \in Line' : p.version = q.version => p = q
           /\ Between' /\ Down' /\ Stays' /\ Grows'
<1>1. /\ \A r \in Line' : IsReport(r) /\ Ids(r) \subseteq 1..thrown'
      /\ \A r \in Line' : r.version <= report'.version
      /\ \A p, q \in Line' : p.version = q.version => p = q
  BY DEF LinkInv, LinkTypes, Ordered
<1>2. Between'
  BY DEF LinkInv, Between
<1>3. Down'
  BY DEF LinkInv, Down
<1>4. Grows'
  BY DEF Grows
<1>5. Stays'
  <2>1. ASSUME NEW p \in Line', NEW q \in Line', p.version < q.version, q.status = "throw"
        PROVE  \/ Ids(p) \cap Ids(q) \subseteq left'
               \/ Len(p.darts) <= Len(q.darts)
               \/ fixing' /\ UpToDate' /\ (q.version = p.version + 1 => Contains(Beds(p), Beds(q)))
    <3>1. \/ Ids(p) \cap Ids(q) \subseteq left
          \/ Len(p.darts) <= Len(q.darts)
          \/ fixing /\ UpToDate /\ (q.version = p.version + 1 => Contains(Beds(p), Beds(q)))
      BY <2>1 DEF LinkInv, Stays
    <3> QED BY <3>1
  <2> QED BY <2>1 DEF Stays
<1> QED BY <1>1, <1>2, <1>3, <1>4, <1>5

\* The next report announces no dart that was announced before, unless it was
\* left on the board at a takeout.
LEMMA NothingTwice ==
    ASSUME LinkInv, NEW r, r \in Line, Observe(StateOf(r)),
           fixing /\ UpToDate => r.version <= shown.version + 1,
           NEW d \in 1..MaxThrown, Cardinality(Hits(r, d)) # 0
    PROVE  /\ Cardinality(Hits(r, d)) = 1 /\ d \in Ids(r)
           /\ detected[d] = 0 \/ d \in left
<1>1. IsReport(r) /\ r.version \in Nat
  BY LineParts DEF LinkInv
<1>2. TakeDarts(StateOf(r))
  <2>1. ~TakeDarts(StateOf(r)) => Hits(r, d) = {}
    BY <1>1, OnlyDartsAreNew
  <2> QED BY <2>1, FS_EmptySet
<1>3. initialized
  BY <1>2 DEF TakeDarts, Live
<1>4. /\ shown # Nobody /\ active = Beds(shown) /\ shown \in Line /\ IsReport(shown)
      /\ shown.version \in Nat /\ shown.version <= r.version
  BY <1>3, LineParts DEF LinkInv, BaselineIsShown, Beds, Ordered
<1>5. active \in Throws /\ Len(active) = Len(shown.darts)
  BY <1>4, BedsAreThrows
<1>6. Cardinality(Hits(r, d)) = 1
  BY <1>1, <1>2, <1>5, NewDartsOnce
<1>7. PICK j \in DOMAIN r.darts : j > Known(StateOf(r)) /\ r.darts[j].id = d
  BY <1>1, <1>2, <1>5, <1>6, NewDartsOnce
<1>8. d \in Ids(r)
  BY <1>7 DEF Ids
<1>9. ASSUME detected[d] # 0, d \notin left
      PROVE  FALSE
  <2>1. detected[d] > 0
    BY <1>9 DEF LinkInv, Seen
  <2>2. d \in Ids(shown)
    BY <1>4, <1>8, <2>1 DEF LinkInv, Seen
  <2>3. PICK i \in DOMAIN shown.darts : shown.darts[i].id = d
    BY <2>2 DEF Ids
  <2>4. j <= i
    BY <1>4, <1>7, <2>3 DEF LinkInv, Down
  <2>5. /\ i \in Nat /\ i <= Len(shown.darts) /\ Len(shown.darts) \in Nat
        /\ j \in Nat /\ Len(r.darts) \in Nat
    BY <1>1, <1>4, ReportParts
  <2>6. CASE ~MissedTakeout(StateOf(r))
    <3>1. Known(StateOf(r)) = Len(shown.darts)
      BY <1>5, <2>6 DEF Known
    <3> QED BY <1>7, <2>4, <2>5, <3>1
  <2>7. CASE MissedTakeout(StateOf(r))
    <3>1. /\ StateOf(r).throws = Beds(r) /\ Len(Beds(r)) = Len(r.darts)
          /\ StateOf(r).status = r.status
      BY <1>1, BedsAreThrows
    <3>2. /\ Len(r.darts) < Len(shown.darts) /\ r.status # "takeout"
          /\ ~Contains(Beds(shown), Beds(r))
      BY <1>4, <1>5, <2>7, <3>1 DEF MissedTakeout, Fewer, Removed, Withdrawn, Takeout
    <3>3. shown.version < r.version
      <4>1. shown # r
        BY <2>5, <3>2
      <4>2. shown.version # r.version
        BY <1>4, <4>1 DEF LinkInv, Ordered
      <4> QED BY <1>1, <1>4, <4>2
    <3>4. r.status = "throw"
      BY <1>1, <3>2, ReportParts
    <3>5. \/ Ids(shown) \cap Ids(r) \subseteq left
          \/ Len(shown.darts) <= Len(r.darts)
          \/ fixing /\ UpToDate /\ (r.version = shown.version + 1 => Contains(Beds(shown), Beds(r)))
      BY <1>4, <3>3, <3>4 DEF LinkInv, Stays
    <3>6. CASE Ids(shown) \cap Ids(r) \subseteq left
      BY <1>8, <1>9, <2>2, <3>6
    <3>7. CASE Len(shown.darts) <= Len(r.darts)
      BY <2>5, <3>2, <3>7
    <3>8. CASE fixing /\ UpToDate /\ (r.version = shown.version + 1 => Contains(Beds(shown), Beds(r)))
      <4>1. r.version = shown.version + 1
        BY <1>1, <1>4, <3>3, <3>8
      <4> QED BY <3>2, <3>8, <4>1
    <3> QED BY <3>5, <3>6, <3>7, <3>8
  <2> QED BY <2>6, <2>7
<1>10. detected[d] = 0 \/ d \in left
  BY <1>9
<1> QED BY <1>6, <1>8, <1>10

\* Processing the oldest report of the line counts its new darts once.
LEMMA ProcessSees ==
    ASSUME LinkInv, NEW r, r \in Line, Process(r),
           Line' \subseteq Line, \A q \in Line' : r.version <= q.version,
           UNCHANGED <<report, thrown, left, fixing>>,
           fixing /\ UpToDate => r.version <= shown.version + 1
    PROVE  /\ BaselineIsShown' /\ Seen' /\ CountedOnce' /\ initialized' /\ shown' = r
           /\ \A d \in 1..MaxThrown : detected[d] > 0 => detected'[d] > 0
           /\ \A d \in 1..MaxThrown : Cardinality(Hits(r, d)) = 1 => detected'[d] > 0
<1>1. IsReport(r) /\ r.version \in Nat /\ r # Nobody /\ Ids(r) \subseteq 1..thrown
  BY LineParts, ReportParts DEF LinkInv
<1>2. /\ Observe(StateOf(r)) /\ shown' = r /\ available' = TRUE
      /\ detected' = [d \in DOMAIN detected |-> detected[d] + Cardinality(Hits(r, d))]
  BY DEF Process, Hits
<1>3. initialized' /\ active' = Beds(r)
  BY <1>1, <1>2, ObserveShows
<1>4. BaselineIsShown'
  BY <1>1, <1>2, <1>3 DEF BaselineIsShown, Beds
<1>5. DOMAIN detected = 1..MaxThrown /\ \A d \in 1..MaxThrown : detected[d] \in Nat
  BY DEF LinkInv, Seen
<1>6. ASSUME NEW d \in 1..MaxThrown
      PROVE  /\ detected'[d] = detected[d] + Cardinality(Hits(r, d))
             /\ Cardinality(Hits(r, d)) \in {0, 1}
             /\ Cardinality(Hits(r, d)) = 1 => d \in Ids(r) /\ (detected[d] = 0 \/ d \in left)
  <2>1. detected'[d] = detected[d] + Cardinality(Hits(r, d))
    BY <1>2, <1>5
  <2>2. Cardinality(Hits(r, d)) # 0 =>
          /\ Cardinality(Hits(r, d)) = 1 /\ d \in Ids(r)
          /\ detected[d] = 0 \/ d \in left
    BY <1>2, NothingTwice
  <2> QED BY <2>1, <2>2
<1>7. ASSUME NEW d \in 1..MaxThrown
      PROVE  /\ detected'[d] \in Nat
             /\ detected[d] > 0 => detected'[d] > 0
             /\ Cardinality(Hits(r, d)) = 1 => detected'[d] > 0
             /\ detected'[d] <= 1 \/ d \in left
             /\ detected'[d] > 0 => detected[d] > 0 \/ d \in Ids(r)
  <2>1. detected[d] \in Nat /\ (detected[d] <= 1 \/ d \in left)
    BY <1>5 DEF LinkInv, CountedOnce
  <2> QED BY <1>6, <2>1
<1>8. detected' \in [1..MaxThrown -> Nat]
  <2>1. DOMAIN detected' = 1..MaxThrown
    BY <1>2, <1>5
  <2>2. detected' = [d \in 1..MaxThrown |-> detected'[d]]
    BY <1>2, <2>1
  <2> QED BY <1>7, <2>2
<1>9. ASSUME NEW d \in 1..MaxThrown, detected'[d] > 0
      PROVE  /\ d <= thrown
             /\ \A x, y \in Line' : x.version <= y.version /\ d \in Ids(y) => d \in Ids(x)
  <2>1. CASE detected[d] > 0
    BY <2>1 DEF LinkInv, Seen
  <2>2. CASE d \in Ids(r)
    <3>1. d <= thrown
      <4>1. thrown \in Nat /\ d \in 1..thrown
        BY <1>1, <2>2, LinkAssumption DEF LinkInv, LinkTypes
      <4> QED BY <4>1
    <3>2. ASSUME NEW x \in Line', NEW y \in Line', x.version <= y.version, d \in Ids(y)
          PROVE  d \in Ids(x)
      <4>1. r.version <= x.version
        OBVIOUS
      <4>2. Ids(r) \cap Ids(y) \subseteq Ids(x)
        BY <3>2, <4>1 DEF LinkInv, Between
      <4> QED BY <2>2, <3>2, <4>2
    <3> QED BY <3>1, <3>2
  <2> QED BY <1>7, <1>9, <2>1, <2>2
<1>10. Seen'
  BY <1>8, <1>9 DEF Seen
<1>11. CountedOnce'
  BY <1>7 DEF CountedOnce
<1> QED BY <1>2, <1>3, <1>4, <1>7, <1>10, <1>11
\* The next message leaves the queue for the view; what a poll has read is
\* dropped.
LEMMA ReceiveLine ==
    ASSUME LinkTypes, Ordered, Receive
    PROVE  /\ 1 \in DOMAIN queue /\ Head(queue) = queue[1] /\ Head(queue) \in Line
           /\ queue' \in Seq(Report) /\ Len(queue') = Len(queue) - 1
           /\ DOMAIN queue' = 1..(Len(queue) - 1)
           /\ \A i \in DOMAIN queue' : i + 1 \in DOMAIN queue /\ queue'[i] = queue[i + 1]
           /\ shown' = Head(queue) /\ shown' # Nobody
           /\ Line' \subseteq Line
           /\ \A r \in Line' : r.version >= Head(queue).version
<1>1. /\ Len(queue) \in Nat /\ DOMAIN queue = 1..Len(queue) /\ queue \in Seq(Report)
      /\ \A i \in DOMAIN queue : queue[i] \in Line
      /\ \A r \in Line : r.version \in Nat /\ r # Nobody /\ r.version <= report.version
      /\ report \in Line
  BY LineParts, ReportParts DEF LinkTypes
<1>2. /\ queue # <<>> /\ queue' = Tail(queue) /\ shown' = Head(queue)
      /\ overtaken' = (poll # "idle") /\ poll' = poll /\ report' = report
  BY DEF Receive, Process, boardVars
<1>3. Len(queue) # 0
  BY <1>1, <1>2, EmptySeq
<1>4. /\ Head(queue) = queue[1] /\ Tail(queue) \in Seq(Report)
      /\ Len(Tail(queue)) = Len(queue) - 1
      /\ \A i \in 1..(Len(queue) - 1) : Tail(queue)[i] = queue[i + 1]
  BY <1>1, <1>2, HeadTailProperties
<1>5. DOMAIN Tail(queue) = 1..(Len(queue) - 1)
  BY <1>4, LenProperties
<1>6. 1 \in DOMAIN queue
  BY <1>1, <1>3
<1>7. \A i \in DOMAIN queue' : i + 1 \in DOMAIN queue /\ queue'[i] = queue[i + 1]
  BY <1>1, <1>2, <1>4, <1>5
<1>8. Head(queue) \in Line /\ shown' # Nobody
  BY <1>1, <1>2, <1>4, <1>6
<1>9. Answers' = {}
  BY <1>2 DEF Answers
<1>10. Line' \subseteq Line
  <2>1. Pending' \subseteq Line
    BY <1>1, <1>2, <1>7, <1>9 DEF Pending
  <2> QED BY <1>2, <1>8, <2>1 DEF Line
<1>11. ASSUME NEW r \in Line'
       PROVE  r.version >= queue[1].version
  <2>1. r = queue[1] \/ r = report \/ \E i \in DOMAIN queue' : r = queue[i + 1]
    BY <1>2, <1>4, <1>7, <1>9, <1>11 DEF Line, Pending
  <2>2. queue[1].version \in Nat /\ queue[1].version <= report.version /\ report.version \in Nat
    BY <1>1, <1>6
  <2>3. ASSUME NEW i \in DOMAIN queue', r = queue[i + 1]
        PROVE  r.version >= queue[1].version
    <3>1. i + 1 \in DOMAIN queue /\ queue[i + 1].version \in Nat /\ i \in Nat
      BY <1>1, <1>2, <1>5, <1>7
    <3>2. queue[i + 1].version + 1 = queue[1].version + (i + 1)
      BY <1>6, <3>1 DEF Ordered
    <3> QED BY <2>2, <2>3, <3>1, <3>2
  <2> QED BY <2>1, <2>2, <2>3
<1> QED BY <1>2, <1>4, <1>5, <1>6, <1>7, <1>8, <1>10, <1>11

\* A message keeps the invariant: it is the next one of the line.
LEMMA ReceiveKeeps ==
    ASSUME LinkInv, Grows, Follows, Receive
    PROVE  LinkInv' /\ Grows' /\ Follows'
<1> DEFINE r == Head(queue)
<1>1. /\ 1 \in DOMAIN queue /\ r = queue[1] /\ r \in Line
      /\ queue' \in Seq(Report) /\ Len(queue') = Len(queue) - 1
      /\ DOMAIN queue' = 1..(Len(queue) - 1)
      /\ \A i \in DOMAIN queue' : i + 1 \in DOMAIN queue /\ queue'[i] = queue[i + 1]
      /\ shown' = r /\ shown' # Nobody
      /\ Line' \subseteq Line
      /\ \A q \in Line' : q.version >= r.version
  BY ReceiveLine DEF LinkInv
<1>2. /\ Process(r)
      /\ UNCHANGED <<report, thrown, followed, left, fixing, link>>
      /\ overtaken' \in BOOLEAN /\ available' = TRUE
  BY DEF Receive, boardVars, Process
<1> HIDE DEF r
<1>3. /\ Len(queue) \in Nat /\ DOMAIN queue = 1..Len(queue)
      /\ \A q \in Line : q.version \in Nat /\ q.version <= report.version
      /\ report \in Line /\ \A i \in DOMAIN queue : queue[i] \in Line
      /\ shown # Nobody => shown \in Line
  BY LineParts DEF LinkInv
<1>4. r.version \in Nat /\ report.version \in Nat
  BY <1>1, <1>3
<1>5. link = "up" => r.version = (report.version - Len(queue)) + 1
  BY <1>1 DEF LinkInv, Ordered
<1>6. UpToDate => r.version <= shown.version + 1 /\ UpToDate'
  <2>1. ASSUME UpToDate
        PROVE  r.version <= shown.version + 1 /\ UpToDate'
    <3>1. link = "up" /\ initialized /\ shown.version + Len(queue) >= report.version
      BY <2>1 DEF UpToDate
    <3>2. shown \in Line /\ shown.version \in Nat
      BY <1>3, <3>1 DEF LinkInv, BaselineIsShown
    <3>3. r.version <= shown.version + 1
      BY <1>3, <1>4, <1>5, <3>1, <3>2
    <3>4. r.version + Len(queue') >= report.version
      BY <1>1, <1>3, <1>4, <1>5, <3>1
    <3>5. initialized'
      BY <1>1, <1>2, LineParts, ObserveShows DEF LinkInv, Process
    <3>6. UpToDate'
      BY <1>1, <1>2, <3>1, <3>4, <3>5 DEF UpToDate
    <3> QED BY <3>3, <3>6
  <2> QED BY <2>1
<1>7. \A q \in Line' : r.version <= q.version
  BY <1>1, <1>3, <1>4
<1>8. /\ \A q \in Line' : IsReport(q) /\ Ids(q) \subseteq 1..thrown'
      /\ \A q \in Line' : q.version <= report'.version
      /\ \A p, q \in Line' : p.version = q.version => p = q
      /\ Between' /\ Down' /\ Stays' /\ Grows'
  BY <1>1, <1>2, <1>6, LineShrinks
<1>9. /\ BaselineIsShown' /\ Seen' /\ CountedOnce' /\ initialized'
      /\ \A d \in 1..MaxThrown : detected[d] > 0 => detected'[d] > 0
      /\ \A d \in 1..MaxThrown : Cardinality(Hits(r, d)) = 1 => detected'[d] > 0
  BY <1>1, <1>2, <1>6, <1>7, ProcessSees
<1>10. LinkTypes'
  BY <1>1, <1>2, <1>8 DEF LinkInv, LinkTypes
<1>11. Ordered'
  <2>1. ASSUME NEW i \in DOMAIN queue', NEW j \in DOMAIN queue'
        PROVE  queue'[i].version + j = queue'[j].version + i
    <3>1. queue[i + 1].version + (j + 1) = queue[j + 1].version + (i + 1)
      BY <1>1 DEF LinkInv, Ordered
    <3>2. queue[i + 1].version \in Nat /\ queue[j + 1].version \in Nat
      BY <1>1, <1>3
    <3>3. queue'[i] = queue[i + 1] /\ queue'[j] = queue[j + 1] /\ i \in Nat /\ j \in Nat
      BY <1>1
    <3> QED BY <3>1, <3>2, <3>3
  <2>2. ASSUME link = "up", NEW i \in DOMAIN queue'
        PROVE  queue'[i].version = (report.version - Len(queue')) + i
    <3>1. queue[i + 1].version = (report.version - Len(queue)) + (i + 1)
      BY <1>1, <2>2 DEF LinkInv, Ordered
    <3>2. i \in Nat
      BY <1>1
    <3> QED BY <1>1, <1>3, <1>4, <3>1, <3>2
  <2>3. link # "down"
    BY <1>1, <1>3 DEF LinkInv, Ordered
  <2>4. \A i \in DOMAIN queue' : r.version < queue'[i].version
    <3>1. ASSUME NEW i \in DOMAIN queue'
          PROVE  r.version < queue[i + 1].version
      <4>1. queue[i + 1].version + 1 = queue[1].version + (i + 1)
        BY <1>1 DEF LinkInv, Ordered
      <4>2. queue[i + 1].version \in Nat /\ i \in Nat /\ i >= 1
        BY <1>1, <1>3
      <4> QED BY <1>1, <1>4, <4>1, <4>2
    <3> QED BY <1>1, <3>1
  <2> QED BY <1>1, <1>2, <1>7, <1>8, <2>1, <2>2, <2>3, <2>4 DEF Ordered
<1>12. Follows'
  <2>1. ASSUME NEW d \in followed
        PROVE  \/ detected'[d] > 0
               \/ /\ shown' # Nobody /\ initialized'
                  /\ \E i \in DOMAIN queue' :
                       /\ d \in Ids(queue'[i])
                       /\ queue'[i].version = shown'.version + i
                       /\ \A q \in Line' : q.version < queue'[i].version => d \notin Ids(q)
    <3>1. d \in 1..MaxThrown
      <4>1. thrown \in Nat /\ thrown <= MaxThrown /\ d \in 1..thrown
        BY LinkAssumption DEF LinkInv, LinkTypes
      <4> QED BY <4>1, LinkAssumption
    <3>2. CASE detected[d] > 0
      BY <1>9, <3>1, <3>2
    <3>3. CASE ~(detected[d] > 0)
      <4>1. /\ shown # Nobody /\ initialized
            /\ \E i \in DOMAIN queue :
                 /\ d \in Ids(queue[i])
                 /\ queue[i].version = shown.version + i
                 /\ \A q \in Line : q.version < queue[i].version => d \notin Ids(q)
        BY <3>3 DEF Follows
      <4>2. PICK i \in DOMAIN queue :
                 /\ d \in Ids(queue[i])
                 /\ queue[i].version = shown.version + i
                 /\ \A q \in Line : q.version < queue[i].version => d \notin Ids(q)
        BY <4>1
      <4>3. shown \in Line /\ shown.version \in Nat /\ queue[i].version \in Nat /\ i \in Nat /\ i >= 1
        BY <1>3, <4>1
      <4>4. r.version = shown.version + 1
        <5>1. queue[i].version + 1 = queue[1].version + i
          BY <1>1 DEF LinkInv, Ordered
        <5> QED BY SMTT(30), <1>1, <1>4, <4>2, <4>3, <5>1
      <4>5. CASE i = 1
        <5>1. d \in Ids(r) /\ d \notin Ids(shown)
          BY <1>1, <4>2, <4>3, <4>4, <4>5
        <5>2. PICK j \in DOMAIN r.darts : r.darts[j].id = d
          BY <5>1 DEF Ids
        <5>3. r.running /\ r.status = "throw" /\ j = Len(shown.darts) + 1
          BY <1>1, <4>3, <4>4, <5>1, <5>2 DEF Grows
        <5>4. /\ IsReport(r) /\ IsReport(shown)
              /\ Len(r.darts) \in Nat /\ Len(shown.darts) \in Nat
              /\ j <= Len(r.darts) /\ j \in Nat
          BY <1>1, <4>3, LineParts, ReportParts DEF LinkInv
        <5>5. /\ Len(StateOf(r).throws) = Len(r.darts) /\ StateOf(r).throws # NoSegments
              /\ StateOf(r).running = r.running /\ StateOf(r).status = r.status
          BY <5>4, BedsAreThrows
        <5>6. active = Beds(shown) /\ Len(active) = Len(shown.darts) /\ active \in Throws
          BY <4>1, <5>4, BedsAreThrows DEF LinkInv, BaselineIsShown, Beds
        <5>7. ~Fewer(StateOf(r)) /\ Len(StateOf(r).throws) # Len(active)
          BY <5>3, <5>4, <5>5, <5>6 DEF Fewer
        <5>8. Live(StateOf(r))
          BY <4>1, <5>3, <5>5 DEF Live
        <5>9. TakeDarts(StateOf(r))
          <6>1. Observe(StateOf(r))
            BY <1>2 DEF Process
          <6>2. ~Ignore(StateOf(r)) /\ ~Baseline(StateOf(r))
            BY <5>5, <5>8 DEF Ignore, Baseline
          <6>3. ~RemoveDarts(StateOf(r)) /\ ~Withdraw(StateOf(r)) /\ ~StillRemoving(StateOf(r))
            BY <5>7 DEF RemoveDarts, Removed, Withdraw, Withdrawn, StillRemoving
          <6> QED BY <6>1, <6>2, <6>3 DEF Observe
        <5>10. Known(StateOf(r)) = Len(shown.darts)
          BY <5>6, <5>7 DEF Known, MissedTakeout
        <5>11. j > Known(StateOf(r))
          BY <5>3, <5>4, <5>10
        <5>12. Cardinality(Hits(r, d)) = 1
          BY <5>2, <5>4, <5>6, <5>9, <5>11, NewDartsOnce
        <5> QED BY <1>9, <3>1, <5>12
      <4>6. CASE i # 1
        <5>1. i - 1 \in DOMAIN queue' /\ queue'[i - 1] = queue[i]
          <6>1. i - 1 \in DOMAIN queue' /\ (i - 1) + 1 = i
            BY <1>1, <1>3, <4>3, <4>6
          <6> QED BY <1>1, <6>1
        <5>2. queue'[i - 1].version = shown'.version + (i - 1)
          <6>1. shown'.version = shown.version + 1 /\ queue'[i - 1].version = shown.version + i
            BY <1>1, <4>2, <4>4, <5>1
          <6> QED BY <4>3, <6>1
        <5>3. \A q \in Line' : q.version < queue'[i - 1].version => d \notin Ids(q)
          BY <1>1, <4>2, <5>1
        <5> QED BY <1>1, <1>9, <4>2, <5>1, <5>2, <5>3
      <4> QED BY <4>5, <4>6
    <3> QED BY <3>2, <3>3
  <2> QED BY <1>2, <2>1 DEF Follows
<1> QED BY <1>8, <1>9, <1>10, <1>11, <1>12 DEF LinkInv
\* An answer that no message has overtaken keeps the invariant, if it arrives
\* before the messages sent after it.
LEMMA AnswerKeeps ==
    ASSUME InOrder, LinkInv, Grows, Follows, PollDone, ~overtaken
    PROVE  LinkInv' /\ Grows' /\ Follows' /\ answer \in Line
<1> DEFINE r == answer
<1>1. /\ Process(r) /\ shown' = r /\ available' = TRUE /\ overtaken' = FALSE
      /\ poll = "answered" /\ poll' = "idle"
      /\ UNCHANGED <<report, thrown, followed, left, fixing, link, queue>>
      /\ \A i \in DOMAIN queue : queue[i].version > r.version
  BY DEF PollDone, Process, boardVars, linkVars
<1>2. r \in Line
  BY <1>1 DEF Line, Pending, Answers
<1>3. /\ Len(queue) \in Nat /\ DOMAIN queue = 1..Len(queue) /\ queue \in Seq(Report)
      /\ \A q \in Line : q.version \in Nat /\ q.version <= report.version /\ IsReport(q)
      /\ report \in Line /\ \A i \in DOMAIN queue : queue[i] \in Line
      /\ shown # Nobody => shown \in Line
  BY LineParts DEF LinkInv, LinkTypes
<1>4. IsReport(r) /\ r.version \in Nat /\ r # Nobody /\ r.version <= report.version
  BY <1>2, <1>3, ReportParts
<1>5. Answers' = {}
  BY <1>1 DEF Answers
<1>6. Line' \subseteq Line
  BY <1>1, <1>2, <1>5 DEF Line, Pending
<1>7. \A q \in Line' : r.version <= q.version
  <2>1. ASSUME NEW q \in Line'
        PROVE  r.version <= q.version
    <3>1. q = r \/ q = report \/ \E i \in DOMAIN queue : q = queue[i]
      BY <1>1, <1>5 DEF Line, Pending
    <3>2. \A i \in DOMAIN queue : r.version <= queue[i].version
      BY <1>1, <1>3, <1>4
    <3> QED BY <1>4, <3>1, <3>2
  <2> QED BY <2>1
<1> HIDE DEF r
<1>8. UpToDate => r.version <= shown.version + 1 /\ UpToDate'
  <2>1. ASSUME UpToDate
        PROVE  r.version <= shown.version + 1 /\ UpToDate'
    <3>1. link = "up" /\ initialized /\ shown.version + Len(queue) >= report.version
      BY <2>1 DEF UpToDate
    <3>2. shown # Nobody /\ shown \in Line /\ shown.version \in Nat
      BY <1>3, <3>1 DEF LinkInv, BaselineIsShown
    <3>3. shown.version <= r.version
      BY <1>2, <3>2 DEF LinkInv, Ordered
    <3>4. r.version <= shown.version + 1
      <4>1. CASE Len(queue) = 0
        BY <1>3, <1>4, <3>1, <3>2, <4>1
      <4>2. CASE Len(queue) # 0
        <5>1. 1 \in DOMAIN queue
          BY <1>3, <4>2
        <5>2. queue[1].version = (report.version - Len(queue)) + 1 /\ queue[1].version \in Nat
          BY <1>3, <3>1, <5>1 DEF LinkInv, Ordered
        <5>3. r.version < queue[1].version
          BY <1>1, <1>4, <5>1, <5>2
        <5> QED BY <1>3, <1>4, <3>1, <3>2, <5>2, <5>3
      <4> QED BY <4>1, <4>2
    <3>5. r.version + Len(queue) >= report.version
      BY <1>3, <1>4, <3>1, <3>2, <3>3
    <3>6. initialized'
      BY <1>1, <1>4, ObserveShows DEF Process
    <3>7. UpToDate'
      BY <1>1, <3>1, <3>5, <3>6 DEF UpToDate
    <3> QED BY <3>4, <3>7
  <2> QED BY <2>1
<1>9. /\ \A q \in Line' : IsReport(q) /\ Ids(q) \subseteq 1..thrown'
      /\ \A q \in Line' : q.version <= report'.version
      /\ \A p, q \in Line' : p.version = q.version => p = q
      /\ Between' /\ Down' /\ Stays' /\ Grows'
  BY <1>1, <1>6, <1>8, LineShrinks
<1>10. /\ BaselineIsShown' /\ Seen' /\ CountedOnce' /\ initialized'
       /\ \A d \in 1..MaxThrown : detected[d] > 0 => detected'[d] > 0
  BY <1>1, <1>2, <1>6, <1>7, <1>8, ProcessSees
<1>11. LinkTypes'
  BY <1>1, <1>3, <1>9 DEF LinkInv, LinkTypes
<1>12. Ordered'
  <2>1. \A i \in DOMAIN queue : r.version < queue[i].version
    BY <1>1, <1>3, <1>4
  <2> QED BY <1>1, <1>7, <1>9, <2>1 DEF LinkInv, Ordered
<1>13. Follows'
  <2>1. ASSUME NEW d \in followed
        PROVE  \/ detected'[d] > 0
               \/ /\ shown' # Nobody /\ initialized'
                  /\ \E i \in DOMAIN queue' :
                       /\ d \in Ids(queue'[i])
                       /\ queue'[i].version = shown'.version + i
                       /\ \A q \in Line' : q.version < queue'[i].version => d \notin Ids(q)
    <3>1. d \in 1..MaxThrown
      <4>1. thrown \in Nat /\ thrown <= MaxThrown /\ d \in 1..thrown
        BY LinkAssumption DEF LinkInv, LinkTypes
      <4> QED BY <4>1, LinkAssumption
    <3>2. CASE detected[d] > 0
      BY <1>10, <3>1, <3>2
    <3>3. CASE ~(detected[d] > 0)
      <4>1. /\ shown # Nobody
            /\ \E i \in DOMAIN queue :
                 /\ d \in Ids(queue[i])
                 /\ queue[i].version = shown.version + i
                 /\ \A q \in Line : q.version < queue[i].version => d \notin Ids(q)
        BY <3>3 DEF Follows
      <4>2. PICK i \in DOMAIN queue :
                 /\ d \in Ids(queue[i])
                 /\ queue[i].version = shown.version + i
                 /\ \A q \in Line : q.version < queue[i].version => d \notin Ids(q)
        BY <4>1
      <4>3. /\ shown \in Line /\ shown.version \in Nat /\ shown.version <= r.version
            /\ i \in Nat /\ 1 \in DOMAIN queue
        <5>1. shown \in Line /\ i \in 1..Len(queue)
          BY <1>3, <4>1
        <5> QED BY <1>2, <1>3, <4>1, <5>1 DEF LinkInv, Ordered
      <4>4. queue[1].version + i = queue[i].version + 1
        BY <4>3 DEF LinkInv, Ordered
      <4>5. r.version < queue[1].version /\ queue[1].version \in Nat
        BY <1>1, <1>3, <1>4, <4>3
      <4>6. r.version = shown.version
        BY <1>3, <1>4, <4>2, <4>3, <4>4, <4>5
      <4>7. r = shown
        BY <1>2, <4>3, <4>6 DEF LinkInv, Ordered
      <4> QED BY <1>1, <1>6, <1>10, <4>1, <4>2, <4>7
    <3> QED BY <3>2, <3>3
  <2> QED BY <1>1, <2>1 DEF Follows
<1> QED BY <1>2, <1>9, <1>10, <1>11, <1>12, <1>13 DEF LinkInv, r

\* A step without an observation keeps the invariant if it keeps or drops
\* what is shown, what is under way and what is compared with.
LEMMA QuietKeeps ==
    ASSUME LinkInv, Grows, Follows,
           UNCHANGED <<report, thrown, left, fixing, detected>>,
           Line' \subseteq Line, BaselineIsShown',
           link' \in {"up", "broken", "down"},
           overtaken' \in BOOLEAN, available' \in BOOLEAN,
           fixing /\ UpToDate => UpToDate',
           shown' \in {shown, Nobody},
           \/ queue' = <<>>
           \/ queue' = queue /\ (link' = "up" => link = "up"),
           link' = "down" => queue' = <<>> /\ followed' = {},
           \/ followed' = {}
           \/ /\ followed' = followed /\ queue' = queue /\ shown' = shown
              /\ initialized => initialized'
    PROVE  LinkInv' /\ Grows' /\ Follows'
<1>1. /\ \A q \in Line' : IsReport(q) /\ Ids(q) \subseteq 1..thrown'
      /\ \A q \in Line' : q.version <= report'.version
      /\ \A p, q \in Line' : p.version = q.version => p = q
      /\ Between' /\ Down' /\ Stays' /\ Grows'
  BY LineShrinks
<1>2. CountedOnce'
  BY DEF LinkInv, CountedOnce
<1>3. Seen'
  BY DEF LinkInv, Seen
<1>4. queue' \in Seq(Report)
  BY EmptySeq DEF LinkInv, LinkTypes
<1>5. followed' \subseteq 1..thrown'
  BY DEF LinkInv, LinkTypes
<1>6. LinkTypes'
  BY <1>1, <1>4, <1>5 DEF LinkInv, LinkTypes
<1>7. Ordered'
  <2>1. DOMAIN <<>> = {}
    OBVIOUS
  <2>2. CASE queue' = <<>>
    BY <1>1, <2>1, <2>2 DEF LinkInv, Ordered
  <2>3. CASE queue' = queue /\ (link' = "up" => link = "up")
    BY <1>1, <2>3 DEF LinkInv, Ordered
  <2> QED BY <2>2, <2>3
<1>8. Follows'
  <2>1. CASE followed' = {}
    BY <2>1 DEF Follows
  <2>2. CASE /\ followed' = followed /\ queue' = queue /\ shown' = shown
             /\ initialized => initialized'
    BY <2>2 DEF Follows
  <2> QED BY <2>1, <2>2
<1> QED BY <1>1, <1>2, <1>3, <1>6, <1>7, <1>8 DEF LinkInv

\* The initial state.
LEMMA LinkInitHolds == LinkInit => LinkInv /\ Grows /\ Follows
<1> SUFFICES ASSUME LinkInit
             PROVE  LinkInv /\ Grows /\ Follows
  OBVIOUS
<1>1. /\ report = [version |-> 0, running |-> TRUE, status |-> "throw", darts |-> <<>>]
      /\ thrown = 0 /\ followed = {} /\ queue = <<>> /\ shown = Nobody /\ poll = "idle"
      /\ link = "down" /\ overtaken = FALSE /\ available = FALSE /\ fixing \in BOOLEAN
      /\ detected = [d \in 1..MaxThrown |-> 0] /\ initialized = FALSE
  BY LinkAssumption DEF LinkInit, Init
<1>2. DOMAIN <<>> = {} /\ Len(<<>>) = 0
  OBVIOUS
<1>3. <<>> \in Seq(Dart) /\ <<>> \in Seq(Report)
  BY EmptySeq
<1>4. Line = {report}
  BY <1>1, <1>2 DEF Line, Pending, Answers
<1>5. report.version = 0 /\ report.darts = <<>>
  BY <1>1
<1>6. report \in Report
  BY <1>1, <1>3 DEF Report
<1>7. IsReport(report) /\ Ids(report) = {}
  BY <1>2, <1>5, <1>6, BoundAssumption DEF IsReport, Ids
<1>8. LinkTypes
  <2>1. 0 \in 0..MaxThrown
    BY LinkAssumption
  <2> QED BY <1>1, <1>3, <1>4, <1>7, <2>1 DEF LinkTypes
<1>9. Ordered
  BY <1>1, <1>2, <1>4, <1>5 DEF Ordered
<1>10. Between /\ Down /\ Stays /\ Grows
  BY <1>2, <1>4, <1>5, <1>7 DEF Between, Down, Stays, Grows
<1>11. Seen /\ CountedOnce /\ BaselineIsShown /\ Follows
  BY <1>1, <1>4, LinkAssumption DEF Seen, CountedOnce, BaselineIsShown, Follows
<1> QED BY <1>8, <1>9, <1>10, <1>11 DEF LinkInv

\* The poll before its answer is processed.
LEMMA PollKeeps ==
    ASSUME LinkInv, Grows, Follows,
           PollStart \/ PollAnswer \/ (PollDone /\ overtaken) \/ PollFails
    PROVE  LinkInv' /\ Grows' /\ Follows'
<1>1. /\ UNCHANGED <<report, thrown, followed, left, fixing, detected, link, queue, shown>>
      /\ overtaken' \in BOOLEAN
  BY DEF PollStart, PollAnswer, PollDone, PollFails, boardVars, linkVars, viewVars, LinkInv, LinkTypes
<1>2. /\ link \in {"up", "broken", "down"} /\ available \in BOOLEAN
      /\ link = "down" => queue = <<>> /\ followed = {}
  BY DEF LinkInv, LinkTypes, Ordered
<1>3. Answers' \subseteq {report}
  BY DEF PollStart, PollAnswer, PollDone, PollFails, boardVars, Answers
<1>4. Line' \subseteq Line
  BY <1>1, <1>3 DEF Line, Pending
<1>5. CASE PollStart \/ PollAnswer
  <2>1. UNCHANGED <<initialized, active, available>>
    BY <1>5 DEF PollStart, PollAnswer, vars, viewVars
  <2>2. BaselineIsShown' /\ (UpToDate => UpToDate')
    BY <1>1, <2>1 DEF LinkInv, BaselineIsShown, UpToDate
  <2> QED BY <1>1, <1>2, <1>4, <2>1, <2>2, QuietKeeps
<1>6. CASE PollDone /\ overtaken
  <2>1. UNCHANGED <<initialized, active>> /\ available' = TRUE
    BY <1>6 DEF PollDone, vars
  <2>2. BaselineIsShown' /\ (UpToDate => UpToDate')
    BY <1>1, <2>1 DEF LinkInv, BaselineIsShown, UpToDate
  <2> QED BY <1>1, <1>2, <1>4, <2>1, <2>2, QuietKeeps
<1>7. CASE PollFails
  <2>1. /\ ~fixing /\ available' = (link # "down" /\ shown # Nobody)
        /\ IF link # "down" THEN UNCHANGED vars ELSE Forget
    BY <1>7 DEF PollFails, Fault, StreamConnected
  <2>2. CASE link = "down"
    <3>1. initialized' = FALSE
      BY <2>1, <2>2 DEF Forget
    <3>2. BaselineIsShown'
      BY <3>1 DEF BaselineIsShown
    <3> QED BY <1>1, <1>2, <1>4, <2>1, <2>2, <3>2, QuietKeeps
  <2>3. CASE link # "down"
    <3>1. UNCHANGED <<initialized, active>>
      BY <2>1, <2>3 DEF vars
    <3>2. BaselineIsShown'
      BY <1>1, <2>1, <2>3, <3>1 DEF LinkInv, BaselineIsShown
    <3> QED BY <1>1, <1>2, <1>4, <2>1, <3>1, <3>2, QuietKeeps
  <2> QED BY <2>2, <2>3
<1> QED BY <1>5, <1>6, <1>7

\* The connection breaks, is found broken, and comes back.
LEMMA StreamKeeps ==
    ASSUME LinkInv, Grows, Follows, Break \/ Gap \/ Connect
    PROVE  LinkInv' /\ Grows' /\ Follows'
<1>1. /\ UNCHANGED <<report, thrown, left, fixing, detected, shown, poll, answer,
                      overtaken, available>>
      /\ link' \in {"up", "broken", "down"} /\ overtaken' \in BOOLEAN /\ available' \in BOOLEAN
  BY DEF Break, Gap, Connect, boardVars, pollVars, viewVars, LinkInv, LinkTypes
<1>2. link = "down" => queue = <<>> /\ followed = {}
  BY DEF LinkInv, Ordered
<1>3. Answers' = Answers
  BY <1>1 DEF Answers
<1>4. CASE Break
  <2>1. /\ ~fixing /\ link' = "broken"
        /\ UNCHANGED <<queue, followed, initialized, active>>
    BY <1>4 DEF Break, Fault, boardVars, vars
  <2>2. BaselineIsShown'
    BY <1>1, <2>1 DEF LinkInv, BaselineIsShown
  <2>3. Line' \subseteq Line
    BY <1>1, <1>3, <2>1 DEF Line, Pending
  <2> QED BY <1>1, <2>1, <2>2, <2>3, QuietKeeps
<1>5. CASE Gap
  <2>1. link = "broken" /\ link' = "down" /\ queue' = <<>> /\ followed' = {} /\ initialized' = FALSE
    BY <1>5 DEF Gap, Forget
  <2>2. BaselineIsShown' /\ ~UpToDate
    BY <2>1 DEF BaselineIsShown, UpToDate
  <2>3. Line' \subseteq Line
    <3>1. DOMAIN queue' = {}
      BY <2>1
    <3> QED BY <1>1, <1>3, <3>1 DEF Line, Pending
  <2> QED BY <1>1, <2>1, <2>2, <2>3, QuietKeeps
<1>6. CASE Connect
  <2>1. /\ link = "down" /\ link' = "up"
        /\ UNCHANGED <<queue, followed, initialized, active>>
    BY <1>6 DEF Connect, boardVars, vars
  <2>2. BaselineIsShown' /\ ~UpToDate
    BY <1>1, <2>1 DEF LinkInv, BaselineIsShown, UpToDate
  <2>3. Line' \subseteq Line
    BY <1>1, <1>3, <2>1 DEF Line, Pending
  <2> QED BY <1>1, <1>2, <2>1, <2>2, <2>3, QuietKeeps
<1> QED BY <1>4, <1>5, <1>6

\* A reload shows nothing and compares with nothing.
LEMMA ReloadKeeps ==
    ASSUME LinkInv, Grows, Follows, Reload
    PROVE  LinkInv' /\ Grows' /\ Follows'
<1>1. /\ UNCHANGED <<report, thrown, left, fixing, detected>>
      /\ ~fixing /\ link' = "down" /\ queue' = <<>> /\ followed' = {}
      /\ poll' = "idle" /\ overtaken' = FALSE /\ available' = FALSE
      /\ shown' = Nobody /\ initialized' = FALSE
  BY DEF Reload, Fault, Restart
<1>2. BaselineIsShown'
  BY <1>1 DEF BaselineIsShown
<1>3. DOMAIN queue' = {} /\ Answers' = {}
  BY <1>1 DEF Answers
<1>4. Line' \subseteq Line
  BY <1>1, <1>3 DEF Line, Pending
<1> QED BY <1>1, <1>2, <1>4, QuietKeeps

\* A step that changes nothing keeps it.
LEMMA StillKeeps ==
    ASSUME LinkInv, Grows, Follows, UNCHANGED lvars
    PROVE  LinkInv' /\ Grows' /\ Follows'
<1>1. /\ UNCHANGED <<report, thrown, followed, left, fixing, link, queue, poll, answer,
                      overtaken, shown, available, detected, initialized, active>>
      /\ link' \in {"up", "broken", "down"} /\ overtaken' \in BOOLEAN /\ available' \in BOOLEAN
  BY DEF lvars, vars, boardVars, linkVars, pollVars, viewVars, LinkInv, LinkTypes
<1>2. Line' \subseteq Line /\ BaselineIsShown' /\ (UpToDate => UpToDate')
  BY <1>1 DEF Line, Pending, Answers, LinkInv, BaselineIsShown, UpToDate
<1>3. link = "down" => queue = <<>> /\ followed = {}
  BY DEF LinkInv, Ordered
<1> QED BY <1>1, <1>2, <1>3, QuietKeeps

\* Every step keeps the invariant.
LEMMA LinkKeeps ==
    ASSUME InOrder, LinkInv, Grows, Follows, [LinkNext]_lvars
    PROVE  LinkInv' /\ Grows' /\ Follows'
<1>1. CASE BoardStep
  BY <1>1, BoardKeeps
<1>2. CASE Receive
  BY <1>2, ReceiveKeeps
<1>3. CASE PollDone /\ ~overtaken
  BY <1>3, AnswerKeeps
<1>4. CASE PollStart \/ PollAnswer \/ (PollDone /\ overtaken) \/ PollFails
  BY <1>4, PollKeeps
<1>5. CASE Break \/ Gap \/ Connect
  BY <1>5, StreamKeeps
<1>6. CASE Reload
  BY <1>6, ReloadKeeps
<1>7. CASE UNCHANGED lvars
  BY <1>7, StillKeeps
<1> QED BY <1>1, <1>2, <1>3, <1>4, <1>5, <1>6, <1>7 DEF LinkNext

-----------------------------------------------------------------------------
(* The theorems.                                                           *)

\* The invariant holds in every reachable state.
THEOREM LineHolds ==
    ASSUME InOrder
    PROVE  LinkSpec => [](LinkInv /\ Grows /\ Follows)
<1>1. LinkInit => LinkInv /\ Grows /\ Follows
  BY LinkInitHolds
<1>2. (LinkInv /\ Grows /\ Follows) /\ [LinkNext]_lvars => (LinkInv /\ Grows /\ Follows)'
  BY LinkKeeps
<1> QED BY <1>1, <1>2, PTL DEF LinkSpec

\* A session that can compare compares with what the coordinator shows.
THEOREM ComparesWithShown ==
    ASSUME InOrder
    PROVE  LinkSpec => []BaselineIsShown
<1>1. LinkInv => BaselineIsShown
  BY DEF LinkInv
<1> QED BY <1>1, LineHolds, PTL

\* No dart is announced twice, over messages, repeated and overtaken polls,
\* gaps, reloads and corrections, however many of each there are.
THEOREM NoDartTwice ==
    ASSUME InOrder
    PROVE  LinkSpec => []CountedOnce
<1>1. LinkInv => CountedOnce
  BY DEF LinkInv
<1> QED BY <1>1, LineHolds, PTL

\* A dart whose reports all reach the coordinator is announced by the time the
\* coordinator shows it.
THEOREM EveryDartCounted ==
    ASSUME InOrder
    PROVE  LinkSpec => []NoDartLost
<1>1. LinkInv /\ Follows => NoDartLost
  <2> SUFFICES ASSUME LinkInv, Follows, NEW d \in followed, shown # Nobody, d \in Ids(shown)
               PROVE  detected[d] > 0
    BY DEF NoDartLost, Ids
  <2>1. ASSUME NEW i \in DOMAIN queue,
               \A r \in Line : r.version < queue[i].version => d \notin Ids(r)
        PROVE  FALSE
    <3>1. shown \in Line /\ shown.version < queue[i].version
      BY DEF LinkInv, Ordered, Line
    <3> QED BY <2>1, <3>1
  <2> QED BY <2>1 DEF Follows
<1> QED BY <1>1, LineHolds, PTL

\* A slow poll never takes the view back: the answer it brings is of the line,
\* and nothing in the line is older than what is shown.
THEOREM ViewNeverGoesBack ==
    ASSUME InOrder
    PROVE  LinkSpec => NoStaleOverwrite
<1>1. ASSUME LinkInv /\ Grows /\ Follows, [LinkNext]_lvars
      PROVE  shown # Nobody /\ shown' # Nobody => shown'.version >= shown.version
  <2> SUFFICES ASSUME shown # Nobody, shown' # Nobody
               PROVE  shown'.version >= shown.version
    OBVIOUS
  <2>1. /\ shown \in Line /\ \A r \in Line : shown.version <= r.version
        /\ \A r \in Line : r.version \in Nat
    BY <1>1, LineParts DEF LinkInv, Ordered, Line
  <2>2. shown' \in Line
    <3>1. CASE Receive
      BY <1>1, <3>1, ReceiveLine DEF LinkInv
    <3>2. CASE PollDone /\ ~overtaken
      <4>1. answer \in Line
        BY <1>1, <3>2, AnswerKeeps
      <4>2. shown' = answer
        BY <3>2 DEF PollDone, Process
      <4> QED BY <4>1, <4>2
    <3>3. CASE PollDone /\ overtaken
      BY <2>1, <3>3 DEF PollDone
    <3>4. CASE BoardStep
      <4>1. shown' = shown
        BY <3>4 DEF BoardStep, Throw, Correct, WithdrawDetection, Pull, BeginTakeout,
             EndTakeout, Toggle, Reports, viewVars
      <4> QED BY <2>1, <4>1
    <3>5. CASE PollStart \/ PollAnswer \/ PollFails \/ Break \/ Gap \/ Connect
      <4>1. shown' = shown
        BY <3>5 DEF PollStart, PollAnswer, PollFails, Break, Gap, Connect, viewVars
      <4> QED BY <2>1, <4>1
    <3>6. CASE Reload
      BY <3>6 DEF Reload
    <3>7. CASE UNCHANGED lvars
      BY <2>1, <3>7 DEF lvars, viewVars
    <3> QED BY <1>1, <3>1, <3>2, <3>3, <3>4, <3>5, <3>6, <3>7 DEF LinkNext
  <2> QED BY <2>1, <2>2
<1> QED BY <1>1, LineHolds, PTL DEF LinkSpec, NoStaleOverwrite

-----------------------------------------------------------------------------
(* The session behind the coordinator.                                     *)

\* What the coordinator may observe next, overtaken answers included: reports
\* of a board that is not removing darts while its detection is stopped.
Sources == {queue[i] : i \in DOMAIN queue} \cup {report}
           \cup (IF poll = "answered" THEN {answer} ELSE {})
Readable(r) == IsReport(r) /\ Ids(r) \subseteq 1..thrown /\ (r.running \/ r.status = "throw")
LinkReports ==
    thrown \in 0..MaxThrown /\ queue \in Seq(Report) /\ \A r \in Sources : Readable(r)

\* Such a report is a state that the session takes.
LEMMA ReadableIsState ==
    ASSUME NEW r, Readable(r)
    PROVE  StateOf(r) \in States
<1>1. StateOf(r) = [running |-> r.running, status |-> r.status, throws |-> Beds(r)]
  BY DEF StateOf, Beds
<1>2. Beds(r) \in Throws
  BY BedsAreThrows DEF Readable
<1>3. r.running \in BOOLEAN /\ r.status \in {"throw", "takeout"} /\ (r.running \/ r.status = "throw")
  BY ReportParts DEF Readable
<1>4. CASE r.running = TRUE
  <2>1. StateOf(r) = [running |-> TRUE, status |-> r.status, throws |-> Beds(r)]
    BY <1>1, <1>4
  <2>2. StateOf(r) \in [running : {TRUE}, status : Statuses, throws : Throws]
    BY <1>2, <1>3, <2>1 DEF Statuses
  <2> QED BY <2>2 DEF States
<1>5. CASE r.running = FALSE
  <2>1. StateOf(r) = [running |-> FALSE, status |-> "throw", throws |-> Beds(r)]
    BY <1>1, <1>3, <1>5
  <2>2. StateOf(r) \in [running : {FALSE}, status : {"throw"}, throws : Throws]
    BY <1>2, <2>1
  <2> QED BY <2>2 DEF States
<1> QED BY <1>3, <1>4, <1>5

\* Every step of the coordinator is an operation of the session, or none.
LEMMA LinkOperates ==
    ASSUME LinkReports, [LinkNext]_lvars
    PROVE  Operates \/ UNCHANGED vars
<1>1. ASSUME NEW r \in Sources, Process(r)
      PROVE  Operates
  <2>1. StateOf(r) \in States
    BY ReadableIsState DEF LinkReports
  <2> QED BY <1>1, <2>1 DEF Process, Operates
<1>2. CASE BoardStep
  <2>1. Changes
    BY <1>2, BoardChanges DEF LinkReports, Sources, Readable
  <2> QED BY <2>1 DEF Changes
<1>3. CASE Receive
  <2>1. queue # <<>> /\ queue \in Seq(Report) /\ Process(Head(queue))
    BY <1>3 DEF Receive, LinkReports
  <2>2. Head(queue) = queue[1] /\ 1 \in DOMAIN queue
    BY <2>1, HeadTailProperties, LenProperties, EmptySeq
  <2> QED BY <1>1, <2>1, <2>2 DEF Sources
<1>4. CASE PollDone
  BY <1>1, <1>4 DEF PollDone, Sources
<1>5. CASE PollFails
  BY <1>5 DEF PollFails, Operates
<1>6. CASE Gap \/ Reload
  BY <1>6 DEF Gap, Reload, Operates
<1>7. CASE PollStart \/ PollAnswer \/ Break \/ Connect
  BY <1>7 DEF PollStart, PollAnswer, Break, Connect
<1>8. CASE UNCHANGED lvars
  BY <1>8 DEF lvars
<1> QED BY <1>2, <1>3, <1>4, <1>5, <1>6, <1>7, <1>8 DEF LinkNext

\* A board that stops its detection ends a takeout.
LEMMA BoardIsReadable ==
    ASSUME LinkReports, BoardStep
    PROVE  Readable(report)'
<1>1. Readable(report) /\ thrown \in 0..MaxThrown /\ thrown \in Nat
  BY LinkAssumption DEF LinkReports, Sources
<1>2. Changes
  BY <1>1, BoardChanges DEF Readable
<1>3. IsReport(report') /\ thrown' \in {thrown, thrown + 1}
  BY <1>2 DEF Changes
<1>4. ASSUME NEW d \in Ids(report') PROVE d \in 1..thrown'
  <2>1. PICK j \in DOMAIN report'.darts : report'.darts[j].id = d
    BY <1>4 DEF Ids
  <2>2. CASE d \in Ids(report)
    BY <1>1, <1>3, <2>2 DEF Readable
  <2>3. CASE d \notin Ids(report)
    <3>1. d = thrown + 1 /\ thrown' = thrown + 1
      BY <1>2, <2>1, <2>3 DEF Changes
    <3> QED BY <1>1, <3>1
  <2> QED BY <2>2, <2>3
<1>5. report'.running \/ report'.status = "throw"
  <2>1. PICK run, st, d : Reports(run, st, d) /\ (run \/ st = "throw")
    <3>1. CASE \E b \in Bed : Throw(b)
      BY <3>1 DEF Throw
    <3>2. CASE \E i \in DOMAIN report.darts, b \in Bed : Correct(i, b)
      BY <3>2 DEF Correct
    <3>3. CASE \E i \in DOMAIN report.darts : WithdrawDetection(i)
      BY <3>3 DEF WithdrawDetection
    <3>4. CASE \E i \in DOMAIN report.darts : Pull(i)
      <4>1. PICK i \in DOMAIN report.darts : Pull(i)
        BY <3>4
      <4>2. report.running
        BY <1>1, <4>1 DEF Pull, Readable
      <4> QED BY <4>1, <4>2 DEF Pull
    <3>5. CASE BeginTakeout
      BY <3>5 DEF BeginTakeout
    <3>6. CASE EndTakeout
      BY <3>6 DEF EndTakeout
    <3>7. CASE Toggle
      BY <3>7 DEF Toggle
    <3> QED BY <3>1, <3>2, <3>3, <3>4, <3>5, <3>6, <3>7 DEF BoardStep
  <2>2. report'.running = run /\ report'.status = st
    BY <2>1 DEF Reports
  <2> QED BY <2>1, <2>2
<1> QED BY <1>3, <1>4, <1>5 DEF Readable, Ids

\* What may be observed stays readable.
LEMMA ReportsKept ==
    ASSUME LinkReports, [LinkNext]_lvars
    PROVE  LinkReports'
<1>1. thrown \in 0..MaxThrown /\ queue \in Seq(Report) /\ \A r \in Sources : Readable(r)
  BY DEF LinkReports
<1>2. CASE BoardStep
  <2>1. Readable(report)'
    BY <1>2, BoardIsReadable
  <2>2. Changes
    BY <1>1, <1>2, BoardChanges DEF Sources, Readable
  <2>3. /\ queue' = IF link = "up" THEN Append(queue, report') ELSE queue
        /\ poll' = poll /\ answer' = answer /\ report' \in Report
        /\ thrown' \in {thrown, thrown + 1} /\ thrown' <= MaxThrown
    BY <2>2 DEF Changes, pollVars, IsReport
  <2>4. queue' \in Seq(Report) /\ thrown' \in 0..MaxThrown
    BY <1>1, <2>3, LinkAssumption
  <2>5. \A r \in Sources' : r \in Sources \/ r = report'
    <3>1. CASE queue' = queue
      BY <2>3, <3>1 DEF Sources
    <3>2. CASE queue' = Append(queue, report')
      <4>1. \A i \in DOMAIN queue' : \/ i \in DOMAIN queue /\ queue'[i] = queue[i]
                                     \/ queue'[i] = report'
        <5>1. /\ queue' \in Seq(Report) /\ Len(queue') = Len(queue) + 1
              /\ \A i \in 1..Len(queue) : queue'[i] = queue[i]
              /\ queue'[Len(queue) + 1] = report'
          BY <1>1, <2>3, <3>2, AppendProperties
        <5>2. /\ DOMAIN queue' = 1..Len(queue') /\ DOMAIN queue = 1..Len(queue)
              /\ Len(queue) \in Nat
          BY <1>1, <5>1, LenProperties
        <5> QED BY <5>1, <5>2
      <4> QED BY <2>3, <4>1 DEF Sources
    <3> QED BY <2>3, <3>1, <3>2
  <2>6. \A r \in Sources : Readable(r)'
    BY <1>1, <2>3, LinkAssumption DEF Readable
  <2> QED BY <2>1, <2>4, <2>5, <2>6 DEF LinkReports, Readable
<1>3. CASE ~BoardStep
  <2>1. /\ report' = report /\ thrown' = thrown
        /\ queue' = queue \/ queue' = <<>> \/ (queue # <<>> /\ queue' = Tail(queue))
        /\ poll' = "answered" => answer' = report \/ (poll = "answered" /\ answer' = answer)
    <3>1. CASE Receive
      BY <3>1 DEF Receive, boardVars
    <3>2. CASE PollStart \/ PollAnswer \/ PollDone \/ PollFails
      BY <3>2 DEF PollStart, PollAnswer, PollDone, PollFails, boardVars, linkVars
    <3>3. CASE Break \/ Gap \/ Connect \/ Reload
      BY <3>3 DEF Break, Gap, Connect, Reload, boardVars, pollVars
    <3>4. CASE UNCHANGED lvars
      BY <3>4 DEF lvars, boardVars, linkVars, pollVars
    <3> QED BY <1>3, <3>1, <3>2, <3>3, <3>4 DEF LinkNext
  <2>2. /\ queue' \in Seq(Report)
        /\ \A i \in DOMAIN queue' : \E j \in DOMAIN queue : queue'[i] = queue[j]
    <3>1. CASE queue' = queue
      BY <1>1, <3>1
    <3>2. CASE queue' = <<>>
      BY <3>2, EmptySeq
    <3>3. CASE queue # <<>> /\ queue' = Tail(queue)
      <4>1. /\ Tail(queue) \in Seq(Report) /\ Len(Tail(queue)) = Len(queue) - 1
            /\ \A i \in 1..Len(Tail(queue)) : Tail(queue)[i] = queue[i + 1]
            /\ Len(queue) \in Nat /\ DOMAIN queue = 1..Len(queue)
        BY <1>1, <3>3, HeadTailProperties, LenProperties
      <4>2. DOMAIN Tail(queue) = 1..Len(Tail(queue))
        BY <4>1, LenProperties
      <4>3. \A i \in 1..Len(Tail(queue)) : i + 1 \in 1..Len(queue)
        BY <4>1
      <4> QED BY <3>3, <4>1, <4>2, <4>3
    <3> QED BY <2>1, <3>1, <3>2, <3>3
  <2>3. \A r \in Sources' : r \in Sources
    BY <2>1, <2>2 DEF Sources
  <2> QED BY <1>1, <2>1, <2>2, <2>3 DEF LinkReports, Readable
<1> QED BY <1>2, <1>3

\* The session behind polls, messages, gaps and reloads is always a ledger:
\* also with answers that overtake messages, each dart that is announced counts
\* once, in the session that runs (local_coordinator.py, _process).
THEOREM LinkKeepsLedger == LinkSpec => ImplementsLedger
<1>1. LinkInit => LinkReports /\ IInv /\ Shelf /\ L!Init
  <2> SUFFICES ASSUME LinkInit PROVE LinkReports /\ IInv /\ Shelf /\ L!Init
    OBVIOUS
  <2>1. IInv /\ Shelf /\ L!Init
    BY InitIInv, InitLedger DEF LinkInit
  <2>2. /\ report = [version |-> 0, running |-> TRUE, status |-> "throw", darts |-> <<>>]
        /\ thrown = 0 /\ queue = <<>> /\ poll = "idle"
    BY DEF LinkInit
  <2>3. /\ <<>> \in Seq(Dart) /\ <<>> \in Seq(Report) /\ DOMAIN <<>> = {} /\ Len(<<>>) = 0
    BY EmptySeq
  <2>4. report \in Report /\ report.darts = <<>> /\ report.running
    BY <2>2, <2>3 DEF Report
  <2>5. Readable(report)
    BY <2>3, <2>4, BoundAssumption DEF Readable, IsReport, Ids
  <2>6. Sources = {report}
    BY <2>2, <2>3 DEF Sources
  <2> QED BY <2>1, <2>2, <2>3, <2>5, <2>6, LinkAssumption DEF LinkReports
<1>2. LinkReports /\ IInv /\ Shelf /\ [LinkNext]_lvars
        => (LinkReports /\ IInv /\ Shelf)' /\ [L!Next]_(L!ledger)
  <2> SUFFICES ASSUME LinkReports, IInv, Shelf, [LinkNext]_lvars
               PROVE  (LinkReports /\ IInv /\ Shelf)' /\ [L!Next]_(L!ledger)
    OBVIOUS
  <2>1. Operates \/ UNCHANGED vars
    BY LinkOperates
  <2> QED BY <2>1, ReportsKept, OperationIInv, OperationShelf, OperatesLedger, LedgerStutters
<1> QED BY <1>1, <1>2, PTL DEF LinkSpec, ImplementsLedger, L!Spec
=============================================================================
