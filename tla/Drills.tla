------------------------------- MODULE Drills -------------------------------
(***************************************************************************)
(* The training games of drills.py, as practice.py plays them: Around the  *)
(* Clock and the doubles training (TargetDrill), Bob's 27 (BobsDrill) and  *)
(* the checkout training (CheckoutDrill).                                  *)
(*                                                                         *)
(* A training game keeps its own copy of the visit, which only track() and *)
(* finish_visit() change while the game is chosen; PracticeGame keeps the  *)
(* visit on the board whatever is played.  One training game is followed,  *)
(* next to anything else that may be chosen.  As in Practice, a dart knows *)
(* whether it was thrown before the game was chosen; the program does not. *)
(***************************************************************************)
EXTENDS Rules

CONSTANTS
    Drills,             \* the training games tried
    Targets,            \* the targets in order, 1 to 20 and the bull in the code
    BobsStart,          \* points at the start of Bob's 27, 27 in the code
    CheckoutScores,     \* the finishes asked for
    CheckoutVisits,     \* visits of an attempt, 3 in the code
    DrillBeds,          \* training game -> the beds tried in it
    MaxVisit,           \* bound: darts of a visit
    MaxDarts            \* bound: darts of a game, attempts of the checkout training

TargetDrills == {"around_the_clock", "doubles"}
DrillKinds == TargetDrills \cup {"bobs_27", "checkout"}

ASSUME DrillsAssumption ==
    /\ Drills \subseteq DrillKinds
    /\ Targets \in Seq(Nat \ {0}) /\ Targets # <<>>
    /\ BobsStart \in Nat /\ CheckoutVisits \in Nat \ {0}
    /\ CheckoutScores \subseteq Nat \ {0, 1} /\ CheckoutScores # {}
    /\ DrillBeds \in [Drills -> SUBSET [number : Nat, multiplier : 0..3]]
    /\ MaxVisit \in Nat /\ MaxDarts \in Nat

VARIABLES
    drill,          \* the training game; see TypeOK
    board,          \* PracticeGame._visit: the darts on the board
    chosen,         \* whether the training game is the one that is played
    recorded,       \* results[0]: the newest result, or NoResult
    ends,           \* how often the end of this game was announced, up to 2
    tried,          \* darts at a double that the last step recorded: hit or not
    stale           \* chosen again while it still held another visit

vars == <<drill, board, chosen, recorded, ends, tried, stale>>

NoResult == [darts |-> -1]
Dart == [bed : UNION {DrillBeds[kind] : kind \in Drills}, early : BOOLEAN]

-----------------------------------------------------------------------------
(* The darts of the visit.                                                 *)

IsTarget(d) == d.kind \in TargetDrills
Thrown(d) == SubSeq(d.visit, d.skip + 1, Len(d.visit))
Beds(d) == [i \in DOMAIN Thrown(d) |-> Thrown(d)[i].bed]

\* TargetDrill._hit.
Hit(d, bed, number) ==
    bed.number = number /\ bed.multiplier # 0 /\ (d.kind = "doubles" => IsDouble(bed))

\* The index of the target after each of the darts.
Indexes(d) ==
    LET beds == Beds(d)
        after[i \in 0..Len(beds)] ==
          IF i = 0 THEN d.index
          ELSE IF after[i - 1] < Len(Targets) /\ Hit(d, beds[i], Targets[after[i - 1] + 1])
          THEN after[i - 1] + 1 ELSE after[i - 1]
    IN  after

\* _progress: target index and counted darts after the darts of this visit.
Progress(d) ==
    LET after == Indexes(d)
        last  == Len(Thrown(d))
        over  == {i \in 1..last : after[i] = Len(Targets) /\ after[i - 1] # after[i]}
    IN  [index |-> after[last], darts |-> IF over = {} THEN last ELSE First(over)]

\* BobsDrill: the value of the round, and how often the visit hits it.
RoundNumber(d) == Targets[d.index + 1]
Value(d) == IF RoundNumber(d) = Bull THEN 50 ELSE 2 * RoundNumber(d)
VisitHits(d) ==
    Cardinality({i \in DOMAIN Beds(d) : Beds(d)[i].number = RoundNumber(d) /\ IsDouble(Beds(d)[i])})

\* double_attempts: the darts of the visit thrown at a double.
DoubleAttempts(d) ==
    LET beds == Beds(d)
        index == IF d.kind = "doubles" THEN Indexes(d) ELSE [i \in 0..Len(beds) |-> d.index]
        aimed == {i \in DOMAIN beds : index[i - 1] < Len(Targets)}
    IN  IF d.finished \/ d.kind \notin {"doubles", "bobs_27"} THEN <<>>
        ELSE [i \in 1..Cardinality(aimed) |->
                beds[i].multiplier = 2 /\ beds[i].number = Targets[index[i - 1] + 1]]

-----------------------------------------------------------------------------
(* Games and their ends.                                                   *)

\* reset; the checkout training asks for one of its finishes.
Reset(d, onBoard, pick) ==
    [d EXCEPT !.finished = FALSE, !.skip = onBoard, !.announced = FALSE,
              !.index = 0, !.darts = 0, !.hits = 0, !.score = BobsStart,
              !.target = pick, !.start = pick, !.visits = 0, !.attemptDarts = 0,
              !.attempts = 0, !.successes = 0]

Summary(d, darts, hits) == [darts |-> darts, hits |-> hits]

\* What a game that ends with this visit records.
Outcome(d) ==
    IF d.kind = "bobs_27" THEN [darts |-> d.darts, hits |-> d.hits, score |-> d.score]
    ELSE Summary(d, d.darts, d.hits)

\* What the darts of the visit end, as _announce tells it.
Announced(d) ==
    LET now == Progress(d)
    IN  IF ~IsTarget(d) \/ now.index < Len(Targets) \/ d.announced THEN NoResult
        ELSE Summary(d, d.darts + now.darts, d.hits + now.index - d.index)

\* Mutant: a dart after the end does not start again.
Follow_Over(d, visit) ==
    [d EXCEPT !.visit = visit, !.skip = Least(d.skip, Len(visit))]

\* track, up to the announcement: the first dart after the end starts again.
Follow(d, visit) ==
    LET seen == [d EXCEPT !.visit = visit, !.skip = Least(d.skip, Len(visit))]
    IN  IF seen.finished /\ Thrown(seen) # <<>> THEN Reset(seen, 0, d.target) ELSE seen

Track(d, visit) ==
    LET seen == Follow(d, visit)
    IN  [seen EXCEPT !.announced = seen.announced \/ Announced(seen) # NoResult]

\* _book, by kind: the game after the visit, the result it records and whether
\* booking announces the end of the game (checkout_attempt is no end).
Open(d) == [drill |-> d, result |-> NoResult, tells |-> FALSE]

\* Mutant: darts after the last target count, too.
BookTarget_AllDarts(d, pick) ==
    LET now  == Progress(d)
        kept == [d EXCEPT !.hits = @ + now.index - d.index, !.darts = @ + Len(Thrown(d)),
                          !.index = now.index]
    IN  IF now.index < Len(Targets) THEN Open(kept)
        ELSE [drill |-> [kept EXCEPT !.finished = TRUE],
              result |-> Outcome(kept), tells |-> FALSE]

BookTarget(d, pick) ==
    LET now  == Progress(d)
        kept == [d EXCEPT !.hits = @ + now.index - d.index, !.darts = @ + now.darts,
                          !.index = now.index]
    IN  IF now.index < Len(Targets) THEN Open(kept)
        ELSE [drill |-> [kept EXCEPT !.finished = TRUE],
              result |-> Outcome(kept), tells |-> FALSE]

\* Mutant: only a completed game is announced.
BookBobs_Quiet(d, pick) ==
    LET hits == VisitHits(d)
        kept == [d EXCEPT !.score = @ + (IF hits > 0 THEN hits * Value(d) ELSE -Value(d)),
                          !.hits = @ + hits, !.darts = @ + Len(Thrown(d))]
    IN  IF kept.score >= 0 /\ d.index < Len(Targets) - 1
        THEN Open([kept EXCEPT !.index = @ + 1])
        ELSE [drill |-> [kept EXCEPT !.finished = TRUE],
              result |-> Outcome(kept), tells |-> kept.score >= 0]

BookBobs(d, pick) ==
    LET hits == VisitHits(d)
        kept == [d EXCEPT !.score = @ + (IF hits > 0 THEN hits * Value(d) ELSE -Value(d)),
                          !.hits = @ + hits, !.darts = @ + Len(Thrown(d))]
    IN  IF kept.score >= 0 /\ d.index < Len(Targets) - 1
        THEN Open([kept EXCEPT !.index = @ + 1])
        ELSE [drill |-> [kept EXCEPT !.finished = TRUE],
              result |-> Outcome(kept), tells |-> TRUE]

\* Mutant: a bust does not end the attempt.
BookCheckout_Busted(d, pick) ==
    LET now  == EvaluateVisit(d.start, Beds(d), 0, TRUE)
        kept == [d EXCEPT !.visits = @ + 1, !.attemptDarts = @ + now.darts]
    IN  IF now.outcome # "won" THEN Open([kept EXCEPT !.start = now.remaining])
        ELSE [drill |-> [kept EXCEPT !.attempts = @ + 1, !.successes = @ + 1,
                                     !.target = pick, !.start = pick, !.visits = 0,
                                     !.attemptDarts = 0],
              result |-> [darts |-> kept.attemptDarts], tells |-> FALSE]

BookCheckout(d, pick) ==
    LET now  == EvaluateVisit(d.start, Beds(d), 0, TRUE)
        kept == [d EXCEPT !.visits = @ + 1, !.attemptDarts = @ + now.darts]
    IN  IF now.outcome = "none" /\ kept.visits < CheckoutVisits
        THEN Open([kept EXCEPT !.start = now.remaining])
        ELSE [drill |-> [kept EXCEPT !.attempts = @ + 1,
                                     !.successes = @ + (IF now.outcome = "won" THEN 1 ELSE 0),
                                     !.target = pick, !.start = pick, !.visits = 0,
                                     !.attemptDarts = 0],
              result |-> [darts |-> kept.attemptDarts], tells |-> FALSE]

\* finish_visit: book the visit whose darts were pulled, unless the game ended.
Books(d) == ~d.finished /\ Thrown(d) # <<>>

Finish(d, pick) ==
    LET booked == IF ~Books(d) THEN Open(d)
                  ELSE IF IsTarget(d) THEN BookTarget(d, pick)
                  ELSE IF d.kind = "bobs_27" THEN BookBobs(d, pick)
                  ELSE BookCheckout(d, pick)
    IN  [booked EXCEPT !.drill.visit = <<>>, !.drill.skip = 0, !.drill.announced = FALSE]

-----------------------------------------------------------------------------
(* Steps.                                                                  *)

\* Count the ends that booking (told) and track announce of this game.
Tell(d, visit, told) ==
    LET seen  == Follow(d, visit)
        again == d.finished /\ ~seen.finished      \* the next game begins
        one(tells) == IF tells THEN 1 ELSE 0
    IN  ends' = Least(2, (IF again THEN 0 ELSE ends + one(told))
                         + one(Announced(seen) # NoResult))

\* A state of the board changes the visit without completing it.
Revise(visit) ==
    /\ board' = visit
    /\ IF chosen
       THEN /\ drill' = Track(drill, visit)
            /\ Tell(drill, visit, FALSE)
            /\ stale' = FALSE
       ELSE UNCHANGED <<drill, ends, stale>>
    /\ tried' = <<>>
    /\ UNCHANGED <<chosen, recorded>>

New(b) == [bed |-> b, early |-> ~chosen]
Detect(b) == Len(board) < MaxVisit /\ Revise(Append(board, New(b)))
Correct(i, b) == board[i].bed # b /\ Revise([board EXCEPT ![i].bed = b])
Withdraw(i) == Revise(SubSeq(board, 1, i - 1) \o SubSeq(board, i + 1, Len(board)))

\* After a gap nobody is told of the darts of the visit.
Drop == board # <<>> /\ Revise(<<>>)

\* The darts were pulled; after a missed takeout a new one is seen at once.
Complete ==
    /\ board # <<>>
    /\ chosen /\ Books(drill) =>
           drill.darts < MaxDarts /\ drill.attempts < MaxDarts
    /\ \E pick \in CheckoutScores,
          visit \in {<<>>} \cup {<<New(b)>> : b \in DrillBeds[drill.kind]} :
         /\ board' = visit
         /\ IF chosen
            THEN LET done == Finish(drill, pick)
                 IN  /\ drill' = Track(done.drill, visit)
                     /\ recorded' = IF done.result = NoResult THEN recorded ELSE done.result
                     /\ tried' = DoubleAttempts(drill)
                     /\ Tell(done.drill, visit, done.tells)
                     /\ stale' = FALSE
            ELSE tried' = <<>> /\ UNCHANGED <<drill, recorded, ends, stale>>
    /\ UNCHANGED chosen

\* play, new_match and new_leg while the game is chosen: the game is reset, the
\* darts on the board do not count.  Its own visit is left as it was.
Early(visit) == [i \in DOMAIN visit |-> [visit[i] EXCEPT !.early = TRUE]]

\* Mutant: darts on the board count.
Choose_All ==
    /\ chosen' = TRUE
    /\ board' = Early(board)
    /\ \E pick \in CheckoutScores :
         drill' = [Reset(drill, 0, pick) EXCEPT !.visit = Early(drill.visit)]
    /\ stale' = (Len(drill.visit) > Len(board))
    /\ ends' = 0 /\ tried' = <<>> /\ UNCHANGED recorded

Choose ==
    /\ chosen' = TRUE
    /\ board' = Early(board)
    /\ \E pick \in CheckoutScores :
         drill' = [Reset(drill, Len(board), pick) EXCEPT !.visit = Early(drill.visit)]
    /\ stale' = (Len(drill.visit) > Len(board))
    /\ ends' = 0 /\ tried' = <<>> /\ UNCHANGED recorded

\* Something else is played.
Leave ==
    /\ chosen
    /\ chosen' = FALSE
    /\ tried' = <<>>
    /\ UNCHANGED <<drill, board, recorded, ends, stale>>

\* A restart: game and results are stored, the visit in progress is not.
Restart ==
    /\ drill' = [drill EXCEPT !.visit = <<>>, !.skip = 0, !.announced = FALSE]
    /\ board' = <<>>
    /\ stale' = FALSE
    /\ tried' = <<>>
    /\ UNCHANGED <<chosen, recorded, ends>>

Init ==
    /\ \E kind \in Drills, pick \in CheckoutScores :
         drill = [kind |-> kind, finished |-> FALSE, visit |-> <<>>, skip |-> 0,
                  announced |-> FALSE, index |-> 0, darts |-> 0, hits |-> 0,
                  score |-> BobsStart, target |-> pick, start |-> pick, visits |-> 0,
                  attemptDarts |-> 0, attempts |-> 0, successes |-> 0]
    /\ board = <<>> /\ chosen = FALSE /\ stale = FALSE
    /\ recorded = NoResult /\ ends = 0 /\ tried = <<>>

Next ==
    \/ \E b \in DrillBeds[drill.kind] : Detect(b)
    \/ \E i \in DOMAIN board, b \in DrillBeds[drill.kind] : Correct(i, b)
    \/ \E i \in DOMAIN board : Withdraw(i)
    \/ Drop \/ Complete
    \/ Choose \/ Leave \/ Restart

Spec == Init /\ [][Next]_vars

-----------------------------------------------------------------------------
(* What the card shows.                                                    *)

\* snapshot: the game as if the visit were booked now.
Shown(d) ==
    LET now     == Progress(d)
        hits    == IF d.finished THEN 0 ELSE VisitHits(d)
        visit   == EvaluateVisit(d.start, Beds(d), 0, TRUE)
    IN  CASE IsTarget(d) ->
               [progress |-> now.index, darts |-> d.darts + now.darts,
                hits |-> d.hits + now.index - d.index]
          [] d.kind = "bobs_27" ->
               [darts |-> d.darts + (IF d.finished THEN 0 ELSE Len(Thrown(d))),
                hits |-> d.hits + hits, score |-> d.score + hits * Value(d)]
          [] OTHER -> [remaining |-> visit.remaining, outcome |-> visit.outcome]

-----------------------------------------------------------------------------
(* Properties.                                                             *)

\* The types of the game, and what they say of it: targets are hit one by one,
\* and an attempt at a checkout is open only with a score that a double can
\* still finish and a visit left (drills.py:337).
TypeOK ==
    /\ drill.kind \in Drills
    /\ {drill.finished, drill.announced, chosen, stale} \subseteq BOOLEAN
    /\ board \in Seq(Dart) /\ drill.visit \in Seq(Dart)
    /\ drill.index \in 0..Len(Targets) /\ drill.hits <= drill.darts
    /\ IsTarget(drill) => drill.hits = drill.index
    /\ drill.start \in 2..drill.target /\ drill.visits < CheckoutVisits
    /\ drill.successes <= drill.attempts
    /\ ends \in 0..2

\* A target game is over exactly when its last target was hit.  Bob's 27 below
\* zero is over, and one that is over is below zero or came to its last round.
\* The checkout training has no end.  Whatever is over was announced, through
\* takebacks, gaps and restarts.
EndIsTold ==
    /\ IsTarget(drill) => (drill.finished <=> drill.index = Len(Targets))
    /\ drill.kind = "bobs_27" =>
         /\ drill.score < 0 => drill.finished
         /\ drill.finished => drill.score < 0 \/ drill.index = Len(Targets) - 1
    /\ drill.kind = "checkout" => ~drill.finished
    /\ drill.finished => ends > 0

\* A finished game stays on the card until the next dart (drills.py:4): from
\* its end on the card shows the newest recorded result, whatever gaps,
\* restarts, other games and empty visits come before the dart that starts the
\* next game.
ResultIsShown ==
    drill.finished =>
        /\ Shown(drill).darts = recorded.darts
        /\ Shown(drill).hits = recorded.hits
        /\ drill.kind = "bobs_27" => Shown(drill).score = recorded.score

\* Darts thrown before the game was chosen never count in it (drills.py:62).
\* While the game still holds a visit from before it was left, it takes darts
\* of that visit for thrown ones until the board reports again.
EarlyNeverCounts ==
    chosen /\ ~stale => \A i \in DOMAIN Thrown(drill) : ~Thrown(drill)[i].early

\* Pulling the darts books what the card showed: progress, darts and hits, and
\* for a double every dart aimed at it.  Bob's 27 shows what a miss costs only
\* afterwards.
BookedAsShown ==
    [][ Complete /\ chosen /\ Books(drill) /\ board' = <<>> =>
          /\ IsTarget(drill) => Shown(drill') = Shown(drill)
          /\ drill.kind = "bobs_27" =>
               [Shown(drill') EXCEPT !.score = 0] = [Shown(drill) EXCEPT !.score = 0]
          /\ drill.kind = "checkout" /\ drill'.attempts = drill.attempts =>
               Shown(drill') = Shown(drill)
          /\ drill.kind \in {"doubles", "bobs_27"} =>
               /\ Len(tried') = drill'.darts - drill.darts
               /\ Cardinality({i \in DOMAIN tried' : tried'[i]}) = drill'.hits - drill.hits
      ]_vars

\* The end of a training game is announced once (entities.md:48).
EndToldOnce == ends <= 1
=============================================================================
