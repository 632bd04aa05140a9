------------------------------ MODULE Practice ------------------------------
(***************************************************************************)
(* The practice games of practice.py: X01, Cricket, the party games and    *)
(* the bull-off, played with the darts the training session announces.     *)
(*                                                                         *)
(* _process hands the announced darts of the visit to track() after every  *)
(* state of the board, and calls finish_visit() first when a visit was     *)
(* completed; both run in one step.  Names, statistics, profiles and       *)
(* checkout routes are left out.  Every dart has a mark the program does   *)
(* not see: whether it was thrown before the leg began.                    *)
(***************************************************************************)
EXTENDS Rules

CONSTANTS
    Game,           \* the start score of X01 (101 to 1001 in the code)
    Setups,         \* the games set up, see Setup below
    Beds,           \* game kind (and "bull_off") -> the beds tried in it
    MaxVisit,       \* bound, by game kind: darts of a visit
    MaxTurns,       \* bound: visits of a player in a leg or bull-off
    MaxLegs,        \* bound: legs of a player who plays alone
    MaxEarly        \* bound, by game kind: darts on the board when a leg is started by hand

Kinds == {"none", "x01", "cricket"} \cup PartyGames
Bed == UNION {Beds[kind] : kind \in DOMAIN Beds}

ASSUME PracticeAssumption ==
    /\ Game \in Nat \ {0}
    /\ Setups \subseteq [kind : Kinds, seats : 1..4, legs : Nat \ {0}, sets : Nat \ {0},
                         doubleOut : BOOLEAN, doubleIn : BOOLEAN, bullOff : BOOLEAN]
    /\ DOMAIN Beds = Kinds \cup {"bull_off"} /\ MaxVisit \in [Kinds -> Nat]
    /\ Bed \subseteq [number : Nat, multiplier : 0..3]
    /\ MaxTurns \in Nat /\ MaxLegs \in Nat /\ MaxEarly \in [Kinds -> Nat]

VARIABLES
    match,          \* the game's own state; see Match below
    turns,          \* visits booked per player in this leg, for the properties
    told,           \* the leg_won announced for this visit, or NoLeg
    booked,         \* the leg the last step booked, or NoLeg
    switched        \* double out was switched since the visit was evaluated

vars == <<match, turns, told, booked, switched>>

NoLeg == [player |-> Nobody]
NoBullOff == BullOff({})

\* What is set up: the kind of game, the players, the format and the options.
Setup(m) == m.setup
Players(m) == 0..(m.setup.seats - 1)
NextSeat(m, player) == (player + 1) % m.setup.seats

-----------------------------------------------------------------------------
(* Evaluating the visit.                                                   *)

IsKind(m, kind) == m.setup.kind = kind
IsParty(m) == m.setup.kind \in PartyGames
Playing(m) == ~IsKind(m, "none")
Bulling(m) == m.bulling # NoBullOff

\* The beds of the visit that count for the leg.
Thrown(m) == [i \in 1..(Len(m.visit) - m.skip) |-> m.visit[m.skip + i].bed]

\* Darts before the double that opens the leg with double in.
Opening(m) ==
    LET hits == {i \in DOMAIN Thrown(m) : IsDouble(Thrown(m)[i])}
    IN  IF ~m.setup.doubleIn \/ m.players[m.current].opened THEN 0
        ELSE IF hits = {} THEN Len(Thrown(m)) ELSE First(hits) - 1

Evaluate(m) ==
    EvaluateVisit(m.players[m.current].remaining, Thrown(m), Opening(m), m.setup.doubleOut)

CricketNow(m) ==
    CricketVisit(m.players[m.current], Thrown(m),
                 {m.players[p] : p \in Players(m) \ {m.current}})

PartyNow(m) == PartyVisit(m.setup.kind, m.party, m.current, Thrown(m))

\* Killer needs at least two players.
PartyReady(m) == ~(IsKind(m, "killer") /\ m.setup.seats < 2)

WonBy(player) == [what |-> IF player = Nobody THEN "none" ELSE "won", who |-> player]

\* What the darts of the visit come to, and for whom.
Outcome(m) ==
    CASE IsKind(m, "x01") -> [what |-> Evaluate(m).outcome, who |-> m.current]
      [] IsKind(m, "cricket") ->
            [what |-> IF CricketNow(m).won THEN "won" ELSE "none", who |-> m.current]
      [] OTHER -> WonBy(IF PartyReady(m) THEN PartyNow(m).won ELSE Nobody)

-----------------------------------------------------------------------------
(* Legs and matches.                                                       *)

\* Player.new_leg.
Fresh(player, game) ==
    [player EXCEPT !.remaining = game, !.points = 0, !.opened = FALSE,
                   !.marks = [number \in CricketNumbers |-> 0]]

Early(visit) == [i \in DOMAIN visit |-> [visit[i] EXCEPT !.early = TRUE]]

\* Mutant: darts already thrown count for the new leg.
NewLeg_All(m) ==
    [m EXCEPT !.players = [p \in Players(m) |->
                 Fresh(m.players[p], IF IsKind(m, "x01") THEN Game ELSE 0)],
              !.party = NewParty(m.setup.kind, Players(m)),
              !.current = m.starter, !.skip = 0, !.announced = "none",
              !.visit = Early(m.visit)]

\* new_leg: the full score; darts already thrown do not count.
NewLeg(m) ==
    [m EXCEPT !.players = [p \in Players(m) |->
                 Fresh(m.players[p], IF IsKind(m, "x01") THEN Game ELSE 0)],
              !.party = NewParty(m.setup.kind, Players(m)),
              !.current = m.starter, !.skip = Len(m.visit), !.announced = "none",
              !.visit = Early(m.visit)]

Newcomer == [remaining |-> 0, points |-> 0, opened |-> FALSE, legs |-> 0, sets |-> 0,
             marks |-> [number \in CricketNumbers |-> 0]]

\* new_match: everybody starts from zero legs and sets, player 1 first,
\* unless a bull-off decides it.
NewMatch(m) ==
    NewLeg([m EXCEPT
        !.players = [p \in Players(m) |-> Newcomer],
        !.starter = 0,
        !.winner = Nobody,
        !.bulling = IF m.setup.bullOff /\ m.setup.seats > 1 /\ Playing(m)
                    THEN BullOff(Players(m)) ELSE NoBullOff])

\* Mutant: a set takes one leg more.
Result_Late(m, index) ==
    LET player == m.players[index]
        legs   == player.legs + 1
    IN  IF m.setup.seats = 1 \/ legs <= m.setup.legs
        THEN [legs |-> legs, sets |-> player.sets, match |-> FALSE]
        ELSE [legs |-> 0, sets |-> player.sets + 1, match |-> player.sets + 1 >= m.setup.sets]

\* _result: legs, sets and the decision after the player wins this leg.
Result(m, index) ==
    LET player == m.players[index]
        legs   == player.legs + 1
    IN  IF m.setup.seats = 1 THEN [legs |-> legs, sets |-> player.sets, match |-> FALSE]
        ELSE IF legs >= m.setup.legs
        THEN [legs |-> 0, sets |-> player.sets + 1, match |-> player.sets + 1 >= m.setup.sets]
        ELSE [legs |-> legs, sets |-> player.sets, match |-> player.sets >= m.setup.sets]

\* What leg_won tells of a leg.
Leg(m, index) == [player |-> index, result |-> Result(m, index)]

\* _book_leg, for the player at the board.
BookLeg(m) ==
    LET result == Result(m, m.current)
        won    == [m EXCEPT !.players[m.current].legs = result.legs,
                            !.players[m.current].sets = result.sets]
        level  == IF result.legs = 0
                  THEN [won EXCEPT !.players = [p \in Players(m) |->
                           [won.players[p] EXCEPT !.legs = 0]]]
                  ELSE won
    IN  IF result.match
        THEN [won EXCEPT !.players[m.current].remaining = 0, !.winner = m.current]
        ELSE NewLeg([level EXCEPT !.starter = NextSeat(m, m.starter)])

-----------------------------------------------------------------------------
(* Booking a visit.  Every operator gives the match after it and the leg   *)
(* it books.                                                               *)

OnlyMatch(m) == [match |-> m, leg |-> NoLeg]
WithLeg(m) == [match |-> BookLeg(m), leg |-> Leg(m, m.current)]
NextTurn(m) == OnlyMatch([m EXCEPT !.current = NextSeat(m, m.current)])

\* _book_bull_off: the closest dart starts the match.
BookBullOff(m) ==
    LET thrown == BullOffBook(m.bulling, Thrown(m)[1])
    IN  IF thrown.won = Nobody THEN OnlyMatch([m EXCEPT !.bulling = thrown.bulling])
        ELSE OnlyMatch(NewLeg([m EXCEPT !.bulling = NoBullOff, !.starter = thrown.won]))

\* Mutant: a bust keeps the points of its darts.
BookX01_Points(m) ==
    LET now    == Evaluate(m)
        player == m.players[m.current]
        kept   == [m EXCEPT !.players[m.current].points =
                     @ + PointsOf(Thrown(m), Opening(m) + 1, now.darts)]
    IN  IF now.outcome = "won" THEN WithLeg(kept)
        ELSE NextTurn([kept EXCEPT !.players[m.current].remaining = now.remaining])

\* Mutant: after a bust the same player throws again.
BookX01_Again(m) ==
    IF Evaluate(m).outcome = "bust" THEN OnlyMatch(m) ELSE BookX01_Points(m)

BookX01(m) ==
    LET now    == Evaluate(m)
        player == m.players[m.current]
        kept   == [m EXCEPT !.players[m.current] = [player EXCEPT
                     !.points = @ + player.remaining - now.remaining,
                     !.opened = \/ @
                                \/ /\ m.setup.doubleIn /\ Opening(m) < now.darts
                                   /\ now.outcome # "bust"]]
    IN  IF now.outcome = "won" THEN WithLeg(kept)
        ELSE NextTurn([kept EXCEPT !.players[m.current].remaining = now.remaining])

\* Mutant: closing every number wins whatever the points are.
BookCricket_Closed(m) ==
    LET now  == CricketNow(m)
        kept == [m EXCEPT !.players[m.current].marks = now.marks,
                          !.players[m.current].points = now.points]
    IN  IF Closed(now.marks) THEN WithLeg(kept) ELSE NextTurn(kept)

BookCricket(m) ==
    LET now  == CricketNow(m)
        kept == [m EXCEPT !.players[m.current].marks = now.marks,
                          !.players[m.current].points = now.points]
    IN  IF now.won THEN WithLeg(kept) ELSE NextTurn(kept)

\* A tie in points and hits plays the leg again.
KeepParty(m, visit) ==
    LET kept == [m EXCEPT !.party = visit.party]
    IN  IF visit.won >= 0 THEN WithLeg([kept EXCEPT !.current = visit.won])
        ELSE IF visit.won = Tied
        THEN OnlyMatch(NewLeg([kept EXCEPT !.starter = NextSeat(m, m.starter)]))
        ELSE OnlyMatch([kept EXCEPT !.current = PartyNext(m.setup.kind, visit.party, m.current)])

\* _book_party
BookParty(m) ==
    IF ~PartyReady(m) THEN OnlyMatch(m)
    ELSE KeepParty(m, PartyBook(m.setup.kind, m.party, m.current, Thrown(m)))

\* Whether finish_visit books the visit.
Books(m) == Playing(m) /\ m.winner = Nobody /\ Thrown(m) # <<>>

Book(m) ==
    IF Bulling(m) THEN BookBullOff(m)
    ELSE IF IsKind(m, "cricket") THEN BookCricket(m)
    ELSE IF IsParty(m) THEN BookParty(m)
    ELSE BookX01(m)

\* No dart is on the board.
Cleared(m) == [m EXCEPT !.visit = <<>>, !.skip = 0, !.announced = "none"]

\* finish_visit: book the visit whose darts were pulled; the next player throws.
FinishVisit(m) ==
    LET after == IF Books(m) THEN Book(m) ELSE OnlyMatch(m)
    IN  [match |-> Cleared(after.match), leg |-> after.leg]

-----------------------------------------------------------------------------
(* Following the darts.                                                    *)

\* track, up to the evaluation: the first dart after a finished match starts
\* the next one.
Follow(m, visit) ==
    LET seen == [m EXCEPT !.visit = visit, !.skip = Least(m.skip, Len(visit))] IN
    IF Playing(m) /\ m.winner # Nobody /\ Thrown(seen) # <<>>
    THEN [NewMatch(seen) EXCEPT !.skip = 0, !.visit = visit]
    ELSE seen

\* Whether track evaluates the visit.
Evaluates(m) == Playing(m) /\ ~Bulling(m) /\ PartyReady(m)

\* Mutant: a bust or a win is never taken back.
Judge_Once(seen) ==
    IF ~Evaluates(seen) THEN seen
    ELSE [seen EXCEPT !.announced = IF @ = "none" THEN Outcome(seen).what ELSE @]

\* A bust or a win is announced once.
Judge(seen) ==
    IF ~Evaluates(seen) THEN seen ELSE [seen EXCEPT !.announced = Outcome(seen).what]

\* track follows the darts of the visit, seen, and judges them.  The leg_won
\* that stands: told anew when the outcome turns to a win, taken back when it
\* turns to anything else.
Track(seen) ==
    /\ match' = Judge(seen)
    /\ told' = IF match'.announced # "won" THEN NoLeg
               ELSE IF seen.announced = "won" THEN told
               ELSE Leg(seen, Outcome(seen).who)

-----------------------------------------------------------------------------
(* Steps: what the training session reports, and the user's actions.       *)

NoTurns(m) == [p \in Players(m) |-> 0]

\* A state of the board changes the visit without completing it.
Revise(visit) ==
    /\ Track(Follow(match, visit))
    /\ turns' = IF match.winner # Nobody /\ match'.winner = Nobody THEN NoTurns(match) ELSE turns
    /\ booked' = NoLeg
    /\ switched' = FALSE

BedsNow == IF Bulling(match) THEN Beds["bull_off"] ELSE Beds[match.setup.kind]

Detect(b) ==
    /\ Len(match.visit) < MaxVisit[match.setup.kind]
    /\ Revise(Append(match.visit, [bed |-> b, early |-> FALSE]))

Correct(i, b) ==
    /\ match.visit[i].bed # b
    /\ Revise([match.visit EXCEPT ![i].bed = b])

Withdraw(i) ==
    Revise(SubSeq(match.visit, 1, i - 1) \o SubSeq(match.visit, i + 1, Len(match.visit)))

\* After a gap or a reload nobody is told of the darts of the visit.
Drop ==
    /\ match.visit # <<>>
    /\ Revise(<<>>)

\* Who throws next: the player at the board, or in the bull-off.
Up(m) == IF Bulling(m) THEN Thrower(m.bulling) ELSE m.current

\* A leg begins with the next visit; Killer has no rounds, its visits are not
\* counted.
Anew(m, done) ==
    \/ done.leg # NoLeg
    \/ Bulling(m) /\ ~Bulling(done.match)
    \/ ~Bulling(m) /\ (IsKind(m, "killer") \/ (IsParty(m) /\ done.match.party.turns = 0))

CountTurns(done) ==
    turns' = IF ~Books(match) \/ ~PartyReady(match) THEN turns
             ELSE IF Anew(match, done) THEN NoTurns(match)
             ELSE [turns EXCEPT ![Up(match)] = @ + 1]

\* The new visit begins, with the dart that revealed a missed takeout if any.
Begin(done) ==
    \E visit \in {<<>>} \cup {<<[bed |-> b, early |-> FALSE]>> : b \in BedsNow} :
        /\ Track(Follow(done.match, visit))
        /\ CountTurns(done)
        /\ booked' = done.leg

\* The darts were pulled: the visit is booked.
Complete ==
    /\ match.visit # <<>>
    /\ Books(match) => /\ turns[Up(match)] < MaxTurns
                       /\ match.setup.seats = 1 => match.players[0].legs < MaxLegs
    /\ Begin(FinishVisit(match))
    /\ switched' = FALSE

\* The settings and buttons of the practice game: a setup is played, a match
\* or a leg started anew.
Settle(m) ==
    /\ Len(match.visit) <= MaxEarly[m.setup.kind]
    /\ match' = m
    /\ told' = NoLeg /\ booked' = NoLeg
    /\ switched' = FALSE

\* play, set_players, set_format and the options that start anew, also all at
\* once (async_start_game).
StartGame(setup) ==
    /\ Settle(NewMatch([match EXCEPT !.setup = setup]))
    /\ turns' = NoTurns(match')

StartMatch ==
    /\ Settle(NewMatch(match))
    /\ turns' = NoTurns(match)

\* A bull-off goes on.
StartLeg ==
    /\ Settle(NewLeg(match))
    /\ turns' = IF Bulling(match) THEN turns ELSE NoTurns(match)

\* Double out applies at once.
SetDoubleOut ==
    LET setup == [match.setup EXCEPT !.doubleOut = ~@] IN
    /\ setup \in Setups
    /\ match' = [match EXCEPT !.setup = setup]
    /\ switched' = (switched \/ match.visit # <<>>)
    /\ booked' = NoLeg
    /\ UNCHANGED <<turns, told>>

\* A restart: the match is stored, the visit in progress is not.
Restart ==
    /\ match' = Cleared(match)
    /\ told' = NoLeg /\ booked' = NoLeg
    /\ switched' = FALSE
    /\ UNCHANGED turns

\* A game was started (async_start_game).
Init ==
    /\ \E setup \in Setups :
         match = NewMatch([setup |-> setup, players |-> <<>>, current |-> 0, starter |-> 0,
                           winner |-> Nobody, party |-> <<>>, bulling |-> NoBullOff,
                           visit |-> <<>>, skip |-> 0, announced |-> "none"])
    /\ turns = NoTurns(match)
    /\ told = NoLeg /\ booked = NoLeg
    /\ switched = FALSE

Next ==
    \/ \E b \in BedsNow : Detect(b)
    \/ \E i \in DOMAIN match.visit, b \in BedsNow : Correct(i, b)
    \/ \E i \in DOMAIN match.visit : Withdraw(i)
    \/ Drop
    \/ Complete
    \/ \E setup \in Setups : StartGame(setup)
    \/ StartMatch \/ StartLeg \/ SetDoubleOut
    \/ Restart

Spec == Init /\ [][Next]_vars

-----------------------------------------------------------------------------
(* What the cards show.                                                    *)

\* The scoreboard of a match, without what no card shows.
Board(m, live) ==
    [players |-> [p \in Players(m) |->
                    [remaining |-> live.players[p].remaining,
                     marks |-> live.players[p].marks,
                     points |-> IF IsKind(m, "cricket") THEN live.players[p].points ELSE 0,
                     legs |-> live.players[p].legs, sets |-> live.players[p].sets]],
     party |-> [live.party EXCEPT !.hits = 0, !.turns = 0],
     won |-> Outcome(m).what = "won"]

\* Mutant: the darts of the visit are not shown.
Scores_Booked(m) == Board(m, m)

\* The scoreboard of a snapshot: the score as if the visit were booked now.
Scores(m) ==
    LET cricket == CricketNow(m) IN
    Board(m, CASE IsKind(m, "x01") ->
                    [m EXCEPT !.players[m.current].remaining = Evaluate(m).remaining]
               [] IsKind(m, "cricket") ->
                    [m EXCEPT !.players[m.current].marks = cricket.marks,
                              !.players[m.current].points = cricket.points]
               [] IsParty(m) /\ PartyReady(m) /\ m.winner = Nobody /\ ~Bulling(m) ->
                    [m EXCEPT !.party = PartyNow(m).party]
               [] OTHER -> m)

-----------------------------------------------------------------------------
(* Properties.                                                             *)

\* In X01, points and remaining score always add up to the game, through busts,
\* corrections and legs, and only the winner of a finished match has nothing
\* left to score (practice.py:178).
ScoreBalances ==
    IsKind(match, "x01") =>
        \A p \in Players(match) :
            /\ match.players[p].remaining + match.players[p].points = Game
            /\ match.players[p].remaining = 0 => p = match.winner

\* Nobody holds a won set as legs, or a won match as sets, without having won:
\* a match ends exactly when the sets are reached, in every game.
MatchDecides ==
    match.setup.seats > 1 => \A p \in Players(match) :
        /\ match.players[p].legs < match.setup.legs
        /\ match.players[p].sets >= match.setup.sets <=> p = match.winner

\* Visits alternate: within a leg nobody is more than one visit ahead, and
\* whoever is up has thrown no more visits than anybody else.  In a bull-off
\* this holds among those who still throw, and nobody else threw more.
TurnsAlternate ==
    match.winner = Nobody =>
        IF Bulling(match)
        THEN \A p \in Players(match) :
               IF p \in match.bulling.players
               THEN turns[p] - turns[Up(match)] \in {0, 1}
               ELSE turns[p] <= turns[Up(match)]
        ELSE \A p \in Players(match) : turns[p] - turns[match.current] \in {0, 1}

\* A decided leg does not go on: Cricket ends once a player has closed
\* everything with no fewer points than anybody else, Killer with the last
\* player alive, the other party games with their last round; and whoever is
\* at the board can still play.
LegIsOpen ==
    match.winner = Nobody /\ PartyReady(match) =>
        CASE IsKind(match, "cricket") ->
               ~\E p \in Players(match) :
                   /\ Closed(match.players[p].marks)
                   /\ \A q \in Players(match) : match.players[p].points >= match.players[q].points
          [] IsKind(match, "killer") ->
               /\ Cardinality({p \in Players(match) : match.party.lives[p] > 0}) > 1
               /\ IF Choosing(match.party) THEN match.party.numbers[match.current] = NoNumber
                  ELSE match.party.lives[match.current] > 0
          [] IsParty(match) /\ ~IsKind(match, "killer") -> Decided(match.setup.kind, match.party) = Nobody
          [] OTHER -> TRUE

\* What was announced of the visit is what the score says: no bust or win is
\* left unannounced, and none stands after a correction took it back.
AnnouncedIsTrue ==
    Evaluates(match) /\ match.winner = Nobody /\ ~switched =>
        match.announced = Outcome(match).what

\* A dart thrown before the leg began never counts in it.
EarlyNeverCounts ==
    Playing(match) /\ match.winner = Nobody =>
        \A i \in DOMAIN match.visit : match.visit[i].early => i <= match.skip

\* A leg that is booked was announced, with its player, legs and sets and
\* whether it decides the match, and a leg that was announced is booked when
\* the darts are pulled.  Only the end of the last round is announced with
\* the booking; in Killer a correction may give the leg to another player,
\* see WinnerWasAnnounced.
BookedAsTold ==
    [][ LET roundEnds == match.setup.kind \in {"shanghai", "halve_it"}
        IN  ~switched =>
            /\ booked' # NoLeg /\ ~IsKind(match, "killer") =>
                   booked' = told \/ (roundEnds /\ told = NoLeg)
            /\ booked' # NoLeg => told # NoLeg \/ roundEnds
            /\ Complete /\ told # NoLeg => booked' # NoLeg
      ]_vars

\* Pulling the darts books what the cards showed of the visit: the scores, and
\* the leg if a win was shown.  Halve-It is exempt, whose cards do not halve a
\* visit of fewer than three darts.
BookedAsShown ==
    [][ Complete /\ Books(match) /\ ~Bulling(match) =>
          /\ Scores(match).won => booked' # NoLeg
          /\ booked' # NoLeg => Scores(match).won \/ match.setup.kind \in {"shanghai", "halve_it"}
          /\ match'.visit = <<>> /\ booked' = NoLeg /\ ~IsKind(match, "halve_it")
             /\ (IsKind(match, "killer") \/ turns' # NoTurns(match))
             => Scores(match') = Scores(match)
      ]_vars

\* The player a leg is booked for is the one leg_won named
\* (how-it-works.md:76).
WinnerWasAnnounced ==
    [][ booked' # NoLeg /\ told # NoLeg /\ ~switched => booked'.player = told.player ]_vars
=============================================================================
