------------------------------- MODULE Rules -------------------------------
(***************************************************************************)
(* The rules of the practice games: X01 (scoring.py), Cricket              *)
(* (cricket.py), Shanghai, Halve-It, Killer and the bull-off (party.py).   *)
(*                                                                         *)
(* A bed is where a dart is: number 0 is a miss, multiplier 2 a double.    *)
(* Every operator says what the darts of a visit change, without booking   *)
(* them, or what booking them changes.  Players are counted from 0.        *)
(***************************************************************************)
EXTENDS Integers, Sequences, FiniteSets

CONSTANTS
    Bull,               \* the number of the bull, 25 in the code
    CricketNumbers,     \* the numbers to close
    MarksToClose,       \* marks that close a number, 3 in the code
    ShanghaiRounds,     \* rounds of Shanghai, 7 in the code
    HalveItTargets,     \* sequence of [number, multiplier], 0 for any
    HalveItStart,       \* points before the first visit, 40 in the code
    KillerNumbers,      \* numbers to pick from, 1..20 in the code
    KillerLives         \* lives of a player, 3 in the code

ASSUME RulesAssumption ==
    /\ Bull \in Nat \ {0}
    /\ CricketNumbers \subseteq Nat \ {0} /\ CricketNumbers # {}
    /\ MarksToClose \in Nat \ {0}
    /\ ShanghaiRounds \in Nat \ {0}
    /\ HalveItTargets \in Seq([number : Nat, multiplier : 0..3]) \ {<<>>}
    /\ HalveItStart \in Nat
    /\ KillerNumbers \subseteq Nat \ {0} /\ KillerLives \in Nat \ {0}

Nobody == -1        \* None: no player
Tied == -2          \* a leg that ended without a winner (-1 in party.py)

Least(i, j) == IF i <= j THEN i ELSE j
First(S) == CHOOSE i \in S : \A j \in S : i <= j

-----------------------------------------------------------------------------
(* X01.                                                                    *)

Score(bed) == bed.number * bed.multiplier
IsDouble(bed) == bed.multiplier = 2 /\ bed.number # 0

\* Points of the beds first to last of a visit.
PointsOf(beds, first, last) ==
    LET sum[i \in (first - 1)..last] ==
          IF i = first - 1 THEN 0 ELSE sum[i - 1] + Score(beds[i])
    IN  sum[last]

\* Remaining score, outcome and counted darts of a visit whose first `opening`
\* darts do not score: the first dart that goes below zero, leaves 1 or reaches
\* zero decides it.
EvaluateVisit(start, beds, opening, doubleOut) ==
    LET left(i)  == start - PointsOf(beds, opening + 1, i)
        decisive == {i \in (opening + 1)..Len(beds) :
                       left(i) <= 0 \/ (doubleOut /\ left(i) = 1)}
        dart     == First(decisive)
    IN  IF decisive = {} THEN [remaining |-> left(Len(beds)), outcome |-> "none", darts |-> Len(beds)]
        ELSE IF left(dart) = 0 /\ (doubleOut => IsDouble(beds[dart]))
        THEN [remaining |-> 0, outcome |-> "won", darts |-> dart]
        ELSE [remaining |-> start, outcome |-> "bust", darts |-> dart]

-----------------------------------------------------------------------------
(* Cricket.                                                                *)

Closed(marks) == \A number \in CricketNumbers : marks[number] >= MarksToClose

\* One dart: marks up to MarksToClose; marks beyond them score while another
\* player still has the number open.
CricketDart(state, bed, others) ==
    LET closing == Least(MarksToClose - state.marks[bed.number], bed.multiplier)
        extra   == bed.multiplier - closing
        open    == \E other \in others : other.marks[bed.number] < MarksToClose
    IN  IF bed.number \notin CricketNumbers \/ bed.multiplier < 1 THEN state
        ELSE [state EXCEPT !.marks[bed.number] = @ + closing,
                           !.points = @ + (IF open THEN extra * bed.number ELSE 0)]

\* play_visit: marks, points and whether the darts win; later darts of a won
\* leg do not count.
CricketVisit(player, beds, others) ==
    LET after[i \in 0..Len(beds)] ==
          IF i = 0 THEN [marks |-> player.marks, points |-> player.points, won |-> FALSE]
          ELSE IF after[i - 1].won THEN after[i - 1]
          ELSE LET next == CricketDart(after[i - 1], beds[i], others)
               IN  [next EXCEPT !.won = /\ Closed(next.marks)
                                        /\ \A other \in others : next.points >= other.points]
    IN  after[Len(beds)]

-----------------------------------------------------------------------------
(* Party games.  A party holds what players score in this leg; numbers,    *)
(* lives and killers are used by Killer only.                              *)

PartyGames == {"shanghai", "halve_it", "killer"}
NoNumber == 0

NewParty(kind, players) ==
    [points |-> [p \in players |-> IF kind = "halve_it" THEN HalveItStart ELSE 0],
     hits |-> [p \in players |-> 0], turns |-> 0,
     numbers |-> [p \in players |-> NoNumber],
     lives |-> [p \in players |-> KillerLives],
     killers |-> [p \in players |-> FALSE]]

Seats(party) == DOMAIN party.points
Round(party) == party.turns \div Cardinality(Seats(party)) + 1

\* The most points win; more hits break a tie, otherwise nobody wins.
Best(party) ==
    LET ahead(p, q) == \/ party.points[p] > party.points[q]
                       \/ party.points[p] = party.points[q] /\ party.hits[p] > party.hits[q]
        best == {p \in Seats(party) : \A q \in Seats(party) \ {p} : ahead(p, q)}
    IN  IF best = {} THEN Tied ELSE First(best)

Missed == [number |-> 0, multiplier |-> 0]

\* The points of some of the beds of a visit.
PointsOfSome(beds, some) ==
    PointsOf([i \in DOMAIN beds |-> IF i \in some THEN beds[i] ELSE Missed], 1, Len(beds))

\* A single, a double and a treble of the round's number in one visit win.
ShanghaiVisit(party, player, beds) ==
    LET hits  == {i \in DOMAIN beds : beds[i].number = Least(Round(party), ShanghaiRounds)}
        rings == {beds[i].multiplier : i \in hits}
    IN  [party |-> [party EXCEPT !.points[player] = @ + PointsOfSome(beds, hits)],
         won |-> IF {1, 2, 3} \subseteq rings THEN player ELSE Nobody,
         hits |-> Cardinality(hits)]

HalveItHit(bed, target) ==
    /\ bed.number # 0 /\ bed.multiplier # 0
    /\ target.number # 0 => bed.number = target.number
    /\ target.multiplier # 0 => bed.multiplier = target.multiplier

HalveItTarget(party) == HalveItTargets[Least(Round(party), Len(HalveItTargets))]
HalveItHits(party, beds) == {i \in DOMAIN beds : HalveItHit(beds[i], HalveItTarget(party))}

\* Three darts without a hit on the target halve the score.
HalveItVisit(party, player, beds) ==
    LET hits   == HalveItHits(party, beds)
        halved == hits = {} /\ Len(beds) >= 3
        points == party.points[player] + PointsOfSome(beds, hits)
    IN  [party |-> [party EXCEPT !.points[player] = IF halved THEN points \div 2 ELSE points],
         won |-> Nobody,
         hits |-> Cardinality(hits)]

Choosing(party) == \E p \in Seats(party) : party.numbers[p] = NoNumber

\* While numbers are chosen, the first dart picks one that nobody has yet.
ChoosingVisit(party, player, beds) ==
    IF /\ beds # <<>>
       /\ beds[1].number \in KillerNumbers
       /\ \A p \in Seats(party) : party.numbers[p] # beds[1].number
    THEN [party EXCEPT !.numbers[player] = beds[1].number]
    ELSE party

\* One dart of a player: the own double makes a killer, and the doubles of
\* players who live cost a killer's victim a life.
KillerDart(state, player, bed) ==
    LET owners  == {p \in Seats(state) : state.numbers[p] = bed.number}
        owner   == First(owners)
        lives   == [state.lives EXCEPT ![owner] = @ - 1]
        thrown  == IF owner = player /\ ~state.killers[player]
                   THEN [state EXCEPT !.killers[player] = TRUE]
                   ELSE IF state.killers[player] /\ state.lives[owner] > 0
                   THEN [state EXCEPT !.lives = lives, !.killers[player] = lives[player] # 0]
                   ELSE state
        alive   == {p \in Seats(state) : thrown.lives[p] > 0}
    IN  IF state.won # Nobody \/ bed.multiplier # 2 \/ owners = {} THEN state
        ELSE IF Cardinality(alive) = 1 THEN [thrown EXCEPT !.won = First(alive)]
        ELSE thrown

KillerVisit(party, player, beds) ==
    LET start == [points |-> party.points, numbers |-> party.numbers,
                  lives |-> party.lives, killers |-> party.killers, won |-> Nobody]
        after[i \in 0..Len(beds)] ==
          IF i = 0 THEN start ELSE KillerDart(after[i - 1], player, beds[i])
        last  == after[Len(beds)]
    IN  IF Choosing(party)
        THEN [party |-> ChoosingVisit(party, player, beds), won |-> Nobody, hits |-> 0]
        ELSE [party |-> [party EXCEPT !.lives = last.lives, !.killers = last.killers],
              won |-> last.won, hits |-> 0]

PartyVisit(kind, party, player, beds) ==
    CASE kind = "shanghai" -> ShanghaiVisit(party, player, beds)
      [] kind = "halve_it" -> HalveItVisit(party, player, beds)
      [] kind = "killer"   -> KillerVisit(party, player, beds)

\* Halve-It books a visit of fewer darts without a hit as three misses.
Padded(kind, party, beds) ==
    IF kind = "halve_it" /\ HalveItHits(party, beds) = {}
    THEN SubSeq(beds \o <<Missed, Missed, Missed>>, 1, 3) ELSE beds

\* The winner once the last round is over.
Decided(kind, party) ==
    LET rounds == IF kind = "shanghai" THEN ShanghaiRounds ELSE Len(HalveItTargets)
    IN  IF kind # "killer" /\ party.turns >= rounds * Cardinality(Seats(party))
        THEN Best(party) ELSE Nobody

\* Keep the visit; the winner when it decides the leg.  Killer has no rounds, its
\* turns are not counted.
KeepVisit(kind, player, visit) ==
    LET kept == [visit.party EXCEPT !.hits[player] = @ + visit.hits,
                                    !.turns = IF kind = "killer" THEN @ ELSE @ + 1]
    IN  [party |-> kept,
         won |-> IF visit.won # Nobody THEN visit.won ELSE Decided(kind, kept)]

PartyBook(kind, party, player, beds) ==
    KeepVisit(kind, player, PartyVisit(kind, party, player, Padded(kind, party, beds)))

\* Mutant: players without lives throw, too.
PartyNext_Dead(kind, party, player) ==
    IF kind = "killer" /\ Choosing(party) /\ party.numbers[player] = NoNumber THEN player
    ELSE (player + 1) % Cardinality(Seats(party))

\* The next player: in Killer the next one who needs a number, or who lives.
PartyNext(kind, party, player) ==
    LET size    == Cardinality(Seats(party))
        after(i) == (player + i) % size
        able    == {i \in 1..size : IF Choosing(party) THEN party.numbers[after(i)] = NoNumber
                                    ELSE party.lives[after(i)] > 0}
    IN  IF kind # "killer" THEN after(1)
        ELSE IF \/ Choosing(party) /\ party.numbers[player] = NoNumber
                \/ able = {}
        THEN player
        ELSE after(First(able))

-----------------------------------------------------------------------------
(* The bull-off.                                                           *)

Far == 170

\* Distance of a dart from the centre, by its bed.
Distance(bed) == IF Score(bed) = 50 THEN 0 ELSE IF Score(bed) = 25 THEN 11 ELSE Far

\* The players who throw, in the order of their seats, and the distances of those
\* who have thrown.
BullOff(players) == [players |-> players, distances |-> <<>>]
Thrower(bulling) == First(bulling.players \ DOMAIN bulling.distances)

\* The first dart of the visit counts.  Once everybody threw, the closest
\* wins; players equally close throw again among themselves.
BullOffBook(bulling, bed) ==
    LET thrower   == Thrower(bulling)
        threw     == DOMAIN bulling.distances \cup {thrower}
        distances == [p \in threw |-> IF p = thrower THEN Distance(bed) ELSE bulling.distances[p]]
        closest   == {p \in threw : \A q \in threw : distances[p] <= distances[q]}
    IN  IF threw # bulling.players
        THEN [bulling |-> [bulling EXCEPT !.distances = distances], won |-> Nobody]
        ELSE IF Cardinality(closest) = 1 THEN [bulling |-> bulling, won |-> First(closest)]
        ELSE [bulling |-> BullOff(closest), won |-> Nobody]
=============================================================================
