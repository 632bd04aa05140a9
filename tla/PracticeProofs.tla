---------------------------- MODULE PracticeProofs ----------------------------
(***************************************************************************)
(* The properties of Practice, for every start score, every setup of one   *)
(* to four players, all beds and all bounds.                               *)
(*                                                                         *)
(* A match is Sound: typed, balanced, decided as its format says, with an  *)
(* open leg and nothing that counts from before it.  Every operation of    *)
(* the game has a lemma saying what it keeps of this (NewLegKeeps,         *)
(* BookLegKeeps, BookKeeps, FinishKeeps, FollowKeeps, JudgeKeeps), so that *)
(* a step is the lemmas of the operations it is made of.  That visits      *)
(* alternate needs to know who has thrown in this round (Alternates), and  *)
(* that legs are booked as told what was announced (AnnouncedOk) and to    *)
(* whom (ToldOk).                                                          *)
(***************************************************************************)
EXTENDS Practice, RulesProofs

-----------------------------------------------------------------------------
(* What the state is made of.                                              *)

Fields == {"setup", "players", "current", "starter", "winner", "party", "bulling",
           "visit", "skip", "announced"}

Dart == [bed : Bed, early : BOOLEAN]

SetupOk(m) == DOMAIN m = Fields /\ m.setup \in Setups

VisitOk(m) == m.visit \in Seq(Dart) /\ m.skip \in 0..Len(m.visit)

SeatsOk(m) == m.starter \in Players(m) /\ m.winner \in Players(m) \cup {Nobody}

\* All that a new leg keeps.
Seated(m) ==
    /\ SetupOk(m) /\ VisitOk(m) /\ SeatsOk(m)
    /\ m.players \in [Players(m) -> PlayerType]
    /\ m.bulling = NoBullOff \/ (m.bulling \in BullOffs(Players(m)) /\ m.setup.seats > 1)

Typed(m) ==
    /\ Seated(m)
    /\ m.current \in Players(m)
    /\ m.party \in PartyType(Players(m))
    /\ m.announced \in {"none", "bust", "won"}

\* ScoreBalances and MatchDecides of any match.
Adds(m, p) == m.players[p].remaining + m.players[p].points = Game

Balances(m) == IsKind(m, "x01") =>
    \A p \in Players(m) : Adds(m, p) /\ (m.players[p].remaining = 0 => p = m.winner)

Decides(m) == m.setup.seats > 1 => \A p \in Players(m) :
    /\ m.players[p].legs < m.setup.legs
    /\ m.players[p].sets >= m.setup.sets <=> p = m.winner

\* LegIsOpen of any match.
CricketOpen(m) == ~\E p \in Players(m) :
    /\ Closed(m.players[p].marks)
    /\ \A q \in Players(m) : m.players[p].points >= m.players[q].points

Lives(m) == {p \in Players(m) : m.party.lives[p] > 0}

Able(m) == IF Choosing(m.party) THEN m.party.numbers[m.current] = NoNumber
           ELSE m.party.lives[m.current] > 0

IsOpen(m) == PartyReady(m) =>
    CASE IsKind(m, "cricket") -> CricketOpen(m)
      [] IsKind(m, "killer") -> Cardinality(Lives(m)) > 1 /\ Able(m)
      [] IsParty(m) /\ ~IsKind(m, "killer") -> Decided(m.setup.kind, m.party) = Nobody
      [] OTHER -> TRUE

-----------------------------------------------------------------------------
(* Seats, and what the operations change.                                  *)

\* One to four players.
LEMMA SetupParts ==
    ASSUME NEW m, SetupOk(m)
    PROVE  /\ m.setup.kind \in Kinds /\ m.setup.seats \in 1..4
           /\ m.setup.legs \in Nat \ {0} /\ m.setup.sets \in Nat \ {0}
           /\ m.setup.doubleOut \in BOOLEAN /\ m.setup.doubleIn \in BOOLEAN
           /\ m.setup.bullOff \in BOOLEAN
           /\ Players(m) = 0..(m.setup.seats - 1) /\ Players(m) \subseteq Nat
           /\ 0 \in Players(m) /\ Nobody \notin Players(m)
           /\ \A p \in Players(m) : NextSeat(m, p) \in Players(m)
<1>1. m.setup \in Setups
  BY DEF SetupOk
<1>2. /\ m.setup.kind \in Kinds /\ m.setup.seats \in 1..4
      /\ m.setup.legs \in Nat \ {0} /\ m.setup.sets \in Nat \ {0}
      /\ m.setup.doubleOut \in BOOLEAN /\ m.setup.doubleIn \in BOOLEAN
      /\ m.setup.bullOff \in BOOLEAN
  BY <1>1, PracticeAssumption
<1>3. Players(m) = 0..(m.setup.seats - 1)
  BY DEF Players
<1>4. Players(m) \subseteq Nat /\ 0 \in Players(m) /\ Nobody \notin Players(m)
  BY <1>2, <1>3 DEF Nobody
<1>5. \A p \in Players(m) : NextSeat(m, p) \in Players(m)
  BY <1>2, <1>3 DEF NextSeat
<1> QED BY <1>2, <1>3, <1>4, <1>5

\* new_leg.
LEMMA NewLegIs ==
    ASSUME NEW m, SetupOk(m)
    PROVE  LET n == NewLeg(m)
           IN  /\ DOMAIN n = Fields
               /\ n.setup = m.setup /\ n.starter = m.starter /\ n.winner = m.winner
               /\ n.bulling = m.bulling /\ n.current = m.starter
               /\ n.skip = Len(m.visit) /\ n.announced = "none" /\ n.visit = Early(m.visit)
               /\ n.party = NewParty(m.setup.kind, Players(m))
               /\ n.players = [p \in Players(m) |->
                      Fresh(m.players[p], IF IsKind(m, "x01") THEN Game ELSE 0)]
  BY DEF SetupOk, NewLeg, Fields

\* new_match.
LEMMA NewMatchIs ==
    ASSUME NEW m, SetupOk(m)
    PROVE  LET n == NewMatch(m)
           IN  /\ DOMAIN n = Fields
               /\ n.setup = m.setup /\ n.starter = 0 /\ n.winner = Nobody
               /\ n.bulling = (IF m.setup.bullOff /\ m.setup.seats > 1 /\ Playing(m)
                               THEN BullOff(Players(m)) ELSE NoBullOff)
               /\ n.current = 0
               /\ n.skip = Len(m.visit) /\ n.announced = "none" /\ n.visit = Early(m.visit)
               /\ n.party = NewParty(m.setup.kind, Players(m))
               /\ n.players = [p \in Players(m) |->
                      Fresh(Newcomer, IF IsKind(m, "x01") THEN Game ELSE 0)]
<1> DEFINE k == [m EXCEPT
        !.players = [p \in Players(m) |-> Newcomer],
        !.starter = 0,
        !.winner = Nobody,
        !.bulling = IF m.setup.bullOff /\ m.setup.seats > 1 /\ Playing(m)
                    THEN BullOff(Players(m)) ELSE NoBullOff]
<1>1. /\ DOMAIN k = Fields
      /\ k.setup = m.setup /\ k.starter = 0 /\ k.winner = Nobody
      /\ k.bulling = (IF m.setup.bullOff /\ m.setup.seats > 1 /\ Playing(m)
                      THEN BullOff(Players(m)) ELSE NoBullOff)
      /\ k.visit = m.visit /\ k.players = [p \in Players(m) |-> Newcomer]
  BY DEF SetupOk, Fields
<1>2. NewMatch(m) = NewLeg(k)
  BY DEF NewMatch
<1>3. SetupOk(k) /\ Players(k) = Players(m) /\ IsKind(k, "x01") = IsKind(m, "x01")
  BY <1>1 DEF SetupOk, Players, IsKind
<1> HIDE DEF k
<1> QED BY <1>1, <1>2, <1>3, NewLegIs

\* Player.new_leg.
LEMMA FreshIs ==
    ASSUME NEW player \in PlayerType, NEW game \in Nat
    PROVE  LET f == Fresh(player, game)
           IN  /\ f \in PlayerType /\ f.remaining = game /\ f.points = 0
               /\ f.legs = player.legs /\ f.sets = player.sets
               /\ f.marks = [number \in CricketNumbers |-> 0]
<1>1. [number \in CricketNumbers |-> 0] \in [CricketNumbers -> 0..MarksToClose]
  BY RulesAssumption
<1> QED BY <1>1 DEF Fresh, PlayerType

\* A player of a new match.
LEMMA NewcomerIs == Newcomer \in PlayerType /\ Newcomer.legs = 0 /\ Newcomer.sets = 0
<1>1. [number \in CricketNumbers |-> 0] \in [CricketNumbers -> 0..MarksToClose]
  BY RulesAssumption
<1> QED BY <1>1 DEF Newcomer, PlayerType

\* A visit whose darts are early is a visit.
LEMMA EarlyIs ==
    ASSUME NEW visit \in Seq(Dart)
    PROVE  /\ Early(visit) \in Seq(Dart) /\ Len(Early(visit)) = Len(visit)
           /\ DOMAIN Early(visit) = DOMAIN visit
<1>1. Len(visit) \in Nat /\ DOMAIN visit = 1..Len(visit)
      /\ \A i \in DOMAIN visit : visit[i] \in Dart
  BY LenProperties
<1>2. Early(visit) \in [1..Len(visit) -> Dart]
  BY <1>1 DEF Early, Dart
<1>3. Early(visit) \in Seq(Dart) /\ Len(Early(visit)) = Len(visit)
  BY <1>1, <1>2, SeqDef, LenProperties
<1> QED BY <1>1, <1>3 DEF Early

-----------------------------------------------------------------------------
(* Legs and matches.                                                       *)

\* A new leg keeps who won what, and sets the scores.
LEMMA NewLegKeeps ==
    ASSUME NEW m, Seated(m)
    PROVE  LET n == NewLeg(m)
           IN  Typed(n) /\ Balances(n) /\ (Decides(m) => Decides(n))
<1> DEFINE n == NewLeg(m)
           game == IF IsKind(m, "x01") THEN Game ELSE 0
<1>1. SetupOk(m) /\ VisitOk(m) /\ SeatsOk(m) /\ m.players \in [Players(m) -> PlayerType]
  BY DEF Seated
<1>2. /\ DOMAIN n = Fields
      /\ n.setup = m.setup /\ n.starter = m.starter /\ n.winner = m.winner
      /\ n.bulling = m.bulling /\ n.current = m.starter
      /\ n.skip = Len(m.visit) /\ n.announced = "none" /\ n.visit = Early(m.visit)
      /\ n.party = NewParty(m.setup.kind, Players(m))
      /\ n.players = [p \in Players(m) |-> Fresh(m.players[p], game)]
  BY <1>1, NewLegIs
<1>3. game \in Nat /\ (IsKind(m, "x01") => game = Game /\ Game # 0 /\ Game \in Nat)
  BY PracticeAssumption
<1> HIDE DEF n, game
<1>4. Players(n) = Players(m) /\ IsKind(n, "x01") = IsKind(m, "x01")
  BY <1>2 DEF Players, IsKind
<1>5. \A p \in Players(m) :
         /\ n.players[p] \in PlayerType /\ n.players[p].remaining = game
         /\ n.players[p].points = 0
         /\ n.players[p].legs = m.players[p].legs /\ n.players[p].sets = m.players[p].sets
  <2> TAKE p \in Players(m)
  <2>1. m.players[p] \in PlayerType /\ n.players[p] = Fresh(m.players[p], game)
    BY <1>1, <1>2
  <2> QED BY <1>3, <2>1, FreshIs
<1>6. n.players \in [Players(m) -> PlayerType]
  BY <1>2, <1>5
<1>7. SetupOk(n)
  BY <1>1, <1>2 DEF SetupOk
<1>8. VisitOk(n)
  <2>1. Len(m.visit) \in Nat /\ Len(Early(m.visit)) = Len(m.visit) /\ Early(m.visit) \in Seq(Dart)
    BY <1>1, EarlyIs, LenProperties DEF VisitOk
  <2> QED BY <1>2, <2>1 DEF VisitOk
<1>9. SeatsOk(n)
  BY <1>1, <1>2, <1>4 DEF SeatsOk
<1>10. n.party \in PartyType(Players(n))
  BY <1>2, <1>4, NewPartyIs
<1>11. Typed(n)
  BY <1>1, <1>2, <1>4, <1>6, <1>7, <1>8, <1>9, <1>10 DEF Typed, Seated, SeatsOk
<1>12. Balances(n)
  <2>1. ASSUME IsKind(n, "x01"), NEW p \in Players(n)
        PROVE  Adds(n, p) /\ n.players[p].remaining # 0
    <3>1. n.players[p].remaining = Game /\ n.players[p].points = 0
      BY <1>3, <1>4, <1>5, <2>1
    <3> QED BY <1>3, <1>4, <2>1, <3>1 DEF Adds
  <2> QED BY <2>1 DEF Balances
<1>13. Decides(m) => Decides(n)
  BY <1>2, <1>4, <1>5 DEF Decides
<1> QED BY <1>11, <1>12, <1>13 DEF n

\* A new match begins with a new leg of newcomers.
LEMMA NewMatchSeats ==
    ASSUME NEW m, SetupOk(m), VisitOk(m)
    PROVE  \E k : Seated(k) /\ Decides(k) /\ NewMatch(m) = NewLeg(k)
<1> DEFINE k == [m EXCEPT
                   !.players = [p \in Players(m) |-> Newcomer],
                   !.starter = 0,
                   !.winner = Nobody,
                   !.bulling = IF m.setup.bullOff /\ m.setup.seats > 1 /\ Playing(m)
                               THEN BullOff(Players(m)) ELSE NoBullOff]
<1>1. /\ DOMAIN k = Fields
      /\ k.setup = m.setup /\ k.starter = 0 /\ k.winner = Nobody
      /\ k.bulling = (IF m.setup.bullOff /\ m.setup.seats > 1 /\ Playing(m)
                      THEN BullOff(Players(m)) ELSE NoBullOff)
      /\ k.visit = m.visit /\ k.skip = m.skip
      /\ k.players = [p \in Players(m) |-> Newcomer]
  BY DEF SetupOk, Fields
<1>2. /\ Players(k) = Players(m) /\ 0 \in Players(m)
      /\ IsKind(k, "x01") = IsKind(m, "x01") /\ k.setup.kind = m.setup.kind
  BY <1>1, SetupParts DEF Players, IsKind
<1>3. k.bulling = NoBullOff \/ (k.bulling \in BullOffs(Players(k)) /\ k.setup.seats > 1)
  <2>1. BullOff(Players(m)) \in BullOffs(Players(m))
    <3>1. <<>> \in [{} -> Nat] /\ DOMAIN <<>> = {} /\ {} \in SUBSET Players(m)
      OBVIOUS
    <3>2. <<>> \in UNION {[D -> Nat] : D \in SUBSET Players(m)}
      BY <3>1
    <3>3. DOMAIN <<>> # Players(m)
      BY <1>2, <3>1
    <3> QED BY <3>1, <3>2, <3>3 DEF BullOff, BullOffs
  <2> QED BY <1>1, <1>2, <2>1
<1>4. Seated(k)
  <2>1. SetupOk(k) /\ VisitOk(k)
    BY <1>1 DEF SetupOk, VisitOk
  <2>2. SeatsOk(k)
    BY <1>1, <1>2 DEF SeatsOk
  <2>3. k.players \in [Players(k) -> PlayerType]
    BY <1>1, <1>2, NewcomerIs
  <2> QED BY <1>3, <2>1, <2>2, <2>3 DEF Seated
<1>5. Decides(k)
  <2>1. \A p \in Players(k) : k.players[p] = Newcomer
    BY <1>1, <1>2
  <2>2. k.setup.legs \in Nat \ {0} /\ k.setup.sets \in Nat \ {0} /\ Nobody \notin Players(k)
    BY <1>4, SetupParts DEF Seated
  <2> QED BY <1>1, <2>1, <2>2, NewcomerIs DEF Decides
<1>6. NewMatch(m) = NewLeg(k)
  BY DEF NewMatch
<1> HIDE DEF k
<1> QED BY <1>4, <1>5, <1>6

\* A new match.
LEMMA NewMatchKeeps ==
    ASSUME NEW m, SetupOk(m), VisitOk(m)
    PROVE  LET n == NewMatch(m)
           IN  Typed(n) /\ Balances(n) /\ Decides(n)
  BY NewMatchSeats, NewLegKeeps

\* The winner's legs and sets.
LEMMA ResultIs ==
    ASSUME NEW m, Typed(m), m.winner = Nobody, Decides(m)
    PROVE  LET r == Result(m, m.current)
           IN  /\ r.legs \in Nat /\ r.sets \in Nat /\ r.match \in BOOLEAN
               /\ m.setup.seats > 1 =>
                     /\ r.legs < m.setup.legs
                     /\ r.match <=> r.sets >= m.setup.sets
               /\ m.setup.seats = 1 => ~r.match
<1>1. /\ m.current \in Players(m) /\ SetupOk(m) /\ m.players \in [Players(m) -> PlayerType]
  BY DEF Typed, Seated
<1>2. /\ m.setup.seats \in 1..4 /\ m.setup.legs \in Nat \ {0} /\ m.setup.sets \in Nat \ {0}
      /\ Nobody \notin Players(m)
  BY <1>1, SetupParts
<1> DEFINE player == m.players[m.current]
<1>3. player.legs \in Nat /\ player.sets \in Nat
  BY <1>1 DEF PlayerType
<1>4. m.setup.seats > 1 => player.legs < m.setup.legs /\ ~(player.sets >= m.setup.sets)
  BY <1>1, <1>2 DEF Decides
<1>5. Result(m, m.current) =
        IF m.setup.seats = 1 THEN [legs |-> player.legs + 1, sets |-> player.sets, match |-> FALSE]
        ELSE IF player.legs + 1 >= m.setup.legs
        THEN [legs |-> 0, sets |-> player.sets + 1, match |-> player.sets + 1 >= m.setup.sets]
        ELSE [legs |-> player.legs + 1, sets |-> player.sets, match |-> player.sets >= m.setup.sets]
  BY DEF Result
<1> HIDE DEF player
<1>6. CASE m.setup.seats = 1
  <2>1. Result(m, m.current) = [legs |-> player.legs + 1, sets |-> player.sets, match |-> FALSE]
    BY <1>5, <1>6
  <2> QED BY <1>3, <1>6, <2>1
<1>7. CASE m.setup.seats # 1 /\ player.legs + 1 >= m.setup.legs
  <2>1. Result(m, m.current) =
          [legs |-> 0, sets |-> player.sets + 1, match |-> player.sets + 1 >= m.setup.sets]
    BY <1>5, <1>7
  <2>2. /\ Result(m, m.current).legs = 0 /\ Result(m, m.current).sets = player.sets + 1
        /\ Result(m, m.current).match = (player.sets + 1 >= m.setup.sets)
    BY <2>1
  <2>3. Result(m, m.current).match = (Result(m, m.current).sets >= m.setup.sets)
    BY <2>2
  <2>4. Result(m, m.current).match \in BOOLEAN
    BY <2>3
  <2>5. /\ Result(m, m.current).legs \in Nat /\ Result(m, m.current).sets \in Nat
        /\ Result(m, m.current).legs < m.setup.legs
    BY <1>2, <1>3, <2>2
  <2> QED BY <1>7, <2>3, <2>4, <2>5
<1>8. CASE m.setup.seats # 1 /\ ~(player.legs + 1 >= m.setup.legs)
  <2>1. Result(m, m.current) =
          [legs |-> player.legs + 1, sets |-> player.sets, match |-> player.sets >= m.setup.sets]
    BY <1>5, <1>8
  <2>2. /\ Result(m, m.current).legs = player.legs + 1 /\ Result(m, m.current).sets = player.sets
        /\ Result(m, m.current).match = (player.sets >= m.setup.sets)
    BY <2>1
  <2>3. Result(m, m.current).match = (Result(m, m.current).sets >= m.setup.sets)
    BY <2>2
  <2>4. Result(m, m.current).match \in BOOLEAN
    BY <2>3
  <2>5. /\ Result(m, m.current).legs \in Nat /\ Result(m, m.current).sets \in Nat
        /\ Result(m, m.current).legs < m.setup.legs
    BY <1>2, <1>3, <1>8, <2>2
  <2> QED BY <1>8, <2>3, <2>4, <2>5
<1> QED BY <1>6, <1>7, <1>8

\* All but some fields of a match stay.
Keeps(k, m, changed) == DOMAIN k = Fields /\ \A f \in Fields \ changed : k[f] = m[f]

PlayerSet(k, m, x) ==
    Keeps(k, m, {"players"}) /\ k.players = [m.players EXCEPT ![m.current] = x]

\* One player of a match changes.
LEMMA PlayerChanges ==
    ASSUME NEW m, Typed(m), NEW x \in PlayerType,
           NEW k, PlayerSet(k, m, x)
    PROVE  /\ Typed(k) /\ Players(k) = Players(m) /\ k.setup = m.setup /\ k.winner = m.winner
           /\ k.current = m.current /\ k.starter = m.starter
           /\ k.bulling = m.bulling /\ k.party = m.party
           /\ k.players[m.current] = x
           /\ \A p \in Players(m) \ {m.current} : k.players[p] = m.players[p]
<1>1. /\ k.setup = m.setup /\ k.current = m.current /\ k.starter = m.starter
      /\ k.winner = m.winner /\ k.party = m.party /\ k.bulling = m.bulling
      /\ k.visit = m.visit /\ k.skip = m.skip /\ k.announced = m.announced
      /\ DOMAIN k = Fields
  BY DEF Fields, Keeps, PlayerSet
<1>2. Players(k) = Players(m)
  BY <1>1 DEF Players
<1>3. m.players \in [Players(m) -> PlayerType] /\ m.current \in Players(m)
  BY DEF Typed, Seated
<1>4. k.players \in [Players(m) -> PlayerType]
  BY <1>3 DEF PlayerSet
<1>5. k.players[m.current] = x /\ \A p \in Players(m) \ {m.current} : k.players[p] = m.players[p]
  BY <1>3 DEF PlayerSet
<1>6. Typed(k)
  BY <1>1, <1>2, <1>4 DEF Typed, Seated, SetupOk, VisitOk, SeatsOk
<1> QED BY <1>1, <1>2, <1>5, <1>6

\* A leg that has just begun, with the bull-off as it was.
StartsAnew(n, m) ==
    \E k : Seated(k) /\ n = NewLeg(k) /\ k.setup = m.setup /\ k.bulling = m.bulling

\* _book_leg keeps what a match says, if the winner has scored the game.
LEMMA BookLegKeeps ==
    ASSUME NEW m, Typed(m), m.winner = Nobody, Decides(m),
           IsKind(m, "x01") =>
             /\ m.players[m.current].points = Game
             /\ \A p \in Players(m) \ {m.current} : Adds(m, p) /\ m.players[p].remaining # 0
    PROVE  LET n == BookLeg(m)
           IN  /\ Typed(n) /\ Balances(n) /\ Decides(n) /\ n.setup = m.setup
               /\ n.winner = Nobody => StartsAnew(n, m)
<1> DEFINE r == Result(m, m.current)
           c == m.current
           x == [m.players[c] EXCEPT !.legs = r.legs, !.sets = r.sets]
           won == [m EXCEPT !.players[m.current].legs = r.legs, !.players[m.current].sets = r.sets]
           level == IF r.legs = 0
                    THEN [won EXCEPT !.players = [p \in Players(m) |->
                             [won.players[p] EXCEPT !.legs = 0]]]
                    ELSE won
           over == [won EXCEPT !.players[m.current].remaining = 0, !.winner = m.current]
           next == [level EXCEPT !.starter = NextSeat(m, m.starter)]
<1>1. /\ DOMAIN m = Fields /\ c \in Players(m) /\ SetupOk(m) /\ SeatsOk(m)
      /\ m.players \in [Players(m) -> PlayerType]
  BY DEF Typed, Seated, SetupOk
<1>2. /\ r.legs \in Nat /\ r.sets \in Nat /\ r.match \in BOOLEAN
      /\ m.setup.seats > 1 => r.legs < m.setup.legs /\ (r.match <=> r.sets >= m.setup.sets)
      /\ m.setup.seats = 1 => ~r.match
  BY ResultIs
<1>3. BookLeg(m) = IF r.match THEN over ELSE NewLeg(next)
  BY DEF BookLeg
<1> HIDE DEF r
<1>4. m.players[c] \in PlayerType
  BY <1>1
<1>5. /\ x \in PlayerType /\ x.legs = r.legs /\ x.sets = r.sets
      /\ x.remaining = m.players[c].remaining /\ x.points = m.players[c].points
  BY <1>2, <1>4 DEF PlayerType
<1>6. PlayerSet(won, m, x)
  <2>1. DOMAIN won = Fields /\ \A f \in Fields \ {"players"} : won[f] = m[f]
    BY <1>1
  <2>2. won.players = [m.players EXCEPT ![m.current] = x]
    BY <1>1 DEF Fields
  <2> QED BY <2>1, <2>2 DEF Keeps, PlayerSet
<1> HIDE DEF x, won
<1>7. /\ Typed(won) /\ Players(won) = Players(m) /\ won.setup = m.setup /\ won.winner = m.winner
      /\ won.current = m.current /\ won.starter = m.starter
      /\ won.players[c] = x
      /\ \A p \in Players(m) \ {c} : won.players[p] = m.players[p]
  BY <1>5, <1>6, PlayerChanges
<1>8. /\ m.setup.seats \in 1..4 /\ m.setup.legs \in Nat \ {0} /\ m.setup.sets \in Nat \ {0}
      /\ Nobody \notin Players(m) /\ NextSeat(m, m.starter) \in Players(m)
  BY <1>1, SetupParts DEF SeatsOk
<1>9. CASE r.match
  <2> DEFINE y == [x EXCEPT !.remaining = 0]
  <2>1. /\ y \in PlayerType /\ y.legs = r.legs /\ y.sets = r.sets
        /\ y.remaining = 0 /\ y.points = m.players[c].points
    BY <1>5 DEF PlayerType
  <2> DEFINE k == [over EXCEPT !.winner = Nobody]
  <2>2. /\ DOMAIN over = Fields
        /\ \A f \in Fields \ {"players", "winner"} : over[f] = won[f]
        /\ over.winner = c
        /\ over.players = [won.players EXCEPT ![c] = y]
    <3>1. won.players \in [Players(m) -> PlayerType] /\ DOMAIN won = Fields
      BY <1>7 DEF Typed, Seated, SetupOk
    <3>2. DOMAIN over = Fields /\ \A f \in Fields \ {"players", "winner"} : over[f] = won[f]
      BY <3>1
    <3>3. over.players = [won.players EXCEPT ![c] = y] /\ over.winner = c
      BY <1>1, <1>7, <3>1 DEF Fields
    <3> QED BY <3>2, <3>3
  <2> HIDE DEF over, y
  <2>3. /\ over.setup = m.setup /\ over.winner = c /\ Players(over) = Players(m)
        /\ over.players[c] = y /\ over.players \in [Players(m) -> PlayerType]
        /\ \A p \in Players(m) \ {c} : over.players[p] = m.players[p]
    <3>1. won.players \in [Players(m) -> PlayerType]
      BY <1>7 DEF Typed, Seated
    <3>2. over.setup = m.setup /\ over.winner = c
      BY <1>7, <2>2 DEF Fields
    <3>3. Players(over) = Players(m)
      BY <3>2 DEF Players
    <3> QED BY <1>1, <1>7, <2>1, <2>2, <3>1, <3>2, <3>3
  <2>4. Typed(over)
    <3>1. /\ over.current = won.current /\ over.starter = won.starter
          /\ over.party = won.party /\ over.bulling = won.bulling /\ over.setup = won.setup
          /\ over.visit = won.visit /\ over.skip = won.skip /\ over.announced = won.announced
      BY <2>2 DEF Fields
    <3> QED BY <1>1, <1>7, <2>2, <2>3, <3>1 DEF Typed, Seated, SetupOk, VisitOk, SeatsOk
  <2>5. Decides(over)
    <3>1. m.setup.seats > 1 /\ r.legs < m.setup.legs /\ r.sets >= m.setup.sets
      BY <1>2, <1>8, <1>9
    <3>2. \A p \in Players(m) \ {c} :
             m.players[p].legs < m.setup.legs /\ ~(m.players[p].sets >= m.setup.sets)
      BY <1>8, <3>1 DEF Decides
    <3> QED BY <2>1, <2>3, <3>1, <3>2 DEF Decides
  <2>6. Balances(over)
    <3>1. ASSUME IsKind(over, "x01"), NEW p \in Players(over)
          PROVE  Adds(over, p) /\ (over.players[p].remaining = 0 => p = over.winner)
      <4>1. IsKind(m, "x01")
        BY <2>3, <3>1 DEF IsKind
      <4>2. CASE p = c
        BY <2>1, <2>3, <4>1, <4>2, PracticeAssumption DEF Adds
      <4>3. CASE p # c
        BY <2>3, <3>1, <4>1, <4>3 DEF Adds
      <4> QED BY <4>2, <4>3
    <3> QED BY <3>1 DEF Balances
  <2>7. over.winner # Nobody
    BY <1>1, <1>8, <2>3
  <2> QED BY <1>3, <1>9, <2>3, <2>4, <2>5, <2>6, <2>7
<1>10. CASE ~r.match
  <2>1. /\ won.players \in [Players(m) -> PlayerType] /\ DOMAIN won = Fields
    BY <1>7 DEF Typed, Seated, SetupOk
  <2>2. /\ DOMAIN level = Fields
        /\ \A f \in Fields \ {"players"} : level[f] = won[f]
        /\ \A p \in Players(m) :
             /\ level.players[p] \in PlayerType
             /\ level.players[p].legs = IF r.legs = 0 THEN 0 ELSE won.players[p].legs
             /\ level.players[p].sets = won.players[p].sets
        /\ level.players \in [Players(m) -> PlayerType]
    <3>1. CASE r.legs = 0
      <4> DEFINE f0 == [p \in Players(m) |-> [won.players[p] EXCEPT !.legs = 0]]
      <4>1. \A p \in Players(m) : f0[p] \in PlayerType /\ f0[p].legs = 0 /\ f0[p].sets = won.players[p].sets
        BY <2>1 DEF PlayerType
      <4>2. level = [won EXCEPT !.players = f0]
        BY <3>1
      <4>3. f0 \in [Players(m) -> PlayerType]
        BY <4>1
      <4> HIDE DEF f0, level
      <4> QED BY <2>1, <3>1, <4>1, <4>2, <4>3 DEF Fields
    <3>2. CASE r.legs # 0
      <4>1. level = won
        BY <3>2
      <4> HIDE DEF level
      <4> QED BY <2>1, <3>2, <4>1
    <3> QED BY <3>1, <3>2
  <2> HIDE DEF level
  <2>3. /\ DOMAIN next = Fields /\ next.setup = m.setup /\ next.winner = Nobody
        /\ next.starter = NextSeat(m, m.starter) /\ next.players = level.players
        /\ next.bulling = won.bulling /\ next.visit = won.visit /\ next.skip = won.skip
    BY <1>7, <2>2 DEF Fields
  <2> HIDE DEF next
  <2>4. Players(next) = Players(m)
    BY <2>3 DEF Players
  <2>5. Seated(next)
    BY <1>7, <1>8, <2>1, <2>2, <2>3, <2>4 DEF Typed, Seated, SetupOk, VisitOk, SeatsOk
  <2>6. Decides(next)
    <3>1. ASSUME m.setup.seats > 1, NEW p \in Players(m)
          PROVE  /\ level.players[p].legs < m.setup.legs
                 /\ ~(level.players[p].sets >= m.setup.sets)
      <4>1. CASE p = c
        <5>1. won.players[p].legs = r.legs /\ won.players[p].sets = r.sets
          BY <1>5, <1>7, <4>1
        <5> QED BY <1>2, <1>8, <1>10, <2>2, <3>1, <5>1
      <4>2. CASE p # c
        <5>1. m.players[p].legs < m.setup.legs /\ ~(m.players[p].sets >= m.setup.sets)
          BY <1>8, <3>1 DEF Decides
        <5> QED BY <1>7, <1>8, <2>2, <4>2, <5>1
      <4> QED BY <4>1, <4>2
    <3> QED BY <1>8, <2>3, <2>4, <3>1 DEF Decides
  <2>7. SetupOk(next)
    BY <2>5 DEF Seated
  <2>8. next.setup = m.setup /\ next.bulling = m.bulling
    BY <1>6, <2>3 DEF PlayerSet, Keeps, Fields
  <2>9. StartsAnew(NewLeg(next), m)
    BY <2>5, <2>8 DEF StartsAnew
  <2> QED BY <1>3, <1>10, <2>3, <2>5, <2>6, <2>7, <2>9, NewLegKeeps, NewLegIs, ZenonT(40)
<1> QED BY <1>2, <1>9, <1>10

-----------------------------------------------------------------------------
(* Booking X01.                                                            *)

\* The darts that count are beds.
LEMMA ThrownIs ==
    ASSUME NEW m, VisitOk(m)
    PROVE  /\ Thrown(m) \in Seq(Bed) /\ Len(Thrown(m)) = Len(m.visit) - m.skip
           /\ BedsOk(Thrown(m)) /\ Len(Thrown(m)) \in Nat /\ DOMAIN Thrown(m) = 1..Len(Thrown(m))
           /\ \A i \in 1..Len(Thrown(m)) :
                /\ Thrown(m)[i] \in Bed /\ Thrown(m)[i].number \in Nat
                /\ Thrown(m)[i].multiplier \in 0..3 /\ Score(Thrown(m)[i]) \in Nat
<1>1. /\ m.visit \in Seq(Dart) /\ Len(m.visit) \in Nat /\ m.skip \in 0..Len(m.visit)
      /\ \A i \in 1..Len(m.visit) : m.visit[i] \in Dart
  BY LenProperties, ElementOfSeq DEF VisitOk
<1> DEFINE n == Len(m.visit) - m.skip
<1>2. n \in Nat /\ m.skip \in Nat
  BY <1>1
<1>3. \A i \in 1..n : m.skip + i \in 1..Len(m.visit)
  BY <1>1
<1>4. Thrown(m) = [i \in 1..n |-> m.visit[m.skip + i].bed]
  BY DEF Thrown
<1>5. \A i \in 1..n : m.visit[m.skip + i].bed \in Bed
  BY <1>1, <1>3 DEF Dart
<1> HIDE DEF n
<1>6. Thrown(m) \in [1..n -> Bed]
  BY <1>4, <1>5
<1>7. Thrown(m) \in Seq(Bed) /\ Len(Thrown(m)) = n /\ DOMAIN Thrown(m) = 1..n
  BY <1>2, <1>6, SeqDef, LenProperties
<1>8. \A b \in Bed : b.number \in Nat /\ b.multiplier \in 0..3 /\ Score(b) \in Nat
  BY PracticeAssumption DEF Score
<1>9. \A i \in 1..n : Thrown(m)[i] \in Bed
  BY <1>6
<1>10. BedsOk(Thrown(m))
  BY <1>7, SeqMonotonic, PracticeAssumption DEF BedsOk
<1> QED BY <1>2, <1>7, <1>8, <1>9, <1>10 DEF n

\* Darts that open a leg are darts of the visit.
LEMMA OpeningIs ==
    ASSUME NEW m, VisitOk(m)
    PROVE  Opening(m) \in 0..Len(Thrown(m))
<1> DEFINE hits == {i \in DOMAIN Thrown(m) : IsDouble(Thrown(m)[i])}
<1>1. Len(Thrown(m)) \in Nat /\ DOMAIN Thrown(m) = 1..Len(Thrown(m))
  BY ThrownIs
<1>2. CASE hits = {}
  BY <1>1, <1>2 DEF Opening
<1>3. CASE hits # {}
  <2>1. hits \subseteq Nat
    BY <1>1
  <2>2. First(hits) \in hits
    <3> HIDE DEF hits
    <3> QED BY <1>3, <2>1, FirstIs
  <2>3. First(hits) \in 1..Len(Thrown(m))
    BY <1>1, <2>2
  <2>4. Opening(m) \in {0, First(hits) - 1}
    BY <1>3 DEF Opening
  <2> QED BY <1>1, <2>3, <2>4
<1> QED BY <1>2, <1>3

\* What the visit comes to in X01.
LEMMA EvaluateOf ==
    ASSUME NEW m, Typed(m)
    PROVE  LET e == Evaluate(m)
               start == m.players[m.current].remaining
           IN  /\ e.remaining \in Nat /\ start \in Nat /\ e.remaining <= start
               /\ e.outcome \in {"none", "bust", "won"}
               /\ e.outcome = "won" => e.remaining = 0
               /\ start > 0 /\ e.outcome # "won" => e.remaining > 0
               /\ Thrown(m) = <<>> => e.outcome = "none"
<1>1. VisitOk(m) /\ m.current \in Players(m) /\ m.players \in [Players(m) -> PlayerType] /\ SetupOk(m)
  BY DEF Typed, Seated
<1>2. m.players[m.current].remaining \in Nat
  BY <1>1 DEF PlayerType
<1>3. m.setup.doubleOut \in BOOLEAN
  BY <1>1, SetupParts
<1>4. /\ Len(Thrown(m)) \in Nat /\ \A i \in 1..Len(Thrown(m)) : Score(Thrown(m)[i]) \in Nat
      /\ Opening(m) \in 0..Len(Thrown(m))
  BY <1>1, ThrownIs, OpeningIs
<1>5. Thrown(m) = <<>> => Opening(m) = Len(Thrown(m))
  <2>1. Len(<<>>) = 0
    OBVIOUS
  <2> QED BY <1>4, <2>1
<1> QED BY <1>2, <1>3, <1>4, <1>5, EvaluateIs DEF Evaluate

\* The next player throws.
LEMMA NextTurnKeeps ==
    ASSUME NEW m, Typed(m)
    PROVE  LET n == NextTurn(m).match
           IN  /\ Typed(n) /\ (Balances(m) => Balances(n)) /\ (Decides(m) => Decides(n))
               /\ n.setup = m.setup /\ n.winner = m.winner
               /\ n.players = m.players /\ n.bulling = m.bulling
               /\ n.starter = m.starter /\ n.current = NextSeat(m, m.current)
               /\ NextTurn(m).leg = NoLeg
<1> DEFINE n == [m EXCEPT !.current = NextSeat(m, m.current)]
<1>1. NextTurn(m).match = n
  BY DEF NextTurn, OnlyMatch
<1>2. DOMAIN m = Fields /\ SetupOk(m) /\ m.current \in Players(m)
  BY DEF Typed, Seated, SetupOk
<1>3. Keeps(n, m, {"current"}) /\ n.current = NextSeat(m, m.current)
  BY <1>2 DEF Keeps, Fields
<1> HIDE DEF n
<1>4. /\ n.setup = m.setup /\ n.starter = m.starter /\ n.winner = m.winner /\ n.party = m.party
      /\ n.bulling = m.bulling /\ n.visit = m.visit /\ n.skip = m.skip
      /\ n.announced = m.announced /\ n.players = m.players /\ DOMAIN n = Fields
  BY <1>3 DEF Keeps, Fields
<1>5. Players(n) = Players(m) /\ NextSeat(m, m.current) \in Players(m)
  BY <1>2, <1>4, SetupParts DEF Players
<1>6. Typed(n)
  BY <1>3, <1>4, <1>5 DEF Typed, Seated, SetupOk, VisitOk, SeatsOk
<1>7. (Balances(m) => Balances(n)) /\ (Decides(m) => Decides(n))
  BY <1>4, <1>5 DEF Balances, Decides, Adds, IsKind
<1>8. NextTurn(m).leg = NoLeg
  BY DEF NextTurn, OnlyMatch
<1> QED BY <1>1, <1>3, <1>4, <1>6, <1>7, <1>8

\* The next player throws, or the leg of the player at the board is booked.
Turned(m, done) ==
    /\ done.leg = NoLeg /\ done.match.winner = Nobody /\ done.match.bulling = m.bulling
    /\ done.match.starter = m.starter /\ done.match.current = NextSeat(m, m.current)

Ended(m, done, player) ==
    /\ done.leg = Leg(m, player)
    /\ done.match.winner = Nobody => StartsAnew(done.match, m)

\* A leg is told from its players, and is one.
LEMMA LegIs ==
    /\ \A m, i : Leg(m, i) # NoLeg /\ Leg(m, i).player = i
    /\ \A m, k, i : /\ k.setup = m.setup
                    /\ k.players[i].legs = m.players[i].legs /\ k.players[i].sets = m.players[i].sets
                    => Leg(k, i) = Leg(m, i)
<1>1. ASSUME NEW m, NEW i
      PROVE  Leg(m, i) # NoLeg /\ Leg(m, i).player = i
  <2> DEFINE r == Result(m, i)
  <2>1. Leg(m, i) = [player |-> i, result |-> r]
    BY DEF Leg
  <2> HIDE DEF r
  <2>2. DOMAIN Leg(m, i) = {"player", "result"} /\ DOMAIN NoLeg = {"player"}
    BY <2>1 DEF NoLeg
  <2> QED BY <2>1, <2>2
<1>2. ASSUME NEW m, NEW k, NEW i, k.setup = m.setup,
             k.players[i].legs = m.players[i].legs, k.players[i].sets = m.players[i].sets
      PROVE  Leg(k, i) = Leg(m, i)
  BY <1>2 DEF Leg, Result
<1> QED BY <1>1, <1>2

\* Booking the leg of the player at the board.
LEMMA WithLegIs ==
    ASSUME NEW m, NEW k, Typed(k), k.winner = Nobody, Decides(k), k.setup = m.setup,
           k.bulling = m.bulling, NEW player, player = k.current,
           k.players[player].legs = m.players[player].legs,
           k.players[player].sets = m.players[player].sets,
           IsKind(k, "x01") =>
             /\ k.players[k.current].points = Game
             /\ \A p \in Players(k) \ {k.current} : Adds(k, p) /\ k.players[p].remaining # 0
    PROVE  LET done == WithLeg(k)
           IN  /\ Typed(done.match) /\ Balances(done.match) /\ Decides(done.match)
               /\ done.match.setup = m.setup /\ Ended(m, done, player)
<1> DEFINE done == WithLeg(k)
<1>1. done.match = BookLeg(k) /\ done.leg = Leg(k, k.current)
  BY DEF WithLeg
<1> HIDE DEF done
<1>2. /\ Typed(done.match) /\ Balances(done.match) /\ Decides(done.match)
      /\ done.match.setup = k.setup
      /\ done.match.winner = Nobody => StartsAnew(done.match, k)
  BY <1>1, BookLegKeeps
<1>3. Leg(k, k.current) = Leg(m, player)
  BY LegIs
<1>4. StartsAnew(done.match, k) => StartsAnew(done.match, m)
  BY DEF StartsAnew
<1>5. Ended(m, done, player)
  BY <1>1, <1>2, <1>3, <1>4 DEF Ended
<1> QED BY <1>2, <1>5 DEF done

\* A visit of X01.
LEMMA BookX01Keeps ==
    ASSUME NEW m, Typed(m), m.winner = Nobody, Decides(m), Balances(m)
    PROVE  LET n == BookX01(m).match
           IN  /\ Typed(n) /\ (IsKind(m, "x01") => Balances(n)) /\ Decides(n) /\ n.setup = m.setup
               /\ IF Evaluate(m).outcome = "won" THEN Ended(m, BookX01(m), m.current)
                  ELSE Turned(m, BookX01(m))
<1> DEFINE now == Evaluate(m)
           player == m.players[m.current]
           x == [player EXCEPT !.points = @ + player.remaining - now.remaining,
                   !.opened = \/ @
                              \/ /\ m.setup.doubleIn /\ Opening(m) < now.darts
                                 /\ now.outcome # "bust"]
           kept == [m EXCEPT !.players[m.current] = x]
           y == [x EXCEPT !.remaining = now.remaining]
           left == [kept EXCEPT !.players[m.current].remaining = now.remaining]
<1>1. /\ DOMAIN m = Fields /\ m.current \in Players(m) /\ m.players \in [Players(m) -> PlayerType]
      /\ SetupOk(m) /\ Nobody \notin Players(m)
  BY SetupParts DEF Typed, Seated, SetupOk
<1>2. /\ now.remaining \in Nat /\ player.remaining \in Nat /\ now.remaining <= player.remaining
      /\ now.outcome = "won" => now.remaining = 0
      /\ player.remaining > 0 /\ now.outcome # "won" => now.remaining > 0
  BY EvaluateOf
<1>3. BookX01(m) = IF now.outcome = "won" THEN WithLeg(kept) ELSE NextTurn(left)
  BY <1>1 DEF BookX01, Fields
<1> HIDE DEF now
<1>4. /\ player \in PlayerType
      /\ x \in PlayerType /\ x.points = player.points + player.remaining - now.remaining
      /\ x.remaining = player.remaining
  <2>1. player \in PlayerType /\ player.points \in Nat
    BY <1>1 DEF PlayerType
  <2>2. player.points + player.remaining - now.remaining \in Nat
    BY <1>2, <2>1
  <2>3. ( \/ player.opened
          \/ /\ m.setup.doubleIn /\ Opening(m) < now.darts
             /\ now.outcome # "bust") \in BOOLEAN
    OBVIOUS
  <2> HIDE DEF player
  <2> QED BY <2>1, <2>2, <2>3 DEF PlayerType
<1>5. /\ y \in PlayerType /\ y.points = x.points /\ y.remaining = now.remaining
  <2> HIDE DEF x
  <2> QED BY <1>2, <1>4 DEF PlayerType
<1>6. PlayerSet(kept, m, x)
  <2> HIDE DEF x
  <2> QED BY <1>1 DEF PlayerSet, Keeps, Fields
<1>7. PlayerSet(left, m, y)
  <2> HIDE DEF x
  <2> QED BY <1>1 DEF PlayerSet, Keeps, Fields
<1> HIDE DEF x, y, kept, left
<1>8. /\ Typed(kept) /\ Players(kept) = Players(m) /\ kept.setup = m.setup /\ kept.winner = m.winner
      /\ kept.current = m.current /\ kept.players[m.current] = x /\ kept.bulling = m.bulling
      /\ \A p \in Players(m) \ {m.current} : kept.players[p] = m.players[p]
  BY <1>4, <1>6, PlayerChanges
<1>9. /\ Typed(left) /\ Players(left) = Players(m) /\ left.setup = m.setup /\ left.winner = m.winner
      /\ left.current = m.current /\ left.players[m.current] = y
      /\ left.starter = m.starter /\ left.bulling = m.bulling
      /\ \A p \in Players(m) \ {m.current} : left.players[p] = m.players[p]
  BY <1>5, <1>7, PlayerChanges
<1>10. IsKind(m, "x01") =>
         /\ player.points + player.remaining = Game /\ player.remaining # 0 /\ Game \in Nat
         /\ \A p \in Players(m) : Adds(m, p) /\ m.players[p].remaining # 0
  BY <1>1, <1>2, <1>4, PracticeAssumption DEF Balances, Adds, PlayerType
<1>11. x.legs = player.legs /\ x.sets = player.sets /\ y.legs = player.legs /\ y.sets = player.sets
  BY <1>4 DEF x, y, PlayerType
<1>12. Decides(kept) /\ Decides(left)
  BY <1>1, <1>8, <1>9, <1>11 DEF Decides
<1>13. CASE now.outcome = "won"
  <2>1. BookX01(m) = WithLeg(kept)
    BY <1>3, <1>13
  <2>2. IsKind(kept, "x01") =>
             /\ kept.players[kept.current].points = Game
             /\ \A p \in Players(kept) \ {kept.current} : Adds(kept, p) /\ kept.players[p].remaining # 0
    <3>1. SUFFICES ASSUME IsKind(m, "x01")
                   PROVE  /\ x.points = Game
                          /\ \A p \in Players(m) \ {m.current} :
                                Adds(kept, p) /\ kept.players[p].remaining # 0
      BY <1>8 DEF IsKind
    <3>2. x.points = Game
      <4>1. player.points \in Nat
        BY <1>4 DEF PlayerType
      <4> QED BY <1>2, <1>4, <1>10, <1>13, <3>1, <4>1
    <3> QED BY <1>8, <1>10, <3>1, <3>2 DEF Adds
  <2>3. LET done == WithLeg(kept)
        IN  /\ Typed(done.match) /\ Balances(done.match) /\ Decides(done.match)
            /\ done.match.setup = m.setup /\ Ended(m, done, m.current)
    BY <1>8, <1>11, <1>12, <2>2, WithLegIs
  <2> QED BY <1>13, <2>1, <2>3 DEF now
<1>14. CASE now.outcome # "won"
  <2>1. BookX01(m) = NextTurn(left)
    BY <1>3, <1>14
  <2>2. IsKind(m, "x01") => Balances(left)
    <3>1. ASSUME IsKind(m, "x01"), NEW p \in Players(m)
          PROVE  Adds(left, p) /\ left.players[p].remaining # 0
      <4>1. CASE p = m.current
        <5>1. player.points \in Nat
          BY <1>4 DEF PlayerType
        <5>2. y.remaining # 0 /\ y.remaining + y.points = Game
          BY <1>2, <1>4, <1>5, <1>10, <1>14, <3>1, <5>1
        <5> QED BY <1>9, <4>1, <5>2 DEF Adds
      <4>2. CASE p # m.current
        BY <1>9, <1>10, <3>1, <4>2 DEF Adds
      <4> QED BY <4>1, <4>2
    <3> QED BY <1>9, <3>1 DEF Balances, IsKind
  <2>3. Turned(m, NextTurn(left))
    <3>1. NextSeat(left, left.current) = NextSeat(m, m.current)
      BY <1>9 DEF NextSeat
    <3> QED BY <1>9, <3>1, NextTurnKeeps DEF Turned
  <2>4. LET n == NextTurn(left).match
        IN  Typed(n) /\ (IsKind(m, "x01") => Balances(n)) /\ Decides(n) /\ n.setup = m.setup
    BY <1>9, <1>12, <2>2, NextTurnKeeps
  <2> QED BY <1>14, <2>1, <2>3, <2>4 DEF now
<1> QED BY <1>13, <1>14

-----------------------------------------------------------------------------
(* Cricket.                                                                *)

\* A visit of Cricket.
LEMMA BookCricketKeeps ==
    ASSUME NEW m, Typed(m), m.winner = Nobody, Decides(m), IsKind(m, "cricket")
    PROVE  LET n == BookCricket(m).match
           IN  /\ Typed(n) /\ Balances(n) /\ Decides(n) /\ n.setup = m.setup
               /\ IF CricketNow(m).won THEN Ended(m, BookCricket(m), m.current)
                  ELSE /\ Turned(m, BookCricket(m))
                       /\ CricketOpen(m) /\ Thrown(m) # <<>> => CricketOpen(n)
<1> DEFINE now == CricketNow(m)
           player == m.players[m.current]
           x == [player EXCEPT !.marks = now.marks, !.points = now.points]
           kept == [m EXCEPT !.players[m.current].marks = now.marks,
                             !.players[m.current].points = now.points]
           others == {m.players[p] : p \in Players(m) \ {m.current}}
<1>1. /\ DOMAIN m = Fields /\ m.current \in Players(m) /\ m.players \in [Players(m) -> PlayerType]
      /\ SetupOk(m) /\ Nobody \notin Players(m) /\ VisitOk(m)
  BY SetupParts DEF Typed, Seated, SetupOk
<1>2. /\ now \in CricketState /\ now.points >= player.points
      /\ Thrown(m) # <<>> /\ ~now.won =>
           ~(Closed(now.marks) /\ \A other \in others : now.points >= other.points)
  <2>1. player \in PlayerType /\ BedsOk(Thrown(m)) /\ (Thrown(m) # <<>> => Len(Thrown(m)) # 0)
    BY <1>1, ThrownIs, EmptySeq DEF BedsOk
  <2> HIDE DEF player, others
  <2>2. now = CricketVisit(player, Thrown(m), others)
    BY DEF CricketNow, player, others
  <2> HIDE DEF now
  <2> QED BY <2>1, <2>2, CricketVisitIs
<1>3. BookCricket(m) = IF now.won THEN WithLeg(kept) ELSE NextTurn(kept)
  BY DEF BookCricket
<1> HIDE DEF now
<1>4. x \in PlayerType /\ x.legs = player.legs /\ x.sets = player.sets
      /\ x.marks = now.marks /\ x.points = now.points
  BY <1>1, <1>2 DEF PlayerType, CricketState
<1>5. PlayerSet(kept, m, x)
  BY <1>1 DEF PlayerSet, Keeps, Fields
<1> HIDE DEF x, kept
<1>6. /\ Typed(kept) /\ Players(kept) = Players(m) /\ kept.setup = m.setup /\ kept.winner = m.winner
      /\ kept.current = m.current /\ kept.players[m.current] = x
      /\ kept.bulling = m.bulling /\ kept.starter = m.starter
      /\ \A p \in Players(m) \ {m.current} : kept.players[p] = m.players[p]
  BY <1>4, <1>5, PlayerChanges
<1>7. Decides(kept)
  BY <1>1, <1>4, <1>6 DEF Decides
<1>8. ~IsKind(kept, "x01") /\ Balances(kept)
  BY <1>6 DEF IsKind, Balances
<1>9. LET done == WithLeg(kept)
      IN  /\ Typed(done.match) /\ Balances(done.match) /\ Decides(done.match)
          /\ done.match.setup = m.setup /\ Ended(m, done, m.current)
  BY <1>4, <1>6, <1>7, <1>8, WithLegIs
<1>10. LET n == NextTurn(kept).match
       IN  /\ Typed(n) /\ Balances(n) /\ Decides(n) /\ n.setup = m.setup
           /\ n.players = kept.players
  BY <1>6, <1>7, <1>8, NextTurnKeeps
<1>11. Turned(m, NextTurn(kept))
  <2>1. NextSeat(kept, kept.current) = NextSeat(m, m.current)
    BY <1>6 DEF NextSeat
  <2> QED BY <1>6, <2>1, NextTurnKeeps DEF Turned
<1>12. ~now.won /\ CricketOpen(m) /\ Thrown(m) # <<>> => CricketOpen(NextTurn(kept).match)
  <2> SUFFICES ASSUME ~now.won, CricketOpen(m), Thrown(m) # <<>>, NEW p \in Players(m),
                      Closed(kept.players[p].marks),
                      \A q \in Players(m) : kept.players[p].points >= kept.players[q].points
               PROVE  FALSE
    <3>1. Players(NextTurn(kept).match) = Players(m)
      BY <1>10 DEF Players
    <3> QED BY <1>10, <3>1 DEF CricketOpen
  <2>1. CASE p = m.current
    <3>1. \A other \in others : now.points >= other.points
      BY <1>4, <1>6, <2>1
    <3> QED BY <1>2, <1>4, <1>6, <2>1, <3>1
  <2>2. CASE p # m.current
    <3>1. Closed(m.players[p].marks)
      BY <1>6, <2>2
    <3>2. \A q \in Players(m) \ {m.current} : m.players[p].points >= m.players[q].points
      BY <1>6, <2>2
    <3>3. m.players[p].points >= now.points
      BY <1>1, <1>4, <1>6, <2>2
    <3>4. m.players[p].points \in Nat /\ now.points \in Nat /\ player.points \in Nat
      BY <1>1, <1>2 DEF PlayerType, CricketState
    <3>5. m.players[p].points >= player.points
      BY <1>2, <3>3, <3>4
    <3> QED BY <3>1, <3>2, <3>5 DEF CricketOpen
  <2> QED BY <2>1, <2>2
<1>13. CASE now.won
  BY <1>3, <1>9, <1>13 DEF now
<1>14. CASE ~now.won
  BY <1>3, <1>10, <1>11, <1>12, <1>14 DEF now
<1> QED BY <1>13, <1>14

-----------------------------------------------------------------------------
(* Party games.                                                            *)

\* The players of a match are such seats.
LEMMA PlayersAre ==
    ASSUME NEW m, SetupOk(m)
    PROVE  SeatsAre(Players(m)) /\ Cardinality(Players(m)) = m.setup.seats
<1>1. m.setup.seats \in 1..4 /\ Players(m) = 0..(m.setup.seats - 1)
  BY SetupParts
<1>2. SeatsAre(Players(m))
  BY <1>1 DEF SeatsAre
<1>3. Cardinality(Players(m)) = m.setup.seats
  <2> DEFINE n == m.setup.seats
  <2>1. n \in 1..4 /\ Players(m) = 0..(n - 1)
    BY <1>1
  <2> HIDE DEF n
  <2>2. Cardinality(Players(m)) = n
    <3>1. 0 \in Int /\ n - 1 \in Int /\ ~(0 > n - 1) /\ (n - 1) - 0 + 1 = n
      BY <2>1
    <3>2. Cardinality(0..(n - 1)) = (n - 1) - 0 + 1
      BY ONLY <3>1, FS_Interval
    <3> QED BY <2>1, <3>1, <3>2
  <2> QED BY <2>2 DEF n
<1> QED BY <1>2, <1>3

\* What a party keeps, and who is up, change.
PartySet(k, m, party, current) ==
    /\ Keeps(k, m, {"party", "current"})
    /\ k.party = party /\ k.current = current

\* A change of the party state leaves the seats and the match alone.
LEMMA PartyChanges ==
    ASSUME NEW m, Typed(m), NEW party \in PartyType(Players(m)), NEW current \in Players(m),
           NEW k, PartySet(k, m, party, current)
    PROVE  /\ Typed(k) /\ Players(k) = Players(m) /\ k.setup = m.setup /\ k.winner = m.winner
           /\ k.starter = m.starter /\ k.bulling = m.bulling /\ k.players = m.players
           /\ k.current = current /\ k.party = party
           /\ Decides(m) => Decides(k)
<1>1. /\ k.setup = m.setup /\ k.starter = m.starter /\ k.players = m.players
      /\ k.winner = m.winner /\ k.bulling = m.bulling
      /\ k.visit = m.visit /\ k.skip = m.skip /\ k.announced = m.announced
      /\ DOMAIN k = Fields /\ k.current = current /\ k.party = party
  BY DEF Fields, Keeps, PartySet
<1>2. Players(k) = Players(m)
  BY <1>1 DEF Players
<1>3. Typed(k)
  BY <1>1, <1>2 DEF Typed, Seated, SetupOk, VisitOk, SeatsOk
<1>4. Decides(m) => Decides(k)
  BY <1>1, <1>2 DEF Decides
<1> QED BY <1>1, <1>2, <1>3, <1>4

\* A leg that has just begun is open.
LEMMA NewLegOpens ==
    ASSUME NEW m, Seated(m)
    PROVE  /\ IsOpen(NewLeg(m)) /\ NewLeg(m).current = NewLeg(m).starter
           /\ NewLeg(m).party.turns = 0
<1> DEFINE n == NewLeg(m)
<1>1. SetupOk(m) /\ m.players \in [Players(m) -> PlayerType] /\ SeatsOk(m)
  BY DEF Seated
<1>2. /\ n.setup = m.setup /\ n.starter = m.starter /\ n.current = m.starter
      /\ n.party = NewParty(m.setup.kind, Players(m))
      /\ n.players = [p \in Players(m) |->
             Fresh(m.players[p], IF IsKind(m, "x01") THEN Game ELSE 0)]
  BY <1>1, NewLegIs
<1>3. /\ n.party \in PartyType(Players(m)) /\ n.party.turns = 0
      /\ \A p \in Players(m) : n.party.lives[p] = KillerLives /\ n.party.numbers[p] = NoNumber
  BY <1>2, NewPartyIs DEF NewParty
<1> HIDE DEF n
<1>4. Players(n) = Players(m) /\ m.starter \in Players(m)
  BY <1>1, <1>2 DEF Players, SeatsOk
<1>5. CricketOpen(n)
  <2>1. PICK number \in CricketNumbers : TRUE
    BY RulesAssumption
  <2>2. \A p \in Players(m) : n.players[p].marks[number] = 0
    <3> SUFFICES ASSUME NEW p \in Players(m)
                 PROVE  n.players[p].marks[number] = 0
      OBVIOUS
    <3> DEFINE game == IF IsKind(m, "x01") THEN Game ELSE 0
    <3>1. m.players[p] \in PlayerType /\ game \in Nat
      BY <1>1, PracticeAssumption
    <3>2. n.players[p] = Fresh(m.players[p], game)
      BY <1>2
    <3> HIDE DEF game
    <3>3. n.players[p].marks = [k \in CricketNumbers |-> 0]
      BY <3>1, <3>2, FreshIs
    <3> QED BY <2>1, <3>3
  <2>3. \A p \in Players(m) : ~Closed(n.players[p].marks)
    BY <2>1, <2>2, RulesAssumption DEF Closed
  <2> QED BY <1>4, <2>3 DEF CricketOpen
<1>6. PartyReady(n) /\ IsKind(n, "killer") => Cardinality(Lives(n)) > 1 /\ Able(n)
  <2> SUFFICES ASSUME PartyReady(n), IsKind(n, "killer")
               PROVE  Cardinality(Lives(n)) > 1 /\ Able(n)
    OBVIOUS
  <2>1. m.setup.seats > 1
    BY <1>1, <1>2, SetupParts DEF PartyReady
  <2>2. Lives(n) = Players(m)
    BY <1>3, <1>4, RulesAssumption DEF Lives
  <2>3. Cardinality(Lives(n)) > 1
    BY <1>1, <2>1, <2>2, PlayersAre
  <2>4. Able(n)
    BY <1>2, <1>3, <1>4, RulesAssumption DEF Able
  <2> QED BY <2>3, <2>4
<1>7. IsParty(n) => Decided(n.setup.kind, n.party) = Nobody
  BY <1>1, <1>2, <1>3, PlayersAre, DecidedIs DEF IsParty
<1>8. IsOpen(n)
  BY <1>5, <1>6, <1>7 DEF IsOpen, IsKind
<1> QED BY <1>2, <1>3, <1>8 DEF n

\* So is the first leg of a match.
LEMMA NewMatchOpens ==
    ASSUME NEW m, SetupOk(m), VisitOk(m)
    PROVE  IsOpen(NewMatch(m))
  BY NewMatchSeats, NewLegOpens

\* A visit of a party game: it ends the leg for a player, who won with the darts
\* or at the end of the last round; a tie starts it anew; or it goes on.
PartyGoes(m, done) ==
    LET w      == PartyNow(m).won
        killer == IsKind(m, "killer")
        n      == done.match
    IN  \/ \E player \in Players(m) :
             /\ Ended(m, done, player) /\ (w # Nobody => player = w) /\ (killer => w # Nobody)
             /\ killer \/ w \in {m.current, Nobody}
        \/ /\ w = Nobody /\ ~killer /\ done.leg = NoLeg /\ n.winner = Nobody
           /\ StartsAnew(n, m) /\ n.party.turns = 0
        \/ /\ w = Nobody /\ ~killer /\ Turned(m, done) /\ n.party.turns # 0
           /\ IsOpen(n)
        \/ /\ w = Nobody /\ killer /\ done.leg = NoLeg /\ n.winner = Nobody
           /\ n.bulling = m.bulling /\ (IsOpen(m) => IsOpen(n))

\* A booked party visit leaves a typed match that is decided only when won.
LEMMA BookPartyKeeps ==
    ASSUME NEW m, Typed(m), m.winner = Nobody, Decides(m), IsParty(m), PartyReady(m)
    PROVE  LET n == BookParty(m).match
           IN  /\ Typed(n) /\ Balances(n) /\ Decides(n) /\ n.setup = m.setup
               /\ PartyGoes(m, BookParty(m))
<1> DEFINE S == Players(m)
           kind == m.setup.kind
           k == PartyBook(kind, m.party, m.current, Thrown(m))
           w == PartyNow(m).won
           done == BookParty(m)
           kept == [m EXCEPT !.party = k.party]
<1>1. /\ DOMAIN m = Fields /\ m.current \in S /\ SetupOk(m) /\ SeatsOk(m) /\ VisitOk(m)
      /\ Nobody \notin S /\ Tied \notin S /\ m.party \in PartyType(S)
      /\ SeatsAre(S) /\ kind \in PartyGames /\ S \subseteq Nat
      /\ Cardinality(S) = m.setup.seats
  BY SetupParts, PlayersAre, SeatsParts DEF Typed, Seated, SetupOk, IsParty
<1>2. /\ k.party \in PartyType(S) /\ k.won \in S \cup {Tied, Nobody}
      /\ kind # "killer" /\ k.won = Nobody => k.party.turns # 0 /\ Decided(kind, k.party) = Nobody
      /\ kind = "killer" => k.won = w
      /\ kind = "killer" /\ k.won = Nobody /\ Cardinality(Alive(S, m.party)) > 1 =>
            Cardinality(Alive(S, k.party)) > 1
      /\ w # Nobody => k.won = w
      /\ w \in S \cup {Nobody} /\ (kind # "killer" => w \in {m.current, Nobody})
  BY <1>1, ThrownIs, PartyBookIs DEF PartyNow
<1>3. done = KeepParty(m, k)
  BY DEF BookParty
<1>4. /\ ~IsKind(m, "x01") /\ ~IsKind(m, "cricket") /\ ~IsKind(m, "none")
      /\ (IsKind(m, "killer") <=> kind = "killer")
  BY <1>1 DEF IsKind, PartyGames
<1> HIDE DEF k, w, done
<1>5. CASE k.won \in S
  <2> DEFINE x == [kept EXCEPT !.current = k.won]
  <2>1. done = WithLeg(x)
    BY <1>1, <1>3, <1>5 DEF KeepParty
  <2>2. PartySet(x, m, k.party, k.won)
    BY <1>1 DEF PartySet, Keeps, Fields
  <2> HIDE DEF x
  <2>3. /\ Typed(x) /\ x.setup = m.setup /\ x.winner = m.winner /\ x.bulling = m.bulling
        /\ x.players = m.players /\ x.current = k.won /\ Decides(x)
    BY <1>2, <1>5, <2>2, PartyChanges
  <2>4. ~IsKind(x, "x01")
    BY <1>4, <2>3 DEF IsKind
  <2>5. /\ Typed(done.match) /\ Balances(done.match) /\ Decides(done.match)
        /\ done.match.setup = m.setup /\ Ended(m, done, k.won)
    BY <2>1, <2>3, <2>4, WithLegIs
  <2>6. PartyGoes(m, done)
    <3>1. /\ w # Nobody => k.won = w
          /\ IsKind(m, "killer") => w # Nobody
          /\ IsKind(m, "killer") \/ w \in {m.current, Nobody}
      BY <1>1, <1>2, <1>4, <1>5
    <3> QED BY <1>5, <2>5, <3>1 DEF PartyGoes, w
  <2> QED BY <2>5, <2>6 DEF done
<1>6. CASE k.won = Tied
  <2> DEFINE x == [kept EXCEPT !.starter = NextSeat(m, m.starter)]
  <2>1. done = OnlyMatch(NewLeg(x))
    BY <1>3, <1>6 DEF KeepParty, Tied
  <2>2. /\ DOMAIN x = Fields /\ x.setup = m.setup /\ x.starter = NextSeat(m, m.starter)
        /\ x.winner = m.winner /\ x.bulling = m.bulling /\ x.players = m.players
        /\ x.visit = m.visit /\ x.skip = m.skip
    BY <1>1 DEF Fields
  <2> HIDE DEF x
  <2>3. Players(x) = S /\ NextSeat(m, m.starter) \in S
    BY <1>1, <2>2, SetupParts DEF Players, SeatsOk
  <2>4. Seated(x)
    BY <2>2, <2>3 DEF Typed, Seated, SetupOk, VisitOk, SeatsOk
  <2>5. Decides(x)
    BY <2>2, <2>3 DEF Decides
  <2>6. done.match = NewLeg(x) /\ done.leg = NoLeg
    BY <2>1 DEF OnlyMatch
  <2>7. /\ Typed(done.match) /\ Balances(done.match) /\ Decides(done.match)
        /\ done.match.party.turns = 0
    BY <2>4, <2>5, <2>6, NewLegKeeps, NewLegOpens
  <2>8. done.match.setup = m.setup /\ done.match.winner = Nobody
    <3>1. SetupOk(x) /\ x.winner = Nobody
      BY <2>2, <2>4 DEF Seated
    <3>2. NewLeg(x).setup = x.setup /\ NewLeg(x).winner = x.winner
      BY <3>1, NewLegIs
    <3> QED BY <2>2, <2>6, <3>1, <3>2
  <2>9. StartsAnew(done.match, m)
    BY <2>2, <2>4, <2>6 DEF StartsAnew
  <2>10. w = Nobody /\ ~IsKind(m, "killer")
    BY <1>1, <1>2, <1>4, <1>6 DEF Tied, Nobody
  <2>11. PartyGoes(m, done)
    BY <2>6, <2>7, <2>8, <2>9, <2>10 DEF PartyGoes, w
  <2> QED BY <2>7, <2>8, <2>11 DEF done
<1>7. CASE k.won = Nobody
  <2> DEFINE next == PartyNext(kind, k.party, m.current)
             x == [kept EXCEPT !.current = next]
  <2>1. done = OnlyMatch(x)
    BY <1>3, <1>7 DEF KeepParty, Nobody, Tied
  <2>2. /\ next \in S /\ (kind # "killer" => next = NextSeat(m, m.current))
        /\ kind = "killer" /\ Cardinality(Alive(S, k.party)) > 1 =>
              IF Choosing(k.party) THEN k.party.numbers[next] = NoNumber
              ELSE k.party.lives[next] > 0
    BY <1>1, <1>2, PartyNextIs DEF NextSeat
  <2> HIDE DEF next
  <2>3. PartySet(x, m, k.party, next)
    BY <1>1 DEF PartySet, Keeps, Fields
  <2> HIDE DEF x
  <2>4. /\ Typed(x) /\ Players(x) = S /\ x.setup = m.setup /\ x.winner = m.winner /\ x.bulling = m.bulling
        /\ x.players = m.players /\ x.current = next /\ x.party = k.party /\ Decides(x)
        /\ x.starter = m.starter
    BY <1>2, <2>2, <2>3, PartyChanges
  <2>5. done.match = x /\ done.leg = NoLeg
    BY <2>1 DEF OnlyMatch
  <2>6. Balances(x)
    BY <1>4, <2>4 DEF Balances, IsKind
  <2>7. w = Nobody
    BY <1>1, <1>2, <1>7
  <2>8. kind # "killer" => Turned(m, done) /\ IsOpen(done.match) /\ done.match.party.turns # 0
    BY <1>2, <1>4, <1>7, <2>2, <2>4, <2>5 DEF Turned, IsOpen, IsKind
  <2>9. kind = "killer" /\ IsOpen(m) => IsOpen(x)
    <3> SUFFICES ASSUME kind = "killer", IsOpen(m)
                 PROVE  IsOpen(x)
      OBVIOUS
    <3>1. Cardinality(Alive(S, m.party)) > 1
      BY <1>4 DEF IsOpen, Lives, Alive, IsKind, PartyGames
    <3>2. Cardinality(Alive(S, k.party)) > 1
      BY <1>2, <1>7, <3>1
    <3>3. Cardinality(Lives(x)) > 1 /\ Able(x)
      BY <2>2, <2>4, <3>2 DEF Lives, Alive, Able
    <3> QED BY <2>4, <3>3 DEF IsOpen, IsKind
  <2>10. PartyGoes(m, done)
    BY <1>4, <2>4, <2>5, <2>7, <2>8, <2>9 DEF PartyGoes, w
  <2> QED BY <2>4, <2>5, <2>6, <2>10 DEF done
<1> QED BY <1>2, <1>5, <1>6, <1>7

-----------------------------------------------------------------------------
(* The bull-off.                                                           *)

\* A bull-off goes on, or the player it chose starts a leg.
BullOffKeeps(m, done) ==
    LET n == done.match
    IN  /\ done.leg = NoLeg /\ n.winner = Nobody
        /\ \/ Bulling(n) /\ BullOffGoes(m.bulling, Thrower(m.bulling), n.bulling)
              /\ (IsOpen(m) => IsOpen(n))
           \/ \E k : Seated(k) /\ n = NewLeg(k) /\ k.bulling = NoBullOff /\ k.setup = m.setup

\* A throw at the bull leaves the bull-off going on or starts the leg.
LEMMA BookBullOffKeeps ==
    ASSUME NEW m, Typed(m), m.winner = Nobody, Balances(m), Decides(m), Bulling(m),
           Thrown(m) # <<>>
    PROVE  LET n == BookBullOff(m).match
           IN  /\ Typed(n) /\ Balances(n) /\ Decides(n) /\ n.setup = m.setup
               /\ BullOffKeeps(m, BookBullOff(m))
<1> DEFINE S == Players(m)
           thrown == BullOffBook(m.bulling, Thrown(m)[1])
           done == BookBullOff(m)
           on == [m EXCEPT !.bulling = thrown.bulling]
           over == [m EXCEPT !.bulling = NoBullOff, !.starter = thrown.won]
<1>1. /\ DOMAIN m = Fields /\ SetupOk(m) /\ VisitOk(m) /\ SeatsAre(S)
      /\ m.bulling \in BullOffs(S) /\ m.setup.seats > 1
  BY PlayersAre DEF Typed, Seated, SetupOk, Bulling
<1>2. Score(Thrown(m)[1]) \in Nat
  <2>1. Thrown(m) \in Seq(Bed) /\ Len(Thrown(m)) \in Nat
    BY <1>1, ThrownIs
  <2>2. Len(Thrown(m)) \in Nat \ {0}
    BY <2>1, EmptySeq
  <2> QED BY <1>1, <2>2, ThrownIs
<1>3. /\ thrown.won \in S \cup {Nobody}
      /\ thrown.won = Nobody =>
           thrown.bulling \in BullOffs(S) /\ BullOffGoes(m.bulling, Thrower(m.bulling), thrown.bulling)
  BY <1>1, <1>2, BullOffBookIs
<1>4. done = IF thrown.won = Nobody THEN OnlyMatch(on) ELSE OnlyMatch(NewLeg(over))
  BY DEF BookBullOff
<1> HIDE DEF thrown, done
<1>5. CASE thrown.won = Nobody
  <2>1. done.match = on /\ done.leg = NoLeg
    BY <1>4, <1>5 DEF OnlyMatch
  <2>2. /\ DOMAIN on = Fields /\ on.setup = m.setup /\ on.starter = m.starter
        /\ on.winner = m.winner /\ on.bulling = thrown.bulling /\ on.players = m.players
        /\ on.visit = m.visit /\ on.skip = m.skip /\ on.announced = m.announced
        /\ on.current = m.current /\ on.party = m.party
    BY <1>1 DEF Fields
  <2> HIDE DEF on
  <2>3. Players(on) = S
    BY <2>2 DEF Players
  <2>4. Typed(on)
    BY <1>1, <1>3, <1>5, <2>2, <2>3 DEF Typed, Seated, SetupOk, VisitOk, SeatsOk
  <2>5. Balances(on) /\ Decides(on)
    BY <2>2, <2>3 DEF Balances, Decides, Adds, IsKind
  <2>6. IsOpen(m) => IsOpen(on)
    BY <2>2, <2>3 DEF IsOpen, CricketOpen, Lives, Able, PartyReady, IsKind, IsParty
  <2>7. Bulling(on)
    <3>1. \A b \in BullOffs(S) : b # NoBullOff
      <4>1. NoBullOff.players = {}
        BY DEF NoBullOff, BullOff
      <4>2. \A b \in BullOffs(S) : DOMAIN b.distances \subseteq b.players /\ DOMAIN b.distances # b.players
        BY DEF BullOffs
      <4> QED BY <4>1, <4>2
    <3> QED BY <1>3, <1>5, <2>2, <3>1 DEF Bulling
  <2>8. BullOffKeeps(m, done)
    BY <1>3, <1>5, <2>1, <2>2, <2>6, <2>7 DEF BullOffKeeps
  <2> QED BY <2>1, <2>2, <2>4, <2>5, <2>8 DEF done
<1>6. CASE thrown.won # Nobody
  <2>1. done.match = NewLeg(over) /\ done.leg = NoLeg
    BY <1>4, <1>6 DEF OnlyMatch
  <2>2. /\ DOMAIN over = Fields /\ over.setup = m.setup /\ over.starter = thrown.won
        /\ over.winner = m.winner /\ over.bulling = NoBullOff /\ over.players = m.players
        /\ over.visit = m.visit /\ over.skip = m.skip
    BY <1>1 DEF Fields
  <2> HIDE DEF over
  <2>3. Players(over) = S
    BY <2>2 DEF Players
  <2>4. Seated(over)
    BY <1>3, <1>6, <2>2, <2>3 DEF Typed, Seated, SetupOk, VisitOk, SeatsOk
  <2>5. Decides(over)
    BY <2>2, <2>3 DEF Decides
  <2>6. Typed(NewLeg(over)) /\ Balances(NewLeg(over)) /\ Decides(NewLeg(over))
    BY <2>4, <2>5, NewLegKeeps
  <2>7. NewLeg(over).setup = m.setup /\ NewLeg(over).winner = Nobody
    <3>1. SetupOk(over)
      BY <2>4 DEF Seated
    <3>2. NewLeg(over).setup = over.setup /\ NewLeg(over).winner = over.winner
      BY <3>1, NewLegIs
    <3> QED BY <2>2, <3>2
  <2>8. BullOffKeeps(m, done)
    BY <2>1, <2>2, <2>4, <2>7 DEF BullOffKeeps
  <2> QED BY <2>1, <2>6, <2>7, <2>8 DEF done
<1> QED BY <1>5, <1>6

-----------------------------------------------------------------------------
(* Whose turn it is.                                                       *)

\* Who has thrown in this round: the seats from the one that started the leg to
\* the one before the player at the board.
Threw(m) == {p \in Players(m) :
    IF m.starter <= m.current THEN m.starter <= p /\ p < m.current
    ELSE m.starter <= p \/ p < m.current}

\* Those who have thrown are one visit ahead; in a bull-off the others are not.
LegTurns(m, t) == \E n \in Nat : \A p \in Players(m) :
    t[p] = n + (IF p \in Threw(m) THEN 1 ELSE 0)

BullTurns(m, t) == \E n \in Nat : \A p \in Players(m) :
    IF p \in m.bulling.players
    THEN t[p] = n + (IF p \in DOMAIN m.bulling.distances THEN 1 ELSE 0)
    ELSE t[p] <= n

Alternates(m, t) ==
    /\ t \in [Players(m) -> Nat]
    /\ m.winner = Nobody =>
         IF Bulling(m) THEN BullTurns(m, t)
         ELSE IF IsKind(m, "killer") THEN t = NoTurns(m)
         ELSE LegTurns(m, t)

\* Nobody has thrown when a leg or a bull-off begins.
LEMMA FreshTurns ==
    ASSUME NEW m, SetupOk(m), SeatsOk(m), m.current = m.starter,
           m.bulling = NoBullOff \/ m.bulling = BullOff(Players(m))
    PROVE  Alternates(m, NoTurns(m))
<1>1. NoTurns(m) \in [Players(m) -> Nat] /\ \A p \in Players(m) : NoTurns(m)[p] = 0
  BY DEF NoTurns
<1>2. LegTurns(m, NoTurns(m))
  <2>1. m.starter \in Nat /\ Players(m) \subseteq Nat
    BY SetupParts DEF SeatsOk
  <2>2. \A p \in Players(m) : p \notin Threw(m)
    BY <2>1 DEF Threw
  <2>3. \A p \in Players(m) : NoTurns(m)[p] = 0 + (IF p \in Threw(m) THEN 1 ELSE 0)
    BY <1>1, <2>2
  <2> QED BY <2>3 DEF LegTurns
<1>3. Bulling(m) => BullTurns(m, NoTurns(m))
  <2> SUFFICES ASSUME Bulling(m)
               PROVE  BullTurns(m, NoTurns(m))
    OBVIOUS
  <2>1. m.bulling.players = Players(m) /\ DOMAIN m.bulling.distances = {}
    BY DEF Bulling, BullOff
  <2>2. \A p \in Players(m) :
          IF p \in m.bulling.players
          THEN NoTurns(m)[p] = 0 + (IF p \in DOMAIN m.bulling.distances THEN 1 ELSE 0)
          ELSE NoTurns(m)[p] <= 0
    BY <1>1, <2>1
  <2> QED BY <2>2 DEF BullTurns
<1> QED BY <1>1, <1>2, <1>3 DEF Alternates

\* The player at the board has thrown when the next one is up.
LEMMA NextTurns ==
    ASSUME NEW m, SetupOk(m), SeatsOk(m), m.current \in Players(m), m.winner = Nobody,
           ~Bulling(m), ~IsKind(m, "killer"), NEW t, Alternates(m, t),
           NEW n, n.setup = m.setup, n.starter = m.starter, n.bulling = m.bulling,
           n.current = NextSeat(m, m.current)
    PROVE  Alternates(n, [t EXCEPT ![m.current] = @ + 1])
<1> DEFINE size == m.setup.seats
           u == [t EXCEPT ![m.current] = @ + 1]
<1>1. /\ size \in 1..4 /\ Players(m) = 0..(size - 1) /\ m.current \in 0..(size - 1)
      /\ m.starter \in 0..(size - 1)
  BY SetupParts DEF SeatsOk
<1>2. Players(n) = Players(m) /\ ~Bulling(n) /\ ~IsKind(n, "killer")
  BY DEF Players, Bulling, IsKind
<1>3. n.current = IF m.current + 1 < size THEN m.current + 1 ELSE 0
  <2>1. m.current + 1 \in 0..(2 * size - 1)
    BY <1>1
  <2>2. (m.current + 1) % size = IF m.current + 1 < size THEN m.current + 1 ELSE m.current + 1 - size
    BY <1>1, <2>1, SumOfSeats, SMTT(30)
  <2> QED BY <1>1, <2>2 DEF NextSeat
<1>4. t \in [Players(m) -> Nat] /\ LegTurns(m, t)
  BY DEF Alternates
<1>5. PICK k \in Nat : \A p \in Players(m) : t[p] = k + (IF p \in Threw(m) THEN 1 ELSE 0)
  BY <1>4 DEF LegTurns
<1>6. u \in [Players(m) -> Nat] /\ u[m.current] = t[m.current] + 1
      /\ \A p \in Players(m) \ {m.current} : u[p] = t[p]
  BY <1>1, <1>4
<1> HIDE DEF size, u
<1>7. CASE n.current = m.starter
  <2>1. \A p \in Players(m) : p \in Threw(m) <=> p # m.current
    BY <1>1, <1>3, <1>7 DEF Threw
  <2>2. \A p \in Players(m) : p \notin Threw(n)
    BY <1>1, <1>2, <1>7 DEF Threw
  <2>3. \A p \in Players(m) : u[p] = (k + 1) + (IF p \in Threw(n) THEN 1 ELSE 0)
    BY <1>1, <1>5, <1>6, <2>1, <2>2
  <2>4. LegTurns(n, u)
    BY <1>2, <2>3 DEF LegTurns
  <2> QED BY <1>2, <1>6, <2>4 DEF Alternates, u
<1>8. CASE n.current # m.starter
  <2>1. m.current \notin Threw(m)
    BY <1>1 DEF Threw
  <2>2. \A p \in Players(m) : p \in Threw(n) <=> p \in Threw(m) \/ p = m.current
    BY <1>1, <1>2, <1>3, <1>8 DEF Threw
  <2>3. ASSUME NEW p \in Players(m)
        PROVE  u[p] = k + (IF p \in Threw(n) THEN 1 ELSE 0)
    <3>1. t[p] = k + (IF p \in Threw(m) THEN 1 ELSE 0)
      BY <1>5
    <3>2. CASE p = m.current
      <4>1. p \in Threw(n) /\ p \notin Threw(m)
        BY <2>1, <2>2, <3>2
      <4> QED BY <1>6, <3>1, <3>2, <4>1
    <3>3. CASE p # m.current
      <4>1. p \in Threw(n) <=> p \in Threw(m)
        BY <2>2, <3>3
      <4> QED BY <1>6, <3>1, <3>3, <4>1
    <3> QED BY <3>2, <3>3
  <2>4. LegTurns(n, u)
    BY <1>2, <2>3 DEF LegTurns
  <2> QED BY <1>2, <1>6, <2>4 DEF Alternates, u
<1> QED BY <1>7, <1>8

\* So has the player who threw in a bull-off that goes on.
LEMMA BullOffTurns ==
    ASSUME NEW m, SetupOk(m), m.winner = Nobody, Bulling(m), m.bulling \in BullOffs(Players(m)),
           NEW t, Alternates(m, t),
           NEW n, n.setup = m.setup, Bulling(n),
           BullOffGoes(m.bulling, Thrower(m.bulling), n.bulling),
           Thrower(m.bulling) \in m.bulling.players \ DOMAIN m.bulling.distances
    PROVE  Alternates(n, [t EXCEPT ![Thrower(m.bulling)] = @ + 1])
<1> DEFINE p0 == Thrower(m.bulling)
           u == [t EXCEPT ![p0] = @ + 1]
           old == m.bulling
           new == n.bulling
<1>1. Players(n) = Players(m)
  BY DEF Players
<1>2. old.players \subseteq Players(m)
  BY DEF BullOffs
<1>3. t \in [Players(m) -> Nat]
  BY DEF Alternates
<1>4. PICK k \in Nat : \A p \in Players(m) :
        IF p \in old.players THEN t[p] = k + (IF p \in DOMAIN old.distances THEN 1 ELSE 0)
        ELSE t[p] <= k
  BY DEF Alternates, BullTurns
<1> HIDE DEF p0
<1>5. p0 \in old.players \ DOMAIN old.distances /\ p0 \in Players(m)
  BY <1>2 DEF p0
<1>6. u \in [Players(m) -> Nat] /\ u[p0] = t[p0] + 1 /\ \A p \in Players(m) \ {p0} : u[p] = t[p]
  BY <1>3, <1>5
<1> HIDE DEF u, old, new
<1>7. \/ new.players = old.players /\ DOMAIN new.distances = DOMAIN old.distances \cup {p0}
      \/ /\ new.players \subseteq old.players /\ DOMAIN new.distances = {}
         /\ old.players = DOMAIN old.distances \cup {p0}
  BY DEF BullOffGoes, old, new, p0
<1>8. BullTurns(n, u)
  <2>1. CASE new.players = old.players /\ DOMAIN new.distances = DOMAIN old.distances \cup {p0}
    <3>1. \A p \in Players(m) :
            IF p \in new.players THEN u[p] = k + (IF p \in DOMAIN new.distances THEN 1 ELSE 0)
            ELSE u[p] <= k
      BY <1>4, <1>5, <1>6, <2>1
    <3> QED BY <1>1, <3>1 DEF BullTurns, new
  <2>2. CASE /\ new.players \subseteq old.players /\ DOMAIN new.distances = {}
             /\ old.players = DOMAIN old.distances \cup {p0}
    <3>1. \A p \in Players(m) :
            IF p \in new.players THEN u[p] = (k + 1) + (IF p \in DOMAIN new.distances THEN 1 ELSE 0)
            ELSE u[p] <= k + 1
      BY <1>3, <1>4, <1>5, <1>6, <2>2
    <3> QED BY <1>1, <3>1 DEF BullTurns, new
  <2> QED BY <1>7, <2>1, <2>2
<1> QED BY <1>1, <1>6, <1>8 DEF Alternates, u, p0

-----------------------------------------------------------------------------
(* Booking a visit.                                                        *)

\* A leg that is booked for the darts of a visit was won with them, or with the
\* end of the last round; and darts that win book the leg.
Tells(m, leg) ==
    IF leg # NoLeg
    THEN /\ Evaluates(m)
         /\ IF Outcome(m).what = "won" THEN IsKind(m, "killer") \/ leg = Leg(m, m.current)
            ELSE m.setup.kind \in {"shanghai", "halve_it"}
    ELSE Evaluates(m) => Outcome(m).what # "won"

Counts(m, done, t) ==
    IF ~PartyReady(m) THEN t
    ELSE IF Anew(m, done) THEN NoTurns(m)
    ELSE [t EXCEPT ![Up(m)] = @ + 1]

\* What holds after a visit is booked.
Booked(m, done, t) ==
    LET n == done.match
    IN  /\ Typed(n) /\ Balances(n) /\ Decides(n) /\ n.setup = m.setup
        /\ n.winner = Nobody => IsOpen(n)
        /\ n.winner # Nobody => done.leg # NoLeg
        /\ Tells(m, done.leg)
        /\ Alternates(n, Counts(m, done, t))

\* A leg that begins starts counting.
LEMMA AnewTurns ==
    ASSUME NEW m, SetupOk(m), NEW k, Seated(k), k.setup = m.setup,
           k.bulling = NoBullOff \/ k.bulling = BullOff(Players(m))
    PROVE  Alternates(NewLeg(k), NoTurns(m)) /\ IsOpen(NewLeg(k))
<1> DEFINE n == NewLeg(k)
<1>1. SetupOk(k) /\ Players(k) = Players(m)
  BY DEF Seated, Players
<1>2. n.setup = k.setup /\ n.bulling = k.bulling /\ n.current = n.starter
  <2>1. NewLeg(k).setup = k.setup /\ NewLeg(k).bulling = k.bulling
        /\ NewLeg(k).current = k.starter /\ NewLeg(k).starter = k.starter
    BY <1>1, NewLegIs
  <2> QED BY <2>1
<1>3. SetupOk(n) /\ SeatsOk(n)
  BY NewLegKeeps DEF Typed, Seated
<1>4. IsOpen(n)
  BY NewLegOpens
<1> HIDE DEF n
<1>5. Players(n) = Players(m) /\ NoTurns(n) = NoTurns(m)
  BY <1>2 DEF Players, NoTurns
<1>6. Alternates(n, NoTurns(n))
  BY <1>2, <1>3, <1>5, FreshTurns
<1> QED BY <1>4, <1>5, <1>6 DEF n

\* The leg of a player ends.
LEMMA EndedKeeps ==
    ASSUME NEW m, Typed(m), ~Bulling(m), NEW done, NEW player,
           Ended(m, done, player), Typed(done.match), done.match.setup = m.setup, PartyReady(m),
           NEW t
    PROVE  /\ done.match.winner = Nobody => IsOpen(done.match)
           /\ Alternates(done.match, Counts(m, done, t))
           /\ done.leg # NoLeg /\ done.leg = Leg(m, player)
<1> DEFINE n == done.match
<1>1. done.leg # NoLeg /\ done.leg = Leg(m, player)
  BY LegIs DEF Ended
<1>2. Counts(m, done, t) = NoTurns(m)
  BY <1>1 DEF Counts, Anew
<1>3. CASE n.winner = Nobody
  <2>1. PICK k : Seated(k) /\ n = NewLeg(k) /\ k.setup = m.setup /\ k.bulling = m.bulling
    BY <1>3 DEF Ended, StartsAnew
  <2>2. k.bulling = NoBullOff /\ SetupOk(m)
    BY <2>1 DEF Bulling, Typed, Seated
  <2> QED BY <1>1, <1>2, <2>1, <2>2, AnewTurns
<1>4. CASE n.winner # Nobody
  <2>1. NoTurns(m) \in [Players(n) -> Nat]
    BY DEF NoTurns, Players
  <2> QED BY <1>1, <1>2, <1>4, <2>1 DEF Alternates
<1> QED BY <1>3, <1>4

\* finish_visit keeps what holds of a match and its turns.
LEMMA BookKeeps ==
    ASSUME NEW m, Typed(m), m.winner = Nobody, Balances(m), Decides(m), IsOpen(m),
           Playing(m), Thrown(m) # <<>>, NEW t, Alternates(m, t)
    PROVE  Booked(m, Book(m), t)
<1> DEFINE done == Book(m)
           n == done.match
<1> SUFFICES Booked(m, done, t)
  OBVIOUS
<1> HIDE DEF done
<1>1. /\ SetupOk(m) /\ SeatsOk(m) /\ VisitOk(m) /\ m.current \in Players(m)
      /\ Bulling(m) => m.bulling \in BullOffs(Players(m)) /\ m.setup.seats > 1
      /\ ~Bulling(m) => m.bulling = NoBullOff
      /\ SeatsAre(Players(m)) /\ Nobody \notin Players(m)
  BY PlayersAre, SetupParts DEF Typed, Seated, Bulling
<1>2. CASE Bulling(m)
  <2>1. done = BookBullOff(m)
    BY <1>2 DEF Book, done
  <2>2. /\ Typed(n) /\ Balances(n) /\ Decides(n) /\ n.setup = m.setup
        /\ BullOffKeeps(m, done)
    BY <1>2, <2>1, BookBullOffKeeps
  <2>3. PartyReady(m) /\ done.leg = NoLeg /\ n.winner = Nobody /\ Tells(m, done.leg)
    BY <1>1, <1>2, <2>2, SetupParts DEF PartyReady, BullOffKeeps, Tells, Evaluates
  <2>4. CASE Bulling(n) /\ BullOffGoes(m.bulling, Thrower(m.bulling), n.bulling) /\ (IsOpen(m) => IsOpen(n))
    <3>1. Counts(m, done, t) = [t EXCEPT ![Thrower(m.bulling)] = @ + 1]
      BY <1>2, <2>3, <2>4 DEF Counts, Anew, Up
    <3>2. Thrower(m.bulling) \in m.bulling.players \ DOMAIN m.bulling.distances
      <4>1. Score(Missed) \in Nat
        BY DEF Score, Missed
      <4> QED BY <1>1, <1>2, <4>1, BullOffBookIs
    <3>3. Alternates(n, [t EXCEPT ![Thrower(m.bulling)] = @ + 1])
      BY <1>1, <1>2, <2>2, <2>4, <3>2, BullOffTurns
    <3> QED BY <2>2, <2>3, <2>4, <3>1, <3>3 DEF Booked
  <2>5. CASE \E k : Seated(k) /\ n = NewLeg(k) /\ k.bulling = NoBullOff /\ k.setup = m.setup
    <3>1. PICK k : Seated(k) /\ n = NewLeg(k) /\ k.bulling = NoBullOff /\ k.setup = m.setup
      BY <2>5
    <3>2. Alternates(n, NoTurns(m)) /\ IsOpen(n)
      BY <1>1, <3>1, AnewTurns
    <3>3. ~Bulling(n)
      <4>1. SetupOk(k)
        BY <3>1 DEF Seated
      <4>2. n.bulling = NoBullOff
        BY <3>1, <4>1, NewLegIs
      <4> QED BY <4>2 DEF Bulling
    <3>4. Counts(m, done, t) = NoTurns(m)
      BY <1>2, <2>3, <3>3 DEF Counts, Anew
    <3> QED BY <2>2, <2>3, <3>2, <3>4 DEF Booked
  <2> QED BY <2>2, <2>4, <2>5 DEF BullOffKeeps
<1>3. CASE ~Bulling(m) /\ IsKind(m, "cricket")
  <2>1. done = BookCricket(m)
    BY <1>3 DEF Book, done
  <2>2. /\ Typed(n) /\ Balances(n) /\ Decides(n) /\ n.setup = m.setup
        /\ IF CricketNow(m).won THEN Ended(m, done, m.current)
           ELSE /\ Turned(m, done)
                /\ CricketOpen(m) /\ Thrown(m) # <<>> => CricketOpen(n)
    BY <1>3, <2>1, BookCricketKeeps
  <2>3. /\ Evaluates(m) /\ PartyReady(m) /\ ~IsKind(m, "killer") /\ ~IsParty(m) /\ Up(m) = m.current
        /\ Outcome(m).what = IF CricketNow(m).won THEN "won" ELSE "none"
    BY <1>3 DEF Evaluates, PartyReady, IsKind, IsParty, PartyGames, Up, Outcome
  <2>4. CASE CricketNow(m).won
    <3>1. /\ n.winner = Nobody => IsOpen(n)
          /\ Alternates(n, Counts(m, done, t))
          /\ done.leg # NoLeg /\ done.leg = Leg(m, m.current)
      BY <1>3, <2>2, <2>3, <2>4, EndedKeeps
    <3> QED BY <2>2, <2>3, <2>4, <3>1 DEF Booked, Tells
  <2>5. CASE ~CricketNow(m).won
    <3>1. Turned(m, done) /\ CricketOpen(n)
      BY <1>3, <2>2, <2>3, <2>5 DEF IsOpen, IsKind
    <3>2. IsOpen(n)
      BY <1>3, <2>2, <3>1 DEF IsOpen, IsKind, IsParty, PartyGames
    <3>3. ~Anew(m, done)
      BY <1>3, <2>3, <3>1 DEF Anew, Turned
    <3>4. Alternates(n, [t EXCEPT ![m.current] = @ + 1])
      BY <1>1, <1>3, <2>2, <2>3, <3>1, NextTurns DEF Turned
    <3> QED BY <2>2, <2>3, <2>5, <3>1, <3>2, <3>3, <3>4 DEF Booked, Tells, Counts, Turned
  <2> QED BY <2>4, <2>5
<1>4. CASE ~Bulling(m) /\ IsParty(m) /\ PartyReady(m)
  <2>1. done = BookParty(m)
    BY <1>4 DEF done, Book, IsParty, IsKind, PartyGames
  <2>2. /\ Typed(n) /\ Balances(n) /\ Decides(n) /\ n.setup = m.setup /\ PartyGoes(m, done)
    BY <1>4, <2>1, BookPartyKeeps
  <2> DEFINE w == PartyNow(m).won
             killer == IsKind(m, "killer")
  <2>3. /\ Evaluates(m) /\ Up(m) = m.current
        /\ Outcome(m).what = IF w = Nobody THEN "none" ELSE "won"
    BY <1>4 DEF Evaluates, Up, Outcome, IsKind, IsParty, PartyGames, WonBy, Playing
  <2>4. ~killer => m.setup.kind \in {"shanghai", "halve_it"}
    BY <1>4 DEF IsParty, IsKind, PartyGames
  <2>5. CASE \E player \in Players(m) :
               /\ Ended(m, done, player) /\ (w # Nobody => player = w) /\ (killer => w # Nobody)
               /\ killer \/ w \in {m.current, Nobody}
    <3>1. PICK player \in Players(m) :
               /\ Ended(m, done, player) /\ (w # Nobody => player = w) /\ (killer => w # Nobody)
               /\ killer \/ w \in {m.current, Nobody}
      BY <2>5
    <3>2. /\ n.winner = Nobody => IsOpen(n)
          /\ Alternates(n, Counts(m, done, t))
          /\ done.leg # NoLeg /\ done.leg = Leg(m, player)
      BY <1>4, <2>2, <3>1, EndedKeeps
    <3>3. Tells(m, done.leg)
      BY <2>3, <2>4, <3>1, <3>2 DEF Tells
    <3> QED BY <2>2, <3>2, <3>3 DEF Booked
  <2>6. CASE /\ w = Nobody /\ ~killer /\ done.leg = NoLeg /\ n.winner = Nobody
             /\ StartsAnew(n, m) /\ n.party.turns = 0
    <3>1. PICK k : Seated(k) /\ n = NewLeg(k) /\ k.setup = m.setup /\ k.bulling = m.bulling
      BY <2>6 DEF StartsAnew
    <3>2. Alternates(n, NoTurns(m)) /\ IsOpen(n)
      BY <1>1, <1>4, <3>1, AnewTurns
    <3>3. Counts(m, done, t) = NoTurns(m)
      BY <1>4, <2>6 DEF Counts, Anew
    <3> QED BY <2>2, <2>3, <2>6, <3>2, <3>3 DEF Booked, Tells
  <2>7. CASE /\ w = Nobody /\ ~killer /\ Turned(m, done) /\ n.party.turns # 0
             /\ IsOpen(n)
    <3>1. ~Anew(m, done)
      BY <1>4, <2>7 DEF Anew, Turned
    <3>2. Alternates(n, [t EXCEPT ![m.current] = @ + 1])
      BY <1>1, <1>4, <2>2, <2>7, NextTurns DEF Turned
    <3> QED BY <1>4, <2>2, <2>3, <2>7, <3>1, <3>2 DEF Booked, Tells, Counts, Turned
  <2>8. CASE /\ w = Nobody /\ killer /\ done.leg = NoLeg /\ n.winner = Nobody
             /\ n.bulling = m.bulling /\ (IsOpen(m) => IsOpen(n))
    <3>1. Counts(m, done, t) = NoTurns(m)
      BY <1>4, <2>8 DEF Counts, Anew
    <3>2. Players(n) = Players(m) /\ NoTurns(n) = NoTurns(m) /\ IsKind(n, "killer") /\ ~Bulling(n)
      BY <1>4, <2>2, <2>8 DEF Players, NoTurns, IsKind, Bulling
    <3>3. Alternates(n, NoTurns(m))
      BY <3>2 DEF Alternates, NoTurns
    <3> QED BY <2>2, <2>3, <2>8, <3>1, <3>3 DEF Booked, Tells
  <2> QED BY <2>2, <2>5, <2>6, <2>7, <2>8 DEF PartyGoes
<1>5. CASE ~Bulling(m) /\ IsParty(m) /\ ~PartyReady(m)
  <2>1. n = m /\ done.leg = NoLeg
    BY <1>5 DEF done, Book, BookParty, OnlyMatch, IsParty, IsKind, PartyGames
  <2> QED BY <1>5, <2>1 DEF Booked, Tells, Counts, Evaluates
<1>6. CASE ~Bulling(m) /\ ~IsParty(m) /\ ~IsKind(m, "cricket")
  <2>1. done = BookX01(m)
    BY <1>6 DEF Book, done
  <2>2. IsKind(m, "x01")
    BY <1>1, <1>6, SetupParts DEF IsKind, IsParty, Playing, Kinds
  <2>3. /\ Typed(n) /\ Balances(n) /\ Decides(n) /\ n.setup = m.setup
        /\ IF Evaluate(m).outcome = "won" THEN Ended(m, done, m.current) ELSE Turned(m, done)
    BY <2>1, <2>2, BookX01Keeps
  <2>4. /\ Evaluates(m) /\ PartyReady(m) /\ ~IsKind(m, "killer") /\ ~IsParty(m) /\ Up(m) = m.current
        /\ Outcome(m).what = Evaluate(m).outcome
    BY <1>6, <2>2 DEF Evaluates, PartyReady, IsKind, IsParty, PartyGames, Up, Outcome
  <2>5. CASE Evaluate(m).outcome = "won"
    <3>1. /\ n.winner = Nobody => IsOpen(n)
          /\ Alternates(n, Counts(m, done, t))
          /\ done.leg # NoLeg /\ done.leg = Leg(m, m.current)
      BY <1>6, <2>3, <2>4, <2>5, EndedKeeps
    <3> QED BY <2>3, <2>4, <2>5, <3>1 DEF Booked, Tells
  <2>6. CASE Evaluate(m).outcome # "won"
    <3>1. Turned(m, done)
      BY <2>3, <2>6
    <3>2. IsOpen(n)
      BY <2>2, <2>3 DEF IsOpen, IsKind, IsParty, PartyGames
    <3>3. ~Anew(m, done)
      BY <1>6, <2>4, <3>1 DEF Anew, Turned
    <3>4. Alternates(n, [t EXCEPT ![m.current] = @ + 1])
      BY <1>1, <1>6, <2>3, <2>4, <3>1, NextTurns DEF Turned
    <3> QED BY <2>3, <2>4, <2>6, <3>1, <3>2, <3>3, <3>4 DEF Booked, Tells, Counts, Turned
  <2> QED BY <2>5, <2>6
<1> QED BY <1>2, <1>3, <1>4, <1>5, <1>6

-----------------------------------------------------------------------------
(* The inductive invariant.                                                *)

\* EarlyNeverCounts of any match.
EarlyOk(m) == \A i \in DOMAIN m.visit : m.visit[i].early => i <= m.skip

\* After a finished match no dart is on the board.
Rests(m) == m.winner # Nobody => m.visit = <<>> /\ Playing(m)

\* What holds of a match.
Sound(m) ==
    /\ Typed(m) /\ Balances(m) /\ Decides(m) /\ EarlyOk(m) /\ Rests(m)
    /\ m.winner = Nobody => IsOpen(m)

\* What was announced is what the visit comes to.
AnnouncedOk(m, late) ==
    IF Evaluates(m) THEN late \/ m.announced = Outcome(m).what ELSE m.announced = "none"

\* A leg is told while a win is announced: but for Killer, of the player at the
\* board.
ToldOk(m, leg) ==
    IF m.announced = "won" THEN leg # NoLeg /\ (IsKind(m, "killer") \/ leg = Leg(m, m.current))
    ELSE leg = NoLeg

IInv ==
    /\ Sound(match) /\ Alternates(match, turns)
    /\ AnnouncedOk(match, switched) /\ ToldOk(match, told)

\* Only the visit of a match changes.
LEMMA VisitChanges ==
    ASSUME NEW m, Typed(m), NEW k, Keeps(k, m, {"visit", "skip", "announced"}),
           VisitOk(k), k.announced \in {"none", "bust", "won"}
    PROVE  /\ Typed(k) /\ (Balances(m) => Balances(k)) /\ (Decides(m) => Decides(k))
           /\ IsOpen(m) => IsOpen(k)
           /\ \A t : Alternates(m, t) => Alternates(k, t)
           /\ Players(k) = Players(m) /\ k.setup = m.setup /\ k.players = m.players
           /\ k.current = m.current /\ k.starter = m.starter /\ k.winner = m.winner
           /\ k.party = m.party /\ k.bulling = m.bulling
<1>1. /\ k.setup = m.setup /\ k.players = m.players
      /\ k.current = m.current /\ k.starter = m.starter /\ k.winner = m.winner
      /\ k.party = m.party /\ k.bulling = m.bulling /\ DOMAIN k = Fields
  BY DEF Keeps, Fields
<1>2. Players(k) = Players(m)
  BY <1>1 DEF Players
<1>3. Typed(k)
  BY <1>1, <1>2 DEF Typed, Seated, SetupOk, SeatsOk
<1>4. (Balances(m) => Balances(k)) /\ (Decides(m) => Decides(k))
  BY <1>1, <1>2 DEF Balances, Decides, Adds, IsKind
<1>5. IsOpen(m) => IsOpen(k)
  BY <1>1, <1>2 DEF IsOpen, CricketOpen, Lives, Able, PartyReady, IsKind, IsParty
<1>6. Threw(k) = Threw(m) /\ NoTurns(k) = NoTurns(m)
  BY <1>1, <1>2 DEF Threw, NoTurns
<1>7. \A t : Alternates(m, t) => Alternates(k, t)
  BY <1>1, <1>2, <1>6 DEF Alternates, BullTurns, LegTurns, Bulling, IsKind
<1> QED BY <1>1, <1>2, <1>3, <1>4, <1>5, <1>7

\* A match whose board is empty.
LEMMA ClearedKeeps ==
    ASSUME NEW m, Typed(m)
    PROVE  LET k == Cleared(m)
           IN  /\ Keeps(k, m, {"visit", "skip", "announced"})
               /\ k.visit = <<>> /\ k.skip = 0 /\ k.announced = "none"
               /\ Typed(k) /\ EarlyOk(k) /\ (Balances(m) => Balances(k)) /\ (Decides(m) => Decides(k))
               /\ IsOpen(m) => IsOpen(k)
               /\ \A t : Alternates(m, t) => Alternates(k, t)
<1> DEFINE k == Cleared(m)
<1>1. DOMAIN m = Fields
  BY DEF Typed, Seated, SetupOk
<1>2. /\ Keeps(k, m, {"visit", "skip", "announced"})
      /\ k.visit = <<>> /\ k.skip = 0 /\ k.announced = "none"
  BY <1>1 DEF Cleared, Keeps, Fields
<1> HIDE DEF k
<1>3. VisitOk(k)
  BY <1>2, EmptySeq DEF VisitOk
<1>4. EarlyOk(k)
  BY <1>2 DEF EarlyOk
<1>5. /\ Typed(k) /\ (Balances(m) => Balances(k)) /\ (Decides(m) => Decides(k))
      /\ IsOpen(m) => IsOpen(k)
      /\ \A t : Alternates(m, t) => Alternates(k, t)
  BY <1>2, <1>3, VisitChanges
<1> QED BY <1>2, <1>4, <1>5 DEF k

\* What finish_visit keeps and tells, and who has thrown since.
Finished(m, done, t) ==
    LET n == done.match
    IN  /\ Sound(n) /\ n.setup = m.setup
        /\ n.visit = <<>> /\ n.skip = 0 /\ n.announced = "none"
        /\ IF Books(m) THEN Tells(m, done.leg) ELSE done.leg = NoLeg
        /\ m.winner = Nobody /\ n.winner # Nobody => Books(m) /\ PartyReady(m) /\ done.leg # NoLeg
        /\ Alternates(n, IF ~Books(m) \/ ~PartyReady(m) THEN t
                         ELSE IF Anew(m, done) THEN NoTurns(m)
                         ELSE [t EXCEPT ![Up(m)] = @ + 1])

\* Finishing a visit leaves a sound match in which the next player is up.
LEMMA FinishKeeps ==
    ASSUME NEW m, Sound(m), NEW t, Alternates(m, t)
    PROVE  Finished(m, FinishVisit(m), t)
<1> DEFINE done == FinishVisit(m)
           after == IF Books(m) THEN Book(m) ELSE OnlyMatch(m)
           n == done.match
<1>1. Typed(m) /\ Balances(m) /\ Decides(m) /\ EarlyOk(m) /\ Rests(m)
      /\ (m.winner = Nobody => IsOpen(m))
  BY DEF Sound
<1>2. done = [match |-> Cleared(after.match), leg |-> after.leg]
  BY DEF FinishVisit
<1>3. n = Cleared(after.match) /\ done.leg = after.leg
  BY <1>2
<1> SUFFICES Finished(m, done, t)
  OBVIOUS
<1> HIDE DEF done, after
<1>4. CASE Books(m)
  <2>1. after = Book(m)
    BY <1>4 DEF after
  <2>2. m.winner = Nobody /\ Playing(m) /\ Thrown(m) # <<>>
    BY <1>4 DEF Books
  <2>3. Booked(m, after, t)
    BY <1>1, <2>1, <2>2, BookKeeps
  <2> DEFINE a == after.match
  <2>4. /\ Typed(a) /\ Balances(a) /\ Decides(a) /\ a.setup = m.setup
        /\ a.winner = Nobody => IsOpen(a)
        /\ a.winner # Nobody => after.leg # NoLeg
        /\ Tells(m, after.leg) /\ Alternates(a, Counts(m, after, t))
    BY <2>3 DEF Booked
  <2>5. n = Cleared(a)
    BY <1>3
  <2> HIDE DEF a
  <2>6. /\ Keeps(n, a, {"visit", "skip", "announced"})
        /\ n.visit = <<>> /\ n.skip = 0 /\ n.announced = "none"
        /\ Typed(n) /\ EarlyOk(n) /\ Balances(n) /\ Decides(n)
        /\ IsOpen(a) => IsOpen(n)
        /\ Alternates(n, Counts(m, after, t))
    BY <2>4, <2>5, ClearedKeeps
  <2>7. n.setup = a.setup /\ n.winner = a.winner /\ n.bulling = a.bulling /\ n.party = a.party
    BY <2>6 DEF Keeps, Fields
  <2>8. Rests(n)
    BY <2>2, <2>4, <2>6, <2>7 DEF Rests, Playing, IsKind
  <2>9. Sound(n)
    BY <2>4, <2>6, <2>7, <2>8 DEF Sound
  <2>10. Anew(m, done) <=> Anew(m, after)
    BY <1>3, <2>7 DEF Anew, Bulling, a
  <2>11. n.winner # Nobody => PartyReady(m)
    <3>1. Tells(m, after.leg) /\ (n.winner # Nobody => after.leg # NoLeg)
      BY <2>4, <2>7
    <3> QED BY <3>1 DEF Tells, Evaluates
  <2> QED BY <1>3, <1>4, <2>4, <2>6, <2>7, <2>9, <2>10, <2>11 DEF Finished, Counts
<1>5. CASE ~Books(m)
  <2>1. after.match = m /\ after.leg = NoLeg
    BY <1>5 DEF after, OnlyMatch
  <2>2. n = Cleared(m) /\ done.leg = NoLeg
    BY <1>3, <2>1
  <2>3. /\ Keeps(n, m, {"visit", "skip", "announced"})
        /\ n.visit = <<>> /\ n.skip = 0 /\ n.announced = "none"
        /\ Typed(n) /\ EarlyOk(n) /\ Balances(n) /\ Decides(n)
        /\ IsOpen(m) => IsOpen(n)
        /\ Alternates(n, t)
    BY <1>1, <2>2, ClearedKeeps
  <2>4. n.setup = m.setup /\ n.winner = m.winner
    BY <2>3 DEF Keeps, Fields
  <2>5. Rests(n)
    BY <1>1, <2>3, <2>4 DEF Rests, Playing, IsKind
  <2>6. Sound(n)
    BY <1>1, <2>3, <2>4, <2>5 DEF Sound
  <2> QED BY <1>5, <2>2, <2>3, <2>4, <2>6 DEF Finished
<1> QED BY <1>4, <1>5

\* A visit that has not begun before the leg, but for the darts that do not count.
VisitFits(m, visit) ==
    /\ visit \in Seq(Dart)
    /\ \A i \in DOMAIN visit : visit[i].early => i <= m.skip /\ m.winner = Nobody

\* track follows the visit; a finished match makes way for the next one.
Followed(m, n, visit) ==
    /\ Sound(n) /\ n.setup = m.setup
    /\ \/ /\ Keeps(n, m, {"visit", "skip", "announced"}) /\ n.announced = m.announced
          /\ \A t : Alternates(m, t) => Alternates(n, t)
       \/ /\ m.winner # Nobody /\ n.winner = Nobody /\ n.announced = "none"
          /\ Alternates(n, NoTurns(m))

\* Following the board keeps a match sound, and starts a finished one again.
LEMMA FollowKeeps ==
    ASSUME NEW m, Sound(m), NEW visit, VisitFits(m, visit)
    PROVE  Followed(m, Follow(m, visit), visit)
<1> DEFINE seen == [m EXCEPT !.visit = visit, !.skip = Least(m.skip, Len(visit))]
           new == [NewMatch(seen) EXCEPT !.skip = 0, !.visit = visit]
           starts == Playing(m) /\ m.winner # Nobody /\ Thrown(seen) # <<>>
<1>1. /\ DOMAIN m = Fields /\ Typed(m) /\ Balances(m) /\ Decides(m) /\ EarlyOk(m) /\ Rests(m)
      /\ (m.winner = Nobody => IsOpen(m)) /\ SetupOk(m) /\ VisitOk(m)
      /\ m.announced \in {"none", "bust", "won"}
  BY DEF Sound, Typed, Seated, SetupOk
<1>2. Follow(m, visit) = IF starts THEN new ELSE seen
  BY DEF Follow
<1>3. /\ visit \in Seq(Dart) /\ Len(visit) \in Nat /\ DOMAIN visit = 1..Len(visit)
      /\ m.skip \in Nat
  BY <1>1, LenProperties DEF VisitFits, VisitOk
<1>4. /\ Keeps(seen, m, {"visit", "skip", "announced"}) /\ seen.announced = m.announced
      /\ seen.visit = visit /\ seen.skip = Least(m.skip, Len(visit))
  BY <1>1 DEF Keeps, Fields
<1> HIDE DEF seen
<1>5. seen.skip \in 0..Len(visit) /\ VisitOk(seen)
  BY <1>3, <1>4 DEF Least, VisitOk
<1>6. /\ Typed(seen) /\ Balances(seen) /\ Decides(seen) /\ (IsOpen(m) => IsOpen(seen))
      /\ \A t : Alternates(m, t) => Alternates(seen, t)
      /\ seen.setup = m.setup /\ seen.winner = m.winner
  BY <1>1, <1>4, <1>5, VisitChanges
<1>7. EarlyOk(seen)
  BY <1>3, <1>4, <1>5 DEF EarlyOk, VisitFits, Least
<1>8. CASE ~starts
  <2>1. Rests(seen)
    <3> SUFFICES ASSUME m.winner # Nobody
                 PROVE  visit = <<>> /\ Playing(seen)
      BY <1>4, <1>6 DEF Rests
    <3>1. Playing(m) /\ m.visit = <<>> /\ Thrown(seen) = <<>>
      BY <1>1, <1>8 DEF Rests
    <3>2. m.skip = 0
      BY <1>1, <3>1, EmptySeq DEF VisitOk
    <3>3. seen.skip = 0
      BY <1>3, <1>4, <3>2 DEF Least
    <3>4. Len(Thrown(seen)) = Len(visit)
      <4>1. Len(Thrown(seen)) = Len(seen.visit) - seen.skip
        BY <1>5, ThrownIs
      <4> QED BY <1>3, <1>4, <3>3, <4>1
    <3>5. Len(visit) = 0
      BY <3>1, <3>4, EmptySeq
    <3>6. visit = <<>>
      BY <1>3, <3>5, EmptySeq
    <3> QED BY <1>6, <3>1, <3>6 DEF Playing, IsKind
  <2>2. Sound(seen)
    BY <1>1, <1>6, <1>7, <2>1 DEF Sound
  <2>3. Follow(m, visit) = seen
    BY <1>2, <1>8
  <2> QED BY <1>4, <1>6, <2>2, <2>3 DEF Followed
<1>9. CASE starts
  <2> DEFINE k == NewMatch(seen)
  <2>1. SetupOk(seen)
    BY <1>6 DEF Typed, Seated
  <2>2. Typed(k) /\ Balances(k) /\ Decides(k)
    BY <1>5, <2>1, NewMatchKeeps
  <2>3. /\ DOMAIN k = Fields /\ k.setup = seen.setup /\ k.winner = Nobody /\ k.announced = "none"
        /\ k.current = 0 /\ k.starter = 0
        /\ k.bulling = NoBullOff \/ k.bulling = BullOff(Players(seen))
    BY <2>1, NewMatchIs
  <2>4. IsOpen(k)
    BY <1>5, <2>1, NewMatchOpens
  <2> HIDE DEF k
  <2>5. Players(k) = Players(m) /\ Players(seen) = Players(m) /\ NoTurns(k) = NoTurns(m)
    BY <1>6, <2>3 DEF Players, NoTurns
  <2>6. Alternates(k, NoTurns(m))
    <3>1. SetupOk(k) /\ SeatsOk(k)
      BY <2>2 DEF Typed, Seated
    <3> QED BY <2>3, <2>5, <3>1, FreshTurns
  <2>7. /\ Keeps(new, k, {"visit", "skip", "announced"}) /\ new.announced = "none"
        /\ new.skip = 0 /\ new.visit = visit
    BY <2>3 DEF Keeps, Fields, k
  <2>8. Follow(m, visit) = new
    BY <1>2, <1>9
  <2> HIDE DEF new
  <2>9. VisitOk(new)
    BY <1>3, <2>7 DEF VisitOk
  <2>10. /\ Typed(new) /\ Balances(new) /\ Decides(new) /\ IsOpen(new)
         /\ Alternates(new, NoTurns(m)) /\ new.setup = k.setup /\ new.winner = k.winner
    BY <2>2, <2>4, <2>6, <2>7, <2>9, VisitChanges
  <2>11. m.winner # Nobody
    BY <1>9
  <2>12. EarlyOk(new)
    BY <2>7, <2>11 DEF EarlyOk, VisitFits
  <2>13. Sound(new)
    BY <2>3, <2>10, <2>12 DEF Sound, Rests
  <2> QED BY <1>6, <2>3, <2>7, <2>8, <2>10, <2>11, <2>13 DEF Followed
<1> QED BY <1>8, <1>9

-----------------------------------------------------------------------------
(* Judging the visit.                                                      *)

\* What the darts of a visit come to: nothing without darts; a win, but in
\* Killer, is of the player at the board.
LEMMA OutcomeIs ==
    ASSUME NEW m, Typed(m), Playing(m), PartyReady(m)
    PROVE  /\ Outcome(m).what \in {"none", "bust", "won"}
           /\ Outcome(m).what = "won" /\ ~IsKind(m, "killer") => Outcome(m).who = m.current
           /\ Thrown(m) = <<>> => Outcome(m).what = "none"
<1>1. /\ SetupOk(m) /\ VisitOk(m) /\ m.current \in Players(m)
      /\ m.players[m.current] \in PlayerType /\ m.party \in PartyType(Players(m))
  BY DEF Typed, Seated
<1>2. /\ m.setup.kind \in Kinds /\ m.setup.kind # "none" /\ Nobody \notin Players(m)
      /\ SeatsAre(Players(m))
  BY <1>1, PlayersAre, SetupParts DEF Playing, IsKind
<1>3. /\ BedsOk(Thrown(m)) /\ Len(Thrown(m)) \in Nat
      /\ Thrown(m) = <<>> => Len(Thrown(m)) = 0
  BY <1>1, ThrownIs
<1>4. CASE IsKind(m, "x01")
  <2>1. Outcome(m) = [what |-> Evaluate(m).outcome, who |-> m.current]
    BY <1>4 DEF Outcome, IsKind
  <2>2. /\ Evaluate(m).outcome \in {"none", "bust", "won"}
        /\ Thrown(m) = <<>> => Evaluate(m).outcome = "none"
    BY EvaluateOf
  <2> QED BY <2>1, <2>2
<1>5. CASE IsKind(m, "cricket")
  <2>1. Outcome(m) = [what |-> IF CricketNow(m).won THEN "won" ELSE "none", who |-> m.current]
    BY <1>5 DEF Outcome, IsKind
  <2>2. Len(Thrown(m)) = 0 => ~CricketNow(m).won
    BY <1>1, <1>3, CricketVisitIs DEF CricketNow
  <2> QED BY <1>3, <2>1, <2>2
<1>6. CASE m.setup.kind \in PartyGames
  <2>1. Outcome(m) = WonBy(PartyNow(m).won)
    BY <1>6 DEF Outcome, IsKind, PartyGames
  <2>2. /\ PartyNow(m).won \in Players(m) \cup {Nobody}
        /\ Len(Thrown(m)) = 0 => PartyNow(m).won = Nobody
        /\ m.setup.kind = "shanghai" => PartyNow(m).won \in {m.current, Nobody}
        /\ m.setup.kind = "halve_it" => PartyNow(m).won = Nobody
    BY <1>1, <1>2, <1>3, <1>6, PartyVisitIs DEF PartyNow
  <2> QED BY <1>3, <1>6, <2>1, <2>2 DEF WonBy, PartyGames, IsKind
<1> QED BY <1>2, <1>4, <1>5, <1>6 DEF Kinds, IsKind

\* The outcome of a visit does not depend on what was announced of it.
LEMMA SameVisit ==
    ASSUME NEW m, NEW k, k.setup = m.setup, k.players = m.players, k.current = m.current,
           k.party = m.party, k.visit = m.visit, k.skip = m.skip
    PROVE  Outcome(k) = Outcome(m) /\ Thrown(k) = Thrown(m)
<1>1. Thrown(k) = Thrown(m) /\ Players(k) = Players(m)
  BY DEF Thrown, Players
<1>2. Opening(k) = Opening(m)
  BY <1>1 DEF Opening
<1>3. Evaluate(k) = Evaluate(m) /\ CricketNow(k) = CricketNow(m) /\ PartyNow(k) = PartyNow(m)
  BY <1>1, <1>2 DEF Evaluate, CricketNow, PartyNow
<1> QED BY <1>1, <1>3 DEF Outcome, IsKind, PartyReady

\* What is told after the visit was judged, leg being what was told before.
Tell(s, n, leg) ==
    IF n.announced # "won" THEN NoLeg
    ELSE IF s.announced = "won" THEN leg
    ELSE Leg(s, Outcome(s).who)

\* After the visit was judged, what was announced of it is what it comes to.
LEMMA JudgeKeeps ==
    ASSUME NEW s, Sound(s), NEW t, Alternates(s, t), ~Evaluates(s) => s.announced = "none",
           NEW leg,
           s.announced = "won" => leg # NoLeg /\ (IsKind(s, "killer") \/ leg = Leg(s, s.current))
    PROVE  /\ Sound(Judge(s)) /\ Alternates(Judge(s), t)
           /\ AnnouncedOk(Judge(s), FALSE) /\ ToldOk(Judge(s), Tell(s, Judge(s), leg))
           /\ Judge(s).winner = s.winner
<1> DEFINE n == Judge(s)
<1>1. /\ DOMAIN s = Fields /\ Typed(s) /\ Balances(s) /\ Decides(s) /\ EarlyOk(s) /\ Rests(s)
      /\ (s.winner = Nobody => IsOpen(s)) /\ VisitOk(s)
      /\ s.announced \in {"none", "bust", "won"}
  BY DEF Sound, Typed, Seated, SetupOk
<1>2. /\ Keeps(n, s, {"visit", "skip", "announced"}) /\ n.visit = s.visit /\ n.skip = s.skip
      /\ n.announced = IF Evaluates(s) THEN Outcome(s).what ELSE "none"
  <2>1. CASE Evaluates(s)
    <3>1. n = [s EXCEPT !.announced = Outcome(s).what]
      BY <2>1 DEF Judge
    <3> HIDE DEF n
    <3> QED BY <1>1, <2>1, <3>1 DEF Keeps, Fields
  <2>2. CASE ~Evaluates(s)
    <3>1. n = s
      BY <2>2 DEF Judge
    <3> HIDE DEF n
    <3> QED BY <1>1, <2>2, <3>1 DEF Keeps
  <2> QED BY <2>1, <2>2
<1> HIDE DEF n
<1>3. n.announced \in {"none", "bust", "won"} /\ VisitOk(n)
  <2>1. Evaluates(s) => Outcome(s).what \in {"none", "bust", "won"}
    BY <1>1, OutcomeIs DEF Evaluates
  <2> QED BY <1>1, <1>2, <2>1 DEF VisitOk
<1>4. /\ Typed(n) /\ Balances(n) /\ Decides(n) /\ (IsOpen(s) => IsOpen(n)) /\ Alternates(n, t)
      /\ n.setup = s.setup /\ n.players = s.players /\ n.current = s.current
      /\ n.winner = s.winner /\ n.party = s.party /\ n.bulling = s.bulling
  BY <1>1, <1>2, <1>3, VisitChanges
<1>5. Sound(n)
  BY <1>1, <1>2, <1>4 DEF Sound, EarlyOk, Rests, Playing, IsKind
<1>6. Outcome(n) = Outcome(s) /\ (Evaluates(n) <=> Evaluates(s))
  <2>1. Outcome(n) = Outcome(s)
    BY <1>2, <1>4, SameVisit
  <2> QED BY <1>4, <2>1 DEF Evaluates, Playing, Bulling, PartyReady, IsKind
<1>7. AnnouncedOk(n, FALSE)
  BY <1>2, <1>6 DEF AnnouncedOk
<1>8. ToldOk(n, Tell(s, n, leg))
  <2>1. CASE n.announced # "won"
    BY <2>1 DEF ToldOk, Tell
  <2>2. CASE n.announced = "won"
    <3>1. Evaluates(s) /\ Outcome(s).what = "won"
      BY <1>2, <2>2
    <3>2. Leg(n, n.current) = Leg(s, s.current) /\ (IsKind(n, "killer") <=> IsKind(s, "killer"))
      BY <1>4, LegIs DEF IsKind
    <3>3. CASE s.announced = "won"
      <4>1. Tell(s, n, leg) = leg
        BY <2>2, <3>3 DEF Tell
      <4> QED BY <2>2, <3>2, <3>3, <4>1 DEF ToldOk
    <3>4. CASE s.announced # "won"
      <4>1. Tell(s, n, leg) = Leg(s, Outcome(s).who)
        BY <2>2, <3>4 DEF Tell
      <4>2. Leg(s, Outcome(s).who) # NoLeg
        BY LegIs
      <4>3. IsKind(s, "killer") \/ Outcome(s).who = s.current
        BY <1>1, <3>1, OutcomeIs DEF Evaluates
      <4> QED BY <2>2, <3>2, <4>1, <4>2, <4>3 DEF ToldOk
    <3> QED BY <3>3, <3>4
  <2> QED BY <2>1, <2>2
<1> QED BY <1>4, <1>5, <1>7, <1>8 DEF n

-----------------------------------------------------------------------------
(* Steps.                                                                  *)

\* A state of the board that changes the visit keeps the invariant.
LEMMA ReviseKeeps ==
    ASSUME IInv, NEW visit, VisitFits(match, visit), Revise(visit)
    PROVE  IInv'
<1> DEFINE s == Follow(match, visit)
<1>1. /\ Sound(match) /\ Alternates(match, turns)
      /\ AnnouncedOk(match, switched) /\ ToldOk(match, told)
  BY DEF IInv
<1>2. Followed(match, s, visit)
  BY <1>1, FollowKeeps
<1>3. /\ match' = Judge(s) /\ told' = Tell(s, match', told) /\ switched' = FALSE
      /\ turns' = IF match.winner # Nobody /\ match'.winner = Nobody THEN NoTurns(match) ELSE turns
  BY DEF Revise, Track, Tell
<1> HIDE DEF s
<1>4. Sound(s) /\ s.setup = match.setup
  BY <1>2 DEF Followed
<1>5. Judge(s).winner = s.winner
  BY DEF Judge
<1>6. /\ Alternates(s, turns') /\ (~Evaluates(s) => s.announced = "none")
      /\ s.announced = "won" =>
            told # NoLeg /\ (IsKind(s, "killer") \/ told = Leg(s, s.current))
  <2>1. CASE /\ Keeps(s, match, {"visit", "skip", "announced"}) /\ s.announced = match.announced
             /\ \A t : Alternates(match, t) => Alternates(s, t)
    <3>1. /\ s.players = match.players /\ s.current = match.current /\ s.bulling = match.bulling
          /\ s.winner = match.winner
      BY <2>1 DEF Keeps, Fields
    <3>2. Evaluates(s) <=> Evaluates(match)
      BY <1>4, <3>1 DEF Evaluates, Playing, Bulling, PartyReady, IsKind
    <3>3. Leg(s, s.current) = Leg(match, match.current)
      BY <1>4, <3>1, LegIs
    <3>4. turns' = turns
      BY <1>3, <1>5, <3>1
    <3> QED BY <1>1, <1>4, <2>1, <3>2, <3>3, <3>4 DEF AnnouncedOk, ToldOk, IsKind
  <2>2. CASE /\ match.winner # Nobody /\ s.winner = Nobody /\ s.announced = "none"
             /\ Alternates(s, NoTurns(match))
    BY <1>3, <1>5, <2>2
  <2> QED BY <1>2, <2>1, <2>2 DEF Followed
<1>7. /\ Sound(Judge(s)) /\ Alternates(Judge(s), turns')
      /\ AnnouncedOk(Judge(s), FALSE) /\ ToldOk(Judge(s), Tell(s, Judge(s), told))
  BY <1>4, <1>6, JudgeKeeps
<1> QED BY <1>3, <1>7 DEF IInv

\* The beds tried are beds.
LEMMA BedsNowAre == ASSUME IInv PROVE BedsNow \subseteq Bed
<1>1. match.setup.kind \in Kinds
  BY SetupParts DEF IInv, Sound, Typed, Seated
<1> QED BY <1>1, PracticeAssumption DEF BedsNow, Bed

\* Darts that came and went since the last state keep the invariant.
LEMMA DetectKeeps == ASSUME IInv, NEW b \in BedsNow, Detect(b) PROVE IInv'
<1> DEFINE dart == [bed |-> b, early |-> FALSE]
           visit == Append(match.visit, dart)
<1>1. EarlyOk(match) /\ Rests(match) /\ VisitOk(match)
  BY DEF IInv, Sound, Typed, Seated
<1>2. dart \in Dart
  BY BedsNowAre DEF Dart
<1>3. /\ visit \in Seq(Dart) /\ DOMAIN visit = 1..(Len(match.visit) + 1)
      /\ \A i \in 1..Len(match.visit) : visit[i] = match.visit[i]
      /\ visit[Len(match.visit) + 1] = dart
      /\ DOMAIN match.visit = 1..Len(match.visit) /\ Len(match.visit) \in Nat
  <2> HIDE DEF dart
  <2> QED BY <1>1, <1>2, AppendProperties, LenProperties DEF VisitOk
<1>4. match.winner # Nobody => Len(match.visit) = 0
  BY <1>1, EmptySeq DEF Rests
<1>5. dart.early = FALSE
  OBVIOUS
<1> HIDE DEF visit, dart
<1>6. VisitFits(match, visit)
  BY <1>1, <1>3, <1>4, <1>5 DEF VisitFits, EarlyOk
<1> QED BY <1>6, ReviseKeeps DEF Detect, visit, dart

\* A dart whose bed is corrected, maybe in a booked visit.
LEMMA CorrectKeeps ==
    ASSUME IInv, NEW i \in DOMAIN match.visit, NEW b \in BedsNow, Correct(i, b)
    PROVE  IInv'
<1> DEFINE visit == [match.visit EXCEPT ![i].bed = b]
<1>1. EarlyOk(match) /\ Rests(match) /\ VisitOk(match)
  BY DEF IInv, Sound, Typed, Seated
<1>2. /\ DOMAIN match.visit = 1..Len(match.visit) /\ Len(match.visit) \in Nat
      /\ \A j \in 1..Len(match.visit) : match.visit[j] \in Dart
  BY <1>1, LenProperties, ElementOfSeq DEF VisitOk
<1>3. [match.visit[i] EXCEPT !.bed = b] \in Dart
  BY <1>2, BedsNowAre DEF Dart
<1>4. /\ DOMAIN visit = 1..Len(match.visit)
      /\ \A j \in 1..Len(match.visit) : visit[j] \in Dart /\ visit[j].early = match.visit[j].early
  <2>1. visit = [j \in 1..Len(match.visit) |->
                   IF j = i THEN [match.visit[i] EXCEPT !.bed = b] ELSE match.visit[j]]
    BY <1>1, <1>2 DEF VisitOk
  <2> HIDE DEF visit
  <2>2. [match.visit[i] EXCEPT !.bed = b].early = match.visit[i].early
    BY <1>2 DEF Dart
  <2> QED BY <1>2, <1>3, <2>1, <2>2
<1>5. visit \in Seq(Dart)
  <2>1. visit = [j \in 1..Len(match.visit) |-> visit[j]]
    BY <1>1, <1>2 DEF VisitOk
  <2> HIDE DEF visit
  <2> QED BY <1>2, <1>4, <2>1, IsASeq
<1>6. match.winner = Nobody
  BY <1>1, <1>2, EmptySeq DEF Rests
<1> HIDE DEF visit
<1>7. VisitFits(match, visit)
  BY <1>1, <1>2, <1>4, <1>5, <1>6 DEF VisitFits, EarlyOk
<1> QED BY <1>7, ReviseKeeps DEF Correct, visit

\* A board that is found empty.
LEMMA DropKeeps == ASSUME IInv, Drop PROVE IInv'
<1>1. VisitFits(match, <<>>)
  BY EmptySeq DEF VisitFits
<1> QED BY <1>1, ReviseKeeps DEF Drop

\* A detection that is taken back leaves the darts before and after it.
LEMMA WithdrawKeeps ==
    ASSUME IInv, NEW i \in DOMAIN match.visit, Withdraw(i)
    PROVE  IInv'
<1> DEFINE v == match.visit
           n == Len(v)
           visit == SubSeq(v, 1, i - 1) \o SubSeq(v, i + 1, n)
<1>1. EarlyOk(match) /\ Rests(match) /\ VisitOk(match)
  BY DEF IInv, Sound, Typed, Seated
<1>2. /\ DOMAIN v = 1..n /\ n \in Nat /\ i \in 1..n
      /\ \A j \in 1..n : v[j] \in Dart
  BY <1>1, LenProperties, ElementOfSeq DEF VisitOk
<1>3. v \in Seq(Dart)
  BY <1>1 DEF VisitOk
<1>4. /\ visit \in Seq(Dart) /\ DOMAIN visit = 1..(n - 1)
      /\ \A j \in 1..(n - 1) : visit[j] = IF j <= i - 1 THEN v[j] ELSE v[j + 1]
  <2> HIDE DEF v
  <2> QED BY <1>2, <1>3, WithoutIs
<1> HIDE DEF v, n, visit
<1>7. match.winner = Nobody
  BY <1>1, <1>2, EmptySeq DEF Rests, v, n
<1>8. \A j \in 1..n : v[j].early => j <= match.skip
  BY <1>1, <1>2 DEF EarlyOk, v
<1>9. match.skip \in Nat
  BY <1>1, <1>2 DEF VisitOk, v, n
<1>10. ASSUME NEW j \in DOMAIN visit, visit[j].early
       PROVE  j <= match.skip
  <2>1. j \in 1..(n - 1) /\ j \in 1..n /\ j + 1 \in 1..n
    BY <1>2, <1>4, <1>10
  <2>2. CASE j <= i - 1
    BY <1>4, <1>8, <1>10, <2>1, <2>2
  <2>3. CASE ~(j <= i - 1)
    BY <1>4, <1>8, <1>9, <1>10, <2>1, <2>3
  <2> QED BY <2>2, <2>3
<1>11. VisitFits(match, visit)
  BY <1>4, <1>7, <1>10 DEF VisitFits
<1>12. Revise(visit)
  BY DEF Withdraw, visit, v, n
<1> QED BY <1>11, <1>12, ReviseKeeps

\* Pulling the darts and what is on the board then keep the invariant.
LEMMA CompleteKeeps == ASSUME IInv, Complete PROVE IInv'
<1> DEFINE done == FinishVisit(match)
<1>1. /\ Sound(match) /\ Alternates(match, turns)
      /\ AnnouncedOk(match, switched) /\ ToldOk(match, told)
  BY DEF IInv
<1>2. Finished(match, done, turns)
  BY <1>1, FinishKeeps
<1>3. match.winner = Nobody
  BY <1>1 DEF Complete, Sound, Rests
<1>4. Begin(done) /\ switched' = FALSE
  BY DEF Complete
<1> HIDE DEF done
<1> DEFINE f == done.match
<1>5. /\ Sound(f) /\ f.setup = match.setup
      /\ f.visit = <<>> /\ f.skip = 0 /\ f.announced = "none"
      /\ f.winner # Nobody => Books(match) /\ PartyReady(match) /\ done.leg # NoLeg
      /\ Alternates(f, turns')
  BY <1>2, <1>3, <1>4 DEF Finished, Begin, CountTurns
<1>6. PICK visit \in {<<>>} \cup {<<[bed |-> b, early |-> FALSE]>> : b \in BedsNow} :
           Track(Follow(f, visit))
  BY <1>4 DEF Begin
<1>7. VisitFits(f, visit)
  <2>1. CASE visit = <<>>
    BY <2>1, EmptySeq DEF VisitFits
  <2>2. CASE visit # <<>>
    <3>1. PICK b \in BedsNow : visit = <<[bed |-> b, early |-> FALSE]>>
      BY <1>6, <2>2
    <3>2. [bed |-> b, early |-> FALSE] \in Dart
      BY BedsNowAre DEF Dart
    <3>3. visit \in Seq(Dart)
      BY <3>1, <3>2
    <3>4. DOMAIN visit = {1} /\ visit[1] = [bed |-> b, early |-> FALSE]
      BY <3>1
    <3> QED BY <3>3, <3>4 DEF VisitFits
  <2> QED BY <2>1, <2>2
<1> DEFINE s == Follow(f, visit)
<1>8. Followed(f, s, visit)
  BY <1>5, <1>7, FollowKeeps
<1>9. match' = Judge(s) /\ told' = Tell(s, match', told)
  BY <1>6 DEF Track, Tell
<1> HIDE DEF s
<1>10. Sound(s) /\ s.announced = "none" /\ Alternates(s, turns')
  <2>1. CASE /\ Keeps(s, f, {"visit", "skip", "announced"}) /\ s.announced = f.announced
             /\ \A t : Alternates(f, t) => Alternates(s, t)
    BY <1>5, <1>8, <2>1 DEF Followed
  <2>2. CASE /\ f.winner # Nobody /\ s.winner = Nobody /\ s.announced = "none"
             /\ Alternates(s, NoTurns(f))
    <3>1. turns' = NoTurns(match)
      BY <1>4, <1>5, <2>2 DEF Begin, CountTurns, Anew
    <3>2. NoTurns(f) = NoTurns(match)
      BY <1>5 DEF NoTurns, Players
    <3> QED BY <1>8, <2>2, <3>1, <3>2 DEF Followed
  <2> QED BY <1>8, <2>1, <2>2 DEF Followed
<1>11. /\ Sound(Judge(s)) /\ Alternates(Judge(s), turns')
       /\ AnnouncedOk(Judge(s), FALSE) /\ ToldOk(Judge(s), Tell(s, Judge(s), told))
  BY <1>10, JudgeKeeps
<1> QED BY <1>4, <1>9, <1>11 DEF IInv

\* Nothing is announced of a match none of whose darts count.
LEMMA NothingIsTold ==
    ASSUME NEW m, Typed(m), m.announced = "none", Thrown(m) = <<>>, NEW late
    PROVE  AnnouncedOk(m, late) /\ ToldOk(m, NoLeg)
<1>1. Evaluates(m) => Outcome(m).what = "none"
  BY OutcomeIs DEF Evaluates
<1> QED BY <1>1 DEF AnnouncedOk, ToldOk

\* The darts on the board when a leg begins do not count in it.
LEMMA EarlyVisit ==
    ASSUME NEW m, VisitOk(m), NEW n, n.visit = Early(m.visit), n.skip = Len(m.visit)
    PROVE  EarlyOk(n) /\ Thrown(n) = <<>>
<1>1. /\ Len(n.visit) = Len(m.visit) /\ Len(m.visit) \in Nat /\ DOMAIN n.visit = 1..Len(m.visit)
  BY EarlyIs, LenProperties DEF VisitOk
<1>2. EarlyOk(n)
  BY <1>1 DEF EarlyOk
<1>3. Thrown(n) = [i \in {} |-> n.visit[n.skip + i].bed]
  <2>1. 1..(Len(n.visit) - n.skip) = {}
    BY <1>1
  <2> QED BY <2>1 DEF Thrown
<1>4. Thrown(n) = <<>>
  BY <1>3
<1> QED BY <1>2, <1>4

\* A match begins.
LEMMA MatchBegins ==
    ASSUME NEW m, SetupOk(m), VisitOk(m)
    PROVE  LET n == NewMatch(m)
           IN  /\ Sound(n) /\ Alternates(n, NoTurns(n)) /\ n.setup = m.setup
               /\ AnnouncedOk(n, FALSE) /\ ToldOk(n, NoLeg)
<1> DEFINE n == NewMatch(m)
<1>1. Typed(n) /\ Balances(n) /\ Decides(n) /\ IsOpen(n)
  BY NewMatchKeeps, NewMatchOpens
<1>2. /\ n.setup = m.setup /\ n.winner = Nobody /\ n.announced = "none"
      /\ n.current = n.starter /\ n.visit = Early(m.visit) /\ n.skip = Len(m.visit)
      /\ n.bulling = NoBullOff \/ n.bulling = BullOff(Players(m))
  <2>1. /\ NewMatch(m).setup = m.setup /\ NewMatch(m).winner = Nobody
        /\ NewMatch(m).announced = "none" /\ NewMatch(m).current = 0 /\ NewMatch(m).starter = 0
        /\ NewMatch(m).visit = Early(m.visit) /\ NewMatch(m).skip = Len(m.visit)
        /\ NewMatch(m).bulling = NoBullOff \/ NewMatch(m).bulling = BullOff(Players(m))
    BY NewMatchIs
  <2> QED BY <2>1
<1> HIDE DEF n
<1>3. EarlyOk(n) /\ Thrown(n) = <<>>
  BY <1>2, EarlyVisit
<1>4. Sound(n)
  BY <1>1, <1>2, <1>3 DEF Sound, Rests
<1>5. Alternates(n, NoTurns(n))
  <2>1. SetupOk(n) /\ SeatsOk(n) /\ Players(n) = Players(m)
    BY <1>1, <1>2 DEF Typed, Seated, Players
  <2> QED BY <1>2, <2>1, FreshTurns
<1>6. AnnouncedOk(n, FALSE) /\ ToldOk(n, NoLeg)
  BY <1>1, <1>2, <1>3, NothingIsTold
<1> QED BY <1>2, <1>4, <1>5, <1>6 DEF n

\* A leg begins.
LEMMA LegBegins ==
    ASSUME NEW m, Sound(m), NEW t, Alternates(m, t)
    PROVE  LET n == NewLeg(m)
           IN  /\ Sound(n) /\ Alternates(n, IF Bulling(m) THEN t ELSE NoTurns(m))
               /\ AnnouncedOk(n, FALSE) /\ ToldOk(n, NoLeg)
<1> DEFINE n == NewLeg(m)
<1>1. /\ Typed(m) /\ Balances(m) /\ Decides(m) /\ Rests(m) /\ Seated(m) /\ SetupOk(m) /\ VisitOk(m)
  BY DEF Sound, Typed, Seated
<1>2. Typed(n) /\ Balances(n) /\ Decides(n) /\ IsOpen(n)
  BY <1>1, NewLegKeeps, NewLegOpens
<1>3. /\ n.setup = m.setup /\ n.winner = m.winner /\ n.announced = "none" /\ n.bulling = m.bulling
      /\ n.visit = Early(m.visit) /\ n.skip = Len(m.visit)
  <2>1. /\ NewLeg(m).setup = m.setup /\ NewLeg(m).winner = m.winner
        /\ NewLeg(m).announced = "none" /\ NewLeg(m).bulling = m.bulling
        /\ NewLeg(m).visit = Early(m.visit) /\ NewLeg(m).skip = Len(m.visit)
    BY <1>1, NewLegIs
  <2> QED BY <2>1
<1>4. ~Bulling(m) => Alternates(n, NoTurns(m))
  BY <1>1, AnewTurns DEF Bulling
<1> HIDE DEF n
<1>5. EarlyOk(n) /\ Thrown(n) = <<>>
  BY <1>1, <1>3, EarlyVisit
<1>6. Rests(n)
  <2> SUFFICES ASSUME n.winner # Nobody
               PROVE  n.visit = <<>> /\ Playing(n)
    BY DEF Rests
  <2>1. m.visit = <<>> /\ Playing(m)
    BY <1>1, <1>3 DEF Rests
  <2>2. n.visit = <<>>
    BY <1>3, <2>1 DEF Early
  <2> QED BY <1>3, <2>1, <2>2 DEF Playing, IsKind
<1>7. Sound(n)
  BY <1>2, <1>5, <1>6 DEF Sound
<1>8. Bulling(m) => Alternates(n, t)
  <2>1. Players(n) = Players(m)
    BY <1>3 DEF Players
  <2> QED BY <1>3, <2>1 DEF Alternates, BullTurns, Bulling
<1>9. AnnouncedOk(n, FALSE) /\ ToldOk(n, NoLeg)
  BY <1>2, <1>3, <1>5, NothingIsTold
<1> QED BY <1>4, <1>7, <1>8, <1>9 DEF n

\* The user's actions keep the invariant.
LEMMA StartGameKeeps ==
    ASSUME IInv, NEW setup \in Setups, StartGame(setup)
    PROVE  IInv'
<1> DEFINE m == [match EXCEPT !.setup = setup]
<1>1. DOMAIN match = Fields /\ VisitOk(match)
  BY DEF IInv, Sound, Typed, Seated, SetupOk
<1>2. m.setup = setup /\ DOMAIN m = Fields /\ m.visit = match.visit /\ m.skip = match.skip
  BY <1>1 DEF Fields
<1>3. /\ match' = NewMatch(m) /\ told' = NoLeg /\ switched' = FALSE /\ turns' = NoTurns(match')
  BY DEF StartGame, Settle
<1> HIDE DEF m
<1>4. SetupOk(m) /\ VisitOk(m)
  BY <1>1, <1>2 DEF SetupOk, VisitOk
<1>5. /\ Sound(NewMatch(m)) /\ Alternates(NewMatch(m), NoTurns(NewMatch(m)))
      /\ AnnouncedOk(NewMatch(m), FALSE) /\ ToldOk(NewMatch(m), NoLeg)
  BY <1>4, MatchBegins
<1> QED BY <1>3, <1>5 DEF IInv

\* A new match has nothing thrown, booked or told.
LEMMA StartMatchKeeps == ASSUME IInv, StartMatch PROVE IInv'
<1>1. SetupOk(match) /\ VisitOk(match)
  BY DEF IInv, Sound, Typed, Seated
<1>2. /\ Sound(NewMatch(match)) /\ Alternates(NewMatch(match), NoTurns(NewMatch(match)))
      /\ AnnouncedOk(NewMatch(match), FALSE) /\ ToldOk(NewMatch(match), NoLeg)
      /\ NewMatch(match).setup = match.setup
  BY <1>1, MatchBegins
<1>3. /\ match' = NewMatch(match) /\ told' = NoLeg /\ switched' = FALSE
      /\ turns' = NoTurns(match)
  BY DEF StartMatch, Settle
<1>4. NoTurns(NewMatch(match)) = NoTurns(match)
  BY <1>2 DEF NoTurns, Players
<1> QED BY <1>2, <1>3, <1>4 DEF IInv

\* So has a new leg, but for what was won.
LEMMA StartLegKeeps == ASSUME IInv, StartLeg PROVE IInv'
<1>1. /\ match' = NewLeg(match) /\ told' = NoLeg /\ switched' = FALSE
      /\ turns' = IF Bulling(match) THEN turns ELSE NoTurns(match)
  BY DEF StartLeg, Settle
<1>2. /\ Sound(NewLeg(match))
      /\ Alternates(NewLeg(match), IF Bulling(match) THEN turns ELSE NoTurns(match))
      /\ AnnouncedOk(NewLeg(match), FALSE) /\ ToldOk(NewLeg(match), NoLeg)
  BY LegBegins DEF IInv
<1> QED BY <1>1, <1>2 DEF IInv

\* A restart keeps the match, without the visit in progress.
LEMMA RestartKeeps == ASSUME IInv, Restart PROVE IInv'
<1> DEFINE k == Cleared(match)
<1>1. Sound(match) /\ Typed(match) /\ Balances(match) /\ Decides(match) /\ Rests(match)
      /\ Alternates(match, turns) /\ (match.winner = Nobody => IsOpen(match))
  BY DEF IInv, Sound
<1>2. match' = k /\ told' = NoLeg /\ switched' = FALSE /\ turns' = turns
  BY DEF Restart
<1>3. /\ Keeps(k, match, {"visit", "skip", "announced"})
      /\ k.visit = <<>> /\ k.skip = 0 /\ k.announced = "none"
      /\ Typed(k) /\ EarlyOk(k) /\ Balances(k) /\ Decides(k)
      /\ IsOpen(match) => IsOpen(k)
      /\ Alternates(k, turns)
  BY <1>1, ClearedKeeps
<1> HIDE DEF k
<1>4. k.setup = match.setup /\ k.winner = match.winner
  BY <1>3 DEF Keeps, Fields
<1>5. Sound(k)
  BY <1>1, <1>3, <1>4 DEF Sound, Rests, Playing, IsKind
<1>6. Thrown(k) = <<>>
  <2>1. Thrown(k) = [i \in {} |-> k.visit[k.skip + i].bed]
    <3>1. 1..(Len(k.visit) - k.skip) = {}
      BY <1>3
    <3> QED BY <3>1 DEF Thrown
  <2> QED BY <2>1
<1>7. AnnouncedOk(k, FALSE) /\ ToldOk(k, NoLeg)
  BY <1>3, <1>6, NothingIsTold
<1> QED BY <1>2, <1>3, <1>5, <1>7 DEF IInv

\* Switching double out changes how the visit on the board is judged, and no more.
LEMMA SetDoubleOutKeeps == ASSUME IInv, SetDoubleOut PROVE IInv'
<1> DEFINE m == match
           setup == [m.setup EXCEPT !.doubleOut = ~@]
           k == [m EXCEPT !.setup = setup]
           late == switched \/ m.visit # <<>>
<1>1. /\ Sound(m) /\ Typed(m) /\ Balances(m) /\ Decides(m) /\ EarlyOk(m) /\ Rests(m)
      /\ DOMAIN m = Fields /\ SetupOk(m) /\ VisitOk(m) /\ Alternates(m, turns)
      /\ (m.winner = Nobody => IsOpen(m))
      /\ AnnouncedOk(m, switched) /\ ToldOk(m, told)
  BY DEF IInv, Sound, Typed, Seated, SetupOk
<1>2. /\ setup \in Setups /\ match' = k /\ told' = told /\ turns' = turns
      /\ switched' = late
  BY DEF SetDoubleOut
<1>3. /\ k.setup = setup /\ DOMAIN k = Fields
      /\ k.players = m.players /\ k.current = m.current /\ k.starter = m.starter
      /\ k.winner = m.winner /\ k.party = m.party /\ k.bulling = m.bulling
      /\ k.visit = m.visit /\ k.skip = m.skip /\ k.announced = m.announced
  BY <1>1 DEF Fields
<1>4. /\ setup.kind = m.setup.kind /\ setup.seats = m.setup.seats
      /\ setup.legs = m.setup.legs /\ setup.sets = m.setup.sets
  <2>1. m.setup \in [kind : Kinds, seats : 1..4, legs : Nat \ {0}, sets : Nat \ {0},
                     doubleOut : BOOLEAN, doubleIn : BOOLEAN, bullOff : BOOLEAN]
    BY <1>1, PracticeAssumption DEF SetupOk
  <2> HIDE DEF m
  <2> QED BY <2>1
<1> HIDE DEF k, setup, late, m
<1>5. /\ Players(k) = Players(m) /\ SetupOk(k) /\ NoTurns(k) = NoTurns(m)
      /\ \A kind : IsKind(k, kind) <=> IsKind(m, kind)
      /\ (IsParty(k) <=> IsParty(m)) /\ (PartyReady(k) <=> PartyReady(m))
      /\ (Playing(k) <=> Playing(m)) /\ (Bulling(k) <=> Bulling(m))
      /\ (Evaluates(k) <=> Evaluates(m))
  BY <1>2, <1>3, <1>4 DEF Players, SetupOk, NoTurns, IsKind, IsParty, PartyReady, Playing,
     Bulling, Evaluates
<1>6. Typed(k)
  BY <1>1, <1>3, <1>4, <1>5 DEF Typed, Seated, SeatsOk, VisitOk
<1>7. Balances(k) /\ Decides(k)
  BY <1>1, <1>3, <1>4, <1>5 DEF Balances, Decides, Adds
<1>8. IsOpen(m) => IsOpen(k)
  BY <1>3, <1>4, <1>5 DEF IsOpen, CricketOpen, Lives, Able
<1>9. Alternates(k, turns)
  <2>1. Threw(k) = Threw(m)
    BY <1>3, <1>5 DEF Threw
  <2> QED BY <1>1, <1>3, <1>5, <2>1 DEF Alternates, BullTurns, LegTurns
<1>10. Sound(k)
  BY <1>1, <1>3, <1>5, <1>6, <1>7, <1>8 DEF Sound, EarlyOk, Rests
<1>11. AnnouncedOk(k, late)
  <2>1. CASE ~Evaluates(m)
    BY <1>1, <1>3, <1>5, <2>1 DEF AnnouncedOk
  <2>2. CASE late
    BY <1>1, <1>3, <1>5, <2>2 DEF AnnouncedOk
  <2>3. CASE Evaluates(m) /\ ~late
    <3>1. m.visit = <<>> /\ ~switched
      BY <2>3 DEF late
    <3>2. Thrown(m) = <<>> /\ Thrown(k) = <<>>
      <4>1. Len(m.visit) = 0 /\ m.skip = 0
        BY <1>1, <3>1, EmptySeq DEF VisitOk
      <4>2. /\ Thrown(m) = [i \in {} |-> m.visit[m.skip + i].bed]
            /\ Thrown(k) = [i \in {} |-> k.visit[k.skip + i].bed]
        <5>1. 1..(Len(m.visit) - m.skip) = {} /\ 1..(Len(k.visit) - k.skip) = {}
          BY <1>3, <4>1
        <5> QED BY <5>1 DEF Thrown
      <4> QED BY <4>2
    <3>3. m.announced = "none"
      BY <1>1, <2>3, <3>1, <3>2, OutcomeIs DEF AnnouncedOk, Evaluates
    <3> QED BY <1>3, <1>6, <3>2, <3>3, NothingIsTold
  <2> QED BY <2>1, <2>2, <2>3
<1>12. ToldOk(k, told)
  <2>1. Leg(k, k.current) = Leg(m, m.current)
    BY <1>3, <1>4 DEF Leg, Result
  <2> QED BY <1>1, <1>3, <1>5, <2>1 DEF ToldOk
<1> QED BY <1>2, <1>9, <1>10, <1>11, <1>12 DEF IInv

\* The invariant holds when a game was started.
LEMMA InitHolds == Init => IInv
<1> SUFFICES ASSUME Init PROVE IInv
  OBVIOUS
<1>1. PICK setup \in Setups :
        match = NewMatch([setup |-> setup, players |-> <<>>, current |-> 0, starter |-> 0,
                          winner |-> Nobody, party |-> <<>>, bulling |-> NoBullOff,
                          visit |-> <<>>, skip |-> 0, announced |-> "none"])
  BY DEF Init
<1> DEFINE m == [setup |-> setup, players |-> <<>>, current |-> 0, starter |-> 0,
                 winner |-> Nobody, party |-> <<>>, bulling |-> NoBullOff,
                 visit |-> <<>>, skip |-> 0, announced |-> "none"]
<1>2. DOMAIN m = Fields /\ m.setup = setup /\ m.visit = <<>> /\ m.skip = 0
  BY DEF Fields
<1>3. match = NewMatch(m)
  BY <1>1
<1> HIDE DEF m
<1>4. SetupOk(m) /\ VisitOk(m)
  BY <1>2, EmptySeq DEF SetupOk, VisitOk
<1>5. /\ Sound(match) /\ Alternates(match, NoTurns(match))
      /\ AnnouncedOk(match, FALSE) /\ ToldOk(match, NoLeg)
  BY <1>3, <1>4, MatchBegins
<1>6. turns = NoTurns(match) /\ told = NoLeg /\ switched = FALSE
  BY DEF Init
<1> QED BY <1>5, <1>6 DEF IInv

\* Every step keeps the invariant.
LEMMA NextKeeps == IInv /\ [Next]_vars => IInv'
<1> SUFFICES ASSUME IInv, [Next]_vars PROVE IInv'
  OBVIOUS
<1>1. CASE \E b \in BedsNow : Detect(b)
  BY <1>1, DetectKeeps
<1>2. CASE \E i \in DOMAIN match.visit, b \in BedsNow : Correct(i, b)
  BY <1>2, CorrectKeeps
<1>3. CASE \E i \in DOMAIN match.visit : Withdraw(i)
  BY <1>3, WithdrawKeeps
<1>4. CASE Drop
  BY <1>4, DropKeeps
<1>5. CASE Complete
  BY <1>5, CompleteKeeps
<1>6. CASE \E setup \in Setups : StartGame(setup)
  BY <1>6, StartGameKeeps
<1>7. CASE StartMatch
  BY <1>7, StartMatchKeeps
<1>8. CASE StartLeg
  BY <1>8, StartLegKeeps
<1>9. CASE SetDoubleOut
  BY <1>9, SetDoubleOutKeeps
<1>10. CASE Restart
  BY <1>10, RestartKeeps
<1>11. CASE UNCHANGED vars
  BY <1>11 DEF vars, IInv
<1> QED BY <1>1, <1>2, <1>3, <1>4, <1>5, <1>6, <1>7, <1>8, <1>9, <1>10, <1>11 DEF Next

-----------------------------------------------------------------------------
(* What the cards show.                                                    *)

\* The match as if the visit were booked now.
Live(m) ==
    LET cricket == CricketNow(m) IN
    CASE IsKind(m, "x01") ->
           [m EXCEPT !.players[m.current].remaining = Evaluate(m).remaining]
      [] IsKind(m, "cricket") ->
           [m EXCEPT !.players[m.current].marks = cricket.marks,
                     !.players[m.current].points = cricket.points]
      [] IsParty(m) /\ PartyReady(m) /\ m.winner = Nobody /\ ~Bulling(m) ->
           [m EXCEPT !.party = PartyNow(m).party]
      [] OTHER -> m

\* The cards show two matches alike.
Same(a, b, points) ==
    /\ a.remaining = b.remaining /\ a.marks = b.marks
    /\ a.legs = b.legs /\ a.sets = b.sets /\ (points => a.points = b.points)

Alike(m, a, b) ==
    /\ \A p \in Players(m) : Same(a.players[p], b.players[p], IsKind(m, "cricket"))
    /\ [a.party EXCEPT !.hits = 0, !.turns = 0] = [b.party EXCEPT !.hits = 0, !.turns = 0]

\* Alike is an equivalence that only looks at the scores shown.
LEMMA AlikeIs ==
    /\ \A m, a, b, c : Alike(m, a, b) /\ Alike(m, b, c) => Alike(m, a, c)
    /\ \A m, a, b : Alike(m, a, b) => Alike(m, b, a)
    /\ \A m, a, b : a.players = b.players /\ a.party = b.party => Alike(m, a, b)
    /\ \A m, k, a, b : Alike(m, a, b) /\ k.setup = m.setup => Alike(k, a, b)
  BY DEF Alike, Same, Players, IsKind

\* Matches that show the same scores and outcome have the same scoreboard.
LEMMA ScoresAre ==
    ASSUME NEW m, NEW k, k.setup = m.setup, Alike(m, Live(m), Live(k)),
           Outcome(m).what = "won" <=> Outcome(k).what = "won"
    PROVE  Scores(m) = Scores(k)
<1> DEFINE a == Live(m)
           b == Live(k)
           Row(x, p) == [remaining |-> x.players[p].remaining, marks |-> x.players[p].marks,
                         points |-> IF IsKind(m, "cricket") THEN x.players[p].points ELSE 0,
                         legs |-> x.players[p].legs, sets |-> x.players[p].sets]
<1>1. Scores(m) = Board(m, a) /\ Scores(k) = Board(k, b)
  BY DEF Scores, Live
<1> HIDE DEF a, b
<1>2. Players(k) = Players(m) /\ (IsKind(k, "cricket") <=> IsKind(m, "cricket"))
  BY DEF Players, IsKind
<1>3. Alike(m, a, b)
  BY DEF a, b
<1>4. \A p \in Players(m) : Row(a, p) = Row(b, p)
  BY <1>3 DEF Alike, Same
<1>5. /\ Board(m, a) = [players |-> [p \in Players(m) |-> Row(a, p)],
                        party |-> [a.party EXCEPT !.hits = 0, !.turns = 0],
                        won |-> Outcome(m).what = "won"]
      /\ Board(k, b) = [players |-> [p \in Players(m) |-> Row(b, p)],
                        party |-> [b.party EXCEPT !.hits = 0, !.turns = 0],
                        won |-> Outcome(k).what = "won"]
  BY <1>2 DEF Board
<1>6. [p \in Players(m) |-> Row(a, p)] = [p \in Players(m) |-> Row(b, p)]
  <2> HIDE DEF Row
  <2> QED BY <1>4
<1>7. [a.party EXCEPT !.hits = 0, !.turns = 0] = [b.party EXCEPT !.hits = 0, !.turns = 0]
  BY <1>3 DEF Alike
<1>8. (Outcome(m).what = "won") = (Outcome(k).what = "won")
  OBVIOUS
<1> HIDE DEF Row
<1> QED BY <1>1, <1>5, <1>6, <1>7, <1>8

\* Without darts the cards show what is booked.
LEMMA EmptyX01 ==
    ASSUME NEW m, Typed(m), Thrown(m) = <<>>
    PROVE  Evaluate(m).remaining = m.players[m.current].remaining
<1> DEFINE start == m.players[m.current].remaining
<1>1. VisitOk(m) /\ start \in Nat
  BY DEF Typed, Seated, PlayerType
<1>2. Len(Thrown(m)) = 0 /\ Opening(m) = 0
  BY <1>1, OpeningIs, EmptySeq
<1>3. PointsOf(Thrown(m), 1, 0) = 0
  BY PointsAreNumbers
<1>4. {i \in (0 + 1)..0 : \/ start - PointsOf(Thrown(m), 0 + 1, i) <= 0
                          \/ m.setup.doubleOut /\ start - PointsOf(Thrown(m), 0 + 1, i) = 1} = {}
  OBVIOUS
<1>5. Evaluate(m) = EvaluateVisit(start, Thrown(m), 0, m.setup.doubleOut)
  BY <1>2 DEF Evaluate
<1>6. EvaluateVisit(start, Thrown(m), 0, m.setup.doubleOut).remaining = start - PointsOf(Thrown(m), 0 + 1, 0)
  BY <1>2, <1>4 DEF EvaluateVisit
<1> HIDE DEF start
<1>7. start - PointsOf(Thrown(m), 0 + 1, 0) = start
  BY <1>1, <1>3
<1> QED BY <1>5, <1>6, <1>7 DEF start

\* A Cricket visit without darts leaves marks and points alone.
LEMMA EmptyCricket ==
    ASSUME NEW m, Typed(m), Thrown(m) = <<>>
    PROVE  /\ CricketNow(m).marks = m.players[m.current].marks
           /\ CricketNow(m).points = m.players[m.current].points
<1> DEFINE player == m.players[m.current]
           others == {m.players[p] : p \in Players(m) \ {m.current}}
<1>1. VisitOk(m) /\ player \in PlayerType
  BY DEF Typed, Seated
<1>2. Len(Thrown(m)) = 0 /\ BedsOk(Thrown(m))
  BY <1>1, ThrownIs, EmptySeq
<1>3. CricketNow(m) = CricketVisit(player, Thrown(m), others)
  BY DEF CricketNow
<1> HIDE DEF player, others
<1>4. PICK c : CricketRun(c, player, Thrown(m), others)
               /\ CricketVisit(player, Thrown(m), others) = c[Len(Thrown(m))]
  BY <1>1, <1>2, CricketRuns
<1>5. CricketNow(m) = CricketStart(player)
  BY <1>2, <1>3, <1>4 DEF CricketRun
<1> QED BY <1>5 DEF CricketStart, player

\* So does a visit without darts of a party game that shows its throws.
LEMMA EmptyParty ==
    ASSUME NEW m, Typed(m), Thrown(m) = <<>>, m.setup.kind \in {"shanghai", "killer"}
    PROVE  PartyNow(m).party = m.party
<1> DEFINE S == Players(m)
           party == m.party
           beds == Thrown(m)
<1>1. VisitOk(m) /\ SetupOk(m) /\ m.current \in S /\ party \in PartyType(S) /\ SeatsAre(S)
  BY PlayersAre DEF Typed, Seated
<1>2. Len(beds) = 0 /\ BedsOk(beds) /\ DOMAIN beds = {}
  <2>1. Len(beds) = 0 /\ BedsOk(beds) /\ DOMAIN beds = 1..Len(beds)
    BY <1>1, ThrownIs, EmptySeq
  <2> QED BY <2>1
<1>3. CASE m.setup.kind = "shanghai"
  <2> DEFINE hits == {i \in DOMAIN beds : beds[i].number = Least(Round(party), ShanghaiRounds)}
  <2>1. PartyNow(m).party = [party EXCEPT !.points[m.current] = @ + PointsOfSome(beds, hits)]
    BY <1>3 DEF PartyNow, PartyVisit, ShanghaiVisit
  <2>2. PointsOfSome(beds, hits) = 0
    <3> DEFINE some == [i \in DOMAIN beds |-> IF i \in hits THEN beds[i] ELSE Missed]
    <3>1. PointsOfSome(beds, hits) = PointsOf(some, 1, Len(beds))
      BY DEF PointsOfSome
    <3> HIDE DEF some, beds, hits
    <3>2. PointsOf(some, 1, 0) = 0
      BY PointsAreNumbers
    <3> QED BY <1>2, <3>1, <3>2
  <2> HIDE DEF hits, beds
  <2>3. party.points \in [S -> Nat]
    BY <1>1 DEF PartyType
  <2>4. party.points[m.current] + 0 = party.points[m.current]
    BY <1>1, <2>3
  <2>5. [party EXCEPT !.points[m.current] = @ + 0] = party
    BY <1>1, <2>3, <2>4 DEF PartyType
  <2> QED BY <2>1, <2>2, <2>5
<1>4. CASE m.setup.kind = "killer"
  <2>1. PartyNow(m) = KillerVisit(party, m.current, beds)
    BY <1>4 DEF PartyNow, PartyVisit
  <2>2. CASE Choosing(party)
    <3>1. PartyNow(m).party = ChoosingVisit(party, m.current, beds)
      BY <2>1, <2>2 DEF KillerVisit
    <3> QED BY <3>1 DEF ChoosingVisit
  <2>3. CASE ~Choosing(party)
    <3> HIDE DEF beds
    <3>1. PICK c : /\ KillerRun(c, S, party, m.current, beds)
                   /\ ~Choosing(party) =>
                        KillerVisit(party, m.current, beds) = KillerEnd(party, c[Len(beds)])
      BY <1>1, <1>2, KillerRuns
    <3>2. PartyNow(m) = KillerEnd(party, KillerStart(party))
      BY <1>2, <2>1, <2>3, <3>1 DEF KillerRun
    <3>3. PartyNow(m).party = [party EXCEPT !.lives = party.lives, !.killers = party.killers]
      BY <3>2 DEF KillerEnd, KillerStart
    <3> QED BY <1>1, <3>3 DEF PartyType
  <2> QED BY <2>2, <2>3
<1> QED BY <1>3, <1>4

\* A kind is one only.
LEMMA KindIs ==
    ASSUME NEW m, SetupOk(m)
    PROVE  /\ IsKind(m, "x01") \/ IsKind(m, "cricket") \/ IsParty(m) \/ ~Playing(m)
           /\ IsKind(m, "x01") => ~IsKind(m, "cricket") /\ ~IsParty(m)
           /\ IsKind(m, "cricket") => ~IsKind(m, "x01") /\ ~IsParty(m)
           /\ IsParty(m) => ~IsKind(m, "x01") /\ ~IsKind(m, "cricket")
           /\ ~Playing(m) => ~IsKind(m, "x01") /\ ~IsKind(m, "cricket") /\ ~IsParty(m)
  BY SetupParts DEF IsKind, IsParty, Playing, PartyGames, Kinds

\* A match with nothing thrown shows its booked scores.
LEMMA EmptyShows ==
    ASSUME NEW m, Typed(m), Thrown(m) = <<>>, ~IsKind(m, "halve_it")
    PROVE  Alike(m, Live(m), m)
<1>1. /\ DOMAIN m = Fields /\ m.current \in Players(m) /\ m.players \in [Players(m) -> PlayerType]
      /\ SetupOk(m)
  BY DEF Typed, Seated, SetupOk
<1>2. CASE IsKind(m, "x01")
  <2>1. Live(m) = [m EXCEPT !.players[m.current].remaining = Evaluate(m).remaining]
    BY <1>1, <1>2, KindIs DEF Live
  <2>2. Evaluate(m).remaining = m.players[m.current].remaining
    BY EmptyX01
  <2>3. Live(m).players = m.players /\ Live(m).party = m.party
    BY <1>1, <2>1, <2>2 DEF Fields, PlayerType
  <2> QED BY <2>3, AlikeIs
<1>3. CASE IsKind(m, "cricket")
  <2>1. Live(m) = [m EXCEPT !.players[m.current].marks = CricketNow(m).marks,
                            !.players[m.current].points = CricketNow(m).points]
    BY <1>1, <1>3, KindIs DEF Live
  <2>2. /\ CricketNow(m).marks = m.players[m.current].marks
        /\ CricketNow(m).points = m.players[m.current].points
    BY EmptyCricket
  <2>3. Live(m).players = m.players /\ Live(m).party = m.party
    BY <1>1, <2>1, <2>2 DEF Fields, PlayerType
  <2> QED BY <2>3, AlikeIs
<1>4. CASE IsParty(m) /\ PartyReady(m) /\ m.winner = Nobody /\ ~Bulling(m)
  <2>1. Live(m) = [m EXCEPT !.party = PartyNow(m).party]
    BY <1>1, <1>4, KindIs DEF Live
  <2>2. m.setup.kind \in {"shanghai", "killer"}
    BY <1>4 DEF IsParty, IsKind, PartyGames
  <2>3. Live(m).players = m.players /\ Live(m).party = m.party
    BY <1>1, <2>1, <2>2, EmptyParty DEF Fields
  <2> QED BY <2>3, AlikeIs
<1>5. CASE /\ ~IsKind(m, "x01") /\ ~IsKind(m, "cricket")
           /\ ~(IsParty(m) /\ PartyReady(m) /\ m.winner = Nobody /\ ~Bulling(m))
  <2>1. Live(m) = m
    BY <1>5 DEF Live
  <2> QED BY <2>1, AlikeIs
<1> QED BY <1>2, <1>3, <1>4, <1>5, <1>1, KindIs

\* What is booked of a visit that does not end the leg is what the cards showed.
LEMMA BookedShows ==
    ASSUME NEW m, Typed(m), m.winner = Nobody, ~Bulling(m), Playing(m),
           Book(m).leg = NoLeg, ~IsKind(m, "halve_it"),
           IsParty(m) /\ ~IsKind(m, "killer") => Book(m).match.party.turns # 0
    PROVE  Alike(m, Live(m), Book(m).match)
<1> DEFINE c == m.current
           n == Book(m).match
<1>1. /\ DOMAIN m = Fields /\ c \in Players(m) /\ m.players \in [Players(m) -> PlayerType]
      /\ SetupOk(m) /\ VisitOk(m) /\ SeatsOk(m)
  BY DEF Typed, Seated, SetupOk
<1>2. \A k : WithLeg(k).leg # NoLeg
  BY LegIs DEF WithLeg
<1>3. CASE IsKind(m, "x01")
  <2> DEFINE now == Evaluate(m)
             player == m.players[c]
             opened == \/ player.opened
                       \/ /\ m.setup.doubleIn /\ Opening(m) < now.darts /\ now.outcome # "bust"
             points == player.points + player.remaining - now.remaining
             kept == [m EXCEPT !.players[c] = [player EXCEPT !.points = points, !.opened = opened]]
             left == [kept EXCEPT !.players[c].remaining = now.remaining]
  <2>1. Book(m) = IF now.outcome = "won" THEN WithLeg(kept) ELSE NextTurn(left)
    BY <1>1, <1>3, KindIs DEF Book, BookX01, PlayerType, Fields
  <2>2. n = NextTurn(left).match
    BY <1>2, <2>1
  <2>3. Live(m) = [m EXCEPT !.players[c].remaining = now.remaining]
    BY <1>1, <1>3, KindIs DEF Live
  <2> HIDE DEF now, points, opened
  <2>4. /\ left.players = [m.players EXCEPT ![c] =
              [player EXCEPT !.points = points, !.opened = opened, !.remaining = now.remaining]]
        /\ left.party = m.party /\ DOMAIN left = Fields
    BY <1>1 DEF Fields
  <2> HIDE DEF left
  <2>5. n.players = left.players /\ n.party = left.party
    BY <2>2, <2>4 DEF NextTurn, OnlyMatch, Fields
  <2>6. /\ Live(m).players = [m.players EXCEPT ![c] = [player EXCEPT !.remaining = now.remaining]]
        /\ Live(m).party = m.party
    BY <1>1, <2>3 DEF Fields
  <2>7. player \in PlayerType
    BY <1>1
  <2>8. \A p \in Players(m) : Same(Live(m).players[p], n.players[p], FALSE)
    <3> SUFFICES ASSUME NEW p \in Players(m)
                 PROVE  Same(Live(m).players[p], n.players[p], FALSE)
      OBVIOUS
    <3>1. CASE p = c
      BY <1>1, <2>4, <2>5, <2>6, <2>7, <3>1 DEF Same, PlayerType
    <3>2. CASE p # c
      BY <1>1, <2>4, <2>5, <2>6, <3>2 DEF Same
    <3> QED BY <3>1, <3>2
  <2>9. ~IsKind(m, "cricket")
    BY <1>1, <1>3, KindIs
  <2>10. \A p \in Players(m) : Same(Live(m).players[p], n.players[p], IsKind(m, "cricket"))
    BY <2>8, <2>9 DEF Same
  <2>11. Live(m).party = n.party
    BY <2>4, <2>5, <2>6
  <2> QED BY <2>10, <2>11, SMTT(30) DEF Alike
<1>4. CASE IsKind(m, "cricket")
  <2> DEFINE now == CricketNow(m)
             kept == [m EXCEPT !.players[c].marks = now.marks, !.players[c].points = now.points]
  <2>1. Book(m) = IF now.won THEN WithLeg(kept) ELSE NextTurn(kept)
    BY <1>4 DEF Book, BookCricket
  <2>2. n = NextTurn(kept).match
    BY <1>2, <2>1
  <2>3. Live(m) = kept
    BY <1>1, <1>4, KindIs DEF Live
  <2>4. DOMAIN kept = Fields
    BY <1>1
  <2> HIDE DEF kept
  <2>5. n.players = kept.players /\ n.party = kept.party
    BY <2>2, <2>4 DEF NextTurn, OnlyMatch, Fields
  <2> QED BY <2>3, <2>5, AlikeIs
<1>5. CASE IsParty(m) /\ PartyReady(m)
  <2> DEFINE kind == m.setup.kind
             S == Players(m)
             v == PartyVisit(kind, m.party, c, Thrown(m))
             k == PartyBook(kind, m.party, c, Thrown(m))
             kept == [m EXCEPT !.party = k.party]
             x == [kept EXCEPT !.current = PartyNext(kind, k.party, c)]
  <2>1. Book(m) = KeepParty(m, k)
    BY <1>1, <1>5, KindIs DEF Book, BookParty
  <2>2. /\ SeatsAre(S) /\ S \subseteq Nat /\ Nobody \notin S /\ Tied \notin S
        /\ kind \in {"shanghai", "killer"} /\ BedsOk(Thrown(m)) /\ m.party \in PartyType(S)
        /\ (IsKind(m, "killer") <=> kind = "killer")
    BY <1>1, <1>5, PlayersAre, SeatsParts, ThrownIs DEF IsParty, IsKind, PartyGames, Typed
  <2>3. k = KeepVisit(kind, c, v)
    <3>1. Padded(kind, m.party, Thrown(m)) = Thrown(m)
      BY <2>2, PaddedIs
    <3> QED BY <3>1 DEF PartyBook
  <2>4. /\ k.won \in S \cup {Tied, Nobody} /\ v.party \in PartyType(S)
        /\ kind = "killer" => k.won \in S \cup {Nobody}
    <3>1. k.won \in S \cup {Tied, Nobody} /\ (kind = "killer" => k.won = v.won)
      BY <1>1, <2>2, PartyBookIs DEF PartyGames
    <3>2. v.party \in PartyType(S) /\ v.won \in S \cup {Nobody}
      BY <1>1, <2>2, PartyVisitIs DEF PartyGames
    <3> QED BY <3>1, <3>2
  <2>5. k.party = [v.party EXCEPT !.hits[c] = @ + v.hits,
                                  !.turns = IF kind = "killer" THEN @ ELSE @ + 1]
    BY <2>3 DEF KeepVisit
  <2>6. Live(m) = [m EXCEPT !.party = v.party]
    BY <1>1, <1>5, KindIs DEF Live, PartyNow
  <2> HIDE DEF k, v
  <2>7. k.won = Nobody
    <3>1. CASE k.won \in S
      <4>1. Book(m) = WithLeg([kept EXCEPT !.current = k.won])
        BY <2>1, <2>2, <3>1 DEF KeepParty
      <4> QED BY <1>2, <4>1
    <3>2. CASE k.won = Tied
      <4> DEFINE y == [kept EXCEPT !.starter = NextSeat(m, m.starter)]
      <4>1. Book(m) = OnlyMatch(NewLeg(y))
        BY <2>1, <3>2 DEF KeepParty, Tied
      <4>2. /\ DOMAIN y = Fields /\ y.setup = m.setup /\ y.starter = NextSeat(m, m.starter)
            /\ y.winner = m.winner /\ y.bulling = m.bulling /\ y.players = m.players
            /\ y.visit = m.visit /\ y.skip = m.skip
        BY <1>1 DEF Fields
      <4> HIDE DEF y
      <4>3. Seated(y)
        <5>1. Players(y) = S /\ NextSeat(m, m.starter) \in S
          BY <1>1, <4>2, SetupParts DEF Players, SeatsOk
        <5> QED BY <4>2, <5>1 DEF Typed, Seated, SetupOk, VisitOk, SeatsOk
      <4>4. n = NewLeg(y)
        BY <4>1 DEF OnlyMatch
      <4>5. n.party.turns = 0
        BY <4>3, <4>4, NewLegOpens
      <4>6. ~IsKind(m, "killer")
        BY <2>2, <2>4, <3>2 DEF Tied, Nobody
      <4> QED BY <1>5, <4>5, <4>6
    <3> QED BY <2>4, <3>1, <3>2
  <2>8. n = x
    BY <2>1, <2>7 DEF KeepParty, OnlyMatch, Nobody, Tied
  <2>9. n.players = m.players /\ n.party = k.party
    BY <1>1, <2>8 DEF Fields
  <2>10. Live(m).players = m.players /\ Live(m).party = v.party
    BY <1>1, <2>6 DEF Fields
  <2>11. [v.party EXCEPT !.hits = 0, !.turns = 0] = [k.party EXCEPT !.hits = 0, !.turns = 0]
    BY <2>4, <2>5 DEF PartyType
  <2> QED BY <2>9, <2>10, <2>11 DEF Alike, Same
<1>6. CASE IsParty(m) /\ ~PartyReady(m)
  <2>1. n = m
    BY <1>1, <1>6, KindIs DEF Book, BookParty, OnlyMatch
  <2>2. Live(m) = m
    BY <1>1, <1>6, KindIs DEF Live
  <2> QED BY <2>1, <2>2, AlikeIs
<1> QED BY <1>1, <1>3, <1>4, <1>5, <1>6, KindIs

-----------------------------------------------------------------------------
(* Theorems.                                                               *)

\* In every game, whatever is detected, corrected, withdrawn or pulled, started
\* or switched, and across restarts: the match stays sound, visits alternate,
\* and what was announced and told is what the visit comes to.
THEOREM MatchStaysSound == Spec => []IInv
<1>1. Init => IInv
  BY InitHolds
<1>2. IInv /\ [Next]_vars => IInv'
  BY NextKeeps
<1> QED BY <1>1, <1>2, PTL DEF Spec

\* In X01 the points booked and the remaining score add up to the game for every
\* start score, and only the winner of the match has nothing left to score.
THEOREM ScoresBalance == Spec => []ScoreBalances
<1>1. IInv => ScoreBalances
  BY DEF IInv, Sound, Balances, Adds, ScoreBalances
<1> QED BY <1>1, MatchStaysSound, PTL

\* Nobody holds a won set as legs; a match ends exactly when its sets are
\* reached, for every format.
THEOREM MatchesAreDecided == Spec => []MatchDecides
<1>1. IInv => MatchDecides
  BY DEF IInv, Sound, Decides, MatchDecides
<1> QED BY <1>1, MatchStaysSound, PTL

\* Visits alternate, in a leg and in a bull-off, for one to four players.
THEOREM VisitsAlternate == Spec => []TurnsAlternate
<1>1. ASSUME IInv PROVE TurnsAlternate
  <2> SUFFICES ASSUME match.winner = Nobody
               PROVE  IF Bulling(match)
                      THEN \A p \in Players(match) :
                             IF p \in match.bulling.players
                             THEN turns[p] - turns[Up(match)] \in {0, 1}
                             ELSE turns[p] <= turns[Up(match)]
                      ELSE \A p \in Players(match) : turns[p] - turns[match.current] \in {0, 1}
    BY DEF TurnsAlternate
  <2>1. /\ Alternates(match, turns) /\ SetupOk(match) /\ match.current \in Players(match)
        /\ match.starter \in Players(match)
        /\ match.bulling = NoBullOff \/ match.bulling \in BullOffs(Players(match))
    BY <1>1 DEF IInv, Sound, Typed, Seated, SeatsOk
  <2>2. turns \in [Players(match) -> Nat] /\ Players(match) \subseteq Nat
    BY <2>1, SetupParts DEF Alternates
  <2>3. CASE Bulling(match)
    <3>1. match.bulling \in BullOffs(Players(match)) /\ BullTurns(match, turns)
      BY <2>1, <2>3 DEF Bulling, Alternates
    <3>2. Thrower(match.bulling) \in match.bulling.players \ DOMAIN match.bulling.distances
          /\ Thrower(match.bulling) \in Players(match)
      <4>1. SeatsAre(Players(match))
        BY <2>1, PlayersAre
      <4>2. Score(Missed) \in Nat
        BY DEF Score, Missed
      <4> QED BY <3>1, <4>1, <4>2, BullOffBookIs
    <3>3. PICK n \in Nat : \A p \in Players(match) :
            IF p \in match.bulling.players
            THEN turns[p] = n + (IF p \in DOMAIN match.bulling.distances THEN 1 ELSE 0)
            ELSE turns[p] <= n
      BY <3>1 DEF BullTurns
    <3>4. turns[Up(match)] = n
      BY <2>3, <3>2, <3>3 DEF Up
    <3> QED BY <2>2, <2>3, <3>3, <3>4
  <2>4. CASE ~Bulling(match) /\ IsKind(match, "killer")
    BY <2>1, <2>4 DEF Alternates, NoTurns
  <2>5. CASE ~Bulling(match) /\ ~IsKind(match, "killer")
    <3>1. LegTurns(match, turns)
      BY <2>1, <2>5 DEF Alternates
    <3>2. PICK n \in Nat : \A p \in Players(match) :
            turns[p] = n + (IF p \in Threw(match) THEN 1 ELSE 0)
      BY <3>1 DEF LegTurns
    <3>3. match.current \notin Threw(match)
      BY <2>1, <2>2 DEF Threw
    <3>4. turns[match.current] = n
      BY <2>1, <3>2, <3>3
    <3> QED BY <2>5, <3>2, <3>4
  <2> QED BY <2>3, <2>4, <2>5
<1> QED BY <1>1, MatchStaysSound, PTL

\* A leg that is decided does not go on, and whoever is at the board can play.
THEOREM NoLegOutlivesItsWinner == Spec => []LegIsOpen
<1>1. ASSUME IInv PROVE LegIsOpen
  <2>1. match.winner = Nobody => IsOpen(match)
    BY <1>1 DEF IInv, Sound
  <2> QED BY <2>1 DEF LegIsOpen, IsOpen, CricketOpen, Lives, Able
<1> QED BY <1>1, MatchStaysSound, PTL

\* What was announced of the visit on the board is what the score says.
THEOREM AnnouncementsAreTrue == Spec => []AnnouncedIsTrue
<1>1. IInv => AnnouncedIsTrue
  BY DEF IInv, AnnouncedOk, AnnouncedIsTrue
<1> QED BY <1>1, MatchStaysSound, PTL

\* A dart thrown before the leg began never counts in it.
THEOREM NoEarlyDartCounts == Spec => []EarlyNeverCounts
<1>1. IInv => EarlyNeverCounts
  BY DEF IInv, Sound, EarlyOk, EarlyNeverCounts
<1> QED BY <1>1, MatchStaysSound, PTL

\* A leg is booked as it was announced: its player, legs, sets and the end of the
\* match; and a leg that was announced is booked.
THEOREM LegsAreBookedAsTold == Spec => BookedAsTold
<1> DEFINE roundEnds == match.setup.kind \in {"shanghai", "halve_it"}
           A == ~switched =>
                  /\ booked' # NoLeg /\ ~IsKind(match, "killer") =>
                         booked' = told \/ (roundEnds /\ told = NoLeg)
                  /\ booked' # NoLeg => told # NoLeg \/ roundEnds
                  /\ Complete /\ told # NoLeg => booked' # NoLeg
<1>1. ASSUME IInv, Next PROVE A
  <2> SUFFICES ASSUME ~switched
               PROVE  /\ booked' # NoLeg /\ ~IsKind(match, "killer") =>
                             booked' = told \/ (roundEnds /\ told = NoLeg)
                      /\ booked' # NoLeg => told # NoLeg \/ roundEnds
                      /\ Complete /\ told # NoLeg => booked' # NoLeg
    OBVIOUS
  <2>1. CASE ~Complete
    BY <1>1, <2>1 DEF Next, Detect, Correct, Withdraw, Drop, Revise, StartGame, StartMatch,
       StartLeg, Settle, SetDoubleOut, Restart
  <2>2. CASE Complete
    <3>1. booked' = FinishVisit(match).leg
      BY <2>2 DEF Complete, Begin
    <3>2. Finished(match, FinishVisit(match), turns)
      BY <1>1, FinishKeeps DEF IInv
    <3>3. IF Books(match) THEN Tells(match, booked') ELSE booked' = NoLeg
      BY <3>1, <3>2 DEF Finished
    <3>4. AnnouncedOk(match, switched) /\ ToldOk(match, told) /\ Typed(match) /\ Rests(match)
      BY <1>1 DEF IInv, Sound
    <3>5. CASE Evaluates(match)
      <4>1. match.announced = Outcome(match).what
        BY <3>4, <3>5 DEF AnnouncedOk
      <4>2. IF match.announced = "won"
            THEN told # NoLeg /\ (IsKind(match, "killer") \/ told = Leg(match, match.current))
            ELSE told = NoLeg
        BY <3>4 DEF ToldOk
      <4>3. match.winner = Nobody /\ Playing(match)
        BY <2>2, <3>4, <3>5 DEF Complete, Rests, Evaluates
      <4>4. match.announced = "won" => Thrown(match) # <<>>
        BY <3>4, <3>5, <4>1, OutcomeIs DEF Evaluates
      <4>5. CASE match.announced = "won"
        <5>1. booked' # NoLeg /\ (IsKind(match, "killer") \/ booked' = told) /\ told # NoLeg
          BY <3>3, <3>5, <4>1, <4>2, <4>3, <4>4, <4>5 DEF Tells, Books
        <5> QED BY <5>1
      <4>6. CASE match.announced # "won"
        <5>1. told = NoLeg /\ (booked' # NoLeg => roundEnds)
          BY <3>3, <3>5, <4>1, <4>2, <4>6 DEF Tells
        <5> QED BY <5>1
      <4> QED BY <4>5, <4>6
    <3>6. CASE ~Evaluates(match)
      <4>1. told = NoLeg
        BY <3>4, <3>6 DEF AnnouncedOk, ToldOk
      <4>2. booked' = NoLeg
        BY <3>3, <3>6 DEF Tells
      <4> QED BY <4>1, <4>2
    <3> QED BY <3>5, <3>6
  <2> QED BY <2>1, <2>2
<1>2. IInv /\ [Next]_vars => [A]_vars
  BY <1>1
<1>3. Spec => [][A]_vars
  BY <1>2, MatchStaysSound, PTL DEF Spec
<1> QED BY <1>3 DEF BookedAsTold

\* Pulling the darts books what the cards showed of them, a win as a leg and the
\* scores of a visit that does not end it, in all games but Halve-It.
THEOREM VisitsAreBookedAsShown == Spec => BookedAsShown
<1> DEFINE A == Complete /\ Books(match) /\ ~Bulling(match) =>
                  /\ Scores(match).won => booked' # NoLeg
                  /\ booked' # NoLeg => Scores(match).won \/ match.setup.kind \in {"shanghai", "halve_it"}
                  /\ match'.visit = <<>> /\ booked' = NoLeg /\ ~IsKind(match, "halve_it")
                     /\ (IsKind(match, "killer") \/ turns' # NoTurns(match))
                     => Scores(match') = Scores(match)
<1>1. ASSUME IInv, Next PROVE A
  <2> SUFFICES ASSUME Complete, Books(match), ~Bulling(match)
               PROVE  /\ Scores(match).won => booked' # NoLeg
                      /\ booked' # NoLeg =>
                           Scores(match).won \/ match.setup.kind \in {"shanghai", "halve_it"}
                      /\ match'.visit = <<>> /\ booked' = NoLeg /\ ~IsKind(match, "halve_it")
                         /\ (IsKind(match, "killer") \/ turns' # NoTurns(match))
                         => Scores(match') = Scores(match)
    OBVIOUS
  <2> DEFINE done == FinishVisit(match)
             b == Book(match).match
             f == done.match
  <2>1. /\ Sound(match) /\ Typed(match) /\ Alternates(match, turns) /\ SetupOk(match)
        /\ Playing(match) /\ match.winner = Nobody
    BY <1>1 DEF IInv, Sound, Typed, Seated, Books
  <2>2. Finished(match, done, turns)
    BY <2>1, FinishKeeps
  <2>3. f = Cleared(b) /\ done.leg = Book(match).leg
    BY DEF FinishVisit
  <2>4. booked' = Book(match).leg
    BY <2>3 DEF Complete, Begin
  <2>5. Tells(match, booked')
    BY <2>2, <2>3, <2>4 DEF Finished
  <2>6. Scores(match).won <=> Outcome(match).what = "won"
    BY DEF Scores, Board
  <2>7. Outcome(match).what = "won" => Evaluates(match)
    <3> SUFFICES ASSUME ~PartyReady(match) PROVE Outcome(match).what # "won"
      BY <2>1 DEF Evaluates
    <3>1. Outcome(match) = WonBy(Nobody)
      BY DEF PartyReady, Outcome, IsKind
    <3> QED BY <3>1 DEF WonBy
  <2>8. Scores(match).won => booked' # NoLeg
    BY <2>5, <2>6, <2>7 DEF Tells
  <2>9. booked' # NoLeg => Scores(match).won \/ match.setup.kind \in {"shanghai", "halve_it"}
    BY <2>5, <2>6 DEF Tells
  <2>10. ASSUME match'.visit = <<>>, booked' = NoLeg, ~IsKind(match, "halve_it"),
                IsKind(match, "killer") \/ turns' # NoTurns(match)
         PROVE  Scores(match') = Scores(match)
    <3>1. DOMAIN b = Fields
      <4>1. Booked(match, Book(match), turns)
        BY <2>1, BookKeeps DEF Books, Sound
      <4> QED BY <4>1 DEF Booked, Typed, Seated, SetupOk
    <3>2. /\ f.players = b.players /\ f.party = b.party
          /\ f.skip = 0 /\ DOMAIN f = Fields
      BY <2>3, <3>1 DEF Cleared, Fields
    <3>3. IsParty(match) /\ ~IsKind(match, "killer") => b.party.turns # 0
      <4> SUFFICES ASSUME IsParty(match), ~IsKind(match, "killer")
                   PROVE  b.party.turns # 0
        OBVIOUS
      <4>1. turns' = IF Anew(match, done) THEN NoTurns(match)
                     ELSE [turns EXCEPT ![Up(match)] = @ + 1]
        BY DEF Complete, Begin, CountTurns, PartyReady
      <4>2. ~Anew(match, done)
        BY <2>10, <4>1
      <4> QED BY <3>2, <4>2 DEF Anew
    <3>4. Alike(match, Live(match), b)
      BY <2>1, <2>4, <2>10, <3>3, BookedShows
    <3>5. f.winner = Nobody /\ f.setup = match.setup
      BY <2>1, <2>2, <2>3, <2>4, <2>10 DEF Finished
    <3>6. PICK visit : match' = Judge(Follow(f, visit))
      BY DEF Complete, Begin, Track
    <3> DEFINE s == [f EXCEPT !.visit = visit, !.skip = Least(f.skip, Len(visit))]
    <3>7. match' = Judge(s)
      BY <3>5, <3>6 DEF Follow
    <3>8. /\ s.players = b.players /\ s.party = b.party /\ s.setup = match.setup
          /\ DOMAIN s = Fields
      BY <3>2, <3>5 DEF Fields
    <3> HIDE DEF s, f, done
    <3>9. /\ match'.players = b.players /\ match'.party = b.party
          /\ match'.setup = match.setup
      BY <3>7, <3>8 DEF Judge, Fields
    <3>10. Typed(match')
      <4>1. IInv'
        BY <1>1, NextKeeps
      <4> QED BY <4>1 DEF IInv, Sound
    <3>11. Thrown(match') = <<>>
      <4>1. VisitOk(match')
        BY <3>10 DEF Typed, Seated
      <4>2. Len(match'.visit) = 0 /\ match'.skip = 0
        BY <2>10, <4>1, EmptySeq DEF VisitOk
      <4>3. Thrown(match') = [i \in {} |-> match'.visit[match'.skip + i].bed]
        <5>1. 1..(Len(match'.visit) - match'.skip) = {}
          BY <4>2
        <5> QED BY <5>1 DEF Thrown
      <4> QED BY <4>3
    <3>12. Alike(match', Live(match'), match')
      <4>1. ~IsKind(match', "halve_it")
        BY <2>10, <3>9 DEF IsKind
      <4> QED BY <3>10, <3>11, <4>1, EmptyShows
    <3>13. Alike(match, Live(match), Live(match'))
      <4>1. Alike(match, b, match')
        BY <3>9, AlikeIs
      <4>2. Alike(match, match', Live(match'))
        BY <3>9, <3>12, AlikeIs
      <4> QED BY <3>4, <4>1, <4>2, AlikeIs
    <3>14. Outcome(match).what # "won"
      BY <2>6, <2>8, <2>10
    <3>15. Outcome(match').what # "won"
      <4>1. Playing(match') /\ (PartyReady(match') <=> PartyReady(match))
        BY <2>1, <3>9 DEF Playing, PartyReady, IsKind
      <4>2. CASE PartyReady(match')
        BY <3>10, <3>11, <4>1, <4>2, OutcomeIs
      <4>3. CASE ~PartyReady(match')
        <5>1. Outcome(match') = WonBy(Nobody)
          BY <4>3 DEF PartyReady, Outcome, IsKind
        <5> QED BY <5>1 DEF WonBy
      <4> QED BY <4>2, <4>3
    <3> QED BY <3>9, <3>13, <3>14, <3>15, ScoresAre
  <2> QED BY <2>8, <2>9, <2>10
<1>2. IInv /\ [Next]_vars => [A]_vars
  BY <1>1
<1>3. Spec => [][A]_vars
  BY <1>2, MatchStaysSound, PTL DEF Spec
<1> QED BY <1>3 DEF BookedAsShown
=============================================================================
