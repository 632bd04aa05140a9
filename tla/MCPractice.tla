----------------------------- MODULE MCPractice -----------------------------
(* Every game with few numbers, rounds and lives: X01 of two players from a  *)
(* score that three darts finish, of three after a bull-off, and alone;      *)
(* Cricket on two numbers; a round of Shanghai, two of Halve-It; Killer.     *)
EXTENDS Practice, TLC

B(number, multiplier) == [number |-> number, multiplier |-> multiplier]
Miss == B(0, 0)

MCBull == 25
MCCricketNumbers == {1, 2}
MCHalveItTargets == <<[number |-> 1, multiplier |-> 0], [number |-> 0, multiplier |-> 2]>>
MCKillerNumbers == {1, 2, 3}

S(kind, seats, legs, sets, doubleOut, doubleIn, bullOff) ==
    [kind |-> kind, seats |-> seats, legs |-> legs, sets |-> sets,
     doubleOut |-> doubleOut, doubleIn |-> doubleIn, bullOff |-> bullOff]

MCSetups ==
    {S("none", 1, 1, 1, TRUE, FALSE, FALSE),
     S("x01", 1, 1, 1, TRUE, FALSE, FALSE),
     S("x01", 3, 1, 1, FALSE, FALSE, TRUE),
     S("x01", 2, 2, 2, TRUE, FALSE, FALSE),
     S("x01", 2, 1, 1, TRUE, TRUE, FALSE), S("x01", 2, 1, 1, FALSE, TRUE, FALSE),
     S("cricket", 2, 1, 1, TRUE, FALSE, FALSE),
     S("shanghai", 2, 1, 2, TRUE, FALSE, FALSE),
     S("halve_it", 2, 1, 1, TRUE, FALSE, FALSE),
     S("killer", 3, 1, 1, TRUE, FALSE, FALSE), S("killer", 1, 1, 1, TRUE, FALSE, FALSE)}

MCKiller == {S("killer", 3, 1, 1, TRUE, FALSE, FALSE)}

MCBeds ==
    [none |-> {Miss}, x01 |-> {Miss, B(1, 1), B(1, 2)},
     cricket |-> {Miss, B(1, 1), B(1, 2), B(2, 3)},
     shanghai |-> {B(1, 1), B(1, 2), B(1, 3)},
     halve_it |-> {Miss, B(1, 1), B(2, 2)},
     killer |-> {B(1, 2), B(2, 2), B(3, 2)},
     bull_off |-> {B(25, 2), B(25, 1), B(1, 1)}]

MCMaxVisit == [none |-> 1, x01 |-> 2, cricket |-> 2, shanghai |-> 3, halve_it |-> 3, killer |-> 2]

MCMaxEarly == [none |-> 1, x01 |-> 1, cricket |-> 1, shanghai |-> 1, halve_it |-> 1, killer |-> 0]
=============================================================================
