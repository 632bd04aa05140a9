------------------------------ MODULE MCDrills ------------------------------
(* The training games with two targets and finishes that one visit reaches,  *)
(* busts or leaves open.                                                     *)
EXTENDS Drills, TLC

B(number, multiplier) == [number |-> number, multiplier |-> multiplier]
MCTargets == <<1, 2>>
MCCheckoutScores == {2, 4}
MCHalveItTargets == <<[number |-> 0, multiplier |-> 0]>>
MCDrills == {"around_the_clock", "doubles", "bobs_27", "checkout"}
MCDrillBeds == [kind \in MCDrills |->
    IF kind = "checkout" THEN {B(0, 0), B(1, 1), B(1, 2)} ELSE {B(1, 1), B(1, 2), B(2, 2)}]
=============================================================================
