------------------------------- MODULE Ledger --------------------------------
(***************************************************************************)
(* What a training session promises of the darts it announces: each one    *)
(* counts once, in the session that runs, in a visit that can be revised   *)
(* until it is closed.  What is closed is never touched again, and a       *)
(* session that ends goes into the history with all it counted.  Training, *)
(* which has nothing but successive states of the board to tell throws,    *)
(* corrections and takeouts apart, implements it.                          *)
(***************************************************************************)
EXTENDS Naturals, Sequences

CONSTANT HistorySize    \* finished sessions kept

VARIABLES
    running,        \* a session runs
    closed,         \* its darts and points without the open visit
    open,           \* the darts and points of the visit still open
    history,        \* finished sessions, newest first
    told            \* what the last operation announced

ledger == <<running, closed, open, history, told>>

Nil == [darts |-> 0, points |-> 0]
Total == [darts |-> closed.darts + open.darts, points |-> closed.points + open.points]

\* A visit of n darts; without darts there are no points.
IsVisit(visit, n) == visit \in [darts : {n}, points : Nat] /\ (n = 0 => visit = Nil)

\* A number of darts, a session start and a session end are announced.
Tells(darts, start, end) == told' = [darts |-> darts, start |-> start, end |-> end]

\* An ended session with darts becomes the newest one of the history.
Archived ==
    LET all == <<Total>> \o history
    IN  IF Total.darts = 0 THEN history
        ELSE IF Len(all) <= HistorySize THEN all ELSE SubSeq(all, 1, HistorySize)

-----------------------------------------------------------------------------
\* The open visit is finished: its darts are pulled, or nothing more will be
\* known of them.
Close ==
    /\ closed' = Total /\ open' = Nil
    /\ Tells(0, FALSE, FALSE)
    /\ UNCHANGED <<running, history>>

\* Darts of the open visit get other beds, or were none.
Revise ==
    /\ \E n \in 0..open.darts : IsVisit(open', n)
    /\ Tells(0, FALSE, FALSE)
    /\ UNCHANGED <<running, closed, history>>

\* Darts are announced: they join the open visit, or are the first ones of the
\* next visit.  Without a session they count nowhere.
Throw ==
    /\ told'.darts \in Nat \ {0} /\ Tells(told'.darts, FALSE, FALSE)
    /\ \/ /\ running
          /\ \/ closed' = closed /\ IsVisit(open', open.darts + told'.darts)
             \/ closed' = Total /\ IsVisit(open', told'.darts)
       \/ ~running /\ UNCHANGED <<closed, open>>
    /\ UNCHANGED <<running, history>>

\* A session begins from zero, with the darts announced with its start.
Begin ==
    /\ ~running /\ running' = TRUE
    /\ told'.darts \in Nat /\ Tells(told'.darts, TRUE, FALSE)
    /\ closed' = Nil /\ IsVisit(open', told'.darts)
    /\ UNCHANGED history

End ==
    /\ running /\ running' = FALSE
    /\ Tells(0, FALSE, TRUE)
    /\ closed' = Total /\ open' = Nil
    /\ history' = Archived

\* A session ends and the next one begins.
Renew ==
    /\ running /\ running' = TRUE
    /\ Tells(0, TRUE, TRUE)
    /\ closed' = Nil /\ open' = Nil
    /\ history' = Archived

Init ==
    /\ running = TRUE
    /\ closed = Nil /\ open = Nil
    /\ history = <<>>
    /\ told = [darts |-> 0, start |-> FALSE, end |-> FALSE]

Next == Close \/ Revise \/ Throw \/ Begin \/ End \/ Renew

Spec == Init /\ [][Next]_ledger

\* Nothing is open without a session, and no empty session is kept.
SessionsFit ==
    /\ ~running => open = Nil
    /\ Len(history) <= HistorySize
    /\ \A i \in DOMAIN history : history[i].darts > 0
=============================================================================
