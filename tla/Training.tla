------------------------------ MODULE Training ------------------------------
(***************************************************************************)
(* The training session of training.py: darts are counted from successive  *)
(* snapshots of the board, never replayed, and the active visit stays      *)
(* revisable until its darts are pulled.                                   *)
(*                                                                         *)
(* A dart is the bed it is reported in (number, multiplier and name; board *)
(* coordinates are ignored by the code).  Of the session totals the model  *)
(* keeps darts, points, visits, highest visit and hits per bed: doubles,   *)
(* triples, bulls and misses are sums over `hits', and the score buckets   *)
(* are added by the same _fold as `visits'.  Time stamps are left out.     *)
(***************************************************************************)
EXTENDS Naturals, Sequences, FiniteSets

CONSTANTS
    Bed,            \* the beds the board can report
    Worth(_),       \* points of a visit, given how many darts hit each bed
    MaxThrows,      \* the longest list of throws the board reports
    MaxDarts,       \* bound: darts a session of the model may count
    HistorySize,    \* finished sessions kept (20 in the code)
    RecentSize,     \* completed visits kept (10 in the code)
    NoSegments      \* throws that segments() refuses

Nothing == [b \in Bed |-> 0]

ASSUME BedAssumption == IsFiniteSet(Bed)
ASSUME BoundAssumption ==
    /\ MaxThrows \in Nat
    /\ MaxDarts \in Nat
    /\ HistorySize \in Nat \ {0}
    /\ RecentSize \in Nat \ {0}
ASSUME NoSegmentsAssumption == NoSegments \notin UNION {[1..n -> Bed] : n \in 0..MaxThrows}
ASSUME WorthAssumption == \A h \in [Bed -> 0..MaxThrows] : Worth(h) \in Nat
ASSUME NothingAssumption == Worth(Nothing) = 0

VARIABLES
    active,         \* _active: the darts of the visit as last reported
    tracked,        \* _tracked: thrown since the baseline, so announced
    counting,       \* _counting: thrown during the session, so counted
    initialized,    \* _initialized: a baseline has been observed
    removing,       \* _removing: a takeout is under way
    session,        \* active: a session is running
    autoStart,      \* auto_start
    committed,      \* _committed, _highest_visit and _hits
    history,        \* history: summaries of finished sessions, newest first
    recent,         \* recent_visits: scores of announced visits, newest first
    events          \* what the last operation returned, in order

board == <<active, tracked, counting>>
flags == <<initialized, removing>>
vars == <<active, tracked, counting, initialized, removing, session,
          autoStart, committed, history, recent, events>>

-----------------------------------------------------------------------------
(* What the board reports.                                                 *)

Statuses == {"throw", "takeout", "stopped"}
Throws == UNION {[1..n -> Bed] : n \in 0..MaxThrows}
\* A board whose detection does not run is in no particular status.
States == [running : {TRUE}, status : Statuses, throws : Throws]
          \cup [running : {FALSE}, status : {"throw"}, throws : Throws]
          \cup [running : {TRUE}, status : {"throw"}, throws : {NoSegments}]

\* The status or the last event says that darts are being removed.
Takeout(state) == state.status = "takeout"

\* The detection runs and a baseline exists: throws can be compared.
Live(state) ==
    /\ state.throws # NoSegments
    /\ initialized
    /\ state.running
    /\ state.status # "stopped"

\* The ways to find the darts o among the darts a, each the first one left.
FirstMatches(a, o) ==
    {m \in [DOMAIN o -> DOMAIN a] :
        \A j \in DOMAIN o :
            /\ a[m[j]] = o[j]
            /\ \A k \in 1..(j - 1) : m[k] # m[j]
            /\ \A i \in 1..(m[j] - 1) :
                 a[i] = o[j] => \E k \in 1..(j - 1) : m[k] = i}

Contains(a, o) == FirstMatches(a, o) # {}

-----------------------------------------------------------------------------
(* Totals.                                                                 *)

ZeroTotals == [darts |-> 0, points |-> 0, visits |-> 0, highest |-> 0, hits |-> Nothing]

Counted == {i \in DOMAIN active : counting[i]}
\* Mutant: points of darts that are not counted.
CountedHits_All == [b \in Bed |-> Cardinality({i \in DOMAIN active : active[i] = b})]

CountedHits == [b \in Bed |-> Cardinality({i \in Counted : active[i] = b})]
Greater(m, n) == IF m >= n THEN m ELSE n

\* The session totals with the counted darts of the active visit: what
\* snapshot() shows and what _fold makes permanent.
Snapshot ==
    [darts   |-> committed.darts + Cardinality(Counted),
     points  |-> committed.points + Worth(CountedHits),
     visits  |-> committed.visits + (IF Counted = {} THEN 0 ELSE 1),
     highest |-> Greater(committed.highest, Worth(CountedHits)),
     hits    |-> [b \in Bed |-> committed.hits[b] + CountedHits[b]]]

\* The darts of the visit that were announced.
Tracked == {i \in DOMAIN active : tracked[i]}
TrackedHits == [b \in Bed |-> Cardinality({i \in Tracked : active[i] = b})]

\* Mutants: the last dart has no flag; flags of earlier darts are kept.
AllFalse_Short(darts) == [i \in 1..(Len(darts) - 1) |-> FALSE]
AllFalse_Kept(darts) == [i \in DOMAIN darts |-> i \in Counted]

AllFalse(darts) == [i \in DOMAIN darts |-> FALSE]
Keep(list, size) == IF Len(list) <= size THEN list ELSE SubSeq(list, 1, size)

\* An event with its number: a dart index, or the darts of a visit.
Event(kind, n) == [kind |-> kind, n |-> n]

\* The places of S from first to last.
Orders(S) == {order \in [1..Cardinality(S) -> S] :
                \A i, j \in DOMAIN order : i < j => order[i] < order[j]}

\* Mutant: darts left behind stay counted.
Rest_Counted(darts) ==
    /\ active' = darts
    /\ tracked' = AllFalse(darts)
    /\ counting' = [i \in DOMAIN darts |-> i \in Counted]

\* Darts on the board that are neither announced nor counted again.
Rest(darts) ==
    /\ active' = darts
    /\ tracked' = AllFalse(darts)
    /\ counting' = AllFalse(darts)

\* Mutant: only a visit with counted darts is announced.
VisitEvents_Counted == IF Counted = {} THEN <<>>
                       ELSE <<Event("visit_completed", Cardinality(Counted))>>

\* The visit_completed that _commit announces, if a dart was announced.
VisitEvents == IF Tracked = {} THEN <<>>
               ELSE <<Event("visit_completed", Cardinality(Tracked))>>

\* recent_visits once the visit is completed.
Completed ==
    IF Tracked = {} THEN recent
    ELSE Keep(<<Worth(TrackedHits)>> \o recent, RecentSize)

\* Mutant: a visit that is not announced is not folded.
Commit_Announced(announce) ==
    /\ committed' = IF announce THEN Snapshot ELSE committed
    /\ recent' = IF announce THEN Completed ELSE recent

\* Fold the visit into the totals and, if announce, complete it.
Commit(announce) ==
    /\ committed' = Snapshot
    /\ recent' = IF announce THEN Completed ELSE recent

-----------------------------------------------------------------------------
(* The cases of observe(state).                                            *)

\* Unusable throws change nothing.
Ignore(state) ==
    /\ state.throws = NoSegments
    /\ events' = <<>>
    /\ UNCHANGED <<board, flags, session, autoStart, committed, history, recent>>

\* The first state, and every state while the detection does not run.
Baseline(state) ==
    /\ state.throws # NoSegments
    /\ ~Live(state)
    /\ Commit(initialized)
    /\ Rest(state.throws)
    /\ initialized' = TRUE
    /\ removing' = FALSE
    /\ events' = IF initialized THEN VisitEvents ELSE <<>>
    /\ UNCHANGED <<session, autoStart, history>>

Fewer(state) == Len(state.throws) < Len(active)
Removed(state) == Fewer(state) /\ (state.throws = <<>> \/ Takeout(state))
Withdrawn(state) == Fewer(state) /\ ~Removed(state) /\ Contains(active, state.throws)
MissedTakeout(state) == Fewer(state) /\ ~Removed(state) /\ ~Withdrawn(state)

\* Pulling darts completes the visit and keeps its score.
RemoveDarts(state) ==
    /\ Live(state)
    /\ Removed(state)
    /\ Commit(TRUE)
    /\ Rest(state.throws)
    /\ removing' = (state.throws # <<>>)
    /\ events' = VisitEvents
    /\ UNCHANGED <<initialized, session, autoStart, history>>

\* Outside a takeout, fewer known darts are a withdrawn detection.
Withdraw(state) ==
    /\ Live(state)
    /\ Withdrawn(state)
    /\ \E m \in FirstMatches(active, state.throws) :
         /\ active' = state.throws
         /\ tracked' = [j \in DOMAIN state.throws |-> tracked[m[j]]]
         /\ counting' = [j \in DOMAIN state.throws |-> counting[m[j]]]
    /\ events' = <<>>
    /\ UNCHANGED <<flags, session, autoStart, committed, history, recent>>

\* Mutant: during a takeout a new dart is taken for one that is left.
StillRemoving_More(state) ==
    /\ Live(state)
    /\ removing
    /\ Len(state.throws) >= Len(active)
    /\ Rest(state.throws)
    /\ events' = <<>>
    /\ UNCHANGED <<flags, session, autoStart, committed, history, recent>>

\* While darts are being removed, as many as before are the same ones.
StillRemoving(state) ==
    /\ Live(state)
    /\ ~Fewer(state)
    /\ removing
    /\ Len(state.throws) = Len(active)
    /\ Rest(state.throws)
    /\ events' = <<>>
    /\ UNCHANGED <<flags, session, autoStart, committed, history, recent>>

\* The dart loop: darts at known places are corrected, darts beyond them are
\* new throws; the first new one starts a session if that is wanted.
TakeDarts(state) ==
    LET missed    == MissedTakeout(state)
        known     == IF missed THEN 0 ELSE Len(active)
        places    == DOMAIN state.throws
        corrected == {i \in 1..known : state.throws[i] # active[i]}
        new       == places \ (1..known)
        starts    == new # {} /\ ~session /\ autoStart
    IN  /\ Live(state)
        /\ \/ missed
           \/ ~Fewer(state) /\ (removing => Len(state.throws) > Len(active))
        /\ session' = (session \/ starts)
        /\ active' = state.throws
        /\ tracked' = [i \in places |-> i \in new \/ tracked[i]]
        /\ counting' = [i \in places |->
                          IF i \in new THEN session' ELSE counting[i] /\ ~starts]
        /\ recent' = IF missed THEN Completed ELSE recent
        /\ committed' = IF starts THEN ZeroTotals
                        ELSE IF missed THEN Snapshot ELSE committed
        /\ removing' = FALSE
        /\ \E order \in Orders(corrected) :
             events' = (IF missed THEN VisitEvents ELSE <<>>)
                       \o [i \in DOMAIN order |-> Event("dart_corrected", order[i])]
                       \o (IF starts THEN <<Event("session_started", 0)>> ELSE <<>>)
                       \o [i \in 1..(Len(state.throws) - known) |->
                             Event("dart_detected", known + i)]
        /\ UNCHANGED <<initialized, autoStart, history>>

Observe(state) ==
    \/ Ignore(state)
    \/ Baseline(state)
    \/ RemoveDarts(state)
    \/ Withdraw(state)
    \/ StillRemoving(state)
    \/ TakeDarts(state)

\* Mutant: the baseline survives the gap.
Forget_Initialized ==
    /\ Commit(FALSE)
    /\ Rest(<<>>)
    /\ removing' = FALSE
    /\ events' = <<>>
    /\ UNCHANGED <<initialized, session, autoStart, history>>

\* baseline({}): after a gap nothing can be compared; the visit is folded
\* without being announced.
Forget ==
    /\ Commit(FALSE)
    /\ Rest(<<>>)
    /\ initialized' = FALSE
    /\ removing' = FALSE
    /\ events' = <<>>
    /\ UNCHANGED <<session, autoStart, history>>

-----------------------------------------------------------------------------
(* Session control.                                                        *)

Summary(totals) == [darts |-> totals.darts, points |-> totals.points]

\* Mutant: the visit in progress is left out of the summary.
Finished_Committed ==
    IF committed.darts > 0
    THEN Keep(<<Summary(committed)>> \o history, HistorySize) ELSE history

\* history once the running session is finished.
Finished ==
    IF Snapshot.darts > 0
    THEN Keep(<<Summary(Snapshot)>> \o history, HistorySize) ELSE history

\* start(): count from zero; darts on the board belong to no session.
Start ==
    /\ ~session
    /\ session' = TRUE
    /\ committed' = ZeroTotals
    /\ counting' = AllFalse(active)
    /\ events' = <<Event("session_started", 0)>>
    /\ UNCHANGED <<active, tracked, flags, autoStart, history, recent>>

\* end(): darts on the board stay with the ended session.
End ==
    /\ session
    /\ session' = FALSE
    /\ committed' = Snapshot
    /\ counting' = AllFalse(active)
    /\ history' = Finished
    /\ events' = <<Event("session_ended", Snapshot.darts)>>
    /\ UNCHANGED <<active, tracked, flags, autoStart, recent>>

\* new_session(): end a running session and start the next one.
NewSession ==
    /\ session' = TRUE
    /\ committed' = ZeroTotals
    /\ counting' = AllFalse(active)
    /\ history' = IF session THEN Finished ELSE history
    /\ events' = (IF session THEN <<Event("session_ended", Snapshot.darts)>> ELSE <<>>)
                 \o <<Event("session_started", 0)>>
    /\ UNCHANGED <<active, tracked, flags, autoStart, recent>>

SetAutoStart ==
    /\ autoStart' = ~autoStart
    /\ events' = <<>>
    /\ UNCHANGED <<board, flags, session, committed, history, recent>>

\* A restart after a save: restore(stored()) in a new object.  The totals
\* include the visit in progress, whose darts are not counted again.
Restart ==
    /\ committed' = Snapshot
    /\ Rest(<<>>)
    /\ initialized' = FALSE
    /\ removing' = FALSE
    /\ events' = <<>>
    /\ UNCHANGED <<session, autoStart, history, recent>>

Init ==
    /\ active = <<>> /\ tracked = <<>> /\ counting = <<>>
    /\ initialized = FALSE
    /\ removing = FALSE
    /\ session = TRUE
    /\ autoStart = TRUE
    /\ committed = ZeroTotals
    /\ history = <<>> /\ recent = <<>>
    /\ events = <<>>

\* MaxDarts bounds the darts of a session; the code has no such limit.
Next ==
    \/ \E state \in States :
         /\ state.throws # NoSegments => Snapshot.darts + Len(state.throws) <= MaxDarts
         /\ Observe(state)
    \/ Forget
    \/ Start
    \/ End
    \/ NewSession
    \/ SetAutoStart
    \/ Restart

Spec == Init /\ [][Next]_vars

-----------------------------------------------------------------------------
(* Properties.                                                             *)

Totals == [darts : Nat, points : Nat, visits : Nat, highest : Nat, hits : [Bed -> Nat]]

\* The types of the session's state (training.py, TrainingSession.__init__).
TypeOK ==
    /\ active \in Throws
    /\ tracked \in [DOMAIN active -> BOOLEAN]
    /\ counting \in [DOMAIN active -> BOOLEAN]
    /\ initialized \in BOOLEAN /\ removing \in BOOLEAN
    /\ session \in BOOLEAN /\ autoStart \in BOOLEAN
    /\ committed \in Totals

\* Only an announced dart of the running session counts: _counting is never
\* true for a dart of the baseline, nor while no session runs, whatever the
\* order of corrections, withdrawals, starts and ends.
CountingSound ==
    \A i \in DOMAIN active : counting[i] => tracked[i] /\ session

\* While darts are being removed, none of the darts still on the board is
\* announced or counted again; nor is any dart kept without a baseline.
RemovingQuiet ==
    /\ removing => initialized /\ active # <<>> /\ Tracked = {}
    /\ ~initialized => active = <<>>

\* CountersAgree: the counters, which _fold adds separately, tell the same story: a session
\* with darts has a visit, no visit is empty, and the best visit is at least
\* as good as the average one.
Agree(totals) ==
    /\ totals.visits <= totals.darts
    /\ totals.darts > 0 => totals.visits > 0
    /\ totals.highest <= totals.points
    /\ totals.points <= totals.highest * totals.visits

CountersAgree == Agree(Snapshot)

Says(kind) == \E i \in DOMAIN events : events[i].kind = kind
Heard(kind) == {i \in DOMAIN events : events[i].kind = kind}

\* What ends or interrupts a visit - a takeout, a missed takeout, a stop of
\* the detection, a gap, a restart, the end of the session - leaves the totals
\* as they are.  They change only with a dart that is announced, with a
\* session start, or when the board withdraws a detection.
ScoreIsKept ==
    [][ \/ Snapshot' = Snapshot
        \/ Says("dart_detected")' \/ Says("dart_corrected")'
        \/ Says("session_started")'
        \/ 0 < Len(active') /\ Len(active') < Len(active) /\ initialized' /\ ~removing'
      ]_vars

\* A visit whose darts leave the board is announced, with all of its darts,
\* unless the connection was lost or the program restarted in between.
VisitIsAnnounced ==
    [][ /\ Tracked # {} /\ Tracked' = {} /\ initialized'
        => \/ \E i \in DOMAIN events' :
               events'[i] = Event("visit_completed", Cardinality(Tracked))
           \/ 0 < Len(active') /\ Len(active') < Len(active) /\ ~removing'
      ]_vars

\* A finished session is kept, newest first, with the totals it had when it
\* ended, the visit in progress included, and nothing else writes the history:
\* no restart, gap, start or correction of a dart that is still on the board.
FinishedIsKept ==
    [][ IF session /\ Says("session_ended")' /\ Snapshot.darts > 0
        THEN history' # <<>> /\ Head(history') = Summary(Snapshot)
        ELSE history' = history
      ]_vars

\* The visit in progress, and what the last operation announced, as Ledger
\* sees them.
OpenVisit == [darts |-> Cardinality(Counted), points |-> Worth(CountedHits)]
Announced == [darts |-> Cardinality(Heard("dart_detected")),
              start |-> Says("session_started"), end |-> Says("session_ended")]

L == INSTANCE Ledger WITH
       running <- session, closed <- Summary(committed), open <- OpenVisit, told <- Announced

\* Whatever the board shows, in whatever order, and whenever sessions start and
\* end, every operation is one of Ledger: each announced dart counts once, in
\* the session that runs after it, and stays counted when its visit is closed.
ImplementsLedger == L!Spec
=============================================================================
