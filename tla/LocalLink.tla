----------------------------- MODULE LocalLink ------------------------------
(***************************************************************************)
(* The local coordinator between the board and the training session        *)
(* (local_coordinator.py): realtime messages over a WebSocket, reconciled  *)
(* with HTTP polls, over connections that break.                           *)
(*                                                                         *)
(* The board is the environment: it detects, corrects and withdraws darts, *)
(* has them pulled, and stops and starts its detection.  Every change is a *)
(* report with a version, sent over the socket while that is up; a poll    *)
(* reads the current report.  Darts carry an identity the program does not *)
(* see, for the properties only.                                           *)
(***************************************************************************)
EXTENDS Training

CONSTANTS
    InOrder,        \* no HTTP answer overtakes a message sent before it
    Fixing,         \* whether the board corrects and withdraws detections
    MaxThrown,      \* bound: darts thrown
    MaxVersion,     \* bound: changes of the board
    MaxQueue,       \* bound: messages under way
    MaxFaults,      \* bound: broken connections, failed polls and reloads
    Nobody          \* no report

ASSUME LinkAssumption ==
    /\ InOrder \in BOOLEAN /\ Fixing \subseteq BOOLEAN
    /\ MaxThrown \in Nat /\ MaxVersion \in Nat
    /\ MaxQueue \in Nat /\ MaxFaults \in Nat

VARIABLES
    report,         \* what the board sees: version, running, status, darts
    thrown,         \* darts thrown so far; also the identity of the last one
    followed,       \* darts thrown while every report reached the coordinator
    left,           \* darts on the board when a takeout ended
    link,           \* the event stream: "up", "broken" unnoticed, or "down"
    queue,          \* messages under way to async_receive
    poll,           \* the phase of _async_update_data: idle, asked, answered
    answer,         \* the report the poll has read, or Nobody
    overtaken,      \* the revision of `local' changed since the poll began
    shown,          \* data["local"], or Nobody before the first read
    available,      \* last_update_success
    detected,       \* how often each dart was announced as detected
    fixing,         \* the board corrects and withdraws detections
    faults          \* faults so far

boardVars == <<report, thrown, followed, left, fixing>>
linkVars == <<link, queue>>
pollVars == <<poll, answer, overtaken>>
viewVars == <<shown, available, detected>>
lvars == <<vars, boardVars, linkVars, pollVars, viewVars, faults>>

Dart == [id : 1..MaxThrown, bed : Bed]
Report == [version : Nat, running : BOOLEAN, status : {"throw", "takeout"}, darts : Seq(Dart)]

ASSUME NobodyAssumption == Nobody \notin Report

\* The message a report makes: the beds without the darts' identities.
StateOf(r) ==
    [running |-> r.running, status |-> r.status,
     throws |-> [i \in DOMAIN r.darts |-> r.darts[i].bed]]

\* stream_connected: the coordinator learns of a broken stream late.
StreamConnected == link # "down"

\* Every report so far has been processed or is under way, after a baseline.
UpToDate ==
    /\ link = "up" /\ initialized
    /\ shown.version + Len(queue) >= report.version

-----------------------------------------------------------------------------
(* The board.                                                              *)

\* Every change is a new report, sent while the socket is up.
Reports(running, status, darts) ==
    /\ report.version < MaxVersion
    /\ Len(queue) < MaxQueue
    /\ report' = [version |-> report.version + 1, running |-> running,
                  status |-> status, darts |-> darts]
    /\ queue' = IF link = "up" THEN Append(queue, report') ELSE queue
    /\ UNCHANGED <<vars, link, pollVars, viewVars, faults>>

Detects == report.running /\ report.status = "throw"

\* Corrections are made while the stream follows the board, and in behaviours
\* without faults: after a gap a correction looks like a new dart.
Fixes == fixing /\ UpToDate

Throw(b) ==
    /\ Detects
    /\ thrown < MaxThrown
    /\ Len(report.darts) < MaxThrows
    /\ thrown' = thrown + 1
    /\ followed' = IF UpToDate THEN followed \cup {thrown + 1} ELSE followed
    /\ Reports(TRUE, "throw", Append(report.darts, [id |-> thrown + 1, bed |-> b]))
    /\ UNCHANGED <<left, fixing>>

Correct(i, b) ==
    /\ Detects /\ Fixes
    /\ report.darts[i].bed # b
    /\ Reports(TRUE, "throw", [report.darts EXCEPT ![i].bed = b])
    /\ UNCHANGED <<thrown, followed, left, fixing>>

\* The darts without the one at place i.
Without(darts, i) == SubSeq(darts, 1, i - 1) \o SubSeq(darts, i + 1, Len(darts))

\* A detection that was none is withdrawn.
WithdrawDetection(i) ==
    /\ Detects /\ Fixes
    /\ Reports(TRUE, "throw", Without(report.darts, i))
    /\ UNCHANGED <<thrown, followed, left, fixing>>

BeginTakeout ==
    /\ Detects /\ report.darts # <<>>
    /\ Reports(TRUE, "takeout", report.darts)
    /\ UNCHANGED <<thrown, followed, left, fixing>>

Pull(i) ==
    /\ report.status = "takeout"
    /\ Reports(report.running, "takeout", Without(report.darts, i))
    /\ UNCHANGED <<thrown, followed, left, fixing>>

\* A takeout ends; a dart may be left on the board.
Leaves ==
    left' = IF report.status = "takeout"
            THEN left \cup {report.darts[i].id : i \in DOMAIN report.darts}
            ELSE left

EndTakeout ==
    /\ report.status = "takeout"
    /\ Leaves
    /\ Reports(report.running, "throw", report.darts)
    /\ UNCHANGED <<thrown, followed, fixing>>

\* The detection is stopped or started; a stop ends a takeout.
Toggle ==
    /\ Leaves
    /\ Reports(~report.running, "throw", report.darts)
    /\ UNCHANGED <<thrown, followed, fixing>>

BoardStep ==
    \/ \E b \in Bed : Throw(b)
    \/ \E i \in DOMAIN report.darts, b \in Bed : Correct(i, b)
    \/ \E i \in DOMAIN report.darts : WithdrawDetection(i) \/ Pull(i)
    \/ BeginTakeout
    \/ EndTakeout
    \/ Toggle

-----------------------------------------------------------------------------
(* The coordinator.                                                        *)

\* _process of a `local' value: the training session observes the report.
Process(r) ==
    /\ Observe(StateOf(r))
    /\ shown' = r
    /\ available' = TRUE
    /\ detected' = [d \in DOMAIN detected |->
         detected[d] + Cardinality({i \in DOMAIN events' :
            events'[i].kind = "dart_detected" /\ r.darts[events'[i].n].id = d})]

\* Mutant: a message does not overtake a poll.
Receive_Silent ==
    /\ queue # <<>>
    /\ Process(Head(queue))
    /\ queue' = Tail(queue)
    /\ UNCHANGED <<boardVars, link, pollVars, faults>>

\* async_receive: the next message, whose revision overtakes a running poll.
Receive ==
    /\ queue # <<>>
    /\ Process(Head(queue))
    /\ queue' = Tail(queue)
    /\ overtaken' = (poll # "idle")
    /\ UNCHANGED <<boardVars, link, poll, answer, faults>>

\* _async_update_data begins: the revisions are noted, the state is read.
PollStart ==
    /\ poll = "idle"
    /\ poll' = "asked" /\ overtaken' = FALSE
    /\ UNCHANGED <<vars, boardVars, linkVars, answer, viewVars, faults>>

\* The board answers with what it sees now.
PollAnswer ==
    /\ poll = "asked"
    /\ poll' = "answered" /\ answer' = report
    /\ UNCHANGED <<vars, boardVars, linkVars, overtaken, viewVars, faults>>

\* Mutants: an overtaken answer is kept; answers are dropped while the
\* stream is connected.
PollDone_Always ==
    /\ poll = "answered"
    /\ poll' = "idle" /\ answer' = Nobody /\ overtaken' = FALSE
    /\ Process(answer)
    /\ UNCHANGED <<boardVars, linkVars, faults>>

PollDone_Disconnected ==
    /\ poll = "answered"
    /\ poll' = "idle" /\ answer' = Nobody /\ overtaken' = FALSE
    /\ IF StreamConnected /\ shown # Nobody
       THEN available' = TRUE /\ UNCHANGED <<vars, shown, detected>>
       ELSE Process(answer)
    /\ UNCHANGED <<boardVars, linkVars, faults>>

\* The reads complete: the answer is dropped if a message was processed in
\* the meantime, and kept otherwise.
PollDone ==
    /\ poll = "answered"
    /\ InOrder => \A i \in DOMAIN queue : queue[i].version > answer.version
    /\ poll' = "idle" /\ answer' = Nobody /\ overtaken' = FALSE
    /\ IF overtaken
       THEN available' = TRUE /\ UNCHANGED <<vars, shown, detected>>
       ELSE Process(answer)
    /\ UNCHANGED <<boardVars, linkVars, faults>>

Fault == ~fixing /\ faults < MaxFaults /\ faults' = faults + 1

\* The read fails: no outage while the stream delivers and data exists.
PollFails ==
    /\ Fault
    /\ poll # "idle"
    /\ poll' = "idle" /\ answer' = Nobody /\ overtaken' = FALSE
    /\ available' = (StreamConnected /\ shown # Nobody)
    /\ IF StreamConnected THEN UNCHANGED vars ELSE Forget
    /\ UNCHANGED <<boardVars, linkVars, shown, detected>>

-----------------------------------------------------------------------------
(* The event stream: _listen.                                              *)

\* The connection breaks; the coordinator notices it later.
Break ==
    /\ Fault
    /\ link = "up"
    /\ link' = "broken"
    /\ UNCHANGED <<vars, boardVars, queue, pollVars, viewVars>>

\* The stream ends: a visit cannot be told from a new one after the gap.
Gap ==
    /\ link = "broken"
    /\ link' = "down" /\ queue' = <<>>
    /\ Forget
    /\ followed' = {}
    /\ UNCHANGED <<report, thrown, left, fixing, pollVars, viewVars, faults>>

Connect ==
    /\ link = "down"
    /\ link' = "up"
    /\ UNCHANGED <<vars, boardVars, queue, pollVars, viewVars, faults>>

\* The entry is reloaded after its sessions were saved (async_shutdown).
Reload ==
    /\ Fault
    /\ link' = "down" /\ queue' = <<>>
    /\ poll' = "idle" /\ answer' = Nobody /\ overtaken' = FALSE
    /\ shown' = Nobody /\ available' = FALSE
    /\ Restart
    /\ followed' = {}
    /\ UNCHANGED <<report, thrown, left, fixing, detected>>

LinkInit ==
    /\ Init
    /\ report = [version |-> 0, running |-> TRUE, status |-> "throw", darts |-> <<>>]
    /\ thrown = 0 /\ followed = {} /\ left = {}
    /\ link = "down" /\ queue = <<>>
    /\ poll = "idle" /\ answer = Nobody /\ overtaken = FALSE
    /\ shown = Nobody /\ available = FALSE
    /\ detected = [d \in 1..MaxThrown |-> 0]
    /\ fixing \in Fixing
    /\ faults = 0

LinkNext ==
    \/ BoardStep
    \/ Receive
    \/ PollStart \/ PollAnswer \/ PollDone \/ PollFails
    \/ Break \/ Gap \/ Connect \/ Reload

\* The event loop runs what is ready, polls are repeated, and _listen
\* reconnects: each is taken again and again.  The board owes nothing.
LinkFairness ==
    /\ WF_lvars(Receive) /\ WF_lvars(PollStart) /\ WF_lvars(PollAnswer)
    /\ WF_lvars(PollDone) /\ WF_lvars(Gap) /\ WF_lvars(Connect)

LinkSpec == LinkInit /\ [][LinkNext]_lvars /\ LinkFairness

-----------------------------------------------------------------------------
(* Properties.                                                             *)

\* No dart is announced twice, over messages, polls that repeat or overtake
\* them, gaps, reloads and the board's own corrections; except one that stays
\* on the board when a takeout ends, if nothing of that takeout was seen.
CountedOnce == \A d \in 1..MaxThrown : detected[d] <= 1 \/ d \in left

\* A dart whose reports all reach the coordinator is announced: none is lost
\* to a poll in between, to a takeout or to a stop of the detection.
NoDartLost ==
    \A d \in followed :
        shown # Nobody /\ (\E i \in DOMAIN shown.darts : shown.darts[i].id = d)
        => detected[d] > 0

\* A slow poll never takes the view back: what is shown never gets older.
NoStaleOverwrite ==
    [][ shown # Nobody /\ shown' # Nobody => shown'.version >= shown.version ]_lvars

\* A session that can compare is comparing with what is shown: after a gap
\* or an outage, nothing counts before a new baseline.
BaselineIsShown ==
    initialized => available /\ shown # Nobody /\ active = StateOf(shown).throws

InSync == initialized /\ available /\ shown = report

\* Once the board rests and no more faults occur, the session holds what the
\* board reports, even if every message about it was lost.
EventuallyInSync == <>[]InSync
=============================================================================
