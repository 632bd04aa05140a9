---------------------------- MODULE SessionStore ----------------------------
(***************************************************************************)
(* How the coordinator keeps the training session (local_coordinator.py):  *)
(* what the board reports is saved with a delay, what a user commands at   *)
(* once and before it is announced, and a session without darts ends by    *)
(* itself.  Commands, the timers, the shutdown and a crash interleave at   *)
(* every await.                                                            *)
(*                                                                         *)
(* The store is Home Assistant's, while that runs: one writer at a time,   *)
(* in the order of arrival, who writes the latest data and not what it     *)
(* brought itself; a file is replaced as a whole.  What the session counts *)
(* is a number here; what it means is Training's concern.                  *)
(***************************************************************************)
EXTENDS Integers, Sequences, FiniteSets

CONSTANTS
    Pause,          \* idle_minutes, when the user wants a session to end
    Nothing,        \* None: no data, no time, no file
    Later,          \* data given as a function, called when it is written
    MaxCalls,       \* bound: commands that wait for their save
    MaxClock,       \* bound: time
    MaxChanges,     \* bound: changes of the session
    MaxCrashes      \* bound: crashes

ASSUME StoreAssumption ==
    /\ Pause \in Nat \ {0}
    /\ MaxCalls \in Nat /\ MaxClock \in Nat
    /\ MaxChanges \in Nat /\ MaxCrashes \in Nat

VARIABLES
    mem,            \* _stored(): the session in memory
    disk,           \* the file, or Nothing
    store,          \* the Store; see Stores below
    dirty,          \* _training_dirty
    timer,          \* when _idle_unsub fires, or Nothing
    phase,          \* of the coordinator: "up", "stopping", "saving", "off"
    clock,
    answered,       \* the latest change a command has announced as saved
    crashes

vars == <<mem, disk, store, dirty, timer, phase, clock, answered, crashes>>

Times == {Nothing} \cup 0..MaxClock

\* count: darts, visits, sessions; rev: which change it was, unknown to the code.
Contents == [rev : Nat, count : Nat, running : BOOLEAN, idle : BOOLEAN, last : Times]

\* Who saves: a command of a user, the idle end, the delayed save or the
\* shutdown; stored is what a command or the idle end wants to see saved.
Writer == [by : {"user", "idle"}, stored : Contents] \cup [by : {"delay", "stop"}]

\* line: who waits for or holds the write lock; writing: what its head writes.
Stores == [data : {Nothing, Later} \cup Contents, delay : BOOLEAN,
           line : Seq(Writer), writing : {Nothing} \cup Contents]

Waiting(kind) == {i \in DOMAIN store.line : store.line[i].by = kind}
Calling == Waiting("user") \cup Waiting("idle")

\* None and a function are no data, and None is no time.
ASSUME StoreValues ==
    /\ Nothing # Later /\ {Nothing, Later} \cap Contents = {}
    /\ Nothing \notin Nat

Same(a, b) == [a EXCEPT !.rev = 0] = [b EXCEPT !.rev = 0]
Latest(s, t) == IF s >= t THEN s ELSE t

-----------------------------------------------------------------------------
(* The store.                                                              *)

\* The holder of the lock takes the data; a delayed save is no longer needed.
Take(s, now) ==
    [s EXCEPT !.writing = IF s.data = Later THEN now ELSE s.data,
              !.data = Nothing, !.delay = FALSE]

\* A writer asks for the lock, and has it at once when nobody else does.
Enter(s, writer, now) ==
    IF s.line = <<>> THEN Take([s EXCEPT !.line = <<writer>>], now)
    ELSE [s EXCEPT !.line = Append(@, writer)]

Leave(s) == [s EXCEPT !.line = Tail(@), !.writing = Nothing]

DelaySave(s) == [s EXCEPT !.data = Later, !.delay = TRUE]
SaveNow(s, writer, now) == Enter([s EXCEPT !.data = now], writer, now)

-----------------------------------------------------------------------------
(* The idle end.                                                           *)

\* _idle_due: when a running session ends without darts, or Nothing.
Due(m) ==
    IF ~m.running \/ ~m.idle \/ m.last = Nothing THEN Nothing ELSE m.last + Pause

\* _schedule_idle_end replaces the timer.
Scheduled(m) == IF Due(m) = Nothing THEN Nothing ELSE Latest(Due(m), clock)

-----------------------------------------------------------------------------
(* Steps of the coordinator.                                               *)

\* Bounds: changes, and the time at which a pause still ends within MaxClock.
Bounded == mem.rev < MaxChanges /\ clock + Pause <= MaxClock

Counted(m) == [m EXCEPT !.rev = @ + 1, !.count = @ + 1]

Started(m) == [Counted(m) EXCEPT !.running = TRUE, !.last = clock]
Ended(m) == [Counted(m) EXCEPT !.running = FALSE]

\* Mutant: the change is left to the next save.
Report_Unsaved(m) ==
    /\ mem' = m
    /\ dirty' = TRUE
    /\ timer' = Scheduled(m)
    /\ UNCHANGED store

\* The end of _process when the session changed.
Report(m) ==
    /\ mem' = m
    /\ dirty' = TRUE
    /\ store' = DelaySave(store)
    /\ timer' = Scheduled(m)

\* What the board reports starts a session, is a dart or a visit, or takes a
\* detection back; async_receive ignores it once a shutdown was requested.
Observe ==
    /\ phase = "up" /\ Bounded
    /\ \/ ~mem.running /\ Report(Started(mem))
       \/ Report([Counted(mem) EXCEPT !.last = clock])
       \/ Report(Counted(mem))
    /\ UNCHANGED <<disk, phase, clock, answered, crashes>>

\* _async_training up to its await: save at once.
Call(kind, m) ==
    /\ mem' = m
    /\ store' = SaveNow(store, [by |-> kind, stored |-> m], m)
    /\ UNCHANGED <<disk, dirty, phase, clock, answered, crashes>>

Command(m) ==
    /\ phase = "up" /\ Bounded
    /\ Cardinality(Waiting("user")) < MaxCalls
    /\ Call("user", m)
    /\ UNCHANGED timer

\* Starting a running session, or ending one that is not, saves all the same.
StartSession == Command(IF mem.running THEN mem ELSE Started(mem))
EndSession == Command(IF mem.running THEN Ended(mem) ELSE mem)
NewSession == Command(Started(mem))
SetIdleMinutes == Command([mem EXCEPT !.rev = @ + 1, !.idle = ~@])

Overdue == IF Due(mem) = Nothing THEN FALSE ELSE Due(mem) <= clock

\* _async_end_idle; a dart may have moved the end.  A pause takes longer than
\* the save of the last idle end.
EndIdle ==
    /\ timer # Nothing /\ timer <= clock /\ Waiting("idle") = {}
    /\ \/ /\ ~Overdue
          /\ timer' = Scheduled(mem)
          /\ UNCHANGED <<mem, disk, store, dirty, phase, clock, answered, crashes>>
       \/ /\ Overdue
          /\ timer' = Nothing
          /\ Call("idle", Ended(mem))

\* Mutants: a finished save leaves nothing unsaved; the timer is left alone.
Announce_Clean(stored) ==
    /\ dirty' = FALSE
    /\ timer' = Scheduled(mem)
    /\ answered' = Latest(answered, stored.rev)
    /\ UNCHANGED phase
Announce_Unscheduled(stored) ==
    /\ dirty' = ~Same(mem, stored)
    /\ answered' = Latest(answered, stored.rev)
    /\ UNCHANGED <<timer, phase>>

\* _async_training after its await.
Announce(stored) ==
    /\ dirty' = ~Same(mem, stored)
    /\ timer' = Scheduled(mem)
    /\ answered' = Latest(answered, stored.rev)
    /\ UNCHANGED phase

\* What follows when the writer's save has ended.
Finish(writer) ==
    \/ writer.by \in {"user", "idle"} /\ Announce(writer.stored)
    \/ writer.by = "delay" /\ UNCHANGED <<dirty, timer, answered, phase>>
    \/ /\ writer.by = "stop"
       /\ dirty' = FALSE /\ phase' = "off"
       /\ UNCHANGED <<timer, answered>>

\* Five seconds after the last report; a write takes less than that.
DelayEnds ==
    /\ store.delay
    /\ Waiting("delay") = {}
    /\ store' = Enter([store EXCEPT !.delay = FALSE], [by |-> "delay"], mem)
    /\ UNCHANGED <<mem, disk, dirty, timer, phase, clock, answered, crashes>>

\* The next writer is woken, and finds its data written by another or not.
Wake ==
    /\ store.line # <<>> /\ store.writing = Nothing
    /\ \/ /\ store.data # Nothing
          /\ store' = Take(store, mem)
          /\ UNCHANGED <<dirty, timer, answered, phase>>
       \/ /\ store.data = Nothing
          /\ store' = Leave(store)
          /\ Finish(Head(store.line))
    /\ UNCHANGED <<mem, disk, clock, crashes>>

WriteEnds ==
    /\ store.writing # Nothing
    /\ disk' = store.writing
    /\ store' = Leave(store)
    /\ Finish(Head(store.line))
    /\ UNCHANGED <<mem, clock, crashes>>

\* async_shutdown up to the end of the stream.
StopBegins ==
    /\ phase = "up"
    /\ phase' = "stopping"
    /\ UNCHANGED <<mem, disk, store, dirty, timer, clock, answered, crashes>>

\* Cancel the timer and save what changed since the last save.
StopSaves ==
    /\ phase = "stopping"
    /\ timer' = Nothing
    /\ IF dirty THEN phase' = "saving" /\ store' = SaveNow(store, [by |-> "stop"], mem)
                ELSE phase' = "off" /\ UNCHANGED store
    /\ UNCHANGED <<mem, disk, dirty, clock, answered, crashes>>

Fresh == [rev |-> 0, count |-> 0, running |-> TRUE, idle |-> FALSE, last |-> Nothing]

Restored(file) == IF file = Nothing THEN Fresh ELSE file
Empty == [data |-> Nothing, delay |-> FALSE, line |-> <<>>, writing |-> Nothing]

\* Mutant: the idle end is scheduled only when the session changes.
Setup_Unscheduled(file) ==
    /\ mem' = Restored(file)
    /\ disk' = file
    /\ dirty' = (file = Nothing)
    /\ store' = IF file = Nothing THEN DelaySave(Empty) ELSE Empty
    /\ timer' = Nothing
    /\ phase' = "up"
    /\ UNCHANGED <<clock, answered>>

\* _async_setup and async_start of a new coordinator.
Setup(file) ==
    /\ mem' = Restored(file)
    /\ disk' = file
    /\ dirty' = (file = Nothing)
    /\ store' = IF file = Nothing THEN DelaySave(Empty) ELSE Empty
    /\ timer' = Scheduled(Restored(file))
    /\ phase' = "up"
    /\ UNCHANGED <<clock, answered>>

\* After a shutdown whose writers are done.
Restart ==
    /\ phase = "off" /\ store.line = <<>>
    /\ Setup(disk)
    /\ UNCHANGED crashes

\* The file is the old or the new one when the crash hits a write.
Crash ==
    /\ crashes < MaxCrashes
    /\ crashes' = crashes + 1
    /\ \E file \in {disk} \cup ({store.writing} \ {Nothing}) : Setup(file)

Tick ==
    /\ clock < MaxClock
    /\ clock' = clock + 1
    /\ UNCHANGED <<mem, disk, store, dirty, timer, phase, answered, crashes>>

Init ==
    /\ mem = Fresh
    /\ disk = Nothing
    /\ dirty = TRUE
    /\ store = DelaySave(Empty)
    /\ timer = Nothing
    /\ phase = "up"
    /\ clock = 0 /\ answered = 0 /\ crashes = 0

Next ==
    \/ Observe
    \/ StartSession \/ EndSession \/ NewSession \/ SetIdleMinutes
    \/ EndIdle
    \/ DelayEnds \/ Wake \/ WriteEnds
    \/ StopBegins \/ StopSaves \/ Restart \/ Crash
    \/ Tick

\* Time passes, due timers fire, and the store's writes end.
Fairness == WF_vars(Tick) /\ WF_vars(EndIdle) /\ WF_vars(Wake) /\ WF_vars(WriteEnds)

Spec == Init /\ [][Next]_vars /\ Fairness

-----------------------------------------------------------------------------
(* Properties.                                                             *)

\* The types of the coordinator's state, the store's and the file's.
TypeOK ==
    /\ mem \in Contents
    /\ disk \in {Nothing} \cup Contents
    /\ store \in Stores
    /\ dirty \in BOOLEAN
    /\ timer \in {Nothing} \cup Nat
    /\ phase \in {"up", "stopping", "saving", "off"}
    /\ clock \in 0..MaxClock /\ answered \in Nat /\ crashes \in 0..MaxCrashes

\* The changes, the file and the announcements are those of Durable: no crash
\* takes an announced command back, although another writer may have written
\* it, no writer replaces the file by an older state, and a shutdown with the
\* writes under way then loses nothing.
FileRev(file) == IF file = Nothing THEN 0 ELSE file.rev

D == INSTANCE Durable WITH now <- mem.rev, saved <- FileRev(disk), told <- answered

ImplementsDurable == D!Spec

\* While the file lacks something, a save is due or under way, whatever
\* commands and delayed saves do to each other's data.
NothingForgotten ==
    disk = Nothing \/ ~Same(disk, mem) => store.delay \/ store.line # <<>>

\* With no command under way, the timer runs for the end of the pause, and
\* only then: no order of darts, commands and settings leaves it out.
TimerFits ==
    phase = "up" /\ Calling = {} =>
        IF Due(mem) = Nothing THEN timer = Nothing
        ELSE timer # Nothing /\ timer <= Latest(Due(mem), clock)

\* A paused session ends, also when the pause passed while the program was
\* not running.
PauseEnds ==
    (phase = "up" /\ Due(mem) # Nothing) ~> (phase # "up" \/ Due(mem) = Nothing)
=============================================================================
