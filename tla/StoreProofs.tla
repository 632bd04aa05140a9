---------------------------- MODULE StoreProofs -----------------------------
(***************************************************************************)
(* SessionStore implements Durable, for every pause and all bounds.        *)
(*                                                                         *)
(* The revisions on the way to the file are ordered: announced, in the     *)
(* file, being written, to be written, in memory (Chain).  Who waits for a *)
(* save finds its change no later than that save (Wants).  And what is in  *)
(* memory and in no write under way is known to be unsaved (Covered),      *)
(* which is why a stop loses nothing.                                      *)
(***************************************************************************)
EXTENDS SessionStore, SequenceTheorems, TLAPS

IsCall(writer) == writer.by \in {"user", "idle"}

\* The change the file has when the write under way has ended.
Written == IF store.writing = Nothing THEN FileRev(disk) ELSE store.writing.rev

\* The change the file has when all data of the store are written.
Pending ==
    IF store.data = Nothing THEN Written
    ELSE IF store.data = Later THEN mem.rev ELSE store.data.rev

Chain ==
    /\ answered <= FileRev(disk)
    /\ FileRev(disk) <= Written
    /\ Written <= Pending
    /\ Pending <= mem.rev

\* Nobody writes without the lock, and the shutdown saves once.
Holder ==
    /\ store.line = <<>> => store.writing = Nothing
    /\ \A i \in DOMAIN store.line : store.line[i].by = "stop" =>
         /\ phase = "saving"
         /\ \A j \in DOMAIN store.line : store.line[j].by = "stop" => j = i

Wants ==
    \A i \in DOMAIN store.line : IsCall(store.line[i]) =>
        /\ store.line[i].stored.rev <= Pending
        /\ store.line[i].stored.count <= mem.count
        /\ i = 1 /\ store.writing # Nothing => store.line[i].stored.rev <= Written

\* The file has the session, or a command saves it, or it was changed by the
\* board after every command that is still waiting, or the shutdown saves it.
Covered ==
    \/ FileRev(disk) = mem.rev
    \/ \E i \in DOMAIN store.line :
          IsCall(store.line[i]) /\ store.line[i].stored.rev = mem.rev
    \/ /\ dirty /\ phase \in {"up", "stopping"}
       /\ \A i \in DOMAIN store.line :
             IsCall(store.line[i]) => store.line[i].stored.count < mem.count
    \/ \E i \in DOMAIN store.line :
          /\ store.line[i].by = "stop"
          /\ Pending = mem.rev
          /\ i = 1 /\ store.writing # Nothing => Written = mem.rev

\* The newest data on the way are those in memory, and somebody will write them.
Kept ==
    /\ store.data \in {Nothing, Later, mem}
    /\ store.data # Nothing =>
         store.delay \/ Len(store.line) >= (IF store.writing = Nothing THEN 1 ELSE 2)
    /\ store.data = Nothing /\ store.writing # Nothing => store.writing = mem
    /\ store.data = Nothing /\ store.writing = Nothing => disk = mem

IInv == TypeOK /\ Chain /\ Holder /\ Wants /\ Covered

-----------------------------------------------------------------------------
(* The store.                                                              *)

\* A writer that asks for the lock is the last in the line; alone there, it
\* takes the data.
LEMMA Entered ==
    ASSUME NEW s \in Stores, NEW w \in Writer, NEW m \in Contents,
           s.line = <<>> => s.writing = Nothing
    PROVE  /\ Enter(s, w, m) \in Stores
           /\ Len(Enter(s, w, m).line) = Len(s.line) + 1
           /\ Enter(s, w, m).line[Len(s.line) + 1] = w
           /\ \A i \in 1..Len(s.line) : Enter(s, w, m).line[i] = s.line[i]
           /\ s.line = <<>> =>
                /\ Enter(s, w, m).writing = (IF s.data = Later THEN m ELSE s.data)
                /\ Enter(s, w, m).data = Nothing
           /\ s.line # <<>> =>
                /\ Enter(s, w, m).writing = s.writing
                /\ Enter(s, w, m).data = s.data
<1>1. CASE s.line = <<>>
  <2>1. Enter(s, w, m) = [data |-> Nothing, delay |-> FALSE, line |-> <<w>>,
                          writing |-> IF s.data = Later THEN m ELSE s.data]
    BY <1>1 DEF Enter, Take, Stores
  <2>2. <<w>> \in Seq(Writer) /\ Len(<<w>>) = 1 /\ <<w>>[1] = w
    OBVIOUS
  <2>3. (IF s.data = Later THEN m ELSE s.data) \in {Nothing} \cup Contents
    BY DEF Stores
  <2> QED BY <1>1, <2>1, <2>2, <2>3 DEF Stores
<1>2. CASE s.line # <<>>
  <2>1. Enter(s, w, m) = [data |-> s.data, delay |-> s.delay, line |-> Append(s.line, w),
                          writing |-> s.writing]
    BY <1>2 DEF Enter, Stores
  <2>2. s.line \in Seq(Writer)
    BY DEF Stores
  <2> QED BY <1>2, <2>1, <2>2, AppendProperties DEF Stores
<1> QED BY <1>1, <1>2

\* A writer that is done leaves the line to the next one.
LEMMA Left ==
    ASSUME NEW s \in Stores, s.line # <<>>
    PROVE  /\ Leave(s) \in Stores
           /\ Len(Leave(s).line) = Len(s.line) - 1
           /\ \A i \in 1..(Len(s.line) - 1) : Leave(s).line[i] = s.line[i + 1]
           /\ Leave(s).writing = Nothing /\ Leave(s).data = s.data
           /\ Leave(s).delay = s.delay
<1> DEFINE rest == [s EXCEPT !.line = Tail(@)]
<1> DEFINE whole == [data |-> s.data, delay |-> s.delay, line |-> s.line,
                     writing |-> s.writing]
<1>0. s = whole
  BY DEF Stores
<1>1. rest = [data |-> s.data, delay |-> s.delay, line |-> Tail(s.line),
              writing |-> s.writing]
  <2>1. rest = [whole EXCEPT !.line = Tail(s.line)]
    BY <1>0
  <2> QED BY <2>1
<1>2. Leave(s) = [rest EXCEPT !.writing = Nothing]
  BY DEF Leave
<1>3. Leave(s) = [data |-> s.data, delay |-> s.delay, line |-> Tail(s.line),
                  writing |-> Nothing]
  BY <1>1, <1>2
<1>4. s.line \in Seq(Writer)
  BY DEF Stores
<1>5. /\ Tail(s.line) \in Seq(Writer)
      /\ Len(Tail(s.line)) = Len(s.line) - 1
      /\ \A i \in 1..Len(Tail(s.line)) : Tail(s.line)[i] = s.line[i + 1]
  BY <1>4, HeadTailProperties
<1> QED BY <1>3, <1>5 DEF Stores

\* A delayed save leaves who waits for and holds the lock alone.
LEMMA Delayed ==
    ASSUME NEW s \in Stores
    PROVE  /\ DelaySave(s) \in Stores /\ DelaySave(s).data = Later
           /\ DelaySave(s).line = s.line /\ DelaySave(s).writing = s.writing
<1> DEFINE late == [s EXCEPT !.data = Later]
<1>1. late \in Stores /\ late.line = s.line /\ late.writing = s.writing
      /\ late.data = Later
  BY DEF Stores
<1>2. DelaySave(s) = [late EXCEPT !.delay = TRUE]
  BY DEF DelaySave
<1> HIDE DEF late
<1> QED BY <1>1, <1>2 DEF Stores

\* The next holder of the lock takes the data.
LEMMA Taken ==
    ASSUME NEW s \in Stores, NEW m \in Contents, s.data # Nothing
    PROVE  /\ Take(s, m) \in Stores
           /\ Take(s, m).line = s.line
           /\ Take(s, m).writing = (IF s.data = Later THEN m ELSE s.data)
           /\ Take(s, m).writing # Nothing
           /\ Take(s, m).data = Nothing
<1> DEFINE what == IF s.data = Later THEN m ELSE s.data
           given == [s EXCEPT !.writing = what]
           told == [given EXCEPT !.data = Nothing]
<1>1. given = [data |-> s.data, delay |-> s.delay, line |-> s.line, writing |-> what]
  BY DEF Stores
<1> HIDE DEF what, given
<1>2. told = [data |-> Nothing, delay |-> s.delay, line |-> s.line, writing |-> what]
  BY <1>1
<1>3. Take(s, m) = [told EXCEPT !.delay = FALSE]
  BY DEF Take, what, given
<1> HIDE DEF told
<1>4. Take(s, m) = [data |-> Nothing, delay |-> FALSE, line |-> s.line, writing |-> what]
  BY <1>2, <1>3
<1>5. what \in Contents
  BY DEF Stores, what
<1>6. Nothing \notin Contents
  BY StoreValues
<1> QED BY <1>4, <1>5, <1>6 DEF Stores, what

-----------------------------------------------------------------------------
(* The types.                                                              *)

\* The idle end is at a time, or never.
LEMMA TimerTypes ==
    ASSUME NEW m \in Contents, clock \in Nat
    PROVE  Scheduled(m) \in {Nothing} \cup Nat
<1>1. Due(m) \in {Nothing} \cup Nat
  BY StoreAssumption DEF Due, Contents, Times
<1> QED BY <1>1 DEF Scheduled, Latest

\* A field that is changed leaves the others alone.
LEMMA Fields ==
    ASSUME NEW m \in Contents, NEW n \in Nat, NEW t \in Times
    PROVE  /\ /\ [m EXCEPT !.rev = n] \in Contents
              /\ [m EXCEPT !.rev = n].rev = n /\ [m EXCEPT !.rev = n].count = m.count
           /\ /\ [m EXCEPT !.count = n] \in Contents
              /\ [m EXCEPT !.count = n].rev = m.rev /\ [m EXCEPT !.count = n].count = n
           /\ /\ [m EXCEPT !.last = t] \in Contents
              /\ [m EXCEPT !.last = t].rev = m.rev
              /\ [m EXCEPT !.last = t].count = m.count
BY DEF Contents

\* So does a flag.
LEMMA Flags ==
    ASSUME NEW m \in Contents
    PROVE  /\ /\ [m EXCEPT !.running = TRUE] \in Contents
              /\ [m EXCEPT !.running = TRUE].rev = m.rev
              /\ [m EXCEPT !.running = TRUE].count = m.count
           /\ /\ [m EXCEPT !.running = FALSE] \in Contents
              /\ [m EXCEPT !.running = FALSE].rev = m.rev
              /\ [m EXCEPT !.running = FALSE].count = m.count
           /\ /\ [m EXCEPT !.idle = ~@] \in Contents
              /\ [m EXCEPT !.idle = ~@].rev = m.rev
              /\ [m EXCEPT !.idle = ~@].count = m.count
BY DEF Contents

\* Two sessions that count differently are not the same.
LEMMA Differ ==
    ASSUME NEW a \in Contents, NEW b \in Contents, a.count # b.count
    PROVE  ~Same(a, b)
<1>1. [a EXCEPT !.rev = 0].count = a.count /\ [b EXCEPT !.rev = 0].count = b.count
  BY DEF Contents
<1> QED BY <1>1 DEF Same

\* What the session may become is typed, and one change further.
LEMMA ChangeTypes ==
    ASSUME NEW m \in Contents, clock \in 0..MaxClock
    PROVE  /\ \A c \in {Counted(m), [Counted(m) EXCEPT !.last = clock],
                        Started(m), Ended(m)} :
                 c \in Contents /\ c.rev = m.rev + 1 /\ c.count = m.count + 1
           /\ [m EXCEPT !.rev = @ + 1, !.idle = ~@] \in Contents
           /\ [m EXCEPT !.rev = @ + 1, !.idle = ~@].rev = m.rev + 1
           /\ [m EXCEPT !.rev = @ + 1, !.idle = ~@].count = m.count
           /\ Fresh \in Contents /\ Fresh.rev = 0
<1>0. clock \in Times /\ m.rev + 1 \in Nat /\ m.count + 1 \in Nat
  BY DEF Contents, Times
<1> DEFINE next == [m EXCEPT !.rev = m.rev + 1]
           more == [next EXCEPT !.count = m.count + 1]
           run == [more EXCEPT !.running = TRUE]
<1>1. next \in Contents /\ next.rev = m.rev + 1 /\ next.count = m.count
  BY <1>0, Fields
<1>2. Counted(m) = more
  <2>1. next.count = m.count
    BY <1>1
  <2> QED BY <2>1 DEF Counted
<1>3. [m EXCEPT !.rev = @ + 1, !.idle = ~@] = [next EXCEPT !.idle = ~@]
  OBVIOUS
<1> HIDE DEF next
<1>4. more \in Contents /\ more.rev = m.rev + 1 /\ more.count = m.count + 1
  BY <1>0, <1>1, Fields
<1>5. [m EXCEPT !.rev = @ + 1, !.idle = ~@] \in Contents
      /\ [m EXCEPT !.rev = @ + 1, !.idle = ~@].rev = m.rev + 1
      /\ [m EXCEPT !.rev = @ + 1, !.idle = ~@].count = m.count
  <2>1. /\ [next EXCEPT !.idle = ~@] \in Contents
        /\ [next EXCEPT !.idle = ~@].rev = next.rev
        /\ [next EXCEPT !.idle = ~@].count = next.count
    BY <1>1, Flags
  <2> QED BY <1>1, <1>3, <2>1
<1>6. Started(m) = [run EXCEPT !.last = clock]
  BY <1>2 DEF Started
<1>7. Ended(m) = [more EXCEPT !.running = FALSE]
  BY <1>2 DEF Ended
<1> HIDE DEF more
<1>8. run \in Contents /\ run.rev = m.rev + 1 /\ run.count = m.count + 1
  BY <1>4, Flags
<1> HIDE DEF run
<1>9. /\ Started(m) \in Contents
      /\ Started(m).rev = m.rev + 1 /\ Started(m).count = m.count + 1
  <2>1. /\ [run EXCEPT !.last = clock] \in Contents
        /\ [run EXCEPT !.last = clock].rev = run.rev
        /\ [run EXCEPT !.last = clock].count = run.count
    BY <1>0, <1>8, Fields
  <2> QED BY <1>6, <1>8, <2>1
<1>10. /\ Ended(m) \in Contents
       /\ Ended(m).rev = m.rev + 1 /\ Ended(m).count = m.count + 1
  BY <1>4, <1>7, Flags
<1>11. /\ [more EXCEPT !.last = clock] \in Contents
       /\ [more EXCEPT !.last = clock].rev = m.rev + 1
       /\ [more EXCEPT !.last = clock].count = m.count + 1
  BY <1>0, <1>4, Fields
<1>12. Fresh \in Contents /\ Fresh.rev = 0
  BY DEF Fresh, Contents, Times
<1> QED BY <1>2, <1>4, <1>5, <1>9, <1>10, <1>11, <1>12

\* The revisions are numbers.
LEMMA Numbers ==
    ASSUME TypeOK
    PROVE  /\ mem.rev \in Nat /\ mem.count \in Nat /\ FileRev(disk) \in Nat
           /\ Written \in Nat /\ Pending \in Nat /\ answered \in Nat
           /\ \A i \in DOMAIN store.line : IsCall(store.line[i]) =>
                 store.line[i].stored \in Contents
BY DEF TypeOK, FileRev, Written, Pending, Stores, Contents, IsCall, Writer

-----------------------------------------------------------------------------
(* What the steps of the store keep.                                       *)

\* What is to be written once the data are d and the session is m.
Outcome(d, m) == IF d = Nothing THEN Written ELSE IF d = Later THEN m.rev ELSE d.rev

\* A writer that asks for the lock, with data no older than those before, keeps
\* the order and everybody's wants.
LEMMA EnterKeeps ==
    ASSUME TypeOK, Chain, Holder, Wants,
           NEW s \in Stores, NEW w \in Writer,
           s.line = store.line, s.writing = store.writing,
           mem' \in Contents, mem'.rev >= mem.rev, mem'.count >= mem.count,
           \/ s.data = mem'
           \/ s.data = store.data /\ mem' = mem /\ ~IsCall(w) /\ w.by # "stop",
           IsCall(w) => w.stored = mem',
           store' = Enter(s, w, mem'),
           disk' = disk, answered' = answered,
           phase' = phase \/ phase # "saving",
           w.by = "stop" => phase # "saving" /\ phase' = "saving"
    PROVE  /\ store' \in Stores
           /\ Chain' /\ Holder' /\ Wants'
           /\ Len(store'.line) = Len(store.line) + 1
           /\ store'.line[Len(store.line) + 1] = w
           /\ \A i \in 1..Len(store.line) : store'.line[i] = store.line[i]
           /\ Pending' = Outcome(s.data, mem')
           /\ Pending <= Pending'
           /\ store.line = <<>> => Written' = Pending'
           /\ store.line # <<>> => Written' = Written /\ store'.writing = store.writing
<1>0. store \in Stores /\ store.line \in Seq(Writer) /\ Len(store.line) \in Nat
      /\ DOMAIN store.line = 1..Len(store.line)
  BY DEF TypeOK, Stores
<1>1. s.line = <<>> => s.writing = Nothing
  BY DEF Holder
<1>2. /\ store' \in Stores
      /\ Len(store'.line) = Len(store.line) + 1
      /\ store'.line[Len(store.line) + 1] = w
      /\ \A i \in 1..Len(store.line) : store'.line[i] = store.line[i]
      /\ store.line = <<>> =>
           /\ store'.writing = (IF s.data = Later THEN mem' ELSE s.data)
           /\ store'.data = Nothing
      /\ store.line # <<>> =>
           /\ store'.writing = store.writing
           /\ store'.data = s.data
  BY <1>1, Entered
<1>3. DOMAIN store'.line = 1..(Len(store.line) + 1)
  BY <1>0, <1>2 DEF Stores
<1>4. Nothing # Later /\ mem' # Nothing /\ mem' # Later
  BY StoreValues
<1>5. FileRev(disk)' = FileRev(disk)
  BY DEF FileRev
<1>6. store.line = <<>> => Written = FileRev(disk)
  BY DEF Holder, Written
<1>7. store.line # <<>> => Written' = Written
  BY <1>2, <1>5 DEF Written
<1>8. Pending' = Outcome(s.data, mem')
  <2>1. CASE store.line = <<>>
    <3>1. Pending' = Written'
      BY <1>2, <2>1 DEF Pending
    <3> QED BY <1>2, <1>4, <1>5, <1>6, <2>1, <3>1 DEF Written, Outcome
  <2>2. CASE store.line # <<>>
    BY <1>2, <1>7, <2>2 DEF Pending, Outcome
  <2> QED BY <2>1, <2>2
<1>9. store.line = <<>> => Written' = Pending'
  BY <1>2 DEF Pending
<1>10. /\ mem.rev \in Nat /\ mem.count \in Nat /\ FileRev(disk) \in Nat
       /\ Written \in Nat /\ Pending \in Nat /\ answered \in Nat
       /\ mem'.rev \in Nat /\ mem'.count \in Nat
       /\ \A i \in 1..Len(store.line) : IsCall(store.line[i]) =>
            store.line[i].stored \in Contents
  BY <1>0, Numbers DEF Contents
<1>11. Pending' \in Nat /\ Pending <= Pending' /\ Pending' <= mem'.rev
  BY <1>4, <1>8, <1>10 DEF Outcome, Pending, Chain
<1>12. Chain'
  BY <1>5, <1>7, <1>9, <1>10, <1>11 DEF Chain
<1>13. Holder'
  <2>1. store'.line # <<>>
    BY <1>0, <1>2
  <2>2. phase # "saving" => \A i \in 1..Len(store.line) : store.line[i].by # "stop"
    BY <1>0 DEF Holder
  <2>3. ASSUME NEW i \in DOMAIN store'.line, store'.line[i].by = "stop"
        PROVE  /\ phase' = "saving"
               /\ \A j \in DOMAIN store'.line : store'.line[j].by = "stop" => j = i
    <3>1. CASE w.by = "stop"
      <4>1. \A j \in 1..Len(store.line) : store'.line[j].by # "stop"
        BY <1>2, <2>2, <3>1
      <4> QED BY <1>0, <1>3, <2>3, <3>1, <4>1
    <3>2. CASE w.by # "stop"
      <4>1. \A j \in DOMAIN store'.line : store'.line[j].by = "stop" =>
              j \in 1..Len(store.line) /\ store.line[j].by = "stop"
        BY <1>0, <1>2, <1>3, <3>2
      <4>2. /\ phase = "saving"
            /\ \A j \in DOMAIN store.line : store.line[j].by = "stop" => j = i
        BY <1>0, <2>3, <4>1 DEF Holder
      <4> QED BY <1>0, <4>1, <4>2
    <3> QED BY <3>1, <3>2
  <2> QED BY <2>1, <2>3 DEF Holder
<1>14. Wants'
  <2> SUFFICES ASSUME NEW i \in DOMAIN store'.line, IsCall(store'.line[i])
               PROVE  /\ store'.line[i].stored.rev <= Pending'
                      /\ store'.line[i].stored.count <= mem'.count
                      /\ i = 1 /\ store'.writing # Nothing
                         => store'.line[i].stored.rev <= Written'
    BY DEF Wants, IsCall
  <2>1. CASE i \in 1..Len(store.line)
    <3>1. store'.line[i] = store.line[i] /\ store.line # <<>>
      BY <1>0, <1>2, <2>1
    <3> DEFINE stored == store.line[i].stored
    <3>2. stored.rev \in Nat /\ stored.count \in Nat
      BY <1>10, <2>1, <3>1 DEF Contents
    <3>3. /\ stored.rev <= Pending /\ stored.count <= mem.count
          /\ i = 1 /\ store.writing # Nothing => stored.rev <= Written
      BY <1>0, <2>1, <3>1 DEF Wants
    <3>4. store'.writing = store.writing /\ Written' = Written
      BY <1>2, <1>7, <3>1
    <3>5. store'.line[i].stored = stored
      BY <3>1
    <3> HIDE DEF stored
    <3> QED BY <1>10, <1>11, <3>2, <3>3, <3>4, <3>5
  <2>2. CASE i = Len(store.line) + 1
    <3>1. store'.line[i].stored = mem' /\ s.data = mem'
      BY <1>2, <2>2
    <3>2. Pending' = mem'.rev
      BY <1>4, <1>8, <3>1 DEF Outcome
    <3>3. i = 1 => Written' = Pending'
      BY <1>0, <1>9, <2>2
    <3> QED BY <1>10, <3>1, <3>2, <3>3
  <2> QED BY <1>0, <1>3, <2>1, <2>2
<1> QED BY <1>2, <1>7, <1>8, <1>9, <1>11, <1>12, <1>13, <1>14

\* A writer that is done, and whose data are in the file, keeps the order; a
\* command that announces its change finds it there.
LEMMA LeaveKeeps ==
    ASSUME TypeOK, Chain, Holder, Wants, Covered,
           store.line # <<>>, store' = Leave(store), mem' = mem, clock' = clock,
           crashes' = crashes, Finish(Head(store.line)),
           \/ store.writing # Nothing /\ disk' = store.writing
           \/ store.writing = Nothing /\ store.data = Nothing /\ disk' = disk
    PROVE  IInv' /\ answered <= answered'
<1>0. store \in Stores /\ store.line \in Seq(Writer) /\ Len(store.line) \in Nat \ {0}
      /\ DOMAIN store.line = 1..Len(store.line) /\ Head(store.line) = store.line[1]
      /\ store.line[1] \in Writer
  BY DEF TypeOK, Stores
<1>1. /\ store' \in Stores
      /\ Len(store'.line) = Len(store.line) - 1
      /\ \A i \in 1..(Len(store.line) - 1) : store'.line[i] = store.line[i + 1]
      /\ store'.writing = Nothing /\ store'.data = store.data
  BY <1>0, Left
<1>2. DOMAIN store'.line = 1..(Len(store.line) - 1)
  BY <1>0, <1>1 DEF Stores
<1>3. /\ mem \in Contents /\ mem.rev \in Nat /\ mem.count \in Nat /\ FileRev(disk) \in Nat
      /\ Written \in Nat /\ Pending \in Nat /\ answered \in Nat
      /\ \A i \in 1..Len(store.line) : IsCall(store.line[i]) =>
           /\ store.line[i].stored \in Contents
           /\ store.line[i].stored.rev \in Nat /\ store.line[i].stored.count \in Nat
  BY <1>0, Numbers DEF Contents, TypeOK
<1>4. FileRev(disk)' = Written /\ disk' \in {Nothing} \cup Contents
  <2>1. CASE store.writing # Nothing /\ disk' = store.writing
    <3>1. disk' # Nothing /\ disk' \in Contents
      BY <1>0, <2>1 DEF Stores
    <3> QED BY <2>1, <3>1 DEF FileRev, Written
  <2>2. CASE store.writing = Nothing /\ disk' = disk
    BY <2>2 DEF FileRev, Written, TypeOK
  <2> QED BY <2>1, <2>2
<1>5. Written' = Written
  BY <1>1, <1>4 DEF Written
<1>6. Pending' = Pending
  BY <1>1, <1>5 DEF Pending
<1>7. store.writing = Nothing => Pending = Written
  BY DEF Pending
<1>8. IsCall(store.line[1]) => store.line[1].stored.rev <= Written
  <2> SUFFICES ASSUME IsCall(store.line[1])
               PROVE  store.line[1].stored.rev <= Written
    OBVIOUS
  <2>1. /\ store.line[1].stored.rev <= Pending
        /\ store.writing # Nothing => store.line[1].stored.rev <= Written
    BY <1>0 DEF Wants
  <2> QED BY <1>7, <2>1
<1> DEFINE stored == store.line[1].stored
<1>9. \/ /\ IsCall(store.line[1])
         /\ dirty' = ~Same(mem, stored) /\ timer' = Scheduled(mem)
         /\ answered' = Latest(answered, stored.rev) /\ phase' = phase
      \/ /\ store.line[1].by = "delay"
         /\ UNCHANGED <<dirty, timer, answered, phase>>
      \/ /\ store.line[1].by = "stop" /\ dirty' = FALSE /\ phase' = "off"
         /\ UNCHANGED <<timer, answered>>
  BY <1>0 DEF Finish, Announce, IsCall
<1>10. answered' \in Nat /\ answered <= answered' /\ answered' <= Written
  BY <1>3, <1>8, <1>9 DEF Chain, Latest
<1>11. TypeOK'
  <2>1. Scheduled(mem) \in {Nothing} \cup Nat
    BY <1>3, TimerTypes, StoreAssumption DEF TypeOK
  <2>2. timer' \in {Nothing} \cup Nat
    BY <1>9, <2>1 DEF TypeOK
  <2>3. dirty' \in BOOLEAN
    <3> HIDE DEF stored
    <3>1. (~Same(mem, stored)) \in BOOLEAN
      BY DEF Same
    <3> QED BY <1>9, <3>1 DEF TypeOK
  <2>4. phase' \in {"up", "stopping", "saving", "off"}
    BY <1>9 DEF TypeOK
  <2> QED BY <1>1, <1>4, <1>10, <2>2, <2>3, <2>4 DEF TypeOK
<1>12. Chain'
  BY <1>3, <1>4, <1>5, <1>6, <1>10 DEF Chain
<1>13. Holder'
  <2>1. ASSUME NEW i \in DOMAIN store'.line, store'.line[i].by = "stop"
        PROVE  /\ phase' = "saving"
               /\ \A j \in DOMAIN store'.line : store'.line[j].by = "stop" => j = i
    <3>1. i + 1 \in DOMAIN store.line /\ store.line[i + 1].by = "stop"
      BY <1>0, <1>1, <1>2, <2>1
    <3>2. /\ phase = "saving"
          /\ \A j \in DOMAIN store.line : store.line[j].by = "stop" => j = i + 1
      BY <3>1 DEF Holder
    <3>3. store.line[1].by # "stop"
      BY <1>0, <1>2, <3>2
    <3>4. phase' = "saving"
      BY <1>9, <3>2, <3>3
    <3>5. ASSUME NEW j \in DOMAIN store'.line, store'.line[j].by = "stop"
          PROVE  j = i
      <4>1. j + 1 \in DOMAIN store.line /\ store.line[j + 1].by = "stop"
        BY <1>0, <1>1, <1>2, <3>5
      <4> QED BY <1>0, <1>2, <3>2, <4>1
    <3> QED BY <3>4, <3>5
  <2> QED BY <1>1, <2>1 DEF Holder
<1>14. Wants'
  <2> SUFFICES ASSUME NEW i \in DOMAIN store'.line, IsCall(store'.line[i])
               PROVE  /\ store'.line[i].stored.rev <= Pending'
                      /\ store'.line[i].stored.count <= mem'.count
    BY <1>1 DEF Wants, IsCall
  <2>1. i + 1 \in DOMAIN store.line /\ store'.line[i] = store.line[i + 1]
    BY <1>0, <1>1, <1>2
  <2> QED BY <1>6, <2>1 DEF Wants
<1>15. Covered'
  <2>1. CASE Written = mem.rev
    BY <1>4, <2>1 DEF Covered
  <2>2. CASE FileRev(disk) = mem.rev
    <3>1. Written = mem.rev
      BY <1>3, <2>2 DEF Chain
    <3> QED BY <2>1, <3>1
  <2>3. CASE \E i \in DOMAIN store.line :
               IsCall(store.line[i]) /\ store.line[i].stored.rev = mem.rev
    <3>1. PICK i \in DOMAIN store.line :
            IsCall(store.line[i]) /\ store.line[i].stored.rev = mem.rev
      BY <2>3
    <3>2. CASE i = 1
      <4>1. Written = mem.rev
        BY <1>3, <1>8, <3>1, <3>2 DEF Chain
      <4> QED BY <2>1, <4>1
    <3>3. CASE i # 1
      <4>1. i - 1 \in DOMAIN store'.line /\ store'.line[i - 1] = store.line[i]
        BY <1>0, <1>1, <1>2, <3>3
      <4> QED BY <3>1, <4>1 DEF Covered
    <3> QED BY <3>2, <3>3
  <2>4. CASE /\ dirty /\ phase \in {"up", "stopping"}
             /\ \A i \in DOMAIN store.line :
                   IsCall(store.line[i]) => store.line[i].stored.count < mem.count
    <3>1. store.line[1].by # "stop"
      BY <1>0, <2>4 DEF Holder
    <3>2. IsCall(store.line[1]) => ~Same(mem, stored)
      <4> SUFFICES ASSUME IsCall(store.line[1]) PROVE ~Same(mem, stored)
        OBVIOUS
      <4>1. stored \in Contents /\ stored.count < mem.count
        BY <1>0, <1>3, <2>4
      <4> HIDE DEF stored
      <4>2. mem.count # stored.count
        BY <1>3, <4>1 DEF Contents
      <4> QED BY <1>3, <4>1, <4>2, Differ
    <3>3. dirty' /\ phase' \in {"up", "stopping"}
      BY <1>9, <2>4, <3>1, <3>2
    <3>4. \A i \in DOMAIN store'.line :
             i + 1 \in DOMAIN store.line /\ store'.line[i] = store.line[i + 1]
      BY <1>0, <1>1, <1>2
    <3> QED BY <2>4, <3>3, <3>4 DEF Covered
  <2>5. CASE \E i \in DOMAIN store.line :
               /\ store.line[i].by = "stop"
               /\ Pending = mem.rev
               /\ i = 1 /\ store.writing # Nothing => Written = mem.rev
    <3>1. PICK i \in DOMAIN store.line :
               /\ store.line[i].by = "stop"
               /\ Pending = mem.rev
               /\ i = 1 /\ store.writing # Nothing => Written = mem.rev
      BY <2>5
    <3>2. CASE i = 1
      BY <1>7, <2>1, <3>1, <3>2
    <3>3. CASE i # 1
      <4>1. i - 1 \in DOMAIN store'.line /\ store'.line[i - 1] = store.line[i]
        BY <1>0, <1>1, <1>2, <3>3
      <4> QED BY <1>1, <1>6, <3>1, <4>1 DEF Covered
    <3> QED BY <3>2, <3>3
  <2> QED BY <2>2, <2>3, <2>4, <2>5 DEF Covered
<1> QED BY <1>10, <1>11, <1>12, <1>13, <1>14, <1>15 DEF IInv

\* The next holder of the lock brings the data on the way, and nothing else changes.
LEMMA TakeKeeps ==
    ASSUME TypeOK, Chain, Holder, Wants, Covered,
           store.line # <<>>, store.writing = Nothing, store.data # Nothing,
           store' = Take(store, mem),
           UNCHANGED <<mem, disk, dirty, timer, phase, clock, answered, crashes>>
    PROVE  IInv'
<1>0. store \in Stores /\ mem \in Contents
  BY DEF TypeOK
<1>1. /\ store' \in Stores /\ store'.line = store.line
      /\ store'.writing = (IF store.data = Later THEN mem ELSE store.data)
      /\ store'.writing # Nothing /\ store'.data = Nothing
  BY <1>0, Taken
<1>2. Written' = Pending /\ Pending' = Pending
  BY <1>1 DEF Written, Pending
<1>3. FileRev(disk)' = FileRev(disk)
  BY DEF FileRev
<1>4. TypeOK'
  BY <1>1 DEF TypeOK
<1>5. Chain'
  BY <1>2, <1>3, Numbers DEF Chain
<1>6. Holder'
  BY <1>1 DEF Holder
<1>7. Wants'
  BY <1>1, <1>2 DEF Wants, IsCall
<1>8. Covered'
  BY <1>1, <1>2, <1>3 DEF Covered, IsCall
<1> QED BY <1>4, <1>5, <1>6, <1>7, <1>8 DEF IInv

\* A command saves its change itself.
LEMMA CallKeeps ==
    ASSUME IInv, NEW kind \in {"user", "idle"}, NEW m \in Contents,
           m.rev >= mem.rev, m.count >= mem.count,
           Call(kind, m), timer' \in {Nothing} \cup Nat
    PROVE  IInv'
<1> DEFINE s == [store EXCEPT !.data = m]
           w == [by |-> kind, stored |-> m]
<1>1. s \in Stores /\ s.line = store.line /\ s.writing = store.writing /\ s.data = m
  BY DEF IInv, TypeOK, Stores
<1>2. w \in Writer /\ IsCall(w) /\ w.by # "stop" /\ w.stored = m
  BY DEF Writer, IsCall
<1>3. mem' = m /\ store' = Enter(s, w, m)
      /\ UNCHANGED <<disk, dirty, phase, clock, answered, crashes>>
  BY DEF Call, SaveNow
<1> HIDE DEF s, w
<1>4. /\ store' \in Stores
      /\ Chain' /\ Holder' /\ Wants'
      /\ Len(store'.line) = Len(store.line) + 1
      /\ store'.line[Len(store.line) + 1] = w
  BY <1>1, <1>2, <1>3, EnterKeeps DEF IInv
<1>5. Len(store.line) + 1 \in DOMAIN store'.line
  <2>1. store.line \in Seq(Writer) /\ store'.line \in Seq(Writer)
    BY <1>4 DEF IInv, TypeOK, Stores
  <2> QED BY <1>4, <2>1
<1>6. Covered'
  BY <1>2, <1>3, <1>4, <1>5 DEF Covered
<1>7. TypeOK'
  BY <1>3, <1>4 DEF IInv, TypeOK
<1> QED BY <1>4, <1>6, <1>7 DEF IInv

\* What the board reports is newer than every change that waits for its save.
LEMMA ReportKeeps ==
    ASSUME IInv, phase = "up", NEW m \in Contents,
           m.rev = mem.rev + 1, m.count = mem.count + 1, Report(m),
           UNCHANGED <<disk, phase, clock, answered, crashes>>
    PROVE  IInv'
<1>3. /\ store' \in Stores /\ store'.line = store.line
      /\ store'.writing = store.writing /\ store'.data = Later
  BY Delayed DEF IInv, TypeOK, Report
<1>4. mem' = m /\ dirty' = TRUE /\ timer' = Scheduled(m)
  BY DEF Report
<1>5. /\ mem.rev \in Nat /\ mem.count \in Nat /\ FileRev(disk) \in Nat
      /\ Written \in Nat /\ Pending \in Nat /\ answered \in Nat
      /\ \A i \in DOMAIN store.line : IsCall(store.line[i]) =>
            store.line[i].stored.rev \in Nat /\ store.line[i].stored.count \in Nat
  BY Numbers DEF IInv, Contents
<1>6. FileRev(disk)' = FileRev(disk)
  BY DEF FileRev
<1>7. Written' = Written
  BY <1>3, <1>6 DEF Written
<1>8. Pending' = m.rev
  <2>1. Later # Nothing
    BY StoreValues
  <2> QED BY <1>3, <1>4, <2>1 DEF Pending
<1>9. Chain'
  BY <1>4, <1>5, <1>6, <1>7, <1>8 DEF IInv, Chain
<1>10. Holder'
  BY <1>3 DEF IInv, Holder
<1>11. ASSUME NEW i \in DOMAIN store.line, IsCall(store.line[i])
       PROVE  /\ store.line[i].stored.rev <= Pending'
              /\ store.line[i].stored.count < mem'.count
              /\ i = 1 /\ store.writing # Nothing
                 => store.line[i].stored.rev <= Written
  <2>1. /\ store.line[i].stored.rev <= Pending
        /\ store.line[i].stored.count <= mem.count
        /\ i = 1 /\ store.writing # Nothing => store.line[i].stored.rev <= Written
    BY <1>11 DEF IInv, Wants
  <2>2. /\ store.line[i].stored.rev \in Nat /\ store.line[i].stored.count \in Nat
    BY <1>5, <1>11
  <2>3. Pending <= mem.rev
    BY DEF IInv, Chain
  <2> HIDE DEF IInv
  <2> QED BY <1>4, <1>5, <1>8, <2>1, <2>2, <2>3
<1>12. Wants'
  <2> SUFFICES ASSUME NEW i \in DOMAIN store'.line, IsCall(store'.line[i])
               PROVE  /\ store'.line[i].stored.rev <= Pending'
                      /\ store'.line[i].stored.count <= mem'.count
                      /\ i = 1 /\ store'.writing # Nothing
                         => store'.line[i].stored.rev <= Written'
    BY DEF Wants, IsCall
  <2>1. store'.line[i].stored.count \in Nat /\ mem'.count \in Nat
    BY <1>3, <1>4, <1>5
  <2> QED BY <1>3, <1>7, <1>11, <2>1
<1>13. Covered'
  BY <1>3, <1>4, <1>11 DEF Covered, IsCall
<1>14. TypeOK'
  <2>1. Scheduled(m) \in {Nothing} \cup Nat
    BY TimerTypes, StoreAssumption DEF IInv, TypeOK
  <2> QED BY <1>3, <1>4, <2>1 DEF IInv, TypeOK
<1> QED BY <1>9, <1>10, <1>12, <1>13, <1>14 DEF IInv

\* A new coordinator has what the file has.
LEMMA SetupKeeps ==
    ASSUME TypeOK, NEW file \in {Nothing} \cup Contents, Setup(file),
           answered <= FileRev(file), crashes' \in 0..MaxCrashes
    PROVE  IInv' /\ mem'.rev = FileRev(file) /\ FileRev(disk)' = FileRev(file)
<1>1. mem' \in Contents /\ mem'.rev = FileRev(file)
  <2>1. Fresh \in Contents /\ Fresh.rev = 0
    BY ChangeTypes DEF TypeOK
  <2> QED BY <2>1 DEF Setup, Restored, FileRev
<1>2. FileRev(disk)' = FileRev(file) /\ disk' = file
  BY DEF Setup, FileRev
<1>3. store' \in {Empty, DelaySave(Empty)}
  BY DEF Setup
<1>4. Empty \in Stores /\ Empty.line = <<>> /\ Empty.writing = Nothing
      /\ Empty.data = Nothing
  BY DEF Empty, Stores
<1>5. store' \in Stores /\ store'.line = <<>> /\ store'.writing = Nothing
      /\ store'.data \in {Nothing, Later}
  BY <1>3, <1>4, Delayed
<1>6. Written' = FileRev(file)
  BY <1>2, <1>5 DEF Written
<1>7. Pending' = FileRev(file)
  BY <1>1, <1>5, <1>6 DEF Pending
<1>8. FileRev(file) \in Nat
  BY <1>1 DEF Contents
<1>9. Chain'
  BY <1>1, <1>2, <1>6, <1>7, <1>8 DEF Chain, Setup
<1>10. DOMAIN store'.line = {}
  BY <1>5
<1>11. Holder' /\ Wants'
  BY <1>5, <1>10 DEF Holder, Wants
<1>12. Covered'
  BY <1>1, <1>2 DEF Covered
<1>13. TypeOK'
  <2>1. timer' \in {Nothing} \cup Nat
    BY <1>1, TimerTypes, StoreAssumption DEF TypeOK, Setup
  <2> QED BY <1>1, <1>2, <1>5, <2>1 DEF TypeOK, Setup
<1> QED BY <1>1, <1>2, <1>9, <1>11, <1>12, <1>13 DEF IInv

-----------------------------------------------------------------------------
(* The invariant, and the steps of Durable.                                *)

\* The session that was never saved is in order: nothing was announced.
THEOREM Start == Init => IInv /\ D!Init
<1> SUFFICES ASSUME Init PROVE IInv /\ D!Init
  OBVIOUS
<1>1. /\ Empty \in Stores /\ Empty.line = <<>> /\ Empty.writing = Nothing
  BY DEF Empty, Stores
<1>2. /\ store \in Stores /\ store.line = <<>> /\ store.writing = Nothing
      /\ store.data = Later
  BY <1>1, Delayed DEF Init
<1>3. mem \in Contents /\ mem.rev = 0
  BY DEF Init, Fresh, Contents, Times
<1>4. FileRev(disk) = 0 /\ Written = 0 /\ Pending = 0
  BY <1>2, <1>3, StoreValues DEF Init, FileRev, Written, Pending
<1>5. TypeOK
  BY <1>2, <1>3, StoreAssumption DEF Init, TypeOK
<1>6. Chain
  BY <1>3, <1>4 DEF Init, Chain
<1>7. DOMAIN store.line = {}
  BY <1>2
<1>8. Holder /\ Wants
  BY <1>2, <1>7 DEF Holder, Wants
<1>9. Covered
  BY <1>3, <1>4 DEF Covered
<1>10. D!Init
  BY <1>3, <1>4 DEF Init, D!Init
<1> QED BY <1>5, <1>6, <1>8, <1>9, <1>10 DEF IInv

\* Every step keeps the invariant, and is a step of Durable or none.
THEOREM Step == IInv /\ [Next]_vars => IInv' /\ [D!Next]_D!dvars
<1> SUFFICES ASSUME IInv, [Next]_vars
             PROVE  IInv' /\ [D!Next]_D!dvars
  OBVIOUS
<1> USE DEF IInv
<1>0. /\ TypeOK /\ Chain /\ Holder /\ Wants /\ Covered
      /\ mem \in Contents /\ store \in Stores /\ clock \in Nat
      /\ mem.rev \in Nat /\ mem.count \in Nat /\ FileRev(disk) \in Nat
      /\ Written \in Nat /\ Pending \in Nat /\ answered \in Nat
      /\ store.line \in Seq(Writer)
  BY Numbers, StoreAssumption DEF TypeOK, Stores, Contents
<1> DEFINE Change(m) == /\ m \in Contents
                        /\ m.rev = mem.rev + 1
                        /\ m.count \in mem.count..(mem.count + 1)
<1>1. /\ \A m \in {Started(mem), Counted(mem), [Counted(mem) EXCEPT !.last = clock]} :
            m \in Contents /\ m.rev = mem.rev + 1 /\ m.count = mem.count + 1
      /\ Change(Started(mem)) /\ Change(Ended(mem))
      /\ Change([mem EXCEPT !.rev = @ + 1, !.idle = ~@])
  <2> HIDE DEF IInv
  <2>1. clock \in 0..MaxClock
    BY <1>0 DEF TypeOK
  <2>2. \A c \in {Counted(mem), [Counted(mem) EXCEPT !.last = clock],
                  Started(mem), Ended(mem)} :
            c \in Contents /\ c.rev = mem.rev + 1 /\ c.count = mem.count + 1
    BY <1>0, <2>1, ChangeTypes
  <2>3. /\ [mem EXCEPT !.rev = @ + 1, !.idle = ~@] \in Contents
        /\ [mem EXCEPT !.rev = @ + 1, !.idle = ~@].rev = mem.rev + 1
        /\ [mem EXCEPT !.rev = @ + 1, !.idle = ~@].count = mem.count
    BY <1>0, <2>1, ChangeTypes
  <2>4. Change(Started(mem)) /\ Change(Ended(mem))
    BY <1>0, <2>2
  <2>5. Change([mem EXCEPT !.rev = @ + 1, !.idle = ~@])
    BY <1>0, <2>3
  <2> QED BY <2>2, <2>4, <2>5
<1> HIDE DEF IInv
<1>2. ASSUME NEW m, mem' = m, Change(m), UNCHANGED <<disk, answered, crashes>>
      PROVE  D!Next
  BY <1>2 DEF D!Next, D!Change, FileRev
<1>3. ASSUME mem' = mem, UNCHANGED <<disk, answered, crashes>>
      PROVE  UNCHANGED D!dvars
  BY <1>3 DEF D!dvars, FileRev
<1>4. ASSUME mem' = mem, crashes' = crashes, IInv', answered <= answered',
             FileRev(disk) <= FileRev(disk)'
      PROVE  [D!Next]_D!dvars
  <2>1. /\ FileRev(disk)' \in Nat /\ Written' \in Nat /\ Pending' \in Nat
        /\ answered' \in Nat
    BY <1>4 DEF IInv, TypeOK, FileRev, Written, Pending, Stores, Contents
  <2>2. FileRev(disk)' <= mem'.rev /\ answered' <= FileRev(disk)'
    BY <1>0, <1>4, <2>1 DEF IInv, Chain
  <2>3. D!Keep
    BY <1>0, <1>4, <2>1, <2>2 DEF D!Keep
  <2> QED BY <2>3 DEF D!Next
<1>5. ASSUME NEW m, m = mem \/ Change(m), NEW kind \in {"user", "idle"},
             Call(kind, m), timer' \in {Nothing} \cup Nat
      PROVE  IInv' /\ [D!Next]_D!dvars
  <2>1. m \in Contents /\ m.rev >= mem.rev /\ m.count >= mem.count
    BY <1>0, <1>5
  <2>2. IInv'
    BY <1>5, <2>1, CallKeeps
  <2>3. mem' = m /\ UNCHANGED <<disk, answered, crashes>>
    BY <1>5 DEF Call
  <2> QED BY <1>2, <1>3, <1>5, <2>2, <2>3
<1>6. CASE Observe
  <2>1. PICK m \in {Started(mem), Counted(mem), [Counted(mem) EXCEPT !.last = clock]} :
          Report(m)
    BY <1>6 DEF Observe
  <2>2. m \in Contents /\ m.rev = mem.rev + 1 /\ m.count = mem.count + 1
    BY <1>1, <2>1
  <2>3. phase = "up" /\ UNCHANGED <<disk, phase, clock, answered, crashes>>
    BY <1>6 DEF Observe
  <2>4. IInv'
    BY <2>1, <2>2, <2>3, ReportKeeps
  <2>5. mem' = m
    BY <2>1 DEF Report
  <2> QED BY <1>0, <1>2, <2>2, <2>3, <2>4, <2>5
<1>7. ASSUME NEW m, m = mem \/ Change(m), Command(m)
      PROVE  IInv' /\ [D!Next]_D!dvars
  <2>1. Call("user", m) /\ timer' = timer
    BY <1>7 DEF Command
  <2>2. timer' \in {Nothing} \cup Nat
    BY <1>0, <2>1 DEF TypeOK
  <2> QED BY <1>5, <1>7, <2>1, <2>2
<1>8. CASE StartSession
  <2>1. Command(mem) \/ Command(Started(mem))
    BY <1>8 DEF StartSession
  <2> QED BY <1>1, <1>7, <2>1
<1>9. CASE EndSession
  <2>1. Command(mem) \/ Command(Ended(mem))
    BY <1>9 DEF EndSession
  <2> QED BY <1>1, <1>7, <2>1
<1>10. CASE NewSession
  BY <1>1, <1>7, <1>10 DEF NewSession
<1>11. CASE SetIdleMinutes
  BY <1>1, <1>7, <1>11 DEF SetIdleMinutes
<1>12. CASE EndIdle
  <2>1. CASE /\ timer' = Scheduled(mem)
             /\ UNCHANGED <<mem, disk, store, dirty, phase, clock, answered, crashes>>
    <3>1. timer' \in {Nothing} \cup Nat
      BY <1>0, <2>1, TimerTypes
    <3>2. IInv'
      BY <2>1, <3>1 DEF IInv, TypeOK, Chain, Holder, Wants, Covered, Written, Pending,
                        FileRev, IsCall
    <3> QED BY <1>3, <2>1, <3>2
  <2>2. CASE timer' = Nothing /\ Call("idle", Ended(mem))
    BY <1>1, <1>5, <2>2
  <2> QED BY <1>12, <2>1, <2>2 DEF EndIdle
<1>13. CASE DelayEnds
  <2> DEFINE s == [store EXCEPT !.delay = FALSE]
             w == [by |-> "delay"]
  <2>1. s \in Stores /\ s.line = store.line /\ s.writing = store.writing
        /\ s.data = store.data
    BY <1>0 DEF Stores
  <2>2. w \in Writer /\ ~IsCall(w) /\ w.by # "stop"
    BY DEF Writer, IsCall
  <2>3. store' = Enter(s, w, mem')
        /\ UNCHANGED <<mem, disk, dirty, timer, phase, clock, answered, crashes>>
    BY <1>13 DEF DelayEnds
  <2> HIDE DEF s, w
  <2>4. /\ store' \in Stores
        /\ Chain' /\ Holder' /\ Wants'
        /\ Len(store'.line) = Len(store.line) + 1
        /\ store'.line[Len(store.line) + 1] = w
        /\ \A i \in 1..Len(store.line) : store'.line[i] = store.line[i]
        /\ Pending <= Pending'
        /\ store.line # <<>> => Written' = Written /\ store'.writing = store.writing
    BY <1>0, <2>1, <2>2, <2>3, EnterKeeps
  <2>5. TypeOK'
    BY <1>0, <2>3, <2>4 DEF TypeOK
  <2>6. Pending' = mem.rev \/ Pending # mem.rev
    <3>1. Pending' \in Nat /\ Pending' <= mem.rev
      BY <1>0, <2>3, <2>4, <2>5 DEF Chain, TypeOK, Pending, Written, FileRev, Stores,
                                  Contents
    <3> QED BY <1>0, <2>4, <3>1
  <2>7. /\ DOMAIN store.line = 1..Len(store.line)
        /\ DOMAIN store'.line = 1..(Len(store.line) + 1)
        /\ Len(store.line) \in Nat
    BY <1>0, <2>4 DEF Stores
  <2>8. Covered'
    <3>1. FileRev(disk)' = FileRev(disk)
      BY <2>3 DEF FileRev
    <3>2. \A i \in DOMAIN store.line :
            i \in DOMAIN store'.line /\ store'.line[i] = store.line[i]
      BY <2>4, <2>7
    <3>3. CASE FileRev(disk) = mem.rev
      BY <2>3, <3>1, <3>3 DEF Covered
    <3>4. CASE \E i \in DOMAIN store.line :
                 IsCall(store.line[i]) /\ store.line[i].stored.rev = mem.rev
      BY <2>3, <3>2, <3>4 DEF Covered, IsCall
    <3>5. CASE /\ dirty /\ phase \in {"up", "stopping"}
               /\ \A i \in DOMAIN store.line :
                     IsCall(store.line[i]) => store.line[i].stored.count < mem.count
      <4>1. \A i \in DOMAIN store'.line : IsCall(store'.line[i]) =>
              i \in DOMAIN store.line /\ store'.line[i] = store.line[i]
        BY <2>2, <2>4, <2>7
      <4> QED BY <2>3, <3>5, <4>1 DEF Covered, IsCall
    <3>6. CASE \E i \in DOMAIN store.line :
                 /\ store.line[i].by = "stop"
                 /\ Pending = mem.rev
                 /\ i = 1 /\ store.writing # Nothing => Written = mem.rev
      <4>1. PICK i \in DOMAIN store.line :
                 /\ store.line[i].by = "stop"
                 /\ Pending = mem.rev
                 /\ i = 1 /\ store.writing # Nothing => Written = mem.rev
        BY <3>6
      <4>2. store.line # <<>>
        BY <4>1
      <4>3. Pending' = mem.rev
        BY <2>6, <4>1
      <4> QED BY <2>3, <2>4, <3>2, <4>1, <4>2, <4>3 DEF Covered
    <3> QED BY <1>0, <3>3, <3>4, <3>5, <3>6 DEF Covered
  <2>9. IInv'
    BY <2>4, <2>5, <2>8 DEF IInv
  <2> QED BY <1>3, <2>3, <2>9
<1>14. CASE Wake
  <2>1. CASE store.data # Nothing /\ store' = Take(store, mem)
             /\ UNCHANGED <<dirty, timer, answered, phase>>
    <3>1. IInv'
      BY <1>0, <1>14, <2>1, TakeKeeps DEF Wake
    <3> QED BY <1>3, <1>14, <2>1, <3>1 DEF Wake
  <2>2. CASE store.data = Nothing /\ store' = Leave(store) /\ Finish(Head(store.line))
    <3>1. IInv' /\ answered <= answered'
      BY <1>0, <1>14, <2>2, LeaveKeeps DEF Wake
    <3>2. FileRev(disk)' = FileRev(disk)
      BY <1>14 DEF Wake, FileRev
    <3> QED BY <1>0, <1>4, <1>14, <3>1, <3>2 DEF Wake
  <2> QED BY <1>14, <2>1, <2>2 DEF Wake
<1>15. CASE WriteEnds
  <2>1. store.line # <<>>
    BY <1>0, <1>15 DEF WriteEnds, Holder
  <2>2. IInv' /\ answered <= answered'
    BY <1>0, <1>15, <2>1, LeaveKeeps DEF WriteEnds
  <2>3. store.writing \in Contents /\ store.writing # Nothing
    BY <1>0, <1>15 DEF WriteEnds, Stores
  <2>4. FileRev(disk)' = Written
    BY <1>15, <2>3 DEF WriteEnds, FileRev, Written
  <2>5. FileRev(disk) <= FileRev(disk)'
    BY <1>0, <2>4 DEF Chain
  <2> QED BY <1>4, <1>15, <2>2, <2>5 DEF WriteEnds
<1>16. CASE StopBegins
  <2>1. phase = "up" /\ phase' = "stopping"
        /\ UNCHANGED <<mem, disk, store, dirty, timer, clock, answered, crashes>>
    BY <1>16 DEF StopBegins
  <2>2. IInv'
    BY <1>0, <2>1 DEF IInv, TypeOK, Chain, Holder, Wants, Covered, Written, Pending,
                      FileRev, IsCall
  <2> QED BY <1>3, <2>1, <2>2
<1>17. CASE StopSaves
  <2>1. phase = "stopping" /\ timer' = Nothing
        /\ UNCHANGED <<mem, disk, dirty, clock, answered, crashes>>
    BY <1>17 DEF StopSaves
  <2>2. CASE ~dirty /\ phase' = "off" /\ store' = store
    <3>1. \A i \in DOMAIN store.line : store.line[i].by # "stop"
      BY <1>0, <2>1 DEF Holder
    <3>2. FileRev(disk) = mem.rev
          \/ \E i \in DOMAIN store.line :
                IsCall(store.line[i]) /\ store.line[i].stored.rev = mem.rev
      BY <1>0, <2>2, <3>1 DEF Covered
    <3>3. Covered'
      BY <2>1, <2>2, <3>2 DEF Covered, FileRev, IsCall
    <3>4. Holder'
      BY <1>0, <2>2, <3>1 DEF Holder
    <3>5. TypeOK' /\ Chain' /\ Wants'
      BY <1>0, <2>1, <2>2 DEF TypeOK, Chain, Wants, Written, Pending, FileRev, IsCall
    <3>6. IInv'
      BY <3>3, <3>4, <3>5 DEF IInv
    <3> QED BY <1>3, <2>1, <3>6
  <2>3. CASE phase' = "saving" /\ store' = SaveNow(store, [by |-> "stop"], mem)
    <3> DEFINE s == [store EXCEPT !.data = mem]
               w == [by |-> "stop"]
    <3>1. s \in Stores /\ s.line = store.line /\ s.writing = store.writing
          /\ s.data = mem
      BY <1>0 DEF Stores
    <3>2. w \in Writer /\ ~IsCall(w) /\ w.by = "stop"
      BY DEF Writer, IsCall
    <3>3. store' = Enter(s, w, mem')
      BY <2>1, <2>3 DEF SaveNow
    <3> HIDE DEF s, w
    <3>4. /\ store' \in Stores
          /\ Chain' /\ Holder' /\ Wants'
          /\ Len(store'.line) = Len(store.line) + 1
          /\ store'.line[Len(store.line) + 1] = w
          /\ Pending' = Outcome(mem, mem)
          /\ store.line = <<>> => Written' = Pending'
      BY <1>0, <2>1, <2>3, <3>1, <3>2, <3>3, EnterKeeps
    <3>5. Pending' = mem.rev
      BY <1>0, <3>4, StoreValues DEF Outcome
    <3>6. DOMAIN store'.line = 1..(Len(store.line) + 1) /\ Len(store.line) \in Nat
          /\ (Len(store.line) + 1 = 1 => store.line = <<>>)
      BY <1>0, <3>4 DEF Stores
    <3>7. Covered'
      BY <2>1, <3>2, <3>4, <3>5, <3>6 DEF Covered
    <3>8. TypeOK'
      BY <1>0, <2>1, <2>3, <3>4 DEF TypeOK
    <3>9. IInv'
      BY <3>4, <3>7, <3>8 DEF IInv
    <3> QED BY <1>3, <2>1, <3>9
  <2> QED BY <1>17, <2>2, <2>3 DEF StopSaves
<1>18. CASE Restart
  <2>1. Setup(disk) /\ phase = "off" /\ store.line = <<>> /\ crashes' = crashes
    BY <1>18 DEF Restart
  <2>2. DOMAIN store.line = {}
    BY <2>1
  <2>3. FileRev(disk) = mem.rev
    BY <1>0, <2>1, <2>2 DEF Covered
  <2>4. disk \in {Nothing} \cup Contents /\ crashes' \in 0..MaxCrashes
    BY <1>0, <2>1 DEF TypeOK
  <2>5. IInv' /\ mem'.rev = FileRev(disk) /\ FileRev(disk)' = FileRev(disk)
    BY <1>0, <2>1, <2>4, SetupKeeps DEF Chain
  <2>6. UNCHANGED D!dvars
    BY <2>1, <2>3, <2>5 DEF D!dvars, Setup
  <2> QED BY <2>5, <2>6
<1>19. CASE Crash
  <2>1. PICK file \in {disk} \cup ({store.writing} \ {Nothing}) : Setup(file)
    BY <1>19 DEF Crash
  <2>2. file \in {Nothing} \cup Contents
    BY <1>0, <2>1 DEF TypeOK, Stores
  <2>3. FileRev(file) \in {FileRev(disk), Written}
    <3>1. CASE file = disk
      BY <3>1
    <3>2. CASE file = store.writing /\ file # Nothing
      BY <3>2 DEF FileRev, Written
    <3> QED BY <2>1, <3>1, <3>2
  <2>4. FileRev(file) \in FileRev(disk)..mem.rev /\ answered <= FileRev(file)
    BY <1>0, <2>3 DEF Chain
  <2>5. crashes' \in 0..MaxCrashes /\ crashes' = crashes + 1
    BY <1>0, <1>19, StoreAssumption DEF Crash, TypeOK
  <2>6. IInv' /\ mem'.rev = FileRev(file) /\ FileRev(disk)' = FileRev(file)
    BY <1>0, <2>1, <2>2, <2>4, <2>5, SetupKeeps
  <2>7. D!Crash
    BY <2>1, <2>4, <2>5, <2>6 DEF D!Crash, Setup
  <2> QED BY <2>6, <2>7 DEF D!Next
<1>20. CASE Tick
  <2>1. clock' \in 0..MaxClock
    BY <1>0, <1>20, StoreAssumption DEF Tick, TypeOK
  <2>2. UNCHANGED <<mem, disk, store, dirty, timer, phase, answered, crashes>>
    BY <1>20 DEF Tick
  <2>3. IInv'
    BY <1>0, <2>1, <2>2 DEF IInv, TypeOK, Chain, Holder, Wants, Covered, Written, Pending,
                            FileRev, IsCall
  <2> QED BY <1>3, <2>2, <2>3
<1>21. CASE UNCHANGED vars
  <2>1. UNCHANGED <<mem, disk, store, dirty, timer, phase, clock, answered, crashes>>
    BY <1>21 DEF vars
  <2>2. IInv'
    BY <1>0, <2>1 DEF IInv, TypeOK, Chain, Holder, Wants, Covered, Written, Pending,
                      FileRev, IsCall
  <2> QED BY <1>3, <2>1, <2>2
<1> QED BY <1>6, <1>8, <1>9, <1>10, <1>11, <1>12, <1>13, <1>14, <1>15, <1>16, <1>17,
           <1>18, <1>19, <1>20, <1>21 DEF Next

\* The types of the coordinator, the store and the file.
THEOREM TypeCorrect == Spec => []TypeOK
<1>1. IInv => TypeOK
  BY DEF IInv
<1> QED BY <1>1, Start, Step, PTL DEF Spec

\* What a command announced is in the file, whatever came between; what is
\* being written is no older than the file, and no newer than the session.
THEOREM FileIsOrdered == Spec => []Chain
<1>1. IInv => Chain
  BY DEF IInv
<1> QED BY <1>1, Start, Step, PTL DEF Spec

\* The coordinator keeps the promises of Durable.
THEOREM Implements == Spec => ImplementsDurable
<1> QED BY Start, Step, PTL DEF Spec, ImplementsDurable, D!Spec

\* After a stop whose writers are done, the file has the session.
THEOREM StopLosesNothing ==
    Spec => [](phase = "off" /\ store.line = <<>> => FileRev(disk) = mem.rev)
<1>1. IInv => (phase = "off" /\ store.line = <<>> => FileRev(disk) = mem.rev)
  <2> SUFFICES ASSUME IInv, phase = "off", store.line = <<>>
               PROVE  FileRev(disk) = mem.rev
    OBVIOUS
  <2>1. DOMAIN store.line = {}
    OBVIOUS
  <2> QED BY <2>1 DEF IInv, Covered
<1> QED BY <1>1, Start, Step, PTL DEF Spec

-----------------------------------------------------------------------------
(* Nothing is forgotten.                                                   *)

\* Whoever asks for the lock with the latest data sees to it that they are written.
LEMMA EnterKept ==
    ASSUME IInv, Kept, NEW s \in Stores, NEW w \in Writer,
           s.line = store.line, s.writing = store.writing,
           mem' \in Contents, store' = Enter(s, w, mem'), disk' = disk,
           s.data = mem' \/ (s.data = store.data /\ mem' = mem)
    PROVE  Kept'
<1>1. store.line \in Seq(Writer) /\ Len(store.line) \in Nat
      /\ (store.line # <<>> => Len(store.line) # 0)
      /\ (s.line = <<>> => s.writing = Nothing)
  BY DEF IInv, TypeOK, Stores, Holder
<1>2. /\ Len(store'.line) = Len(store.line) + 1
      /\ store.line = <<>> =>
           /\ store'.writing = (IF s.data = Later THEN mem' ELSE s.data)
           /\ store'.data = Nothing
      /\ store.line # <<>> =>
           /\ store'.writing = store.writing
           /\ store'.data = s.data
  BY <1>1, Entered
<1>3. mem' # Nothing /\ mem' # Later /\ Later # Nothing
  BY StoreValues
<1>4. CASE store.line = <<>>
  BY <1>1, <1>2, <1>3, <1>4 DEF Kept
<1>5. CASE store.line # <<>>
  BY <1>1, <1>2, <1>3, <1>5 DEF Kept
<1> QED BY <1>4, <1>5

\* Every step sees to it that the newest data are written.
THEOREM KeptStep == IInv /\ Kept /\ [Next]_vars => Kept'
<1> SUFFICES ASSUME IInv, Kept, [Next]_vars PROVE Kept'
  OBVIOUS
<1>1. /\ mem \in Contents /\ store \in Stores /\ store.line \in Seq(Writer)
      /\ Len(store.line) \in Nat /\ clock \in 0..MaxClock
      /\ (store.line = <<>> => store.writing = Nothing)
  BY DEF IInv, TypeOK, Stores, Holder
<1>2. ASSUME NEW m, Report(m), m \in Contents, disk' = disk
      PROVE  Kept'
  <2>1. store'.data = Later /\ store'.delay /\ Later # Nothing
    <3>1. store' = DelaySave(store)
      BY <1>2 DEF Report
    <3>2. store'.delay = TRUE
      BY <1>1, <3>1 DEF DelaySave, Stores
    <3> QED BY <1>1, <3>1, <3>2, Delayed, StoreValues
  <2> QED BY <2>1 DEF Kept
<1>3. ASSUME NEW m \in Contents, NEW kind \in {"user", "idle"}, Call(kind, m)
      PROVE  Kept'
  <2> DEFINE s == [store EXCEPT !.data = m]
             w == [by |-> kind, stored |-> m]
  <2>1. s \in Stores /\ s.line = store.line /\ s.writing = store.writing /\ s.data = m
    BY <1>1 DEF Stores
  <2>2. w \in Writer
    BY DEF Writer
  <2>3. mem' = m /\ store' = Enter(s, w, m) /\ disk' = disk
    BY <1>3 DEF Call, SaveNow
  <2> HIDE DEF s, w
  <2> QED BY <2>1, <2>2, <2>3, EnterKept
<1>4. /\ \A c \in {Counted(mem), [Counted(mem) EXCEPT !.last = clock],
                   Started(mem), Ended(mem)} : c \in Contents
      /\ [mem EXCEPT !.rev = @ + 1, !.idle = ~@] \in Contents
      /\ Fresh \in Contents
  BY <1>1, ChangeTypes
<1>5. CASE Observe
  BY <1>2, <1>4, <1>5 DEF Observe
<1>6. ASSUME NEW m \in Contents, Command(m)
      PROVE  Kept'
  BY <1>3, <1>6 DEF Command
<1>7. CASE StartSession
  BY <1>1, <1>4, <1>6, <1>7 DEF StartSession
<1>8. CASE EndSession
  BY <1>1, <1>4, <1>6, <1>8 DEF EndSession
<1>9. CASE NewSession
  BY <1>4, <1>6, <1>9 DEF NewSession
<1>10. CASE SetIdleMinutes
  BY <1>4, <1>6, <1>10 DEF SetIdleMinutes
<1>11. CASE EndIdle
  <2>1. CASE UNCHANGED <<mem, disk, store>>
    BY <2>1 DEF Kept
  <2>2. CASE Call("idle", Ended(mem))
    BY <1>3, <1>4, <2>2
  <2> QED BY <1>11, <2>1, <2>2 DEF EndIdle
<1>12. CASE DelayEnds
  <2> DEFINE s == [store EXCEPT !.delay = FALSE]
             w == [by |-> "delay"]
  <2>1. s \in Stores /\ s.line = store.line /\ s.writing = store.writing
        /\ s.data = store.data
    BY <1>1 DEF Stores
  <2>2. w \in Writer
    BY DEF Writer
  <2>3. mem' = mem /\ store' = Enter(s, w, mem') /\ disk' = disk
    BY <1>12 DEF DelayEnds
  <2> HIDE DEF s, w
  <2> QED BY <1>1, <2>1, <2>2, <2>3, EnterKept
<1>13. CASE Wake
  <2>1. CASE store.data # Nothing /\ store' = Take(store, mem)
    <3>1. /\ store'.writing = (IF store.data = Later THEN mem ELSE store.data)
          /\ store'.writing # Nothing /\ store'.data = Nothing
      BY <1>1, <2>1, Taken
    <3> QED BY <1>13, <2>1, <3>1 DEF Wake, Kept
  <2>2. CASE store.data = Nothing /\ store' = Leave(store)
    <3>1. store.line # <<>> /\ UNCHANGED <<mem, disk>>
      BY <1>13 DEF Wake
    <3>2. store'.writing = Nothing /\ store'.data = Nothing
      BY <1>1, <2>2, <3>1, Left
    <3> QED BY <1>13, <2>2, <3>1, <3>2 DEF Wake, Kept
  <2> QED BY <1>13, <2>1, <2>2 DEF Wake
<1>14. CASE WriteEnds
  <2>1. store.line # <<>> /\ store.writing # Nothing
        /\ disk' = store.writing /\ mem' = mem /\ store' = Leave(store)
    BY <1>1, <1>14 DEF WriteEnds
  <2>2. /\ Len(store'.line) = Len(store.line) - 1
        /\ store'.writing = Nothing /\ store'.data = store.data
        /\ store'.delay = store.delay
    BY <1>1, <2>1, Left
  <2> QED BY <1>1, <2>1, <2>2 DEF Kept
<1>15. CASE StopSaves
  <2>1. CASE store' = store /\ UNCHANGED <<mem, disk>>
    BY <2>1 DEF Kept
  <2>2. CASE store' = SaveNow(store, [by |-> "stop"], mem) /\ UNCHANGED <<mem, disk>>
    <3> DEFINE s == [store EXCEPT !.data = mem]
               w == [by |-> "stop"]
    <3>1. s \in Stores /\ s.line = store.line /\ s.writing = store.writing
          /\ s.data = mem
      BY <1>1 DEF Stores
    <3>2. w \in Writer
      BY DEF Writer
    <3>3. store' = Enter(s, w, mem')
      BY <2>2 DEF SaveNow
    <3> HIDE DEF s, w
    <3> QED BY <1>1, <2>2, <3>1, <3>2, <3>3, EnterKept
  <2> QED BY <1>15, <2>1, <2>2 DEF StopSaves
<1>16. ASSUME NEW file, Setup(file)
       PROVE  Kept'
  <2>1. CASE file = Nothing
    <3>1. store' = DelaySave(Empty)
      BY <1>16, <2>1 DEF Setup
    <3>2. Empty \in Stores
      BY DEF Empty, Stores
    <3>3. store'.delay = TRUE
      BY <3>1, <3>2 DEF DelaySave, Stores
    <3> QED BY <3>1, <3>2, <3>3, Delayed, StoreValues DEF Kept
  <2>2. CASE file # Nothing
    <3>1. store' = Empty /\ mem' = file /\ disk' = file
      BY <1>16, <2>2 DEF Setup, Restored
    <3> QED BY <3>1 DEF Kept, Empty
  <2> QED BY <2>1, <2>2
<1>17. CASE Restart
  BY <1>16, <1>17 DEF Restart
<1>18. CASE Crash
  BY <1>16, <1>18 DEF Crash
<1>19. CASE StopBegins \/ Tick \/ UNCHANGED vars
  <2>1. UNCHANGED <<mem, disk, store>>
    BY <1>19 DEF StopBegins, Tick, vars
  <2> QED BY <2>1 DEF Kept
<1> QED BY <1>5, <1>7, <1>8, <1>9, <1>10, <1>11, <1>12, <1>13, <1>14, <1>15, <1>17,
           <1>18, <1>19 DEF Next

\* While the file lacks something, a save is due or under way.
THEOREM NothingIsForgotten == Spec => []NothingForgotten
<1>1. Init => Kept
  <2>1. Empty \in Stores
    BY DEF Empty, Stores
  <2>2. ASSUME Init PROVE store.data = Later /\ store.delay = TRUE
    BY <2>1, <2>2, Delayed DEF Init, DelaySave, Stores
  <2> QED BY <2>2, StoreValues DEF Kept
<1>2. IInv /\ Kept => NothingForgotten
  <2> SUFFICES ASSUME IInv, Kept, disk = Nothing \/ ~Same(disk, mem)
               PROVE  store.delay \/ store.line # <<>>
    BY DEF NothingForgotten
  <2>1. disk # mem
    <3>1. mem # Nothing
      BY StoreValues DEF IInv, TypeOK
    <3> QED BY <3>1 DEF Same
  <2> QED BY <2>1 DEF IInv, Holder, Kept
<1> QED BY <1>1, <1>2, Start, Step, KeptStep, PTL DEF Spec

\* What Durable means: no announced change is lost, over any number of crashes.
THEOREM DurableKeepsTold == D!Spec => []D!ToldIsSaved
<1> DEFINE Ordered == /\ mem.rev \in Nat /\ FileRev(disk) \in Nat /\ answered \in Nat
                      /\ D!ToldIsSaved
<1>1. D!Init => Ordered
  BY DEF D!Init, D!ToldIsSaved
<1>2. Ordered /\ [D!Next]_D!dvars => Ordered'
  <2> SUFFICES ASSUME Ordered, [D!Next]_D!dvars PROVE Ordered'
    OBVIOUS
  <2>1. CASE D!Change
    BY <2>1 DEF D!Change, D!ToldIsSaved
  <2>2. CASE D!Keep
    BY <2>2 DEF D!Keep, D!ToldIsSaved
  <2>3. CASE D!Crash
    BY <2>3 DEF D!Crash, D!ToldIsSaved
  <2>4. CASE UNCHANGED D!dvars
    BY <2>4 DEF D!dvars, D!ToldIsSaved
  <2> QED BY <2>1, <2>2, <2>3, <2>4 DEF D!Next
<1>3. Ordered => D!ToldIsSaved
  OBVIOUS
<1> QED BY <1>1, <1>2, <1>3, PTL DEF D!Spec

-----------------------------------------------------------------------------
(* The idle end.                                                           *)

\* A writer of this kind waits for or holds the lock.
Queued(kind, s) == \E i \in DOMAIN s.line : s.line[i].by = kind

\* The timer runs no later than the end of the pause, and only if there is one.
TimedFor(m, t, now) ==
    IF Due(m) = Nothing THEN t = Nothing
    ELSE t # Nothing /\ t <= Latest(Due(m), now)

\* Who asks for the lock is in the line, with all who were.
LEMMA EnterQueues ==
    ASSUME NEW s \in Stores, NEW w \in Writer, NEW m \in Contents,
           s.line = <<>> => s.writing = Nothing, NEW kind
    PROVE  Queued(kind, Enter(s, w, m)) <=> Queued(kind, s) \/ w.by = kind
<1> DEFINE n == Len(s.line)
           e == Enter(s, w, m)
<1>1. /\ e \in Stores /\ Len(e.line) = n + 1 /\ e.line[n + 1] = w
      /\ \A i \in 1..n : e.line[i] = s.line[i]
  BY Entered
<1> HIDE DEF e
<1>2. n \in Nat /\ DOMAIN s.line = 1..n /\ DOMAIN e.line = 1..(n + 1)
  BY <1>1 DEF Stores
<1> HIDE DEF n
<1>3. Queued(kind, e) => Queued(kind, s) \/ w.by = kind
  <2> SUFFICES ASSUME NEW i \in DOMAIN e.line, e.line[i].by = kind
               PROVE  Queued(kind, s) \/ w.by = kind
    BY DEF Queued
  <2>1. i \in 1..n \/ i = n + 1
    BY <1>2
  <2> QED BY <1>1, <1>2, <2>1 DEF Queued
<1>4. Queued(kind, s) => Queued(kind, e)
  <2> SUFFICES ASSUME NEW i \in DOMAIN s.line, s.line[i].by = kind
               PROVE  Queued(kind, e)
    BY DEF Queued
  <2>1. i \in 1..n /\ i \in DOMAIN e.line
    BY <1>2
  <2> QED BY <1>1, <2>1 DEF Queued
<1>5. w.by = kind => Queued(kind, e)
  <2>1. n + 1 \in DOMAIN e.line
    BY <1>2
  <2> QED BY <1>1, <2>1 DEF Queued
<1> QED BY <1>3, <1>4, <1>5 DEF e

\* Only the first leaves the line.
LEMMA LeaveQueues ==
    ASSUME NEW s \in Stores, s.line # <<>>, NEW kind
    PROVE  /\ Queued(kind, Leave(s)) => Queued(kind, s)
           /\ Queued(kind, s) => Queued(kind, Leave(s)) \/ Head(s.line).by = kind
<1> DEFINE n == Len(s.line)
           e == Leave(s)
<1>1. /\ e \in Stores /\ Len(e.line) = n - 1
      /\ \A i \in 1..(n - 1) : e.line[i] = s.line[i + 1]
  BY Left
<1> HIDE DEF e
<1>2. /\ n \in Nat /\ DOMAIN s.line = 1..n /\ DOMAIN e.line = 1..(n - 1)
      /\ Head(s.line) = s.line[1]
  <2>1. s.line \in Seq(Writer) /\ e.line \in Seq(Writer)
    BY <1>1 DEF Stores
  <2> QED BY <1>1, <2>1
<1> HIDE DEF n
<1>3. Queued(kind, e) => Queued(kind, s)
  <2> SUFFICES ASSUME NEW i \in DOMAIN e.line, e.line[i].by = kind
               PROVE  Queued(kind, s)
    BY DEF Queued
  <2>1. i \in 1..(n - 1) /\ i + 1 \in DOMAIN s.line
    BY <1>2
  <2> QED BY <1>1, <2>1 DEF Queued
<1>4. Queued(kind, s) => Queued(kind, e) \/ Head(s.line).by = kind
  <2> SUFFICES ASSUME NEW i \in DOMAIN s.line, s.line[i].by = kind
               PROVE  Queued(kind, e) \/ Head(s.line).by = kind
    BY DEF Queued
  <2>1. CASE i = 1
    BY <1>2, <2>1
  <2>2. CASE i # 1
    <3>1. i - 1 \in 1..(n - 1) /\ (i - 1) + 1 = i
      BY <1>2, <2>2
    <3> QED BY <1>1, <1>2, <3>1 DEF Queued
  <2> QED BY <2>1, <2>2
<1> QED BY <1>3, <1>4 DEF e

\* Waiting and Calling are about the line alone.
LEMMA WaitingIs ==
    /\ \A kind : Waiting(kind) = {} <=> ~Queued(kind, store)
    /\ \A kind : (Waiting(kind) = {})' <=> ~Queued(kind, store')
    /\ Calling = {} <=> ~Queued("user", store) /\ ~Queued("idle", store)
    /\ (Calling = {})' <=> ~Queued("user", store') /\ ~Queued("idle", store')
BY DEF Waiting, Calling, Queued

\* _schedule_idle_end fits whatever the session is.
LEMMA ScheduledFits ==
    ASSUME NEW m \in Contents, clock \in Nat
    PROVE  TimedFor(m, Scheduled(m), clock)
<1>1. CASE Due(m) = Nothing
  BY <1>1 DEF Scheduled, TimedFor
<1>2. CASE Due(m) # Nothing
  <2>1. m.last \in Nat
    BY <1>2 DEF Due, Contents, Times
  <2>2. Due(m) \in Nat
    BY <1>2, <2>1, StoreAssumption DEF Due
  <2>3. Latest(Due(m), clock) \in Nat
    BY <2>2 DEF Latest
  <2> QED BY <1>2, <2>3, StoreValues DEF Scheduled, TimedFor
<1> QED BY <1>1, <1>2

\* What the timer was set for passes no earlier.
LEMMA TimedLater ==
    ASSUME NEW m \in Contents, NEW t \in {Nothing} \cup Nat, clock \in Nat,
           TimedFor(m, t, clock)
    PROVE  TimedFor(m, t, clock + 1)
<1>1. CASE Due(m) = Nothing
  BY <1>1 DEF TimedFor
<1>2. CASE Due(m) # Nothing
  <2>1. m.last \in Nat
    BY <1>2 DEF Due, Contents, Times
  <2>2. Due(m) \in Nat
    BY <1>2, <2>1, StoreAssumption DEF Due
  <2> QED BY <1>2, <2>2 DEF TimedFor, Latest
<1> QED BY <1>1, <1>2

\* TimerFits, in terms of these.
Timed ==
    phase = "up" /\ ~Queued("user", store) /\ ~Queued("idle", store)
        => TimedFor(mem, timer, clock)

\* Every step leaves the timer right, or a command that will set it.
LEMMA TimedStep ==
    ASSUME IInv, Timed, [Next]_vars
    PROVE  Timed'
<1>1. /\ mem \in Contents /\ store \in Stores /\ timer \in {Nothing} \cup Nat
      /\ clock \in Nat /\ clock \in 0..MaxClock
      /\ (store.line = <<>> => store.writing = Nothing)
  BY DEF IInv, TypeOK, Holder
<1>2. ASSUME NEW m \in Contents, Report(m), phase' = phase, clock' = clock
      PROVE  Timed'
  <2>1. mem' = m /\ timer' = Scheduled(m) /\ store'.line = store.line
    BY <1>1, <1>2, Delayed DEF Report
  <2>2. TimedFor(mem', timer', clock')
    BY <1>1, <1>2, <2>1, ScheduledFits
  <2> QED BY <2>1, <2>2 DEF Timed, Queued
<1>3. ASSUME NEW m \in Contents, NEW kind \in {"user", "idle"}, Call(kind, m)
      PROVE  Timed'
  <2> DEFINE s == [store EXCEPT !.data = m]
             w == [by |-> kind, stored |-> m]
  <2>1. s \in Stores /\ s.line = store.line /\ s.writing = store.writing
    BY <1>1 DEF Stores
  <2>2. w \in Writer /\ w.by = kind
    BY DEF Writer
  <2>3. store' = Enter(s, w, m)
    BY <1>3 DEF Call, SaveNow
  <2> HIDE DEF s, w
  <2>4. \A k : Queued(k, store') <=> Queued(k, s) \/ kind = k
    BY <1>1, <2>1, <2>2, <2>3, EnterQueues
  <2>5. Queued("user", store') \/ Queued("idle", store')
    BY <2>4
  <2> QED BY <2>1, <2>4, <2>5 DEF Timed, Queued
<1>4. /\ \A c \in {Counted(mem), [Counted(mem) EXCEPT !.last = clock],
                   Started(mem), Ended(mem)} : c \in Contents
      /\ [mem EXCEPT !.rev = @ + 1, !.idle = ~@] \in Contents
      /\ Fresh \in Contents
  BY <1>1, ChangeTypes
<1>5. CASE Observe
  BY <1>2, <1>4, <1>5 DEF Observe
<1>6. ASSUME NEW m \in Contents, Command(m)
      PROVE  Timed'
  BY <1>3, <1>6 DEF Command
<1>7. CASE StartSession
  BY <1>1, <1>4, <1>6, <1>7 DEF StartSession
<1>8. CASE EndSession
  BY <1>1, <1>4, <1>6, <1>8 DEF EndSession
<1>9. CASE NewSession
  BY <1>4, <1>6, <1>9 DEF NewSession
<1>10. CASE SetIdleMinutes
  BY <1>4, <1>6, <1>10 DEF SetIdleMinutes
<1>11. CASE EndIdle
  <2>1. CASE timer' = Scheduled(mem)
             /\ UNCHANGED <<mem, disk, store, dirty, phase, clock, answered, crashes>>
    <3>1. TimedFor(mem', timer', clock')
      BY <1>1, <2>1, ScheduledFits
    <3> QED BY <2>1, <3>1 DEF Timed
  <2>2. CASE Overdue /\ Call("idle", Ended(mem))
    BY <1>3, <1>4, <2>2
  <2> QED BY <1>11, <2>1, <2>2 DEF EndIdle
<1>12. CASE DelayEnds
  <2> DEFINE s == [store EXCEPT !.delay = FALSE]
             w == [by |-> "delay"]
  <2>1. s \in Stores /\ s.line = store.line /\ s.writing = store.writing
    BY <1>1 DEF Stores
  <2>2. w \in Writer /\ w.by = "delay"
    BY DEF Writer
  <2>3. store' = Enter(s, w, mem) /\ UNCHANGED <<mem, timer, phase, clock>>
    BY <1>12 DEF DelayEnds
  <2> HIDE DEF s, w
  <2>4. \A k : Queued(k, store') <=> Queued(k, s) \/ "delay" = k
    BY <1>1, <2>1, <2>2, <2>3, EnterQueues
  <2>5. \A k : Queued(k, s) <=> Queued(k, store)
    BY <2>1 DEF Queued
  <2>6. /\ Queued("user", store') <=> Queued("user", store)
        /\ Queued("idle", store') <=> Queued("idle", store)
    BY <2>4, <2>5
  <2> QED BY <2>3, <2>6 DEF Timed
<1>13. ASSUME store.line # <<>>, store' = Leave(store), Finish(Head(store.line)),
              mem' = mem, clock' = clock
       PROVE  Timed'
  <2> DEFINE w == Head(store.line)
  <2>1. /\ Queued("idle", store) => Queued("idle", store') \/ w.by = "idle"
        /\ Queued("user", store) => Queued("user", store') \/ w.by = "user"
    BY <1>1, <1>13, LeaveQueues
  <2> HIDE DEF w
  <2>2. CASE w.by \in {"user", "idle"} /\ Announce(w.stored)
    <3>1. TimedFor(mem', timer', clock')
      BY <1>1, <1>13, <2>2, ScheduledFits DEF Announce
    <3> QED BY <2>1, <3>1 DEF Timed
  <2>3. CASE w.by = "delay" /\ UNCHANGED <<dirty, timer, answered, phase>>
    BY <1>13, <2>1, <2>3 DEF Timed
  <2>4. CASE phase' = "off"
    BY <2>1, <2>4 DEF Timed
  <2>5. Finish(w)
    BY <1>13 DEF w
  <2> QED BY <2>2, <2>3, <2>4, <2>5 DEF Finish
<1>14. CASE Wake
  <2>1. CASE store.data # Nothing /\ store' = Take(store, mem)
             /\ UNCHANGED <<dirty, timer, answered, phase>>
    <3>1. store'.line = store.line /\ UNCHANGED <<mem, clock>>
      BY <1>1, <1>14, <2>1, Taken DEF Wake
    <3> QED BY <2>1, <3>1 DEF Timed, Queued
  <2>2. CASE store' = Leave(store) /\ Finish(Head(store.line))
    BY <1>13, <1>14, <2>2 DEF Wake
  <2> QED BY <1>14, <2>1, <2>2 DEF Wake
<1>15. CASE WriteEnds
  BY <1>1, <1>13, <1>15 DEF WriteEnds
<1>16. CASE StopBegins
  BY <1>16 DEF StopBegins, Timed
<1>17. CASE StopSaves
  <2>1. phase' # "up"
    BY <1>17 DEF StopSaves
  <2> QED BY <2>1 DEF Timed
<1>18. ASSUME NEW file \in {Nothing} \cup Contents, Setup(file)
       PROVE  Timed'
  <2>1. Restored(file) \in Contents
    BY <1>4 DEF Restored
  <2>2. TimedFor(mem', timer', clock')
    BY <1>1, <1>18, <2>1, ScheduledFits DEF Setup
  <2> QED BY <2>2 DEF Timed
<1>19. CASE Restart
  BY <1>18, <1>19 DEF Restart, IInv, TypeOK
<1>20. CASE Crash
  BY <1>1, <1>18, <1>20 DEF Crash, IInv, TypeOK, Stores
<1>21. CASE Tick
  <2>1. clock' = clock + 1 /\ UNCHANGED <<mem, store, timer, phase>>
    BY <1>21 DEF Tick
  <2>2. TimedFor(mem, timer, clock) => TimedFor(mem, timer, clock + 1)
    BY <1>1, TimedLater
  <2> QED BY <2>1, <2>2 DEF Timed
<1>22. CASE UNCHANGED vars
  BY <1>22 DEF vars, Timed
<1> QED BY <1>5, <1>7, <1>8, <1>9, <1>10, <1>11, <1>12, <1>14, <1>15, <1>16, <1>17,
           <1>19, <1>20, <1>21, <1>22 DEF Next

\* A coordinator that was just made has a timer that fits.
LEMMA TimedStart == Init => Timed
<1> SUFFICES ASSUME Init PROVE Timed
  OBVIOUS
<1>1. Due(mem) = Nothing /\ timer = Nothing
  BY DEF Init, Fresh, Due
<1> QED BY <1>1 DEF Timed, TimedFor

\* With no command under way, the timer runs for the end of the pause, and only
\* then (_schedule_idle_end after every change, save and restart).
THEOREM IdleEndIsScheduled == Spec => []TimerFits
<1>1. Timed => TimerFits
  BY WaitingIs DEF Timed, TimedFor, TimerFits
<1>2. IInv /\ Timed /\ [Next]_vars => Timed'
  BY TimedStep
<1> QED BY <1>1, <1>2, Start, Step, TimedStart, PTL DEF Spec
=============================================================================
