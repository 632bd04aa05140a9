-------------------------- MODULE GenerationProofs --------------------------
(***************************************************************************)
(* The entities always fit the generation in use, for every set of boards  *)
(* and every number of changes and faults; and a board without the         *)
(* headless endpoint stays a classic one, if no board tells a headless     *)
(* version and lacks it.                                                   *)
(*                                                                         *)
(* EntitiesFit is not inductive: _set_generation compares the generation   *)
(* with setup_generation, not with the entities.  Fits says how the three  *)
(* are related while the entry is set up; a coordinator in its first       *)
(* refresh is not set up yet and schedules no reload (Fresh).              *)
(***************************************************************************)
EXTENDS Generation, TLAPS

Fresh(c) == c.setup = Unknown /\ ~c.reload

Fits(c, entities) ==
    /\ c.setup # Unknown
    /\ Headless(c.setup) <=> Headless(c.generation)
    /\ ~c.reload => entities = Class(c.setup)

IInv == TypeOK /\ (loaded => Fits(coordinator, built))

\* _set_generation keeps the relation: it schedules a reload when it breaks.
LEMMA SetKeeps ==
    ASSUME NEW c \in Coordinator, NEW g \in 1..2, NEW entities \in 1..2
    PROVE  /\ Set(c, g) \in Coordinator
           /\ Fresh(c) => Fresh(Set(c, g))
           /\ Fits(c, entities) => Fits(Set(c, g), entities)
<1> DEFINE changed == /\ c.setup # Unknown
                      /\ ~(Headless(c.setup) <=> Headless(g))
           turned == [c EXCEPT !.generation = g]
           noted == [turned EXCEPT !.setup = IF changed THEN g ELSE @]
           told == [noted EXCEPT !.reload = @ \/ changed]
<1>1. Set(c, g) = told
  BY DEF Set
<1>2. turned \in Coordinator /\ turned.generation = g
      /\ turned.setup = c.setup /\ turned.reload = c.reload
  BY DEF Coordinator
<1> HIDE DEF turned
<1>3. noted \in Coordinator /\ noted.generation = g
      /\ noted.setup = (IF changed THEN g ELSE c.setup) /\ noted.reload = c.reload
  BY <1>2 DEF Coordinator
<1> HIDE DEF noted
<1>4. told \in Coordinator /\ told.generation = g
      /\ told.setup = (IF changed THEN g ELSE c.setup)
      /\ told.reload = (c.reload \/ changed)
  BY <1>3 DEF Coordinator
<1> HIDE DEF told
<1>5. Fresh(c) => Fresh(told)
  BY <1>4 DEF Fresh
<1>6. Fits(c, entities) => Fits(told, entities)
  <2>1. CASE changed
    <3>1. told.setup = g /\ told.generation = g /\ told.reload
      BY <1>4, <2>1
    <3>2. g # Unknown
      BY DEF Unknown
    <3> QED BY <3>1, <3>2 DEF Fits
  <2>2. CASE ~changed
    <3>1. told.setup = c.setup /\ told.generation = g /\ (told.reload <=> c.reload)
      BY <1>4, <2>2
    <3>2. HAVE Fits(c, entities)
    <3>3. c.setup # Unknown /\ (Headless(c.setup) <=> Headless(g))
      BY <2>2, <3>2 DEF Fits
    <3> QED BY <3>1, <3>2, <3>3 DEF Fits
  <2> QED BY <2>1, <2>2
<1> QED BY <1>1, <1>4, <1>5, <1>6

\* So does every part of a poll.
LEMMA PollKeeps ==
    ASSUME TypeOK, NEW c \in Coordinator, NEW entities \in 1..2,
           NEW first \in BOOLEAN, NEW system \in BOOLEAN, NEW version \in BOOLEAN
    PROVE  /\ Poll(c, first, system, version) \in Coordinator
           /\ Fresh(c) => Fresh(Poll(c, first, system, version))
           /\ Fits(c, entities) => Fits(Poll(c, first, system, version), entities)
<1> DEFINE Keeps(a, b) ==
      /\ b \in Coordinator
      /\ Fresh(a) => Fresh(b)
      /\ Fits(a, entities) => Fits(b, entities)
<1>0. board.version \in 0..2 /\ board.system \in BOOLEAN
  BY GenerationAssumption DEF TypeOK
<1> DEFINE asked == Ask(c, first)
<1>2. Keeps(c, asked)
  <2> DEFINE told == [c EXCEPT !.version = board.version]
  <2>1. Keeps(c, told)
    BY <1>0 DEF Coordinator, Fresh, Fits
  <2>2. CASE board.version # Unknown
    <3>1. told \in Coordinator /\ board.version \in 1..2
      BY <1>0, <2>1, <2>2 DEF Unknown
    <3>2. Keeps(told, Set(told, board.version))
      BY <3>1, SetKeeps
    <3> QED BY <2>1, <3>2 DEF Ask, Fresh, Fits
  <2>3. CASE board.version = Unknown
    BY <2>3 DEF Ask
  <2> QED BY <2>2, <2>3
<1> DEFINE read == ReadSystem(asked, system)
<1>3. Keeps(asked, read)
  <2> DEFINE refused == [asked EXCEPT !.supported = "no"]
             answered == [asked EXCEPT !.supported = "yes",
                            !.version = IF system /\ board.version # Unknown
                                        THEN board.version ELSE @]
  <2>1. asked \in Coordinator
    BY <1>2
  <2>2. Keeps(asked, refused) /\ Keeps(asked, answered)
    BY <1>0, <2>1 DEF Coordinator, Fresh, Fits
  <2>3. Keeps(refused, Set(refused, 1))
    BY <2>2, SetKeeps
  <2>4. CASE ~Headless(asked.generation)
    BY <2>1, <2>4 DEF ReadSystem
  <2>5. CASE Headless(asked.generation) /\ Missing(asked, system)
    <3>1. ReadSystem(asked, system) = Set(refused, 1)
      BY <2>5 DEF ReadSystem
    <3> QED BY <2>2, <2>3, <3>1
  <2>6. CASE Headless(asked.generation) /\ ~Missing(asked, system)
    <3>1. ReadSystem(asked, system) = answered
      BY <2>6 DEF ReadSystem
    <3> QED BY <2>2, <3>1
  <2> QED BY <2>4, <2>5, <2>6
<1> DEFINE legacy == ~Headless(asked.generation) \/ Missing(asked, system)
           told == IF legacy THEN ReadLegacy(read, version) ELSE read
           done == IF told.version \notin {Unknown, told.generation} /\ ~Outvoted(told)
                   THEN Set(told, told.version) ELSE told
<1>4. Keeps(read, told)
  <2>1. read \in Coordinator
    BY <1>3
  <2>2. Keeps(read, ReadLegacy(read, version))
    BY <1>0, <2>1 DEF ReadLegacy, Coordinator, Fresh, Fits
  <2> QED BY <2>1, <2>2
<1>5. Keeps(told, done)
  <2>1. told \in Coordinator
    BY <1>4
  <2>2. CASE told.version # Unknown
    <3>1. told.version \in 1..2
      BY <2>1, <2>2 DEF Coordinator, Unknown
    <3> HIDE DEF told
    <3>2. Keeps(told, Set(told, told.version))
      BY <2>1, <3>1, SetKeeps
    <3> QED BY <2>1, <3>2
  <2>3. CASE told.version = Unknown
    BY <2>1, <2>3
  <2> QED BY <2>2, <2>3
<1>6. Poll(c, first, system, version) = done
  BY DEF Poll
<1> HIDE DEF done, told, read, asked
<1>7. Keeps(c, done)
  BY <1>2, <1>3, <1>4, <1>5
<1> QED BY <1>6, <1>7

\* A coordinator starts fresh, with what is stored.
LEMMA NewIsFresh ==
    ASSUME NEW g \in 0..2
    PROVE  New(g) \in Coordinator /\ Fresh(New(g)) /\ New(g).generation = g
BY DEF New, Coordinator, Fresh, Unknown

\* Setting up ends the first refresh with the entities of its generation.
LEMMA SetUpFits ==
    ASSUME NEW c \in Coordinator, Fresh(c)
    PROVE  SetUp(c) \in Coordinator /\ Fits(SetUp(c), Class(c.generation))
BY DEF SetUp, Coordinator, Fresh, Fits, Headless, Class, Unknown

\* A poll of a coordinator that is set up.
LEMMA PollsIInv ==
    ASSUME IInv, loaded, NEW first \in BOOLEAN, NEW system \in BOOLEAN,
           NEW version \in BOOLEAN, Refresh(first, system, version)
    PROVE  IInv'
<1>1. /\ TypeOK /\ Fits(coordinator, built)
      /\ coordinator \in Coordinator /\ built \in 1..2
  BY DEF IInv, TypeOK
<1>2. /\ coordinator' = Poll(coordinator, first, system, version)
      /\ stored' = coordinator'.generation
      /\ missing' = (missing \/ Missing(Ask(coordinator, first), system))
      /\ UNCHANGED <<board, loaded, built, changes>>
  BY DEF Refresh, Polls
<1>3. coordinator' \in Coordinator /\ Fits(coordinator', built)
  BY <1>1, <1>2, PollKeeps
<1>4. stored' \in 0..2
  BY <1>2, <1>3 DEF Coordinator
<1>5. missing' \in BOOLEAN
  BY <1>1, <1>2 DEF TypeOK, Missing
<1>6. faults' \in 0..MaxFaults
  BY <1>1, GenerationAssumption DEF TypeOK, Refresh, Polls, Faulty
<1>7. TypeOK'
  BY <1>1, <1>2, <1>3, <1>4, <1>5, <1>6 DEF TypeOK
<1> QED BY <1>2, <1>3, <1>7 DEF IInv

\* A setup, whose first refresh leaves the coordinator fresh.
LEMMA SetupIInv ==
    ASSUME IInv, NEW first \in BOOLEAN, NEW system \in BOOLEAN,
           NEW version \in BOOLEAN, Setup(first, system, version)
    PROVE  IInv'
<1> DEFINE c == Poll(New(stored), first, system, version)
<1>1. TypeOK /\ stored \in 0..2
  BY DEF IInv, TypeOK
<1>2. c \in Coordinator /\ Fresh(c)
  BY <1>1, NewIsFresh, PollKeeps
<1>3. /\ coordinator' = SetUp(c) /\ stored' = c.generation
      /\ built' = Class(c.generation)
      /\ missing' = (missing \/ Missing(Ask(New(stored), first), system))
      /\ UNCHANGED <<board, changes>> /\ loaded'
      /\ loaded' \in BOOLEAN
  BY DEF Setup
<1> HIDE DEF c
<1>4. coordinator' \in Coordinator /\ Fits(coordinator', built')
  BY <1>2, <1>3, SetUpFits
<1>5. stored' \in 0..2 /\ built' \in 1..2
  BY <1>2, <1>3 DEF Coordinator, Class
<1>6. missing' \in BOOLEAN
  BY <1>1, <1>3 DEF TypeOK, Missing
<1>7. faults' \in 0..MaxFaults
  BY <1>1, GenerationAssumption DEF TypeOK, Setup, Faulty
<1>8. TypeOK'
  BY <1>1, <1>3, <1>4, <1>5, <1>6, <1>7 DEF TypeOK
<1> QED BY <1>4, <1>8 DEF IInv

\* The relation between the generation, the setup and the entities is kept by
\* every step of the entry and of the board.
THEOREM StepKeepsIInv == IInv /\ [Next]_vars => IInv'
<1> SUFFICES ASSUME IInv, [Next]_vars PROVE IInv'
  OBVIOUS
<1>0. TypeOK /\ (loaded => Fits(coordinator, built))
  BY DEF IInv
<1>1. ASSUME NEW first \in BOOLEAN, NEW system \in BOOLEAN, NEW version \in BOOLEAN,
             Refresh(first, system, version)
      PROVE  IInv'
  BY <1>1, PollsIInv DEF Refresh
<1>2. ASSUME NEW first \in BOOLEAN, NEW system \in BOOLEAN, NEW version \in BOOLEAN,
             Setup(first, system, version)
      PROVE  IInv'
  BY <1>2, SetupIInv
<1>3. CASE SetupOffline
  <2>1. stored \in 0..2
    BY <1>0 DEF TypeOK
  <2>2. /\ coordinator' = SetUp(New(stored)) /\ built' = Class(stored)
        /\ UNCHANGED <<board, missing, stored, changes>>
        /\ loaded' /\ loaded' \in BOOLEAN
    BY <1>3 DEF SetupOffline
  <2>3. coordinator' \in Coordinator /\ Fits(coordinator', built')
    BY <2>1, <2>2, NewIsFresh, SetUpFits
  <2>4. built' \in 1..2 /\ faults' \in 0..MaxFaults
    BY <1>0, <1>3, <2>2, GenerationAssumption DEF TypeOK, SetupOffline, Faulty, Class
  <2> QED BY <1>0, <2>2, <2>3, <2>4 DEF IInv, TypeOK
<1>4. CASE Tick
  <2>1. coordinator \in Coordinator /\ loaded
    BY <1>0, <1>4 DEF TypeOK, Tick
  <2>2. coordinator' = [coordinator EXCEPT !.due = TRUE]
        /\ UNCHANGED <<board, missing, stored, loaded, built, changes, faults>>
    BY <1>4 DEF Tick
  <2>3. coordinator' \in Coordinator /\ Fits(coordinator', built)
    BY <1>0, <2>1, <2>2 DEF Coordinator, Fits
  <2> QED BY <1>0, <2>2, <2>3 DEF IInv, TypeOK
<1>5. CASE Unload
  <2>1. faults' \in 0..MaxFaults /\ loaded' = FALSE
        /\ UNCHANGED <<board, missing, stored, coordinator, built, changes>>
    BY <1>0, <1>5, GenerationAssumption DEF TypeOK, Unload, Faulty
  <2>2. TypeOK'
    BY <1>0, <2>1 DEF TypeOK
  <2> QED BY <2>1, <2>2 DEF IInv
<1>6. CASE Change
  <2>1. board' \in Boards /\ changes' \in 0..MaxChanges /\ missing' = FALSE
        /\ UNCHANGED <<stored, coordinator, loaded, built, faults>>
    BY <1>0, <1>6, GenerationAssumption DEF TypeOK, Change
  <2> QED BY <1>0, <2>1 DEF IInv, TypeOK
<1>7. CASE UNCHANGED vars
  BY <1>0, <1>7 DEF IInv, TypeOK, vars
<1> QED BY <1>1, <1>2, <1>3, <1>4, <1>5, <1>6, <1>7 DEF Next

\* The entry begins with what the config flow stored.
LEMMA InitIInv == Init => IInv
<1> SUFFICES ASSUME Init PROVE IInv
  OBVIOUS
<1>1. board \in Boards /\ board.version \in 0..2
  BY GenerationAssumption DEF Init
<1>2. stored \in 0..2 /\ coordinator = New(stored) /\ built = Class(stored)
  BY <1>1 DEF Init, Unknown
<1>3. coordinator \in Coordinator /\ built \in 1..2
  BY <1>2, NewIsFresh DEF Class
<1>4. /\ missing = FALSE /\ loaded = FALSE
      /\ changes \in 0..MaxChanges /\ faults \in 0..MaxFaults
  BY GenerationAssumption DEF Init
<1>5. TypeOK
  BY <1>1, <1>2, <1>3, <1>4 DEF TypeOK
<1> QED BY <1>4, <1>5 DEF IInv

\* The entities are those of the generation in use, or a reload is scheduled
\* that will build them (_set_generation and async_setup_entry).
THEOREM EntitiesAlwaysFit == Spec => []EntitiesFit
<1>1. Init => IInv
  BY InitIInv
<1>2. IInv => EntitiesFit
  <2> SUFFICES ASSUME Fits(coordinator, built), ~coordinator.reload
               PROVE  built = Class(coordinator.generation)
    BY DEF IInv, EntitiesFit
  <2> QED BY DEF Fits, Class
<1> QED BY <1>1, <1>2, StepKeepsIInv, PTL DEF Spec

-----------------------------------------------------------------------------
(* A board without /api/system stays a classic one.                        *)

\* Boards that tell a headless version have the headless endpoint.
Agreeing == \A b \in Boards : Headless(b.version) => b.system

\* A classic coordinator whose version does not override what it found.
Stays(c) == c.generation = 1 /\ (Headless(c.version) => c.supported = "no")

\* Once /api/system was found missing, the entry is stored and run as classic.
KeptClassic ==
    missing => /\ ~board.system /\ stored = 1
               /\ loaded => Stays(coordinator)

\* A poll that finds the endpoint missing turns the coordinator classic, and a
\* poll of a classic coordinator leaves it so.
LEMMA PollStays ==
    ASSUME TypeOK, Agreeing, ~board.system, NEW c \in Coordinator,
           NEW first \in BOOLEAN, NEW system \in BOOLEAN, NEW version \in BOOLEAN,
           Stays(c) \/ Missing(Ask(c, first), system)
    PROVE  Stays(Poll(c, first, system, version))
<1> DEFINE asked == Ask(c, first)
           read == ReadSystem(asked, system)
           legacy == ~Headless(asked.generation) \/ Missing(asked, system)
           told == IF legacy THEN ReadLegacy(read, version) ELSE read
           done == IF told.version \notin {Unknown, told.generation} /\ ~Outvoted(told)
                   THEN Set(told, told.version) ELSE told
<1>1. board.version \in 0..1
  <2>1. board.version \in 0..2 /\ ~Headless(board.version)
    BY GenerationAssumption DEF TypeOK, Agreeing
  <2> QED BY <2>1 DEF Headless
<1>2. asked \in Coordinator
  <2>1. board.version \in 0..2
    BY <1>1
  <2>2. [c EXCEPT !.version = board.version] \in Coordinator
    BY <2>1 DEF Coordinator
  <2>3. board.version # Unknown => board.version \in 1..2
    BY <1>1 DEF Unknown
  <2> DEFINE d == [c EXCEPT !.version = board.version]
  <2> HIDE DEF d
  <2>4. board.version # Unknown => Set(d, board.version) \in Coordinator
    BY <2>2, <2>3, SetKeeps DEF d
  <2> QED BY <2>4 DEF Ask, d
<1> HIDE DEF asked
<1>3. read \in Coordinator /\ Stays(read) /\ legacy
  <2>1. CASE Missing(asked, system)
    <3> DEFINE refused == [asked EXCEPT !.supported = "no"]
    <3>1. refused \in Coordinator /\ refused.supported = "no"
      BY <1>2 DEF Coordinator
    <3>2. read = Set(refused, 1)
      BY <2>1 DEF ReadSystem, Missing
    <3> HIDE DEF refused, read
    <3>3. read \in Coordinator
      BY <3>1, <3>2, SetKeeps
    <3>4. read.generation = 1 /\ read.supported = "no"
      BY <3>1, <3>2 DEF Set, Coordinator
    <3> QED BY <2>1, <3>3, <3>4 DEF Stays
  <2>2. CASE Stays(c) /\ ~Missing(asked, system)
    <3>1. asked = c
      BY <2>2 DEF asked, Ask, Stays, Unknown
    <3>2. ~Headless(asked.generation)
      BY <2>2, <3>1 DEF Stays, Headless
    <3>3. read = c
      BY <3>1, <3>2 DEF ReadSystem
    <3> QED BY <2>2, <3>2, <3>3
  <2> QED BY <2>1, <2>2 DEF asked
<1>4. told = ReadLegacy(read, version)
  BY <1>3
<1> HIDE DEF read, told, legacy
<1>5. told \in Coordinator /\ Stays(told)
  <2> DEFINE v == IF read.due /\ version /\ board.version # Unknown
                  THEN board.version ELSE read.version
  <2>1. v \in 0..2 /\ (v = read.version \/ v = board.version)
    BY <1>1, <1>3 DEF Coordinator
  <2>2. told = [read EXCEPT !.version = v, !.due = FALSE]
    BY <1>4 DEF ReadLegacy
  <2> HIDE DEF v
  <2>3. /\ told \in Coordinator /\ told.version = v
        /\ told.generation = read.generation /\ told.supported = read.supported
    BY <1>3, <2>1, <2>2 DEF Coordinator
  <2>4. ~Headless(board.version)
    BY <1>1 DEF Headless
  <2> QED BY <1>3, <2>1, <2>3, <2>4 DEF Stays
<1>6. done = told
  <2>1. told.version \in 0..2 /\ told.generation = 1 /\ (Headless(told.version) => told.supported = "no")
    BY <1>5 DEF Coordinator, Stays
  <2>2. told.version \notin {Unknown, told.generation} => Outvoted(told)
    BY <2>1 DEF Headless, Outvoted, Unknown
  <2> QED BY <2>2
<1>7. Poll(c, first, system, version) = done
  BY DEF Poll, told, read, legacy, asked
<1> QED BY <1>5, <1>6, <1>7

\* Every step keeps a board without the endpoint a classic one.
LEMMA HeldStep ==
    ASSUME Agreeing, IInv, KeptClassic, [Next]_vars
    PROVE  KeptClassic'
<1>0. TypeOK /\ stored \in 0..2 /\ (loaded => coordinator \in Coordinator)
  BY DEF IInv, TypeOK
<1>1. ASSUME NEW first \in BOOLEAN, NEW system \in BOOLEAN, NEW version \in BOOLEAN,
             Refresh(first, system, version)
      PROVE  KeptClassic'
  <2>1. /\ coordinator' = Poll(coordinator, first, system, version)
        /\ stored' = coordinator'.generation /\ board' = board /\ loaded' = loaded /\ loaded
        /\ missing' = (missing \/ Missing(Ask(coordinator, first), system))
    BY <1>1 DEF Refresh, Polls
  <2>2. ASSUME missing'
        PROVE  ~board.system /\ Stays(coordinator')
    <3>1. /\ ~board.system
          /\ Stays(coordinator) \/ Missing(Ask(coordinator, first), system)
      BY <2>1, <2>2 DEF KeptClassic, Missing
    <3> QED BY <1>0, <2>1, <3>1, PollStays
  <2> QED BY <2>1, <2>2 DEF KeptClassic, Stays
<1>2. ASSUME NEW first \in BOOLEAN, NEW system \in BOOLEAN, NEW version \in BOOLEAN,
             Setup(first, system, version)
      PROVE  KeptClassic'
  <2> DEFINE new == New(stored)
             c == Poll(new, first, system, version)
  <2>1. /\ coordinator' = SetUp(c) /\ stored' = c.generation /\ board' = board
        /\ missing' = (missing \/ Missing(Ask(new, first), system))
    BY <1>2 DEF Setup
  <2>2. new \in Coordinator /\ new.generation = stored /\ new.version = Unknown
    BY <1>0, NewIsFresh DEF New
  <2> HIDE DEF new
  <2>3. ASSUME missing'
        PROVE  ~board.system /\ Stays(c) /\ c \in Coordinator
    <3>1. ~board.system /\ (Stays(new) \/ Missing(Ask(new, first), system))
      <4>1. CASE missing
        <5>1. ~board.system /\ new.generation = 1
          BY <2>2, <4>1 DEF KeptClassic
        <5>2. ~Headless(new.version)
          BY <2>2 DEF Headless, Unknown
        <5> QED BY <5>1, <5>2 DEF Stays
      <4>2. CASE Missing(Ask(new, first), system)
        BY <4>2 DEF Missing
      <4> QED BY <2>1, <2>3, <4>1, <4>2
    <3> QED BY <1>0, <2>2, <3>1, PollStays, PollKeeps
  <2> HIDE DEF c
  <2>4. c \in Coordinator /\ Stays(c) => Stays(SetUp(c))
    BY DEF SetUp, Stays, Coordinator
  <2> QED BY <2>1, <2>3, <2>4 DEF KeptClassic, Stays
<1>3. CASE SetupOffline
  <2>1. /\ coordinator' = SetUp(New(stored)) /\ UNCHANGED <<board, missing, stored>>
    BY <1>3 DEF SetupOffline
  <2>2. stored = 1 => Stays(SetUp(New(stored)))
    BY DEF SetUp, New, Stays, Headless, Unknown
  <2> QED BY <2>1, <2>2 DEF KeptClassic
<1>4. CASE Tick
  <2>1. /\ coordinator' = [coordinator EXCEPT !.due = TRUE] /\ loaded
        /\ UNCHANGED <<board, missing, stored, loaded>>
    BY <1>4 DEF Tick
  <2>2. Stays(coordinator) => Stays(coordinator')
    BY <1>0, <2>1 DEF Stays, Coordinator
  <2> QED BY <2>1, <2>2 DEF KeptClassic
<1>5. CASE Unload
  BY <1>5 DEF Unload, KeptClassic
<1>6. CASE Change
  BY <1>6 DEF Change, KeptClassic
<1>7. CASE UNCHANGED vars
  BY <1>7 DEF vars, KeptClassic
<1> QED BY <1>1, <1>2, <1>3, <1>4, <1>5, <1>6, <1>7 DEF Next

\* A board on which /api/system was found missing is not run as a headless one
\* (_async_update_data), whatever version it told before, however reads fail and
\* however often the entry is reloaded.
THEOREM MissingStaysClassic ==
    ASSUME Agreeing
    PROVE  Spec => []MissingIsClassic
<1>1. Init => IInv
  BY InitIInv
<1>2. Init => KeptClassic
  BY DEF Init, KeptClassic
<1>3. IInv /\ KeptClassic /\ [Next]_vars => KeptClassic'
  BY HeldStep
<1>4. KeptClassic => MissingIsClassic
  BY DEF KeptClassic, MissingIsClassic, Stays, Headless
<1> QED BY <1>1, <1>2, <1>3, <1>4, StepKeepsIInv, PTL DEF Spec
=============================================================================
