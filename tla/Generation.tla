----------------------------- MODULE Generation -----------------------------
(***************************************************************************)
(* Which generation of the Board Manager an entry is set up for            *)
(* (local_coordinator.py, _async_update_data and _set_generation, and      *)
(* async_setup_entry): the classic board 1 or the headless board 2, told   *)
(* from its version and from whether it has /api/system.  A change reloads *)
(* the entry, which builds the entities of the other generation.           *)
(*                                                                         *)
(* A poll is one step, given which of its reads succeed: nothing else      *)
(* touches the state kept here between its reads.                          *)
(***************************************************************************)
EXTENDS Naturals

CONSTANTS
    Boards,         \* what the board can run: [version : 0..2, system : BOOLEAN]
    MaxChanges,     \* bound: changes of the board's software
    MaxFaults       \* bound: failed reads, setups without the board, restarts

ASSUME GenerationAssumption ==
    /\ Boards \subseteq [version : 0..2, system : BOOLEAN]
    /\ MaxChanges \in Nat /\ MaxFaults \in Nat

Unknown == 0        \* None: no generation or version is known

VARIABLES
    board,          \* the version the board tells, if any, and its endpoint
    missing,        \* a poll found /api/system missing on this board
    stored,         \* entry.data[CONF_API_GENERATION]
    coordinator,    \* the state of the running coordinator
    loaded,         \* the entry is set up
    built,          \* the generation whose entities are registered
    changes, faults

vars == <<board, missing, stored, coordinator, loaded, built, changes, faults>>

\* version is the last one told; due: it is read again with the next legacy
\* read; supported is _system_supported; reload: a reload is scheduled.
Coordinator == [generation : 0..2, setup : 0..2, version : 0..2, due : BOOLEAN,
                supported : {"unknown", "yes", "no"}, reload : BOOLEAN]

\* board_manager_2: an unknown board is treated as a classic one.
Headless(generation) == generation >= 2

\* The generation whose entities are built.
Class(generation) == IF Headless(generation) THEN 2 ELSE 1

\* __init__ of the coordinator.
New(generation) ==
    [generation |-> generation, setup |-> Unknown, version |-> Unknown,
     due |-> TRUE, supported |-> "unknown", reload |-> FALSE]

\* Mutant: a change does not reload the entry.
Set_NoReload(c, generation) == [c EXCEPT !.generation = generation]

\* _set_generation: a change of the class after the setup reloads the entry.
Set(c, generation) ==
    LET changed == /\ c.setup # Unknown
                   /\ ~(Headless(c.setup) <=> Headless(generation))
    IN  [c EXCEPT !.generation = generation,
                  !.setup = IF changed THEN generation ELSE @,
                  !.reload = @ \/ changed]

\* Mutant: what is known of the endpoint is not looked at.
Outvoted_Never(c) == FALSE

\* A version number alone never overrides a missing /api/system.
Outvoted(c) == Headless(c.version) /\ c.supported = "no"

\* An unknown board reveals its generation through its version first.
Ask(c, works) ==
    IF c.generation = Unknown /\ works /\ board.version # Unknown
    THEN Set([c EXCEPT !.version = board.version], board.version) ELSE c

\* /api/system is missing; a read that fails otherwise says nothing.
Missing(c, works) == Headless(c.generation) /\ works /\ ~board.system

ReadSystem(c, works) ==
    IF ~Headless(c.generation) THEN c
    ELSE IF Missing(c, works) THEN Set([c EXCEPT !.supported = "no"], 1)
    ELSE [c EXCEPT !.supported = "yes",
                   !.version = IF works /\ board.version # Unknown
                               THEN board.version ELSE @]

\* Mutant: the version is read once.
ReadLegacy_Once(c, works) ==
    [c EXCEPT !.version = IF @ = Unknown /\ works THEN board.version ELSE @,
              !.due = FALSE]

\* The version of a classic board is read every 30 s.
ReadLegacy(c, works) ==
    [c EXCEPT !.version = IF c.due /\ works /\ board.version # Unknown
                          THEN board.version ELSE @,
              !.due = FALSE]

\* The poll, given which reads work: the first version, system, version.
Poll(c, first, system, version) ==
    LET asked  == Ask(c, first)
        legacy == ~Headless(asked.generation) \/ Missing(asked, system)
        read   == ReadSystem(asked, system)
        told   == IF legacy THEN ReadLegacy(read, version) ELSE read
    IN  IF told.version \notin {Unknown, told.generation} /\ ~Outvoted(told)
        THEN Set(told, told.version) ELSE told

-----------------------------------------------------------------------------
(* Steps.                                                                  *)

\* Failed reads are faults; the fault-free poll has none.
Faulty(fault) ==
    IF fault THEN faults < MaxFaults /\ faults' = faults + 1 ELSE UNCHANGED faults

\* A poll of the coordinator c whose get_state succeeds.
Polls(c, first, system, version) ==
    /\ coordinator' = Poll(c, first, system, version)
    /\ stored' = coordinator'.generation
    /\ missing' = (missing \/ Missing(Ask(c, first), system))
    /\ Faulty(~(first /\ system /\ version))

Refresh(first, system, version) ==
    /\ loaded
    /\ Polls(coordinator, first, system, version)
    /\ UNCHANGED <<board, loaded, built, changes>>

\* setup_generation, once the entry is set up.
SetUp(c) == [c EXCEPT !.setup = IF c.generation = Unknown THEN 1 ELSE c.generation]

\* async_setup_entry: the first refresh, then the entities of its generation.
Setup(first, system, version) ==
    /\ ~loaded
    /\ loaded' = TRUE
    /\ LET c == Poll(New(stored), first, system, version) IN
         /\ coordinator' = SetUp(c)
         /\ stored' = c.generation
         /\ built' = Class(c.generation)
    /\ missing' = (missing \/ Missing(Ask(New(stored), first), system))
    /\ Faulty(~(first /\ system /\ version))
    /\ UNCHANGED <<board, changes>>

\* The board does not answer, but the cloud does: the entry is set up.
SetupOffline ==
    /\ ~loaded
    /\ loaded' = TRUE
    /\ coordinator' = SetUp(New(stored))
    /\ built' = Class(stored)
    /\ Faulty(TRUE)
    /\ UNCHANGED <<board, missing, stored, changes>>

\* The metadata is older than 30 s.
Tick ==
    /\ loaded /\ ~coordinator.due
    /\ coordinator' = [coordinator EXCEPT !.due = TRUE]
    /\ UNCHANGED <<board, missing, stored, loaded, built, changes, faults>>

\* The scheduled reload runs, or Home Assistant restarts.
Unload ==
    /\ loaded
    /\ loaded' = FALSE
    /\ Faulty(~coordinator.reload)
    /\ UNCHANGED <<board, missing, stored, coordinator, built, changes>>

\* The board's software is changed.
Change ==
    /\ changes < MaxChanges
    /\ board' \in Boards \ {board}
    /\ changes' = changes + 1
    /\ missing' = FALSE
    /\ UNCHANGED <<stored, coordinator, loaded, built, faults>>

\* The config flow stores the generation of the board it found, if told.
Init ==
    /\ board \in Boards
    /\ missing = FALSE
    /\ stored \in {Unknown, board.version}
    /\ coordinator = New(stored)
    /\ loaded = FALSE
    /\ built = Class(stored)
    /\ changes = 0 /\ faults = 0

Next ==
    \/ \E first, system, version \in BOOLEAN :
         Refresh(first, system, version) \/ Setup(first, system, version)
    \/ SetupOffline
    \/ Tick
    \/ Unload
    \/ Change

\* Polls and setups are repeated and scheduled reloads run; a read that fails
\* again and again is beyond MaxFaults.
Fairness ==
    /\ WF_vars(Refresh(TRUE, TRUE, TRUE)) /\ WF_vars(Setup(TRUE, TRUE, TRUE))
    /\ WF_vars(Tick)
    /\ WF_vars(Unload /\ coordinator.reload)

Spec == Init /\ [][Next]_vars /\ Fairness

-----------------------------------------------------------------------------
(* Properties.                                                             *)

\* The types of the coordinator's state and of what is stored.
TypeOK ==
    /\ board \in Boards
    /\ missing \in BOOLEAN /\ loaded \in BOOLEAN
    /\ stored \in 0..2 /\ built \in 1..2
    /\ coordinator \in Coordinator
    /\ changes \in 0..MaxChanges /\ faults \in 0..MaxFaults

\* The entities are those of the generation in use, or a reload is scheduled
\* that will build them: whatever the order of failed reads, polls during a
\* scheduled reload, setups without the board and changes of the software.
EntitiesFit ==
    loaded /\ ~coordinator.reload => built = Class(coordinator.generation)

\* A board on which /api/system was found missing is not run as a headless
\* one ("A version number alone never overrides a missing /api/system",
\* local_coordinator.py:596).
MissingIsClassic == loaded /\ missing => ~Headless(coordinator.generation)

\* The version of the board is known, but what its first refresh found of
\* /api/system outvotes it until the next reload.
Held == Headless(board.version) /\ Outvoted(coordinator)

\* Once the board's software no longer changes, the entry is set up for it and
\* is not reloaded again ("switches over by itself", README.md:29), however
\* reads failed before; an upgrade that is outvoted waits for a restart.
Settles ==
    <>[](loaded /\ ~coordinator.reload /\ (built = Class(board.version) \/ Held))
=============================================================================
