# Verification of the Autodarts integration

TLA+ models of the Home Assistant integration in `src/custom_components/autodarts`
(paths below are relative to that directory), model-checked with TLC, with
theorems checked by TLAPS. `PROJECT.json` maps every definition to the lines it
stands for and lists the runs, the mutants, the findings and the hazards.

## The system

An Autodarts board sees darts with cameras. Its *Board Manager* offers an HTTP
API and a WebSocket of changes. The integration follows one board per entry:

```
 board ──WebSocket──┐                        ┌─ TrainingSession ─ events ─┐
   │                ├─ LocalCoordinator ─────┤                            ├─ Home
   └──HTTP polls────┘   (merge, gaps,        └─ PracticeGame ─── events ──┘  Assistant
                         generation, store)       (X01, Cricket, party, drills)
 cloud ──HTTP polls──── CloudCoordinator (tokens, matches)
```

Everything runs on one event loop: code between two `await`s is atomic, and what
interleaves is messages, polls, timers, user actions and reloads.

| Component | State | Operations | Hard behaviour | What makes it correct |
|---|---|---|---|---|
| Training session (`training.py`) | the visit on the board with two flags per dart, baseline and takeout flags, session totals, history | `observe` a board state, `baseline` after a gap, start, end, new session, store and restore | a state is all there is to tell a throw, a correction, a withdrawn detection, a takeout and a missed takeout apart; sessions change in mid-visit | every announced dart of a session counts once and is kept; visits are announced |
| Local coordinator, polls and stream (`local_coordinator.py`, `local_api.py`) | the last state, revisions, stream and availability flags | `async_receive`, `_async_update_data`, `_listen`, setup, shutdown | polls overlap messages; streams break unnoticed; polls fail | nothing stale replaces anything newer, nothing counts twice or gets lost, the view catches up |
| Local coordinator, generation (`local_coordinator.py`, `__init__.py`) | generation (memory, entry, setup), what is known of `/api/system` | polls, setup, reload | failed reads, upgrades, a reload that is scheduled but has not run | entities fit the board, reloads end |
| Local coordinator, store and session commands | dirty flag, delayed save, idle timer | `_async_training`, `_save_training`, `_async_end_idle`, `async_shutdown` | awaits between a change, its save and its events; crash before a save | what was announced is saved, nothing is forgotten, a paused session ends |
| Local coordinator, takeout events | `_taking_out`, last state and motion | `_process` | two sources for the same fact, silent resets | starts and ends alternate |
| Practice game, X01 (`practice.py`, `scoring.py`) | players, turn, starter, winner, visit in progress, what was announced | `track`, `finish_visit`, settings, new leg and match, store and restore | wins are announced at once, revised, and booked later; darts thrown before a leg | score, turn, legs, sets and announcements agree |
| Cricket, bull-off, party games (`cricket.py`, `party.py`) | marks, lives, numbers, rounds, distances | as X01 | order of darts in a visit decides | a leg has the right winner |
| Training games (`drills.py`) | target, round, results | `track`, `finish_visit`, `reset` | a game left in mid-visit | results count each visit once |
| Records, profiles, doubles (`records.py`, `profiles.py`, `doubles.py`) | bests, streak, daily goal, statistics per player | `observe`, `record`, `leg`, `match`, `delete` | corrections after a best was announced; change of the date | nothing is announced twice |
| Quality, camera health (`quality.py`, `camera_health.py`) | the last darts and which were corrected; since when frames are missing | `record`, `update` | index of a dart in a sliding window | a correction marks its own dart |
| Cloud client and coordinator (`api.py`, `coordinator.py`) | rotating tokens, lock, poll interval | `_ensure_token`, `_get`, device-code polling | a lost answer to a refresh, concurrent refreshes | each refresh token is used once, stored before use |
| Release script (`.github/scripts/dependency_release.py`) | none between runs: what GitHub shows | find updates, prepare, check, merge, publish | killed anywhere; maintainers at the same time | what is merged was checked, every update is released once |
| Setup, migration, config flow, discovery | the entry | setup, unload, migration, forms | a board at another address | the entry is the board's |
| Entities, services, repairs, diagnostics, card, blueprints, tooling | none of their own | views and thin calls | – | – |

## What is modelled

| Module | Models | Notes |
|---|---|---|
| `Training` | `TrainingSession` | `observe` is one action per branch: unusable throws, baseline, removed, withdrawn, still removing, the dart loop. `Forget` is `baseline({})`, `Restart` is `restore(stored())`. |
| `LocalLink` | the coordinator between the board and `Training`, which it extends | The board is the environment, written from how the code uses it: it reports a version of its state with every change. `Receive` is `async_receive`; a poll has three steps, because it awaits: `PollStart` notes the revision, `PollAnswer` is the moment the board answers, `PollDone` keeps or drops the answer. |
| `Rules` | the games without their state: `evaluate_visit` of X01, Cricket, Shanghai, Halve-It, Killer, the bull-off | operators from a visit and a state to a state, as `scoring.py`, `cricket.py` and `party.py` have them |
| `Practice` | `PracticeGame` with every game of `Rules` | The match is one record, so that helpers of the code are operators from a match to a match. `Complete` is `_process` with a completed visit: `finish_visit`, then `track`. `Board` and `Scores` are what the cards show. |
| `Drills` | the four training games, chosen and left by `PracticeGame` | A training game keeps its own copy of the visit; `board` is the practice game's. One training game is followed next to anything else that may be chosen. |
| `Generation` | generation, setup and reload | A poll is one step given which of its reads succeed: nothing else touches this state between its awaits. |
| `SessionStore` | saves, session commands, the idle end, shutdown, restart and crash | A command has the step up to its `await` (`Call`) and the one after it (`Finish`); between them everything else may happen. `store` is Home Assistant's `Store`, external: `line` is who holds or waits for its lock, `data` what the next writer writes. The session is abstracted to a count of its changes and what the idle end reads. |
| `Ledger` | what a session promises of the darts it announces | the abstract specification; `Training` implements it with `running <- session, closed <- Summary(committed), open <- OpenVisit, told <- Announced` |
| `Durable` | what the coordinator promises of the stored session | the abstract specification; `SessionStore` implements it with `now <- mem.rev, saved <- FileRev(disk), told <- answered` |
| `Cloud` | `AutodartsCloudClient`, the cloud coordinator, setup and reload of the entry, `wait_for_device_token` and the linking steps of the config flow | Up to three callers of `_get`, with one step per await: lock, refresh (at the server before and after it decided), persist, fetch. The servers, the user and the disk are the environment. |
| `Release` | `dependency_release.py` | The script keeps nothing, so a run is a position and what it read; every read or write of GitHub is a step of its own. GitHub, `release.yml` and maintainers are the environment. |
| `MCTraining`, `MCLocalLink`, `MCPractice`, `MCDrills`, `MCGeneration` | – | beds, setups and boards for TLC |
| `RulesProofs` | – | lemmas about the operators of `Rules`, for `PracticeProofs` and `DrillsProofs` |
| `LinkProofs` (also `Training`), `PracticeProofs`, `DrillsProofs`, `GenerationProofs`, `StoreProofs`, `CloudProofs`, `ReleaseProofs` | – | theorems |

Data is abstracted to what the properties tell apart. In `Training` a dart is the
bed it hit; coordinates are ignored by the code as well. `Worth` gives the points
of a visit from its beds and is a constant: the theorems hold whatever a bed is
worth. Of the session counters the model keeps darts, points, visits, best visit
and hits per bed; doubles, triples, bulls and misses are sums over the hits, and
the score buckets are added by the same loop as `visits`. In `Practice` and
`Drills` a dart has a number and a multiplier. In `Cloud` a number names a pair
of tokens. Time stamps are left out, except where a timer reads them.

Some variables exist for the properties only: identities of darts, `detected`,
`followed` and `left` in `LocalLink`; the mark `early` of a dart, `turns`, `told`,
`booked` and `switched` in `Practice`; `ends`, `tried` and `stale` in `Drills`, whose
`recorded` is the newest of the results the game keeps; `missing` in `Generation`; `rev` and `answered` in `SessionStore`;
`sent`, `used` and `failed` in `Cloud`; `dirty` in `Release`. No guard of the
program's actions reads them.

Definitions that end in an underscore and a word (`Rest_Counted`) are mutants:
plausible mistakes, each of which must break the property it is listed with.

## Runs

| Run | Question | Bounds, and why they are enough |
|---|---|---|
| `Training` | Do the counting rules hold for every order of states, gaps, restarts and commands, and is the session a `Ledger`? | 2 beds of different worth, visits of 2 darts, 3 darts per session, lists of length 1: two darts are enough to withdraw one, to pull one, to correct one and to see a new one behind it; a third dart lets a finished visit and a new one share a session. |
| `LocalLink` | Do polls, messages, breaks, reloads and revised detections count every dart once? | 3 darts, 6 changes of the board, 2 messages under way, 1 fault. A visit, its takeout and a dart of the next one take 6 changes. HTTP answers do not overtake messages (`InOrder`), and the board revises detections only in behaviours without faults (`Fixing`). |
| `LocalLinkLive` | Does the coordinator catch up with the board? | 2 darts, 3 changes, 2 faults: both faults may hit the last change. |
| `Practice` | Do scores, turns, legs, sets, announcements and cards agree in every game? | 11 setups: X01 alone, of two players with legs and sets, with double in, of three after a bull-off; Cricket on two numbers with two marks to close; one round of Shanghai, two of Halve-It; Killer of three with one life. X01 starts at 3 with beds 0, 1 and 2 (a double), so a visit of 2 darts can bust below zero, at one, at zero without a double, and win with either dart. 2 visits per player and 2 legs. |
| `Drills` | Do the training games count, end and record as their cards show, and does a finished one stay on the card until the next dart? | 2 targets, finishes of 2 and 4, 2 visits per attempt, visits of 2 darts, 3 darts per game: the last target may fall with the first or second dart, and a game may end and start again within a visit. |
| `Release` | Does the script merge only what it checked, and release every update once? | 2 commits on `main` besides releases, 1 kill, 1 failed check, 1 act of a maintainer: one of each between any two steps. |
| `Cloud` | Are tokens used and stored once, is a relink asked for only when needed, and does the link recover? | 1 expired or rejected access token, 1 fault, 1 device code; scaled times: pause 1 s, slow_down 2 s, backoff 2 to 3 s, code 10 s. Two polls and the flow race; one fault hits any await. Polls are not interleaved with the wait for the approval, which shares no state with them (`Waiting`, `Quiet`). |
| `Generation` | Do the entities follow the board, and do reloads end? | 3 kinds of boards whose version and endpoint agree (`MCAgreeing`), 2 changes of software, 2 faults: an upgrade and a downgrade with a failed read each. |
| `SessionStore` | Does the coordinator implement `Durable`, and does a paused session end? | up to 2 commands that await their save besides the idle end, 3 changes, times 0 to 2 with a pause of 1, 1 crash: two commands and a dart may share one write, and the pause may pass over a restart. |

`LocalLinkLate`, `PracticeKiller` and `DrillTwice` end in a counterexample: the
code disagrees with its documentation. `PROJECT.json` has them as findings:

- **`LocalLinkLate`** - an HTTP answer that overtakes messages still under way is
  observed first. The late messages then take its dart away and count it again.
- **`PracticeKiller`** - a correction can move an announced win of Killer to another
  player; nothing more is announced, and the leg is booked for that other player.
- **`DrillTwice`** - Around the Clock and the doubles training announce
  `drill_finished` again when the darts of the last visit are pulled.

### What the passing runs leave out knowingly

Cases in which a stronger property would not hold. Each is written into the
property or the constants, and listed with its hazard:

- A board that withdraws one dart and corrects another *within a gap* looks like a
  missed takeout; the dart announced before is counted again (`Fixing`).
- A takeout of which no message is seen, and that leaves a dart on the board, looks like
  a missed takeout with a new dart: the dart left is counted again (`left` in
  `CountedOnce`).
- Switching double out over a visit on the board, and pulling the darts before the
  next state, books a leg that `leg_won` never announced (`switched`).
- Withdrawing a dart thrown before the leg began makes `_skip` hide a dart thrown in
  it (`EarlyNeverCounts` is only the other direction).
- A board that tells version 2 but has no `/api/system` is reloaded again and again
  (`MCAgreeing`); an entry whose *first* refresh missed the endpoint outvotes a later
  upgrade until the next reload (`Held`).
- Halve-It shows a visit of fewer than three darts without halving it, and Bob's 27
  what a miss costs only afterwards (`BookedAsShown`).
- A training game chosen again over a visit holds the visit from before it was left
  until the board reports again (`stale`), and counts darts of it that were not thrown in
  the game. Its card and its booking agree on them.
- Home Assistant writes the entry with a delay: a crash in between loses a rotated
  token, although `api.py:198` says it is stored first (`StoredIsNewest`).
- The relink and the reload it schedules are two actions of `Cloud`. A late answer to the
  old client may come between them and overwrite the new login with one that the server
  also accepts, which no property tells apart.
- A release branch left without a pull request stops the script once `main` has moved
  on, until somebody deletes the branch (`EventuallyReleased`).

Deadlock checking is off in the `LocalLink` runs, where the board may have used up
its changes and the coordinator its faults, and in `Release` and `Cloud`, where
everything may be released, or the link waits for the user.

### Fairness

`LocalLink` assumes weak fairness of receiving, of the steps of a poll, of
noticing a broken stream and of connecting again: `DataUpdateCoordinator` repeats
polls, the WebSocket has a heartbeat, and `_listen` loops forever. Nothing is
assumed of the board. `Generation` assumes weak fairness of the poll and the
setup in which every read succeeds, of the 30-second timer and of the scheduled
reload; failed reads are counted by `MaxFaults`, so they end. `SessionStore` assumes
that time passes, that a due timer fires and that writes end; nothing is assumed
of the board, the users or the shutdown. `Cloud` assumes that polls are due again
and again, that requests are answered or time out, that the wait for the approval
goes on and that a scheduled reload runs; nothing is assumed of the user. `Release`
assumes that the script is started again and goes on (the workflow runs when a
pull request is closed and every day), that `release.yml` ends, and that checks
end, with success unless they fail; nothing is assumed of maintainers.

## Proofs

Every invariant, every action property and every refinement that the passing runs
check is a theorem for all values of the constants. Below, "for every" means: for all
values that the `ASSUME`s of the module allow.

### `LinkProofs`: the session

For every set of beds, every worth, every length of visits and lists:

- `TypeCorrect`, `FlagsSound` (`CountingSound`), `CountersSound` (`CountersAgree`)
- `ScoreKept` (`ScoreIsKept`), `VisitAnnounced` (`VisitIsAnnounced`),
  `FinishedKept` (`FinishedIsKept`)
- `SessionIsLedger` - `Spec => ImplementsLedger`
- `LedgerIsSound` - what `Ledger` promises implies that nothing is open without a
  session, and that no empty session is in the history

The inductive invariant is `TypeOK /\ CountingSound /\ RemovingQuiet /\
Agree(committed)`. `CountersAgree` speaks of the totals *with* the active visit
and is not inductive: what is folded, withdrawn or ended matters only through
`committed`. That `committed` agrees is inductive, and adding the counted darts of
one visit keeps it so (`SnapshotAgrees`). `RestIsQuiet`, `FoldAgrees` and
`FoldKeepsScore` are the facts about `_rest` and `_fold` that nearly every branch
of `observe` needs; there is one lemma per branch that does more. `FinishedKept`
needs besides that the history is a list (`Shelf`), from which `Keep` takes the newest.

`Ledger` says what the program cannot see: that a dart was thrown, revised, or that a
visit is over. For each branch of `observe` the proof names the one it is. Most are `Closes`
(the visit is folded) or `Revises` (no dart is added; a withdrawn detection is, because
the darts left are an injection into the ones before). The dart loop is `TakesDarts`:
`TakeDartsSays` counts its announcements and `TakeDartsCounts` the counted darts after it,
and the totals before and after tell whether the visit goes on, the next one begins, or a
session does. Without a session, what is announced counts nowhere because of
`CountingSound`.

The constants need: beds are finite, a visit has a worth in Nat, nothing is worth
nothing, lists keep at least one entry.

### `LinkProofs`: the connection

For every number of darts, changes, messages under way and faults, under
`InOrder` - without it `LocalLinkLate` refutes them:

- `NoDartTwice` (`CountedOnce`), `EveryDartCounted` (`NoDartLost`),
  `ViewNeverGoesBack` (`NoStaleOverwrite`), `ComparesWithShown` (`BaselineIsShown`)
- `LineHolds` - the invariant

And whether answers overtake messages or not:

- `LinkKeepsLedger` - `LinkSpec => ImplementsLedger`: what `LocalLinkLate` counts twice
  was also announced twice; the session and what it says never disagree.

What may still be observed - messages, an answer that counts, the board itself - and
what was observed last form a `Line` of reports. The coordinator's steps shorten the
line, the board's add one report to its end; so whatever holds for every two or three
reports of the line is kept unless the new one breaks it. `Between` (a dart that is gone
does not come back), `Down` (darts only move to earlier places) and `Stays` (fewer darts
without a takeout are a withdrawn detection) are such facts, and with them the branch of
`observe` that a report takes decides which darts it announces. A dart that
was counted is in a later report only if it is in all between (`Seen`), so it is never
new again. `LinkKeepsLedger` needs only that what may be observed is a state the
session takes (`Readable`).

### `RulesProofs`

What a visit gives, for every visit and every value of the constants. The rules run
through the darts with recursive functions, whose values the library's induction
theorems give only for an operator. `UpTo` is induction over the darts as a statement
about sets (a least element by the well-foundedness of finite sets), and `Recursion`
gives the function's value from it. A lemma about one dart (`CricketDartIs`,
`KillerDartIs`, `EvaluateIs`) gives the one about the visit.

### `PracticeProofs`

For every start score, one to four players, all formats and beds:

- `ScoresBalance` (`ScoreBalances`), `MatchesAreDecided` (`MatchDecides`),
  `VisitsAlternate` (`TurnsAlternate`), `NoLegOutlivesItsWinner` (`LegIsOpen`),
  `AnnouncementsAreTrue` (`AnnouncedIsTrue`), `NoEarlyDartCounts` (`EarlyNeverCounts`),
  `LegsAreBookedAsTold` (`BookedAsTold`), `VisitsAreBookedAsShown` (`BookedAsShown`)
- `MatchStaysSound` - the invariant

A match is `Sound` when it is typed, balanced, decided as its format says, open as long
as nobody has won, and free of darts from before the leg. `Alternates` says who has
thrown in the round that is under way: `TurnsAlternate` bounds the difference of two
players only, and does not say that a booked visit keeps the bound. `AnnouncedOk` ties the
announcement to the visit and `ToldOk` the announced leg to the announcement; without
the second, that a leg is booked as it was announced does not follow from any state.
Each operation of the game (`NewLegKeeps`, `BookKeeps`, `FinishKeeps`, `FollowKeeps`,
`JudgeKeeps`) has one lemma, and a step is made of these. `AnnouncedIsTrue` and
`BookedAsTold` exempt a visit over which double out was switched, like the runs.

### `DrillsProofs`

For all targets, finishes, beds and numbers of visits:

- `AttemptsStayOpen` (`TypeOK`), `EndsAreTold` (`EndIsTold`), `ResultStays`
  (`ResultIsShown`), `NoEarlyDartCounts` (`EarlyNeverCounts`),
  `DrillsAreBookedAsShown` (`BookedAsShown`)
- `DrillStaysSound` - the invariant

`Sound` adds to the types when a game ends, and that an ended game holds no darts and
skips none; then what its card shows is its own counters, and the invariant says that
these are the newest result. `EndIsTold` reads both ways for the target games; Bob's 27 may
also end after its last round. The early darts are bounded on the board and, unless it is
`stale`, in the game's own copy of the visit. `IndexesAre` and `ProgressIs` follow a visit through the targets.

### `CloudProofs`

For every number of faults, expired and rejected tokens and codes, and every pause:

- `LoginIsKept` (`StoredIsNewest`), `NoLoginIsSentTwice` (`SentOnce`),
  `NoNeedlessRelink` (`RelinkIsNeeded`), `PauseIsAsTold` (`PollsAsTold`)
- `LoginsAreAccounted` - the invariant

`Accounted` says of a login in use that it was sent only if the answer was lost or is
under way. It stays true because one request at a time holds the lock of a client
(`Locked`), because what is granted is nobody's login yet (`Granting`) and because the
flow's login is not the entry's before it is handed over (`Linking`).

### `GenerationProofs`

For every set of boards and any number of changes and faults:

- `EntitiesAlwaysFit` (`EntitiesFit`)
- `MissingStaysClassic` (`MissingIsClassic`), for boards that tell a headless version
  only when they have the endpoint (`Agreeing`)

`EntitiesFit` compares the entities with the generation, but `_set_generation` compares
the generation with `setup_generation`; `Fits` relates the three, and `SetKeeps` and
`PollKeeps` show that each of up to three calls within a poll keeps the relation or
schedules a reload. `MissingStaysClassic` has to survive a reload, which forgets what was
found missing: `KeptClassic` is about the stored generation as well. `Agreeing` is
needed: a board that tells version 2 and lacks the endpoint is made headless again by
the next version read after a reload.

### `StoreProofs`

For every pause and any number of waiting commands, changes and crashes:

- `Implements` - `Spec => ImplementsDurable`: every step is one of `Durable` or none
- `NothingIsForgotten` (`NothingForgotten`), `IdleEndIsScheduled` (`TimerFits`)
- `FileIsOrdered` - announced, in the file, being written, to be written, in
  memory: each is no newer than the next
- `StopLosesNothing` - after a stop whose writers are done, the file has the session
- `DurableKeepsTold` - what `Durable` promises implies that announced is saved
- `TypeCorrect`

Refinement needs an invariant, because a command announces *its* change although
another writer may have written it. `Chain` orders the five revisions; `Wants` says
that whoever waits finds its change no later than the data on their way, and, once
it is the head of the line and data are being written, no later than those; with
both, an announcement never runs ahead of the file. A restart is a stutter of
`Durable` only if a stop lost nothing: `Covered` says why what is in memory is in
the file, brought by a command or the shutdown, or marked by `_training_dirty`. The
flag is set from a comparison after an `await`; that it stays set for a change of
the board that came meanwhile is the count in `Covered`. `Kept` is a second
invariant for `NothingIsForgotten`. The idle end needs who is in the line for the lock
(`EnterQueues`, `LeaveQueues`): only the last command to leave has to set the timer. The
constants need only that no data and a function are not sessions and no time is not a
number (`StoreValues`).

### `ReleaseProofs`

For every number of commits on `main`, killed runs, failed checks and acts of maintainers:

- `MergesAreChecked` (`MergedWasChecked`), `ReleasesBringUpdates` (`ReleaseHasUpdate`)
- `ReleasesAreInOrder` - a newer version is never an older commit, a release has the
  version of its commit, and one that the script made contains the merge of its pull request
- `ReleaseTypesHold` - the types with their bounds
- `ReleasesStaySound` - the invariant

An update is found when a run lists the pull requests, and released many steps and
possibly many runs later, when `main` has moved on and other releases may have been
made. What connects the two are the versions on `main`, which never go down (`Numbered`):
an update committed under the version before `v`, after that version was released
(`HasUpdate`), is newer than every release before `v` and older than every commit that can
be released as `v`. A branch is only made for a version that has an update, and differs
from its base by the version (`Fits`); so `HasUpdate` needs no memory of the run that
found it. `Running` says what a run may rely on between two of its reads and writes.
The lemmas are one per step, and one for each way in which GitHub changes under a run:
more is known (`MoreIsKnown`), a commit is added (`NumberedGrows`), a pull request is merged
(`SquashKeeps`). That the script never works on a version beyond the bound is counted:
each version was set by a commit of its own (`VersionsAreFew`), and each merged release
has a version of its own (`MainIsShort`).

### Only model-checked

- Liveness (`EventuallyInSync`, `EventuallyReleased`, `Recovers`, `Settles`,
  `PauseEnds`), which TLAPS does not reach.
- The counterexamples of the three runs that expect one.

## Not modelled

`PROJECT.json` lists every component with its status. Left out for good:

- Entities, services, diagnostics, the dashboard card, blueprints and tooling: views
  and thin calls without state.
- Records, profiles, double statistics, quality and camera health: sums, bests and
  windows over the events of the modelled parts, with nothing that interleaves.
- Checkout routes: a search over fixed tables, without state.
- Takeout events: two flags that a gap or a stop clears silently; what they promise
  over such a gap is not written down anywhere.
- The Board Manager client: validation and limits; its stream and its missing
  endpoints are the environment of `LocalLink` and `Generation`.
- Damaged storage, which every `restore` rejects value by value.
- Address discovery, migration, the local steps and options of the config flow.
- Reports of several darts at once to the practice game: a state changes its visit by
  one dart or completes it; `track` looks at the visit as a whole and not at what
  changed.
- Tasks of an old coordinator that outlive its shutdown (`local_coordinator.py:629`,
  `:656`) next to the new coordinator on the same file.

## Plan

What would come next, in this order:

1. **Reload**: `SessionStore` with two coordinators on one file.
2. **PracticeBoard**: `Training` and `Practice` composed by `_process`, so that the
   visits of the match are what `Training` announces.
3. **Takeout**, **Records**, **Quality**.

Proofs to add: that the announcements of `Training` and `Practice` agree, once they are
composed.
