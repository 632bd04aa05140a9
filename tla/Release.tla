------------------------------- MODULE Release -------------------------------
(***************************************************************************)
(* The release of dependency updates: dependency_release.py, which finds   *)
(* merged Dependabot updates, prepares, checks and merges a version-only   *)
(* pull request and publishes it through release.yml, next to maintainers  *)
(* who commit, push, close, merge and release on their own.                *)
(*                                                                         *)
(* The script keeps nothing between its runs: one that fails or is killed  *)
(* anywhere is resumed by the next one from what GitHub shows.  One run at *)
(* a time (the concurrency group of the workflow); every read of GitHub is *)
(* a step of its own where something may change in between.                *)
(***************************************************************************)
EXTENDS Integers, Sequences, FiniteSets

CONSTANTS
    MaxMain,        \* bound: commits on main besides merged releases
    MaxCrashes,     \* bound: runs of the script that are killed
    MaxFails,       \* bound: checks of the pull request that fail
    MaxActs         \* bound: acts of maintainers on the pull request

ASSUME ReleaseAssumption ==
    /\ MaxMain \in Nat /\ MaxCrashes \in Nat /\ MaxFails \in Nat /\ MaxActs \in Nat

VARIABLES
    main,           \* the commits after the first release: [kind, version]
    green,          \* the checks of each commit: "running", "ok" or "failed"
    releases,       \* the published releases: [version, at, auto]
    pr,             \* version -> its branch and pull request; see Pull
    jobs,           \* runs of release.yml: [version, at, auto]
    script,         \* the running script; see Script
    dirty,          \* the script merged more than it had checked
    left            \* what is left of the bounds

vars == <<main, green, releases, pr, jobs, script, dirty, left>>

Versions == 1..(MaxMain + 1)
Commits == 0..(2 * MaxMain)         \* every release brings an update
\* dep ships with the integration, tests does not; bump is a version that a
\* maintainer sets, release a merged version-only pull request.
Kinds == {"dep", "tests", "change", "bump", "release"}

Pull == [state : {"none", "branch", "open", "closed", "merged"},
         base : Commits,             \* the head contains main up to here
         bumped : BOOLEAN,              \* the version is changed
         extra : BOOLEAN,               \* something else is changed, too
         checks : {"none", "running", "ok", "failed"},
         at : Commits]               \* the commit it was merged as

NoPull == [state |-> "none", base |-> 0, bumped |-> FALSE, extra |-> FALSE,
           checks |-> "none", at |-> 0]

Script == [pc : {"idle", "main", "pulls", "branch", "version", "open", "loop", "register",
                 "checks", "ready", "again", "merge", "dispatch", "published"},
           latest : Nat,                \* the latest release seen
           base : Commits,           \* the head of main seen
           head : Pull,                 \* the pull request seen
           tries : 0..2]

Idle == [pc |-> "idle", latest |-> 0, base |-> 0, head |-> NoPull, tries |-> 0]

-----------------------------------------------------------------------------
(* What GitHub shows.                                                      *)

\* The manifest at a commit: its version, and what updates made of the rest.
VersionAt(i) == IF i = 0 THEN 0 ELSE main[i].version
DepsTo(i) == Cardinality({j \in 1..i : main[j].kind = "dep"})
Manifest(i) == [version |-> VersionAt(i), deps |-> DepsTo(i)]
Candidate(v, p) == [version |-> IF p.bumped THEN v ELSE VersionAt(p.base), deps |-> DepsTo(p.base)]

Latest == CHOOSE r \in releases : \A s \in releases : s.version <= r.version
At(version) == (CHOOSE r \in releases : r.version = version).at

\* What identifies the head of a pull request.
HeadOf(p) == [base |-> p.base, bumped |-> p.bumped, extra |-> p.extra]

V == script.latest + 1                      \* next_version
Goto(pc) == script' = [script EXCEPT !.pc = pc]
Stop == script' = Idle

\* validate_version_only.
VersionOnly(v, p, i) ==
    /\ Candidate(v, p) = [Manifest(i) EXCEPT !.version = v]
    /\ ~p.extra /\ Manifest(i).version # v

GitHubUnchanged == UNCHANGED <<main, green, releases, pr, jobs, dirty, left>>

-----------------------------------------------------------------------------
(* run.                                                                    *)

\* The latest release decides the version.
Begin ==
    /\ script.pc = "idle"
    /\ script' = [Idle EXCEPT !.pc = "main", !.latest = Latest.version]
    /\ GitHubUnchanged

ReadMain ==
    /\ script.pc = "main"
    /\ script' = [script EXCEPT !.pc = "pulls", !.base = Len(main)]
    /\ GitHubUnchanged

Unreleased == (At(script.latest) + 1)..script.base

\* Mutant: updates of tests and CI release, too.
Updates_All == \E i \in Unreleased : main[i].kind \in {"dep", "tests"}

\* Whether an unreleased Dependabot update ships to users.
Updates == \E i \in Unreleased : main[i].kind = "dep"

\* Mutant: a merged pull request is not recognised.
Expected_Latest == script.latest

\* The version main must have: the one of the pull request, if it was merged.
Expected == IF pr[V].state = "merged" /\ pr[V].at \in Unreleased THEN V ELSE script.latest

\* Decide on the pull requests; prepare_pr resumes one that is open or merged.
ListPulls ==
    /\ script.pc = "pulls"
    /\ IF ~Updates \/ VersionAt(script.base) # Expected \/ pr[V].state = "closed" THEN Stop
       ELSE IF pr[V].state \in {"open", "merged"} THEN Goto("loop")
       ELSE Goto("branch")
    /\ GitHubUnchanged

-----------------------------------------------------------------------------
(* prepare_pr.                                                             *)

CreateBranch ==
    /\ script.pc = "branch"
    /\ pr' = IF pr[V].state = "none"
             THEN [pr EXCEPT ![V] = [NoPull EXCEPT !.state = "branch", !.base = script.base]]
             ELSE pr
    /\ Goto("version")
    /\ UNCHANGED <<main, green, releases, jobs, dirty, left>>

PutVersion ==
    /\ script.pc = "version"
    /\ pr' = IF Candidate(V, pr[V]) = Manifest(script.base)
             THEN [pr EXCEPT ![V].bumped = TRUE] ELSE pr
    /\ Goto("open")
    /\ UNCHANGED <<main, green, releases, jobs, dirty, left>>

OpenPull ==
    /\ script.pc = "open"
    /\ IF VersionOnly(V, pr[V], script.base) /\ pr[V].state = "branch"
       THEN pr' = [pr EXCEPT ![V].state = "open"] /\ Goto("loop")
       ELSE UNCHANGED pr /\ Stop
    /\ UNCHANGED <<main, green, releases, jobs, dirty, left>>

-----------------------------------------------------------------------------
(* validate_and_merge.                                                     *)

Retry(tries) == IF tries = 3 THEN Stop ELSE script' = [script EXCEPT !.pc = "loop", !.tries = tries]

\* update-branch merges main into the branch; another version conflicts.
Update(p) ==
    IF p.bumped /\ VersionAt(Len(main)) # VersionAt(p.base) /\ VersionAt(Len(main)) # V
    THEN UNCHANGED pr /\ Stop
    ELSE /\ pr' = [pr EXCEPT ![V].base = Len(main), ![V].checks = "none"]
         /\ Retry(script.tries + 1)

\* A pass of the loop: merged already, behind main, or validated.
Loop ==
    /\ script.pc = "loop"
    /\ LET p == pr[V] IN
       IF p.state = "merged" THEN UNCHANGED pr /\ Goto("dispatch")
       ELSE IF p.state # "open" THEN UNCHANGED pr /\ Stop
       ELSE IF p.base # Len(main) THEN Update(p)
       ELSE /\ IF VersionOnly(V, p, Len(main))
               THEN script' = [script EXCEPT !.pc = "register", !.base = Len(main), !.head = p]
               ELSE Stop
            /\ UNCHANGED pr
    /\ UNCHANGED <<main, green, releases, jobs, dirty, left>>

\* The checks of the seen head, if the pull request still has it.
SameHead == HeadOf(pr[V]) = HeadOf(script.head)

\* start_pr_checks: once registered; those that failed run again.
Register ==
    /\ script.pc = "register"
    /\ SameHead => pr[V].checks # "none"
    /\ pr' = IF SameHead /\ pr[V].checks = "failed" THEN [pr EXCEPT ![V].checks = "running"] ELSE pr
    /\ Goto("checks")
    /\ UNCHANGED <<main, green, releases, jobs, dirty, left>>

\* pr_checks_ready: success of that head, or failure.
AwaitChecks ==
    /\ script.pc = "checks"
    /\ SameHead => pr[V].checks \in {"ok", "failed"}
    /\ IF SameHead /\ pr[V].checks = "ok" THEN Goto("ready") ELSE Stop
    /\ GitHubUnchanged

\* merge_ready.
AwaitReady ==
    /\ script.pc = "ready"
    /\ IF SameHead /\ pr[V].state = "open" THEN Goto("again") ELSE Stop
    /\ GitHubUnchanged

\* Main moved: the branch is updated and checked again.
MainAgain ==
    /\ script.pc = "again"
    /\ IF Len(main) # script.base THEN Retry(script.tries + 1) ELSE Goto("merge")
    /\ GitHubUnchanged

Mergeable(v) ==
    /\ pr[v].state = "open" /\ pr[v].checks = "ok"
    /\ VersionAt(Len(main)) = VersionAt(pr[v].base)

Squash(v) ==
    /\ main' = Append(main, [kind |-> "release", version |-> v])
    /\ green' = Append(green, "running")
    /\ pr' = [pr EXCEPT ![v].state = "merged", ![v].at = Len(main) + 1]

\* Mutant: whatever the pull request is by now is merged.
Merges_Any == Mergeable(V)

\* GitHub merges an open pull request with the expected head.
Merges == Mergeable(V) /\ SameHead

Merge ==
    /\ script.pc = "merge"
    /\ IF Merges
       THEN /\ Squash(V)
            /\ dirty' = (dirty \/ pr[V].extra)
            /\ Goto("dispatch")
       ELSE UNCHANGED <<main, green, pr, dirty>> /\ Stop
    /\ UNCHANGED <<releases, jobs, left>>

-----------------------------------------------------------------------------
(* publish, and release.yml.                                               *)

\* The workflow runs for what main is now.
Dispatch ==
    /\ script.pc = "dispatch"
    /\ jobs' = jobs \cup {[version |-> V, at |-> Len(main), auto |-> TRUE]}
    /\ Goto("published")
    /\ UNCHANGED <<main, green, releases, pr, dirty, left>>

AwaitPublished ==
    /\ script.pc = "published"
    /\ \E r \in releases : r.version = V
    /\ Stop
    /\ GitHubUnchanged

\* wait_until times out on what will not come: checks of a closed pull request,
\* a release that release.yml refused.
TimeOut ==
    /\ \/ script.pc \in {"register", "checks"} /\ pr[V].state # "open"
       \/ script.pc = "published" /\ ~\E r \in jobs \cup releases : r.version = V
    /\ Stop
    /\ GitHubUnchanged

\* release.yml: the commit's checks passed (main_checks_ready), its manifest has
\* the version, and the tag is new; otherwise nothing is published.
Job(job) ==
    /\ job \in jobs
    /\ green[job.at] # "running"
    /\ jobs' = jobs \ {job}
    /\ releases' = IF /\ green[job.at] = "ok" /\ VersionAt(job.at) = job.version
                      /\ \A r \in releases : r.version # job.version
                   THEN releases \cup {job} ELSE releases
    /\ UNCHANGED <<main, green, pr, script, dirty, left>>

\* A run is killed, or gives up waiting too early.
Crash ==
    /\ script.pc # "idle" /\ left.crashes > 0
    /\ Stop
    /\ left' = [left EXCEPT !.crashes = @ - 1]
    /\ UNCHANGED <<main, green, releases, pr, jobs, dirty>>

-----------------------------------------------------------------------------
(* Everybody else.                                                         *)

Commit(kind) ==
    /\ Cardinality({i \in DOMAIN main : main[i].kind # "release"}) < MaxMain
    /\ main' = Append(main, [kind |-> kind,
                             version |-> VersionAt(Len(main)) + (IF kind = "bump" THEN 1 ELSE 0)])
    /\ green' = Append(green, "running")
    /\ UNCHANGED <<releases, pr, jobs, script, dirty, left>>

MainChecks(i, result) ==
    /\ green[i] = "running"
    /\ green' = [green EXCEPT ![i] = result]
    /\ UNCHANGED <<main, releases, pr, jobs, script, dirty, left>>

\* Checks of the pull request are registered and end.
PullChecks(v) ==
    /\ pr[v].state = "open" /\ pr[v].checks \in {"none", "running"}
    /\ pr' = [pr EXCEPT ![v].checks = IF @ = "none" THEN "running" ELSE "ok"]
    /\ UNCHANGED <<main, green, releases, jobs, script, dirty, left>>

PullFails(v) ==
    /\ pr[v].state = "open" /\ pr[v].checks = "running" /\ left.fails > 0
    /\ pr' = [pr EXCEPT ![v].checks = "failed"]
    /\ left' = [left EXCEPT !.fails = @ - 1]
    /\ UNCHANGED <<main, green, releases, jobs, script, dirty>>

Act == left.acts > 0 /\ left' = [left EXCEPT !.acts = @ - 1]

Push(v) ==
    /\ pr[v].state \in {"branch", "open"} /\ ~pr[v].extra
    /\ pr' = [pr EXCEPT ![v].extra = TRUE, ![v].checks = "none"]
    /\ Act
    /\ UNCHANGED <<main, green, releases, jobs, script, dirty>>

Close(v) ==
    /\ pr[v].state = "open"
    /\ pr' = [pr EXCEPT ![v].state = "closed"]
    /\ Act
    /\ UNCHANGED <<main, green, releases, jobs, script, dirty>>

Reopen(v) ==
    /\ pr[v].state = "closed"
    /\ pr' = [pr EXCEPT ![v].state = "open"]
    /\ UNCHANGED <<main, green, releases, jobs, script, dirty, left>>

MergeByHand(v) ==
    /\ Mergeable(v)
    /\ Squash(v)
    /\ Act
    /\ UNCHANGED <<releases, jobs, script, dirty>>

ReleaseByHand ==
    /\ main # <<>>
    /\ jobs' = jobs \cup {[version |-> VersionAt(Len(main)), at |-> Len(main), auto |-> FALSE]}
    /\ Act
    /\ UNCHANGED <<main, green, releases, pr, script, dirty>>

-----------------------------------------------------------------------------

Init ==
    /\ main = <<>> /\ green = <<>>
    /\ releases = {[version |-> 0, at |-> 0, auto |-> FALSE]}
    /\ pr = [v \in Versions |-> NoPull]
    /\ jobs = {} /\ script = Idle /\ dirty = FALSE
    /\ left = [crashes |-> MaxCrashes, fails |-> MaxFails, acts |-> MaxActs]

Run == \/ Begin \/ ReadMain \/ ListPulls
       \/ CreateBranch \/ PutVersion \/ OpenPull
       \/ Loop \/ Register \/ AwaitChecks \/ AwaitReady \/ MainAgain \/ Merge
       \/ Dispatch \/ AwaitPublished \/ TimeOut

GitHub == \/ \E job \in jobs : Job(job)
          \/ \E i \in DOMAIN green : MainChecks(i, "ok")
          \/ \E v \in Versions : PullChecks(v)

Others == \/ Crash
          \/ \E kind \in Kinds \ {"release"} : Commit(kind)
          \/ \E i \in DOMAIN green : MainChecks(i, "failed")
          \/ \E v \in Versions : PullFails(v) \/ Push(v) \/ Close(v) \/ Reopen(v) \/ MergeByHand(v)
          \/ ReleaseByHand

Next == Run \/ GitHub \/ Others

\* The script is started daily and runs on, checks and workflows end.
Spec == /\ Init /\ [][Next]_vars
        /\ WF_vars(Run)
        /\ \A v \in Versions : WF_vars(PullChecks(v))
        /\ \A i \in Commits : WF_vars(i \in DOMAIN green /\ MainChecks(i, "ok"))
        /\ WF_vars(\E job \in jobs : Job(job))

-----------------------------------------------------------------------------
(* Properties.                                                             *)

\* The script merges only what it has checked, the version and nothing else,
\* also if somebody pushes to the pull request while it waits
\* (dependency_release.py:149).
MergedWasChecked == ~dirty

\* Released changes and updates of tests never make another release: every
\* release the script publishes brings an update that ships and that no
\* earlier release has (releases.md:44-45).
ReleaseHasUpdate ==
    \A r \in releases : r.auto =>
        \E i \in 1..r.at :
            /\ main[i].kind = "dep"
            /\ \A s \in releases : s.version < r.version => s.at < i

\* When the script leaves the rest to a maintainer: a pull request that is
\* closed or holds more than the version, a version of main set by hand, failed
\* checks of the head of main, or a branch without a pull request that is older than the
\* manifest of main, which only prepare_pr of a later run finds.
Coming == Latest.version + 1
Paused ==
    \/ pr[Coming].state = "closed" \/ pr[Coming].extra
    \/ \E i \in (Latest.at + 1)..Len(main) : main[i].kind = "bump"
    \/ main # <<>> /\ green[Len(main)] = "failed"
    \/ pr[Coming].state = "branch" /\ DepsTo(pr[Coming].base) # DepsTo(Len(main))

Pending == \E i \in (Latest.at + 1)..Len(main) : main[i].kind = "dep"

\* Every update that ships is released in the end, whatever run was killed or
\* failed where, unless a maintainer has taken over (dependency_release.py:313).
EventuallyReleased == <>[](Pending => Paused)
=============================================================================
