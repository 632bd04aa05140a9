---------------------------- MODULE ReleaseProofs ----------------------------
(***************************************************************************)
(* Proofs about Release, for every number of commits, killed runs, failed  *)
(* checks and acts of maintainers.                                         *)
(*                                                                         *)
(* What a release brings is decided when the script lists the pull         *)
(* requests and published many steps, and possibly many runs, later.  What *)
(* connects the two are the versions on main: they never go down           *)
(* (Numbered), so an update that was committed under the version v - 1,    *)
(* after the release v - 1, is newer than every release before v and older *)
(* than every commit that can be released as v.  HasUpdate(v) says that    *)
(* there is one; it holds of every version whose branch exists (Fits) and  *)
(* stays true whatever is committed or released.                           *)
(***************************************************************************)
EXTENDS Release, FiniteSetTheorems, SequenceTheorems, TLAPS

Entry == [kind : Kinds, version : Nat]
Results == {"running", "ok", "failed"}
States == {"none", "branch", "open", "closed", "merged"}

\* Runs of release.yml, pull requests and scripts that know main up to n.
RunsUpTo(n) == [version : Nat, at : 0..n, auto : BOOLEAN]
PullsUpTo(n) == [state : States, base : 0..n, bumped : BOOLEAN, extra : BOOLEAN,
                 checks : {"none"} \cup Results, at : 0..n]
Positions == {"idle", "main", "pulls", "branch", "version", "open", "loop", "register",
              "checks", "ready", "again", "merge", "dispatch", "published"}
ScriptsUpTo(n) == [pc : Positions, latest : Nat, base : 0..n, head : PullsUpTo(n), tries : 0..2]

Types ==
    /\ main \in Seq(Entry)
    /\ green \in Seq(Results) /\ Len(green) = Len(main)
    /\ releases \subseteq RunsUpTo(Len(main)) /\ jobs \subseteq RunsUpTo(Len(main))
    /\ pr \in [Versions -> PullsUpTo(Len(main))]
    /\ script \in ScriptsUpTo(Len(main))
    /\ left \in [crashes : Nat, fails : Nat, acts : Nat]

\* Versions on main never go down; each was set by a maintainer or brought by
\* an update committed under the one before; a merged release is the commit its
\* pull request was merged as.
Authored == {i \in DOMAIN main : main[i].kind # "release"}
Raises(i, v) == \/ main[i].kind = "dep" /\ main[i].version + 1 = v
                \/ main[i].kind = "bump" /\ main[i].version = v

Numbered ==
    /\ \A i, j \in 0..Len(main) : i <= j => VersionAt(i) <= VersionAt(j)
    /\ \A v \in 1..VersionAt(Len(main)) : \E i \in DOMAIN main : Raises(i, v)
    /\ Cardinality(Authored) <= MaxMain
    /\ \A i \in DOMAIN main : main[i].kind = "release" =>
         /\ main[i].version \in Versions
         /\ pr[main[i].version].state = "merged" /\ pr[main[i].version].at = i

\* A release has the version of its commit, and one that the script made has
\* the merge of its pull request.
IsMerged(r) == r.version \in Versions /\ pr[r.version].state = "merged" /\ pr[r.version].at <= r.at

Published ==
    /\ \A r \in releases : VersionAt(r.at) = r.version
    /\ \A r, s \in releases : r.version = s.version => r = s
    /\ \E r \in releases : \A s \in releases : s.version <= r.version
    /\ \A r \in releases \cup jobs : r.auto => IsMerged(r)

\* An update that ships was committed after the release before v.
HasUpdate(v) == \E i \in DOMAIN main, r \in releases :
    /\ main[i].kind = "dep" /\ main[i].version + 1 = v
    /\ r.version = main[i].version /\ r.at < i

\* A branch for version v was made for an update and differs by the version.
Fits(v, p) == p.state # "none" =>
    /\ HasUpdate(v)
    /\ VersionAt(p.base) + 1 = v \/ (VersionAt(p.base) = v /\ p.state # "branch")
    /\ p.state # "branch" => p.bumped

Prepared == \A v \in Versions : Fits(v, pr[v])

\* What the script relies on between its steps.
Running ==
    /\ script.latest <= VersionAt(Len(main))
    /\ script.pc # "idle" => \E r \in releases : r.version = script.latest
    /\ script.pc \in {"branch", "version", "open"} =>
         HasUpdate(V) /\ VersionAt(script.base) = script.latest
    /\ script.pc \notin {"idle", "main", "pulls", "branch"} => pr[V].state # "none"
    /\ script.pc \in {"dispatch", "published"} => pr[V].state = "merged"
    /\ script.pc \in {"register", "checks", "ready", "again", "merge"} => ~script.head.extra

IInv == Types /\ Numbered /\ Published /\ Prepared /\ Running /\ dirty = FALSE

-----------------------------------------------------------------------------
(* The versions on main.                                                   *)

\* Commits on main are entries with a version.
LEMMA MainTypes ==
    ASSUME Types
    PROVE  /\ Len(main) \in Nat /\ DOMAIN main = 1..Len(main)
           /\ \A i \in DOMAIN main : main[i].kind \in Kinds /\ main[i].version \in Nat
           /\ \A i \in 0..Len(main) : VersionAt(i) \in Nat
           /\ \A i \in DOMAIN main : VersionAt(i) = main[i].version
<1>1. main \in Seq(Entry)
  BY DEF Types
<1>2. Len(main) \in Nat /\ DOMAIN main = 1..Len(main)
  BY <1>1, LenProperties
<1>3. \A i \in DOMAIN main : main[i] \in Entry
  BY <1>1, <1>2, ElementOfSeq
<1>4. \A i \in DOMAIN main : main[i].kind \in Kinds /\ main[i].version \in Nat
  BY <1>3 DEF Entry
<1> QED BY <1>2, <1>4 DEF VersionAt

\* The last commit has a version after a step, too.
LEMMA NextTypes ==
    ASSUME Types'
    PROVE  /\ Len(main') \in Nat /\ DOMAIN main' = 1..Len(main')
           /\ \A i \in DOMAIN main' : main'[i].version \in Nat
           /\ VersionAt(Len(main))' \in Nat
<1>1. main' \in Seq(Entry)
  BY DEF Types
<1>2. Len(main') \in Nat /\ DOMAIN main' = 1..Len(main')
  BY <1>1, LenProperties
<1>3. ASSUME NEW i \in 1..Len(main') PROVE main'[i].version \in Nat
  <2>1. main'[i] \in Entry
    BY <1>1, ElementOfSeq
  <2> QED BY <2>1 DEF Entry
<1> QED BY <1>2, <1>3 DEF VersionAt

\* Versions are numbered from 1 to one more than the commits on main.
LEMMA VersionTypes ==
    MaxMain \in Nat /\ Versions = 1..(MaxMain + 1) /\ Versions \subseteq Nat
BY ReleaseAssumption DEF Versions

\* There are no more versions than commits besides merged releases.
LEMMA VersionsAreFew ==
    ASSUME Types, Numbered
    PROVE  VersionAt(Len(main)) \in 0..MaxMain
<1> DEFINE n == VersionAt(Len(main))
           f == [i \in Authored |->
                   IF main[i].kind = "dep" THEN main[i].version + 1 ELSE main[i].version]
           T == {f[i] : i \in Authored}
<1>1. /\ Len(main) \in Nat /\ DOMAIN main = 1..Len(main) /\ n \in Nat
      /\ \A i \in DOMAIN main : main[i].version \in Nat
  BY MainTypes
<1>2. Authored \subseteq 1..Len(main) /\ IsFiniteSet(1..Len(main))
  BY <1>1, FS_Interval DEF Authored
<1>3. IsFiniteSet(Authored)
  BY <1>2, FS_Subset
<1>4. f \in Surjection(Authored, T)
  BY DEF Surjection
<1>5. IsFiniteSet(T) /\ Cardinality(T) <= Cardinality(Authored)
  <2> HIDE DEF f, T
  <2> QED BY <1>3, <1>4, FS_Surjection
<1>6. 1..n \subseteq T
  <2> SUFFICES ASSUME NEW v \in 1..n PROVE v \in T
    OBVIOUS
  <2>1. PICK i \in DOMAIN main : Raises(i, v)
    BY DEF Numbered
  <2>2. i \in Authored /\ f[i] = v
    BY <2>1 DEF Raises, Authored
  <2> QED BY <2>2
<1>7. /\ IsFiniteSet(1..n)
      /\ Cardinality(1..n) = IF 1 > n THEN 0 ELSE n - 1 + 1
  <2>1. n \in Int
    BY <1>1
  <2> HIDE DEF n
  <2> QED BY <2>1, FS_Interval
<1>8. Cardinality(1..n) <= Cardinality(T)
  BY <1>5, <1>6, FS_Subset
<1>9. Cardinality(1..n) = n
  BY <1>1, <1>7
<1>10. Cardinality(T) \in Nat /\ Cardinality(Authored) \in Nat
  <2> HIDE DEF T
  <2> QED BY <1>3, <1>5, FS_CardinalityType
<1>11. Cardinality(Authored) <= MaxMain
  BY DEF Numbered
<1> HIDE DEF n, T
<1>12. n \in 0..MaxMain
  BY <1>1, <1>5, <1>8, <1>9, <1>10, <1>11, VersionTypes
<1> QED BY <1>12 DEF n

\* A merged release is one version, so main has room for twice the commits.
LEMMA MainIsShort ==
    ASSUME Types, Numbered
    PROVE  Len(main) \in Commits
<1> DEFINE n == VersionAt(Len(main))
           R == {i \in DOMAIN main : main[i].kind = "release"}
           h == [i \in R |-> main[i].version]
<1>1. /\ Len(main) \in Nat /\ DOMAIN main = 1..Len(main) /\ n \in Nat /\ n \in 0..MaxMain
      /\ \A i \in DOMAIN main : main[i].version \in Nat /\ VersionAt(i) = main[i].version
  BY MainTypes, VersionsAreFew
<1>2. /\ IsFiniteSet(1..Len(main))
      /\ Cardinality(1..Len(main)) = IF 1 > Len(main) THEN 0 ELSE Len(main) - 1 + 1
  <2>1. Len(main) \in Int
    BY <1>1
  <2> QED BY <2>1, FS_Interval
<1>3. /\ IsFiniteSet(1..n)
      /\ Cardinality(1..n) = IF 1 > n THEN 0 ELSE n - 1 + 1
  <2>1. n \in Int
    BY <1>1
  <2> HIDE DEF n
  <2> QED BY <2>1, FS_Interval
<1>4. IsFiniteSet(Authored) /\ IsFiniteSet(R)
  BY <1>1, <1>2, FS_Subset DEF Authored
<1>5. Authored \cup R = 1..Len(main) /\ Authored \cap R = {}
  BY <1>1 DEF Authored
<1>6. \A i \in R : h[i] \in 1..n
  <2> SUFFICES ASSUME NEW i \in R PROVE h[i] \in 1..n
    OBVIOUS
  <2>1. main[i].version \in Versions
    BY DEF Numbered
  <2>2. i \in 0..Len(main) /\ Len(main) \in 0..Len(main) /\ i <= Len(main)
    BY <1>1
  <2>3. VersionAt(i) <= n
    BY <2>2 DEF Numbered
  <2>4. main[i].version <= n /\ main[i].version \in Nat /\ main[i].version >= 1
    BY <1>1, <2>1, <2>3, VersionTypes
  <2> HIDE DEF n
  <2> QED BY <1>1, <2>4
<1>7. \A i, j \in R : h[i] = h[j] => i = j
  BY DEF Numbered
<1>8. h \in Injection(R, 1..n)
  <2>1. h \in [R -> 1..n]
    <3> HIDE DEF n
    <3> QED BY <1>6
  <2> HIDE DEF h, R, n
  <2> QED BY <2>1, <1>7 DEF Injection, IsInjective
<1>9. Cardinality(R) <= Cardinality(1..n)
  <2> HIDE DEF h, n, R
  <2> QED BY <1>3, <1>8, <1>4, FS_Injection
<1>10. Cardinality(1..Len(main)) = Cardinality(Authored) + Cardinality(R) - Cardinality(Authored \cap R)
  <2> HIDE DEF R
  <2> QED BY <1>4, <1>5, FS_Union
<1>11. Cardinality(Authored \cap R) = 0 /\ Cardinality(Authored) \in Nat /\ Cardinality(R) \in Nat
  <2> HIDE DEF R
  <2> QED BY <1>4, <1>5, FS_EmptySet, FS_CardinalityType
<1>12. Cardinality(Authored) <= MaxMain
  BY DEF Numbered
<1> HIDE DEF n, R
<1>13. Cardinality(1..n) = n /\ Cardinality(1..Len(main)) = Len(main)
  BY <1>1, <1>2, <1>3
<1>14. Len(main) <= 2 * MaxMain
  BY <1>1, <1>9, <1>10, <1>11, <1>12, <1>13, VersionTypes
<1> QED BY <1>1, <1>14, VersionTypes DEF Commits

\* The version the script is about.
LEMMA NextVersion ==
    ASSUME Types, Numbered, Running
    PROVE  /\ V \in Versions /\ V \in Nat /\ script.latest \in Nat /\ V - 1 = script.latest
           /\ script.latest <= VersionAt(Len(main))
<1>1. script.latest \in Nat
  BY DEF Types, ScriptsUpTo
<1>2. script.latest <= VersionAt(Len(main)) /\ VersionAt(Len(main)) \in 0..MaxMain
  BY VersionsAreFew DEF Running
<1> QED BY <1>1, <1>2, VersionTypes DEF V

-----------------------------------------------------------------------------
(* What a step leaves as it is.                                            *)

\* Commits stay on main, releases stay published, branches and merges stay.
Kept ==
    /\ Len(main) <= Len(main')
    /\ \A i \in DOMAIN main : i \in DOMAIN main' /\ main'[i] = main[i]
    /\ releases \subseteq releases'
    /\ \A v \in Versions : pr[v].state # "none" => pr'[v].state # "none"
    /\ \A v \in Versions : pr[v].state = "merged" =>
         pr'[v].state = "merged" /\ pr'[v].at = pr[v].at

\* Where commits stay, their versions do.
LEMMA VersionsKept ==
    ASSUME Types, Kept
    PROVE  \A i \in 0..Len(main) : VersionAt(i)' = VersionAt(i)
<1>1. \A i \in 0..Len(main) : i = 0 \/ i \in DOMAIN main
  BY MainTypes
<1> QED BY <1>1 DEF Kept, VersionAt

\* An update that a release was missing is still one later.
LEMMA UpdateKept ==
    ASSUME Types, Kept, NEW v, HasUpdate(v)
    PROVE  HasUpdate(v)'
BY DEF Kept, HasUpdate

\* The script that does not move can still rely on what it has seen.
LEMMA RunningKept ==
    ASSUME Types, Numbered, Running, Kept, Types', UNCHANGED script,
           VersionAt(Len(main)) <= VersionAt(Len(main))'
    PROVE  Running'
<1>1. V \in Versions /\ V' = V /\ script.latest \in Nat /\ script' = script
  BY NextVersion DEF V
<1>2. script'.latest <= VersionAt(Len(main))'
  <2>1. VersionAt(Len(main))' \in Nat
    BY NextTypes
  <2>2. VersionAt(Len(main)) \in Nat
    BY MainTypes
  <2> QED BY <1>1, <2>1, <2>2 DEF Running
<1>3. script.pc # "idle" => \E r \in releases' : r.version = script'.latest
  BY <1>1 DEF Running, Kept
<1>4. script.pc \in {"branch", "version", "open"} =>
        HasUpdate(V)' /\ VersionAt(script.base)' = script'.latest
  <2> SUFFICES ASSUME script.pc \in {"branch", "version", "open"}
               PROVE  HasUpdate(V)' /\ VersionAt(script.base)' = script'.latest
    OBVIOUS
  <2>1. HasUpdate(V) /\ VersionAt(script.base) = script.latest
    BY DEF Running
  <2>2. \A v : HasUpdate(v) => HasUpdate(v)'
    BY UpdateKept
  <2>3. HasUpdate(V)'
    BY <1>1, <2>1, <2>2 DEF HasUpdate
  <2>4. script.base \in 0..Len(main)
    BY DEF Types, ScriptsUpTo
  <2>5. \A i : i = script.base => VersionAt(i)' = script.latest
    BY <2>1, <2>4, VersionsKept
  <2>6. VersionAt(script.base)' = script.latest
    BY <1>1, <2>5 DEF VersionAt
  <2> QED BY <1>1, <2>3, <2>6
<1>5. pr[V].state # "none" => pr'[V'].state # "none"
  BY <1>1 DEF Kept
<1>6. pr[V].state = "merged" => pr'[V'].state = "merged"
  BY <1>1 DEF Kept
<1> QED BY <1>1, <1>2, <1>3, <1>4, <1>5, <1>6 DEF Running

\* A script that ends relies on nothing.
LEMMA IdleRuns ==
    ASSUME Types', script' = Idle
    PROVE  Running'
<1>3. VersionAt(Len(main))' \in Nat
  BY NextTypes
<1>4. script'.latest = 0 /\ script'.pc = "idle"
  BY DEF Idle
<1> QED BY <1>3, <1>4 DEF Running

\* Steps that commit nothing keep what is true of the commits.
LEMMA NumberedKept ==
    ASSUME Types, Numbered, Kept, UNCHANGED main
    PROVE  Numbered'
<1>1. main' = main
  OBVIOUS
<1>2. \A i : VersionAt(i)' = VersionAt(i)
  BY <1>1 DEF VersionAt
<1>3. \A i, j \in 0..Len(main') : i <= j => VersionAt(i)' <= VersionAt(j)'
  BY <1>1, <1>2 DEF Numbered
<1>4. \A v \in 1..VersionAt(Len(main))' : \E i \in DOMAIN main' : Raises(i, v)'
  BY <1>1 DEF Numbered, VersionAt, Raises
<1>5. Cardinality(Authored)' <= MaxMain
  <2>1. Authored' = Authored
    BY <1>1 DEF Authored
  <2> QED BY <2>1 DEF Numbered
<1>6. ASSUME NEW i \in DOMAIN main', main'[i].kind = "release"
      PROVE  /\ main'[i].version \in Versions
             /\ pr'[main'[i].version].state = "merged" /\ pr'[main'[i].version].at = i
  BY <1>1, <1>6 DEF Numbered, Kept
<1> QED BY <1>3, <1>4, <1>5, <1>6 DEF Numbered

\* A merge that a release has stays the merge of its version.
LEMMA MergedKept ==
    ASSUME Kept, NEW r, IsMerged(r)
    PROVE  IsMerged(r)'
BY DEF Kept, IsMerged

\* Steps that neither publish nor start release.yml keep what is published.
LEMMA PublishedKept ==
    ASSUME Types, Published, Kept, UNCHANGED <<releases, jobs>>
    PROVE  Published'
<1>1. releases' = releases /\ jobs' = jobs
  OBVIOUS
<1>2. \A r \in releases : VersionAt(r.at)' = r.version
  <2>1. \A r \in releases : r.at \in 0..Len(main)
    BY DEF Types, RunsUpTo
  <2> QED BY <2>1, VersionsKept DEF Published
<1>3. \A r \in releases \cup jobs : r.auto => IsMerged(r)'
  BY MergedKept DEF Published
<1> QED BY <1>1, <1>2, <1>3 DEF Published

\* A branch stays made for an update.
LEMMA FitsKept ==
    ASSUME Types, Kept, NEW v, NEW p, p.base \in 0..Len(main), Fits(v, p)
    PROVE  Fits(v, p)'
<1>1. VersionAt(p.base)' = VersionAt(p.base)
  BY VersionsKept
<1>2. HasUpdate(v) => HasUpdate(v)'
  BY UpdateKept
<1> QED BY <1>1, <1>2 DEF Fits

\* Branches stay prepared if those that change are.
LEMMA PreparedKept ==
    ASSUME Types, Prepared, Kept,
           \A v \in Versions : \/ pr'[v] = pr[v]
                               \/ pr'[v].base \in 0..Len(main) /\ Fits(v, pr'[v])
    PROVE  Prepared'
<1> SUFFICES ASSUME NEW v \in Versions PROVE Fits(v, pr[v])'
  BY DEF Prepared
<1>1. pr[v].base \in 0..Len(main) /\ Fits(v, pr[v])
  BY DEF Types, PullsUpTo, Prepared
<1>2. PICK p : p = pr'[v]
  OBVIOUS
<1>3. p.base \in 0..Len(main) /\ Fits(v, p)
  BY <1>1, <1>2
<1>4. Fits(v, p)'
  BY <1>3, FitsKept
<1> QED BY <1>2, <1>4 DEF Fits

\* Where main, the releases and the pull requests stay, all is kept.
LEMMA SameIsKept ==
    ASSUME Types, UNCHANGED <<main, releases, pr>>
    PROVE  Kept /\ VersionAt(Len(main)) <= VersionAt(Len(main))'
<1>1. Len(main) \in Nat /\ VersionAt(Len(main)) \in Nat
  BY MainTypes
<1>2. main' = main /\ releases' = releases /\ pr' = pr
  OBVIOUS
<1>3. VersionAt(Len(main))' = VersionAt(Len(main))
  BY <1>2 DEF VersionAt
<1> QED BY <1>1, <1>2, <1>3 DEF Kept

\* Where only green, the pull requests, the script or left change, the types
\* of those are all that matters.
LEMMA TypesKept ==
    ASSUME Types, UNCHANGED <<main, releases, jobs>>,
           green' \in Seq(Results), Len(green') = Len(main),
           pr' \in [Versions -> PullsUpTo(Len(main))],
           script' \in ScriptsUpTo(Len(main)),
           left' \in [crashes : Nat, fails : Nat, acts : Nat]
    PROVE  Types'
BY DEF Types

\* A script that is not idle, ends or goes on has its type.
LEMMA ScriptTypes ==
    ASSUME Types
    PROVE  /\ script.pc \in Positions /\ script.latest \in Nat /\ script.base \in 0..Len(main)
           /\ script.head \in PullsUpTo(Len(main)) /\ script.tries \in 0..2
           /\ Idle \in ScriptsUpTo(Len(main))
           /\ \A pc \in Positions : [script EXCEPT !.pc = pc] \in ScriptsUpTo(Len(main))
<1>1. script \in ScriptsUpTo(Len(main)) /\ Len(main) \in Nat
  BY MainTypes DEF Types
<1>2. NoPull \in PullsUpTo(Len(main))
  BY <1>1 DEF NoPull, PullsUpTo, States
<1>3. Idle \in ScriptsUpTo(Len(main))
  BY <1>1, <1>2 DEF Idle, ScriptsUpTo, Positions
<1> QED BY <1>1, <1>3 DEF ScriptsUpTo

\* A script that moves can rely on what it has just seen.
LEMMA MovesOn ==
    ASSUME Types, Numbered, Running, Kept, Types',
           VersionAt(Len(main)) <= VersionAt(Len(main))',
           script.pc # "idle", script'.latest = script.latest,
           script'.pc \in {"branch", "version", "open"} =>
             /\ script'.base = script.base
             /\ HasUpdate(V) /\ VersionAt(script.base) = script.latest,
           script'.pc \notin {"idle", "main", "pulls", "branch"} => pr'[V].state # "none",
           script'.pc \in {"dispatch", "published"} => pr'[V].state = "merged",
           script'.pc \in {"register", "checks", "ready", "again", "merge"} => ~script'.head.extra
    PROVE  Running'
<1>1. V' = V /\ script.latest \in Nat
  BY NextVersion DEF V
<1>2. script'.latest <= VersionAt(Len(main))'
  <2>1. VersionAt(Len(main)) \in Nat /\ VersionAt(Len(main))' \in Nat
    BY MainTypes, NextTypes
  <2> QED BY <1>1, <2>1 DEF Running
<1>3. \E r \in releases' : r.version = script'.latest
  BY <1>1 DEF Running, Kept
<1>4. script'.pc \in {"branch", "version", "open"} =>
        HasUpdate(V)' /\ VersionAt(script.base)' = script'.latest
  <2> SUFFICES ASSUME script'.pc \in {"branch", "version", "open"}
               PROVE  HasUpdate(V)' /\ VersionAt(script.base)' = script'.latest
    OBVIOUS
  <2>1. \A v : HasUpdate(v) => HasUpdate(v)'
    BY UpdateKept
  <2>2. HasUpdate(V)'
    BY <1>1, <2>1 DEF HasUpdate
  <2>3. \A i : i = script.base => VersionAt(i)' = script.latest
    BY ScriptTypes, VersionsKept
  <2>4. VersionAt(script.base)' = script'.latest
    BY <1>1, <2>3 DEF VersionAt
  <2> QED BY <2>2, <2>4
<1> QED BY <1>1, <1>2, <1>3, <1>4 DEF Running

\* A step of the script that only reads.
LEMMA ReadKeeps ==
    ASSUME IInv, UNCHANGED <<main, green, releases, pr, jobs, dirty>>,
           script' \in ScriptsUpTo(Len(main)),
           left' \in [crashes : Nat, fails : Nat, acts : Nat],
           Types' => Running'
    PROVE  IInv'
<1>1. Kept /\ Types /\ Numbered /\ Published /\ Prepared /\ dirty = FALSE
  BY SameIsKept DEF IInv
<1>2. Types'
  <2>1. green' \in Seq(Results) /\ Len(green') = Len(main) /\ pr' \in [Versions -> PullsUpTo(Len(main))]
    BY <1>1 DEF Types
  <2> QED BY <1>1, <2>1, TypesKept
<1>3. Numbered' /\ Published' /\ Prepared'
  BY <1>1, NumberedKept, PublishedKept, PreparedKept
<1> QED BY <1>1, <1>2, <1>3 DEF IInv

\* A step of the script that changes a branch or pull request, too.
LEMMA WriteKeeps ==
    ASSUME IInv, UNCHANGED <<main, green, releases, jobs, dirty, left>>, Kept,
           NEW p \in PullsUpTo(Len(main)), Fits(V, p), pr' = [pr EXCEPT ![V] = p],
           script' \in ScriptsUpTo(Len(main)),
           Types' => Running'
    PROVE  IInv'
<1>1. Types /\ Numbered /\ Published /\ Prepared /\ Running /\ dirty = FALSE
  BY DEF IInv
<1>2. V \in Versions /\ pr \in [Versions -> PullsUpTo(Len(main))]
  BY <1>1, NextVersion DEF Types
<1>3. pr' \in [Versions -> PullsUpTo(Len(main))]
  BY <1>2
<1>4. Types'
  <2>1. /\ green' \in Seq(Results) /\ Len(green') = Len(main)
        /\ left' \in [crashes : Nat, fails : Nat, acts : Nat]
    BY <1>1 DEF Types
  <2> QED BY <1>1, <1>3, <2>1, TypesKept
<1>5. \A v \in Versions : \/ pr'[v] = pr[v]
                          \/ pr'[v].base \in 0..Len(main) /\ Fits(v, pr'[v])
  <2>1. p.base \in 0..Len(main)
    BY DEF PullsUpTo
  <2>2. \A v \in Versions : v # V => pr'[v] = pr[v]
    BY <1>2
  <2>3. pr'[V] = p
    BY <1>2
  <2> QED BY <2>1, <2>2, <2>3
<1>6. Numbered' /\ Published' /\ Prepared'
  BY <1>1, <1>5, NumberedKept, PublishedKept, PreparedKept
<1> QED BY <1>1, <1>4, <1>6 DEF IInv

-----------------------------------------------------------------------------
(* run.                                                                    *)

\* The latest release is published, and no newer one.
LEMMA LatestIsPublished ==
    ASSUME Published
    PROVE  Latest \in releases /\ \A s \in releases : s.version <= Latest.version
BY DEF Published, Latest

\* No release is of a version that main does not have.
LEMMA ReleasesAreOnMain ==
    ASSUME Types, Numbered, Published, NEW r \in releases
    PROVE  /\ r.version \in Nat /\ r.at \in 0..Len(main) /\ VersionAt(r.at) = r.version
           /\ r.version <= VersionAt(Len(main))
<1>1. r.version \in Nat /\ r.at \in 0..Len(main)
  BY DEF Types, RunsUpTo
<1>2. VersionAt(r.at) = r.version
  BY DEF Published
<1>3. Len(main) \in 0..Len(main) /\ r.at <= Len(main)
  BY <1>1, MainTypes
<1>4. VersionAt(r.at) <= VersionAt(Len(main))
  BY <1>1, <1>3 DEF Numbered
<1> QED BY <1>1, <1>2, <1>4

\* A release is found by its version.
LEMMA FoundAt ==
    ASSUME Published, NEW r \in releases
    PROVE  At(r.version) = r.at
<1>1. (CHOOSE s \in releases : s.version = r.version) = r
  BY DEF Published
<1> QED BY <1>1 DEF At

\* A new run knows the latest release.
LEMMA BeginKeeps ==
    ASSUME IInv, Begin
    PROVE  IInv'
<1>1. Types /\ Numbered /\ Published
  BY DEF IInv
<1>2. /\ Latest \in releases /\ Latest.version \in Nat
      /\ Latest.version <= VersionAt(Len(main))
  BY <1>1, LatestIsPublished, ReleasesAreOnMain
<1>3. /\ script'.pc = "main" /\ script'.latest = Latest.version
      /\ script' = [[Idle EXCEPT !.pc = "main"] EXCEPT !.latest = Latest.version]
  BY DEF Begin, Idle
<1>4. script' \in ScriptsUpTo(Len(main))
  BY <1>1, <1>2, <1>3, ScriptTypes DEF ScriptsUpTo, Positions
<1>5. Running'
  <2>1. main' = main /\ releases' = releases
    BY DEF Begin, GitHubUnchanged
  <2>2. VersionAt(Len(main))' = VersionAt(Len(main))
    BY <2>1 DEF VersionAt
  <2> QED BY <1>2, <1>3, <2>1, <2>2 DEF Running
<1>6. /\ UNCHANGED <<main, green, releases, pr, jobs, dirty>>
      /\ left' \in [crashes : Nat, fails : Nat, acts : Nat]
  BY <1>1 DEF Begin, GitHubUnchanged, Types
<1> QED BY <1>4, <1>5, <1>6, ReadKeeps

\* A run that ends, wherever it was.
LEMMA StopKeeps ==
    ASSUME IInv, Stop, UNCHANGED <<main, green, releases, pr, jobs, dirty>>,
           left' \in [crashes : Nat, fails : Nat, acts : Nat]
    PROVE  IInv'
<1>1. script' = Idle /\ Types
  BY DEF Stop, IInv
<1>2. script' \in ScriptsUpTo(Len(main))
  BY <1>1, ScriptTypes
<1>3. Types' => Running'
  BY <1>1, IdleRuns
<1> QED BY <1>2, <1>3, ReadKeeps

\* A run that has read something and goes on.
LEMMA ReadsOn ==
    ASSUME IInv, GitHubUnchanged, script.pc # "idle", script' \in ScriptsUpTo(Len(main)),
           script'.latest = script.latest,
           script'.pc \in {"branch", "version", "open"} =>
             /\ script'.base = script.base
             /\ HasUpdate(V) /\ VersionAt(script.base) = script.latest,
           script'.pc \notin {"idle", "main", "pulls", "branch"} => pr[V].state # "none",
           script'.pc \in {"dispatch", "published"} => pr[V].state = "merged",
           script'.pc \in {"register", "checks", "ready", "again", "merge"} => ~script'.head.extra
    PROVE  IInv'
<1>1. /\ UNCHANGED <<main, green, releases, pr, jobs, dirty>> /\ pr' = pr
      /\ left' \in [crashes : Nat, fails : Nat, acts : Nat]
      /\ Types /\ Numbered /\ Running
  BY DEF GitHubUnchanged, IInv, Types
<1>2. Kept /\ VersionAt(Len(main)) <= VersionAt(Len(main))'
  BY <1>1, SameIsKept
<1>3. Types' => Running'
  BY <1>1, <1>2, MovesOn
<1> QED BY <1>1, <1>3, ReadKeeps

\* A run that waits with a pull request whose head is free of other changes.
LEMMA GoesOn ==
    ASSUME IInv, GitHubUnchanged, script.pc \in {"checks", "ready", "again"},
           NEW pc \in {"ready", "again", "merge"}, Goto(pc)
    PROVE  IInv'
<1>1. Types /\ Running
  BY DEF IInv
<1>2. script' = [script EXCEPT !.pc = pc] /\ pc \in Positions
  BY DEF Goto, Positions
<1>3. script' \in ScriptsUpTo(Len(main))
  BY <1>1, <1>2, ScriptTypes
<1>4. script'.pc = pc /\ script'.latest = script.latest /\ script'.head = script.head
  BY <1>1, <1>2 DEF Types, ScriptsUpTo
<1>5. ~script.head.extra /\ pr[V].state # "none"
  BY <1>1 DEF Running
<1> QED BY <1>3, <1>4, <1>5, ReadsOn

\* A pass of the loop that starts again.
LEMMA RetryScript ==
    ASSUME Types, NEW n \in Nat, script.tries + 1 = n, Retry(n)
    PROVE  /\ script' \in ScriptsUpTo(Len(main))
           /\ \/ script' = Idle
              \/ script'.pc = "loop" /\ script'.latest = script.latest
<1>1. script \in ScriptsUpTo(Len(main)) /\ script.tries \in 0..2
  BY ScriptTypes DEF Types
<1>2. CASE n = 3
  BY <1>2, ScriptTypes DEF Retry, Stop
<1>3. CASE n # 3
  <2>1. script' = [script EXCEPT !.pc = "loop", !.tries = n]
    BY <1>3 DEF Retry
  <2>2. n \in 0..2
    BY <1>1, <1>3
  <2>3. script'.pc = "loop" /\ script'.latest = script.latest
    BY <1>1, <2>1 DEF ScriptsUpTo
  <2>4. script' \in ScriptsUpTo(Len(main))
    BY <1>1, <2>1, <2>2 DEF ScriptsUpTo, Positions
  <2> QED BY <2>3, <2>4
<1> QED BY <1>2, <1>3

\* The head of main is read.
LEMMA ReadMainKeeps ==
    ASSUME IInv, ReadMain
    PROVE  IInv'
<1>1. Types /\ Len(main) \in 0..Len(main)
  BY MainTypes DEF IInv
<1>2. script' = [script EXCEPT !.pc = "pulls", !.base = Len(main)]
  BY DEF ReadMain
<1>3. script' \in ScriptsUpTo(Len(main)) /\ script'.pc = "pulls" /\ script'.latest = script.latest
  BY <1>1, <1>2 DEF Types, ScriptsUpTo, Positions
<1>4. GitHubUnchanged /\ script.pc = "main"
  BY DEF ReadMain
<1> QED BY <1>3, <1>4, ReadsOn

\* An unreleased update under the version of the latest release is the update
\* of the next one.
LEMMA UpdateIsNext ==
    ASSUME Types, Numbered, Published, Running, script.pc # "idle",
           Updates, VersionAt(script.base) = script.latest
    PROVE  HasUpdate(V)
<1>1. PICK r \in releases : r.version = script.latest
  BY DEF Running
<1>2. /\ r.version \in Nat /\ r.at \in 0..Len(main) /\ VersionAt(r.at) = r.version
      /\ At(script.latest) = r.at
  BY <1>1, ReleasesAreOnMain, FoundAt
<1>3. script.base \in 0..Len(main) /\ Len(main) \in Nat /\ DOMAIN main = 1..Len(main)
  BY ScriptTypes, MainTypes
<1>4. PICK i \in (r.at + 1)..script.base : main[i].kind = "dep"
  BY <1>2 DEF Updates, Unreleased
<1>5. i \in 1..Len(main) /\ i \in 0..Len(main) /\ r.at < i /\ r.at <= i /\ i <= script.base
  BY <1>2, <1>3, <1>4
<1>6. VersionAt(r.at) <= VersionAt(i) /\ VersionAt(i) <= VersionAt(script.base)
  BY <1>2, <1>3, <1>5 DEF Numbered
<1>7. VersionAt(i) = main[i].version /\ main[i].version \in Nat
  BY <1>3, <1>5, MainTypes
<1>8. main[i].version = r.version /\ main[i].version + 1 = V
  BY <1>1, <1>2, <1>6, <1>7 DEF V
<1> QED BY <1>3, <1>4, <1>5, <1>8 DEF HasUpdate

\* The script lists the pull requests and decides.
LEMMA ListPullsKeeps ==
    ASSUME IInv, ListPulls
    PROVE  IInv'
<1>1. /\ Types /\ Numbered /\ Published /\ Running
      /\ GitHubUnchanged /\ script.pc = "pulls"
  BY DEF IInv, ListPulls
<1>2. CASE Stop
  <2>1. /\ UNCHANGED <<main, green, releases, pr, jobs, dirty>>
        /\ left' \in [crashes : Nat, fails : Nat, acts : Nat]
    BY <1>1 DEF GitHubUnchanged, Types
  <2> QED BY <1>2, <2>1, StopKeeps
<1>3. CASE Goto("loop") /\ pr[V].state \in {"open", "merged"}
  <2>1. script' = [script EXCEPT !.pc = "loop"] /\ "loop" \in Positions
    BY <1>3 DEF Goto, Positions
  <2>2. script' \in ScriptsUpTo(Len(main)) /\ script'.pc = "loop" /\ script'.latest = script.latest
    BY <1>1, <2>1, ScriptTypes DEF Types, ScriptsUpTo
  <2> QED BY <1>1, <1>3, <2>2, ReadsOn
<1>4. CASE Goto("branch") /\ Updates /\ VersionAt(script.base) = Expected /\ pr[V].state # "merged"
  <2>1. script' = [script EXCEPT !.pc = "branch"] /\ "branch" \in Positions
    BY <1>4 DEF Goto, Positions
  <2>2. /\ script' \in ScriptsUpTo(Len(main)) /\ script'.pc = "branch"
        /\ script'.latest = script.latest /\ script'.base = script.base
    BY <1>1, <2>1, ScriptTypes DEF Types, ScriptsUpTo
  <2>3. VersionAt(script.base) = script.latest
    BY <1>4 DEF Expected
  <2>4. HasUpdate(V)
    BY <1>1, <1>4, <2>3, UpdateIsNext
  <2> QED BY <1>1, <2>2, <2>3, <2>4, ReadsOn
<1> QED BY <1>2, <1>3, <1>4 DEF ListPulls

-----------------------------------------------------------------------------
(* prepare_pr and validate_and_merge.                                      *)

\* A change of one pull request keeps all others, and what must stay of it.
LEMMA PullKept ==
    ASSUME Types, UNCHANGED <<main, releases>>, NEW v \in Versions, NEW p,
           pr' = [pr EXCEPT ![v] = p],
           pr[v].state # "none" => p.state # "none",
           pr[v].state = "merged" => p.state = "merged" /\ p.at = pr[v].at
    PROVE  Kept /\ VersionAt(Len(main)) <= VersionAt(Len(main))' /\ pr'[v] = p
<1>1. Len(main) \in Nat /\ VersionAt(Len(main)) \in Nat
  BY MainTypes
<1>2. main' = main /\ releases' = releases
  OBVIOUS
<1>3. VersionAt(Len(main))' = VersionAt(Len(main))
  BY <1>2 DEF VersionAt
<1>4. /\ pr'[v] = p
      /\ \A u \in Versions : u # v => pr'[u] = pr[u]
  BY DEF Types
<1>5. ASSUME NEW u \in Versions
      PROVE  /\ pr[u].state # "none" => pr'[u].state # "none"
             /\ pr[u].state = "merged" => pr'[u].state = "merged" /\ pr'[u].at = pr[u].at
  BY <1>4
<1> QED BY <1>1, <1>2, <1>3, <1>4, <1>5 DEF Kept

\* What the script knows of its pull request.
LEMMA OwnPull ==
    ASSUME IInv
    PROVE  /\ Types /\ Numbered /\ Published /\ Prepared /\ Running /\ dirty = FALSE
           /\ V \in Versions /\ pr[V] \in PullsUpTo(Len(main)) /\ Fits(V, pr[V])
<1>1. Types /\ Numbered /\ Published /\ Prepared /\ Running /\ dirty = FALSE
  BY DEF IInv
<1>2. V \in Versions
  BY <1>1, NextVersion
<1>3. pr[V] \in PullsUpTo(Len(main))
  BY <1>1, <1>2 DEF Types
<1> QED BY <1>1, <1>2, <1>3 DEF Prepared

\* The script changes its branch or pull request and goes on.
LEMMA WritesOn ==
    ASSUME IInv, UNCHANGED <<main, green, releases, jobs, dirty, left>>,
           script.pc # "idle", script' \in ScriptsUpTo(Len(main)),
           NEW p \in PullsUpTo(Len(main)), Fits(V, p), pr' = [pr EXCEPT ![V] = p],
           p.state # "none",
           pr[V].state = "merged" => p.state = "merged" /\ p.at = pr[V].at,
           \/ script' = Idle
           \/ script'.latest = script.latest /\ script'.pc \in {"loop", "checks"}
           \/ /\ script'.latest = script.latest /\ script'.pc \in {"version", "open"}
              /\ script'.base = script.base /\ script.pc \in {"branch", "version"},
           script'.pc = "checks" => ~script'.head.extra
    PROVE  IInv'
<1>1. Types /\ Numbered /\ Running /\ V \in Versions
  BY OwnPull
<1>2. Kept /\ VersionAt(Len(main)) <= VersionAt(Len(main))' /\ pr'[V] = p
  BY <1>1, PullKept
<1>3. script'.pc \in {"idle", "loop", "checks", "version", "open"}
  BY DEF Idle
<1>4. script'.pc \in {"branch", "version", "open"} =>
        /\ script'.base = script.base
        /\ HasUpdate(V) /\ VersionAt(script.base) = script.latest
  <2> SUFFICES ASSUME script'.pc \in {"version", "open"}
               PROVE  /\ script'.base = script.base
                      /\ HasUpdate(V) /\ VersionAt(script.base) = script.latest
    BY <1>3
  <2>1. script'.base = script.base /\ script.pc \in {"branch", "version"}
    BY DEF Idle
  <2> QED BY <1>1, <2>1 DEF Running
<1>5. Types' => Running'
  <2>1. CASE script' = Idle
    BY <2>1, IdleRuns
  <2>2. CASE script' # Idle
    <3>1. script'.latest = script.latest /\ script'.pc \notin {"dispatch", "published"}
      BY <2>2, <1>3
    <3>2. script'.pc \in {"register", "checks", "ready", "again", "merge"} => ~script'.head.extra
      BY <1>3
    <3> QED BY <1>1, <1>2, <1>4, <3>1, <3>2, MovesOn
  <2> QED BY <2>1, <2>2
<1> QED BY <1>2, <1>5, WriteKeeps

\* The position of a script that goes to it.
LEMMA GotoScript ==
    ASSUME Types, NEW pc \in Positions, Goto(pc)
    PROVE  /\ script' \in ScriptsUpTo(Len(main)) /\ script'.pc = pc
           /\ script'.latest = script.latest /\ script'.base = script.base
           /\ script'.head = script.head
<1>1. script' = [script EXCEPT !.pc = pc] /\ script \in ScriptsUpTo(Len(main))
  BY DEF Goto, Types
<1>2. script' \in ScriptsUpTo(Len(main))
  BY <1>1, ScriptTypes
<1> QED BY <1>1, <1>2 DEF ScriptsUpTo

\* The branch is made for the update that was seen.
LEMMA CreateBranchKeeps ==
    ASSUME IInv, CreateBranch
    PROVE  IInv'
<1> DEFINE p == IF pr[V].state = "none"
                THEN [NoPull EXCEPT !.state = "branch", !.base = script.base] ELSE pr[V]
<1>1. /\ Types /\ Running /\ V \in Versions /\ pr[V] \in PullsUpTo(Len(main)) /\ Fits(V, pr[V])
      /\ script.pc = "branch" /\ script.latest \in Nat /\ V = script.latest + 1
  BY OwnPull, ScriptTypes DEF CreateBranch, V
<1>2. /\ UNCHANGED <<main, green, releases, jobs, dirty, left>> /\ Goto("version")
      /\ pr' = IF pr[V].state = "none"
               THEN [pr EXCEPT ![V] = [NoPull EXCEPT !.state = "branch", !.base = script.base]]
               ELSE pr
  BY DEF CreateBranch
<1>3. pr' = [pr EXCEPT ![V] = p]
  BY <1>1, <1>2 DEF Types
<1>4. HasUpdate(V) /\ VersionAt(script.base) = script.latest
  BY <1>1 DEF Running
<1>5. p.state # "none" /\ (pr[V].state # "none" => p = pr[V])
  BY DEF NoPull
<1>6. p \in PullsUpTo(Len(main))
  <2>1. CASE pr[V].state = "none"
    <3>1. p = [state |-> "branch", base |-> script.base, bumped |-> FALSE, extra |-> FALSE,
               checks |-> "none", at |-> 0]
      BY <2>1 DEF NoPull
    <3>2. script.base \in 0..Len(main) /\ 0 \in 0..Len(main)
      BY <1>1, ScriptTypes, MainTypes
    <3> HIDE DEF p
    <3> QED BY <3>1, <3>2 DEF PullsUpTo, States, Results
  <2> QED BY <1>1, <1>5, <2>1
<1>7. Fits(V, p)
  <2>1. CASE pr[V].state = "none"
    <3>1. p.state = "branch" /\ p.base = script.base
      BY <2>1 DEF NoPull
    <3>2. VersionAt(p.base) + 1 = V
      BY <1>1, <1>4, <3>1
    <3> HIDE DEF p
    <3> QED BY <1>4, <3>1, <3>2 DEF Fits
  <2> QED BY <1>1, <1>5, <2>1
<1>8. /\ script' \in ScriptsUpTo(Len(main)) /\ script'.pc = "version"
      /\ script'.latest = script.latest /\ script'.base = script.base
  <2>1. "version" \in Positions
    BY DEF Positions
  <2> QED BY <1>1, <1>2, <2>1, GotoScript
<1> HIDE DEF p
<1> QED BY <1>1, <1>2, <1>3, <1>5, <1>6, <1>7, <1>8, WritesOn

\* The version of the branch is changed.
LEMMA PutVersionKeeps ==
    ASSUME IInv, PutVersion
    PROVE  IInv'
<1> DEFINE p == IF Candidate(V, pr[V]) = Manifest(script.base)
                THEN [pr[V] EXCEPT !.bumped = TRUE] ELSE pr[V]
<1>1. /\ Types /\ Running /\ V \in Versions /\ pr[V] \in PullsUpTo(Len(main)) /\ Fits(V, pr[V])
      /\ script.pc = "version"
  BY OwnPull DEF PutVersion
<1>2. /\ UNCHANGED <<main, green, releases, jobs, dirty, left>> /\ Goto("open")
      /\ pr' = IF Candidate(V, pr[V]) = Manifest(script.base)
               THEN [pr EXCEPT ![V].bumped = TRUE] ELSE pr
  BY DEF PutVersion
<1>3. pr' = [pr EXCEPT ![V] = p]
  BY <1>1, <1>2 DEF Types
<1>4. p \in PullsUpTo(Len(main)) /\ p.state = pr[V].state /\ p.at = pr[V].at /\ p.base = pr[V].base
      /\ (pr[V].bumped => p.bumped)
  <2>1. CASE p = pr[V]
    BY <1>1, <2>1
  <2>2. CASE p = [pr[V] EXCEPT !.bumped = TRUE]
    <3> HIDE DEF p
    <3> QED BY <1>1, <2>2 DEF PullsUpTo
  <2> QED BY <2>1, <2>2
<1>5. pr[V].state # "none"
  BY <1>1 DEF Running
<1>6. /\ script' \in ScriptsUpTo(Len(main)) /\ script'.pc = "open"
      /\ script'.latest = script.latest /\ script'.base = script.base
  <2>1. "open" \in Positions
    BY DEF Positions
  <2> QED BY <1>1, <1>2, <2>1, GotoScript
<1> HIDE DEF p
<1>7. Fits(V, p)
  BY <1>1, <1>4 DEF Fits
<1> QED BY <1>1, <1>2, <1>3, <1>4, <1>5, <1>6, <1>7, WritesOn

\* A branch that differs by the version, and no more, has its version changed.
LEMMA VersionOnlyIsBumped ==
    ASSUME Types, NEW v \in Versions, NEW p, Fits(v, p), p.state = "branch",
           NEW i \in 0..Len(main), VersionOnly(v, p, i)
    PROVE  p.bumped
<1>1. v \in Nat
  BY VersionTypes
<1>2. VersionAt(p.base) + 1 = v
  BY DEF Fits
<1>3. Candidate(v, p) = [Manifest(i) EXCEPT !.version = v]
  BY DEF VersionOnly
<1>4. Candidate(v, p).version = v
  BY <1>3 DEF Manifest
<1>5. ~p.bumped => VersionAt(p.base) = v
  BY <1>4 DEF Candidate
<1> QED BY <1>1, <1>2, <1>5

\* The pull request is opened.
LEMMA OpenPullKeeps ==
    ASSUME IInv, OpenPull
    PROVE  IInv'
<1>1. /\ Types /\ Running /\ V \in Versions /\ pr[V] \in PullsUpTo(Len(main)) /\ Fits(V, pr[V])
      /\ script.pc = "open" /\ script.base \in 0..Len(main)
  BY OwnPull, ScriptTypes DEF OpenPull
<1>2. UNCHANGED <<main, green, releases, jobs, dirty, left>>
  BY DEF OpenPull
<1>3. CASE UNCHANGED pr /\ Stop
  <2>1. left' \in [crashes : Nat, fails : Nat, acts : Nat]
    BY <1>1, <1>2 DEF Types
  <2> QED BY <1>2, <1>3, <2>1, StopKeeps
<1>4. CASE /\ VersionOnly(V, pr[V], script.base) /\ pr[V].state = "branch"
           /\ pr' = [pr EXCEPT ![V].state = "open"] /\ Goto("loop")
  <2>1. PICK p : p = [pr[V] EXCEPT !.state = "open"]
    OBVIOUS
  <2>2. pr' = [pr EXCEPT ![V] = p]
    BY <1>1, <1>4, <2>1 DEF Types
  <2>3. /\ p \in PullsUpTo(Len(main)) /\ p.state = "open" /\ p.base = pr[V].base
        /\ p.bumped = pr[V].bumped
    BY <1>1, <2>1 DEF PullsUpTo, States
  <2>4. pr[V].bumped
    BY <1>1, <1>4, VersionOnlyIsBumped
  <2>5. Fits(V, p)
    BY <1>1, <1>4, <2>3, <2>4 DEF Fits
  <2>6. script' \in ScriptsUpTo(Len(main)) /\ script'.pc = "loop" /\ script'.latest = script.latest
    <3>1. "loop" \in Positions
      BY DEF Positions
    <3> QED BY <1>1, <1>4, <3>1, GotoScript
  <2> QED BY <1>1, <1>2, <1>4, <2>2, <2>3, <2>5, <2>6, WritesOn
<1> QED BY <1>3, <1>4 DEF OpenPull

\* Main is merged into the branch.
LEMMA UpdateKeeps ==
    ASSUME IInv, script.pc = "loop", pr[V].state = "open", Update(pr[V]),
           UNCHANGED <<main, green, releases, jobs, dirty, left>>
    PROVE  IInv'
<1>1. /\ Types /\ Running /\ V \in Versions /\ pr[V] \in PullsUpTo(Len(main)) /\ Fits(V, pr[V])
      /\ script.tries \in 0..2 /\ Len(main) \in 0..Len(main)
      /\ VersionAt(Len(main)) \in Nat /\ V \in Nat
  BY OwnPull, ScriptTypes, MainTypes, VersionTypes
<1>2. CASE UNCHANGED pr /\ Stop
  <2>1. left' \in [crashes : Nat, fails : Nat, acts : Nat]
    BY <1>1 DEF Types
  <2> QED BY <1>2, <2>1, StopKeeps
<1>3. CASE /\ ~(/\ pr[V].bumped /\ VersionAt(Len(main)) # VersionAt(pr[V].base)
                /\ VersionAt(Len(main)) # V)
           /\ pr' = [pr EXCEPT ![V].base = Len(main), ![V].checks = "none"]
           /\ Retry(script.tries + 1)
  <2>1. PICK p : p = [pr[V] EXCEPT !.base = Len(main), !.checks = "none"]
    OBVIOUS
  <2>2. pr' = [pr EXCEPT ![V] = p]
    BY <1>1, <1>3, <2>1 DEF Types
  <2>3. /\ p \in PullsUpTo(Len(main)) /\ p.state = "open" /\ p.base = Len(main)
        /\ p.bumped = pr[V].bumped
    BY <1>1, <2>1 DEF PullsUpTo
  <2>4. pr[V].bumped /\ (VersionAt(pr[V].base) + 1 = V \/ VersionAt(pr[V].base) = V) /\ HasUpdate(V)
    BY <1>1 DEF Fits
  <2>5. VersionAt(Len(main)) + 1 = V \/ VersionAt(Len(main)) = V
    BY <1>3, <2>4
  <2>6. Fits(V, p)
    BY <2>3, <2>4, <2>5 DEF Fits
  <2>7. /\ script' \in ScriptsUpTo(Len(main))
        /\ script' = Idle \/ (script'.pc = "loop" /\ script'.latest = script.latest)
    <3>1. script.tries + 1 \in Nat
      BY <1>1
    <3> QED BY <1>1, <1>3, <3>1, RetryScript
  <2>8. script'.pc # "checks"
    BY <2>7 DEF Idle
  <2> QED BY <1>1, <2>2, <2>3, <2>6, <2>7, <2>8, WritesOn
<1> QED BY <1>2, <1>3 DEF Update

\* A pass of the loop.
LEMMA LoopKeeps ==
    ASSUME IInv, Loop
    PROVE  IInv'
<1> DEFINE p == pr[V]
<1>1. /\ Types /\ Running /\ V \in Versions /\ p \in PullsUpTo(Len(main))
      /\ script.pc = "loop" /\ Len(main) \in 0..Len(main)
      /\ UNCHANGED <<main, green, releases, jobs, dirty, left>>
  BY OwnPull, MainTypes DEF Loop
<1>2. CASE UNCHANGED pr
  <2>1. GitHubUnchanged /\ left' \in [crashes : Nat, fails : Nat, acts : Nat]
    BY <1>1, <1>2 DEF GitHubUnchanged, Types
  <2>2. CASE Stop
    BY <2>1, <2>2, StopKeeps DEF GitHubUnchanged
  <2>3. CASE p.state = "merged" /\ Goto("dispatch")
    <3>1. "dispatch" \in Positions
      BY DEF Positions
    <3>2. /\ script' \in ScriptsUpTo(Len(main)) /\ script'.pc = "dispatch"
          /\ script'.latest = script.latest
      BY <1>1, <2>3, <3>1, GotoScript
    <3> QED BY <1>1, <2>1, <2>3, <3>2, ReadsOn
  <2>4. CASE /\ VersionOnly(V, p, Len(main)) /\ p.state = "open"
             /\ script' = [script EXCEPT !.pc = "register", !.base = Len(main), !.head = p]
    <3>1. /\ script' \in ScriptsUpTo(Len(main)) /\ script'.pc = "register"
          /\ script'.latest = script.latest /\ script'.head = p
      <4> HIDE DEF p
      <4> QED BY <1>1, <2>4 DEF Types, ScriptsUpTo, Positions
    <3>2. ~p.extra
      BY <2>4 DEF VersionOnly
    <3> QED BY <1>1, <2>1, <2>4, <3>1, <3>2, ReadsOn
  <2>5. CASE p.state = "open" /\ Update(p)
    BY <1>1, <2>5, UpdateKeeps
  <2> QED BY <1>2, <2>2, <2>3, <2>4, <2>5 DEF Loop
<1>3. CASE p.state = "open" /\ Update(p)
  BY <1>1, <1>3, UpdateKeeps
<1> QED BY <1>2, <1>3 DEF Loop

\* Checks are registered, and those that failed run again.
LEMMA RegisterKeeps ==
    ASSUME IInv, Register
    PROVE  IInv'
<1>1. /\ Types /\ Running /\ V \in Versions /\ pr[V] \in PullsUpTo(Len(main)) /\ Fits(V, pr[V])
      /\ script.pc = "register" /\ Goto("checks")
      /\ UNCHANGED <<main, green, releases, jobs, dirty, left>>
  BY OwnPull DEF Register
<1>2. PICK p : p = IF SameHead /\ pr[V].checks = "failed"
                   THEN [pr[V] EXCEPT !.checks = "running"] ELSE pr[V]
  OBVIOUS
<1>3. pr' = [pr EXCEPT ![V] = p]
  <2>1. pr' = IF SameHead /\ pr[V].checks = "failed" THEN [pr EXCEPT ![V].checks = "running"] ELSE pr
    BY DEF Register
  <2> QED BY <1>1, <1>2, <2>1 DEF Types
<1>4. /\ p \in PullsUpTo(Len(main)) /\ p.state = pr[V].state /\ p.at = pr[V].at
      /\ p.base = pr[V].base /\ p.bumped = pr[V].bumped
  BY <1>1, <1>2 DEF PullsUpTo, Results
<1>5. pr[V].state # "none" /\ ~script.head.extra
  BY <1>1 DEF Running
<1>6. /\ script' \in ScriptsUpTo(Len(main)) /\ script'.pc = "checks"
      /\ script'.latest = script.latest /\ script'.head = script.head
  <2>1. "checks" \in Positions
    BY DEF Positions
  <2> QED BY <1>1, <2>1, GotoScript
<1>7. Fits(V, p)
  BY <1>1, <1>4 DEF Fits
<1> QED BY <1>1, <1>3, <1>4, <1>5, <1>6, <1>7, WritesOn

\* Steps of the script that only wait.
LEMMA WaitingKeeps ==
    ASSUME IInv, AwaitChecks \/ AwaitReady \/ MainAgain \/ AwaitPublished \/ TimeOut
    PROVE  IInv'
<1>1. /\ Types /\ Running /\ GitHubUnchanged /\ script.pc # "idle"
      /\ UNCHANGED <<main, green, releases, pr, jobs, dirty>>
      /\ left' \in [crashes : Nat, fails : Nat, acts : Nat]
  BY OwnPull DEF AwaitChecks, AwaitReady, MainAgain, AwaitPublished, TimeOut,
                 GitHubUnchanged, Types
<1>2. CASE Stop
  BY <1>1, <1>2, StopKeeps
<1>3. CASE script.pc = "checks" /\ Goto("ready")
  BY <1>1, <1>3, GoesOn
<1>4. CASE script.pc = "ready" /\ Goto("again")
  BY <1>1, <1>4, GoesOn
<1>5. CASE script.pc = "again" /\ Goto("merge")
  BY <1>1, <1>5, GoesOn
<1>6. CASE script.pc = "again" /\ Retry(script.tries + 1)
  <2>1. script.tries + 1 \in Nat
    BY <1>1, ScriptTypes
  <2>2. /\ script' \in ScriptsUpTo(Len(main))
        /\ script' = Idle \/ (script'.pc = "loop" /\ script'.latest = script.latest)
    BY <1>1, <1>6, <2>1, RetryScript
  <2>3. CASE script' = Idle
    BY <1>1, <2>3, StopKeeps DEF Stop
  <2>4. pr[V].state # "none"
    BY <1>1, <1>6 DEF Running
  <2> QED BY <1>1, <2>2, <2>3, <2>4, ReadsOn
<1> QED BY <1>2, <1>3, <1>4, <1>5, <1>6 DEF AwaitChecks, AwaitReady, MainAgain, AwaitPublished, TimeOut

\* A run is killed.
LEMMA CrashKeeps ==
    ASSUME IInv, Crash
    PROVE  IInv'
<1>1. Stop /\ UNCHANGED <<main, green, releases, pr, jobs, dirty>>
  BY DEF Crash
<1>2. left' = [left EXCEPT !.crashes = @ - 1] /\ left.crashes > 0
  BY DEF Crash
<1>3. left \in [crashes : Nat, fails : Nat, acts : Nat]
  BY DEF IInv, Types
<1>4. left' \in [crashes : Nat, fails : Nat, acts : Nat]
  BY <1>2, <1>3
<1> QED BY <1>1, <1>4, StopKeeps

-----------------------------------------------------------------------------
(* A new commit on main.                                                   *)

\* What is committed is added at the end.
LEMMA Grows ==
    ASSUME Types, NEW c \in Entry, main' = Append(main, c), green' = Append(green, "running")
    PROVE  /\ main' \in Seq(Entry) /\ green' \in Seq(Results)
           /\ Len(main') = Len(main) + 1 /\ Len(green') = Len(main')
           /\ Len(main) \in Nat /\ DOMAIN main = 1..Len(main) /\ DOMAIN main' = 1..(Len(main) + 1)
           /\ \A i \in DOMAIN main : i \in DOMAIN main' /\ main'[i] = main[i]
           /\ main'[Len(main) + 1] = c
           /\ \A i \in 0..Len(main) : VersionAt(i)' = VersionAt(i)
           /\ VersionAt(Len(main))' = c.version
<1>1. main \in Seq(Entry) /\ green \in Seq(Results) /\ Len(green) = Len(main) /\ "running" \in Results
  BY DEF Types, Results
<1>2. Len(main) \in Nat /\ DOMAIN main = 1..Len(main)
  BY MainTypes
<1>3. /\ main' \in Seq(Entry) /\ Len(main') = Len(main) + 1
      /\ \A i \in 1..Len(main) : main'[i] = main[i]
      /\ main'[Len(main) + 1] = c
  BY <1>1, AppendProperties
<1>4. green' \in Seq(Results) /\ Len(green') = Len(green) + 1
  BY <1>1, AppendProperties
<1>5. DOMAIN main' = 1..(Len(main) + 1)
  BY <1>3, LenProperties
<1>6. \A i \in 0..Len(main) : VersionAt(i)' = VersionAt(i)
  BY <1>2, <1>3 DEF VersionAt
<1>7. VersionAt(Len(main))' = c.version
  BY <1>2, <1>3 DEF VersionAt
<1> QED BY <1>1, <1>2, <1>3, <1>4, <1>5, <1>6, <1>7

\* What is known of main is known of more of it.
LEMMA MoreIsKnown ==
    ASSUME NEW n \in Nat
    PROVE  /\ RunsUpTo(n) \subseteq RunsUpTo(n + 1)
           /\ PullsUpTo(n) \subseteq PullsUpTo(n + 1)
           /\ ScriptsUpTo(n) \subseteq ScriptsUpTo(n + 1)
<1>1. 0..n \subseteq 0..(n + 1)
  OBVIOUS
<1>2. RunsUpTo(n) \subseteq RunsUpTo(n + 1)
  BY <1>1 DEF RunsUpTo
<1>3. PullsUpTo(n) \subseteq PullsUpTo(n + 1)
  BY <1>1 DEF PullsUpTo
<1>4. ScriptsUpTo(n) \subseteq ScriptsUpTo(n + 1)
  BY <1>1, <1>3 DEF ScriptsUpTo
<1> QED BY <1>2, <1>3, <1>4

\* The numbering of a longer main.
LEMMA NumberedGrows ==
    ASSUME Types, Numbered, Kept,
           NEW c \in Entry, main' = Append(main, c), green' = Append(green, "running"),
           c.version = VersionAt(Len(main)) \/ c.version = VersionAt(Len(main)) + 1,
           c.version = VersionAt(Len(main)) + 1 => \E i \in DOMAIN main' :
               \/ main'[i].kind = "dep" /\ main'[i].version + 1 = c.version
               \/ main'[i].kind = "bump" /\ main'[i].version = c.version,
           c.kind # "release" => Cardinality(Authored) < MaxMain,
           c.kind = "release" =>
               /\ c.version \in Versions
               /\ pr'[c.version].state = "merged" /\ pr'[c.version].at = Len(main) + 1
    PROVE  Numbered'
<1> DEFINE n == VersionAt(Len(main))
<1>1. /\ Len(main') = Len(main) + 1 /\ Len(main) \in Nat
      /\ DOMAIN main = 1..Len(main) /\ DOMAIN main' = 1..(Len(main) + 1)
      /\ \A i \in DOMAIN main : i \in DOMAIN main' /\ main'[i] = main[i]
      /\ main'[Len(main) + 1] = c
      /\ \A i \in 0..Len(main) : VersionAt(i)' = VersionAt(i)
      /\ VersionAt(Len(main))' = c.version
      /\ \A i : i = Len(main) + 1 => VersionAt(i)' = c.version
  <2>1. /\ Len(main') = Len(main) + 1 /\ Len(main) \in Nat
        /\ DOMAIN main = 1..Len(main) /\ DOMAIN main' = 1..(Len(main) + 1)
        /\ \A i \in DOMAIN main : i \in DOMAIN main' /\ main'[i] = main[i]
        /\ main'[Len(main) + 1] = c
        /\ \A i \in 0..Len(main) : VersionAt(i)' = VersionAt(i)
        /\ VersionAt(Len(main))' = c.version
    BY Grows
  <2>2. \A i : i = Len(main) + 1 => VersionAt(i)' = c.version
    BY <2>1 DEF VersionAt
  <2> QED BY <2>1, <2>2
<1>2. n \in Nat /\ c.version \in Nat /\ \A i \in 0..Len(main) : VersionAt(i) \in Nat
  BY MainTypes DEF Entry
<1>3. ASSUME NEW i \in 0..Len(main'), NEW j \in 0..Len(main'), i <= j
      PROVE  VersionAt(i)' <= VersionAt(j)'
  <2>1. CASE j \in 0..Len(main)
    <3>1. i \in 0..Len(main)
      BY <1>1, <1>3, <2>1
    <3> QED BY <1>1, <1>3, <2>1, <3>1 DEF Numbered
  <2>2. CASE j = Len(main) + 1 /\ i \in 0..Len(main)
    <3>1. VersionAt(j)' = c.version /\ VersionAt(i)' = VersionAt(i)
      BY <1>1, <2>2
    <3>2. Len(main) \in 0..Len(main) /\ i <= Len(main)
      BY <1>1, <2>2
    <3>3. VersionAt(i) <= n
      BY <2>2, <3>2 DEF Numbered
    <3>4. VersionAt(i) \in Nat /\ (c.version = n \/ c.version = n + 1)
      BY <1>2, <2>2
    <3> HIDE DEF n
    <3> QED BY <1>2, <3>1, <3>3, <3>4
  <2>3. CASE j = Len(main) + 1 /\ i = Len(main) + 1
    BY <1>1, <1>2, <2>3
  <2> QED BY <1>1, <1>3, <2>1, <2>2, <2>3
<1>4. ASSUME NEW v \in 1..VersionAt(Len(main))'
      PROVE  \E i \in DOMAIN main' : Raises(i, v)'
  <2>1. CASE v \in 1..n
    <3>1. PICK i \in DOMAIN main : Raises(i, v)
      BY <2>1 DEF Numbered
    <3>2. i \in DOMAIN main' /\ main'[i] = main[i]
      BY <1>1
    <3> QED BY <3>1, <3>2 DEF Raises
  <2>2. CASE v \notin 1..n
    <3>1. v = c.version /\ c.version = n + 1
      <4> HIDE DEF n
      <4>1. v \in 1..c.version /\ (c.version = n \/ c.version = n + 1)
        BY <1>1 DEF n
      <4> QED BY <1>2, <2>2, <4>1
    <3> QED BY <3>1 DEF Raises
  <2> QED BY <2>1, <2>2
<1>5. Cardinality(Authored)' <= MaxMain
  <2>1. IsFiniteSet(Authored) /\ Len(main) + 1 \notin Authored /\ Cardinality(Authored) \in Nat
    <3>1. Authored \subseteq 1..Len(main) /\ IsFiniteSet(1..Len(main))
      BY <1>1, FS_Interval DEF Authored
    <3>2. IsFiniteSet(Authored)
      BY <3>1, FS_Subset
    <3> QED BY <1>1, <3>1, <3>2, FS_CardinalityType
  <2>2. CASE c.kind = "release"
    <3>1. Authored' = Authored
      BY <1>1, <2>2 DEF Authored
    <3> QED BY <3>1 DEF Numbered
  <2>3. CASE c.kind # "release"
    <3>1. Authored' = Authored \cup {Len(main) + 1}
      BY <1>1, <2>3 DEF Authored
    <3>2. Cardinality(Authored \cup {Len(main) + 1}) = Cardinality(Authored) + 1
      BY <2>1, FS_AddElement
    <3>3. Cardinality(Authored) < MaxMain
      BY <2>3
    <3> QED BY <2>1, <3>1, <3>2, <3>3, VersionTypes
  <2> QED BY <2>2, <2>3
<1>6. ASSUME NEW i \in DOMAIN main', main'[i].kind = "release"
      PROVE  /\ main'[i].version \in Versions
             /\ pr'[main'[i].version].state = "merged" /\ pr'[main'[i].version].at = i
  <2>1. CASE i \in DOMAIN main
    BY <1>1, <1>6, <2>1 DEF Numbered, Kept
  <2>2. CASE i = Len(main) + 1
    BY <1>1, <1>6, <2>2
  <2> QED BY <1>1, <2>1, <2>2
<1> QED BY <1>3, <1>4, <1>5, <1>6 DEF Numbered

\* A pull request that is merged: its version is the one of main or the next.
LEMMA SquashKeeps ==
    ASSUME IInv, NEW v \in Versions, Mergeable(v), Squash(v), UNCHANGED <<releases, jobs>>
    PROVE  /\ Kept /\ VersionAt(Len(main)) <= VersionAt(Len(main))'
           /\ Numbered' /\ Published' /\ Prepared' /\ pr'[v].state = "merged"
           /\ main' \in Seq(Entry) /\ green' \in Seq(Results) /\ Len(green') = Len(main')
           /\ Len(main') = Len(main) + 1
           /\ pr' \in [Versions -> PullsUpTo(Len(main'))]
<1>1. /\ Types /\ Numbered /\ Published /\ Prepared
      /\ pr[v] \in PullsUpTo(Len(main)) /\ pr \in [Versions -> PullsUpTo(Len(main))]
      /\ pr[v].state = "open"
      /\ VersionAt(Len(main)) = VersionAt(pr[v].base) /\ Fits(v, pr[v])
  BY DEF IInv, Types, Mergeable, Prepared
<1>2. PICK c : c = [kind |-> "release", version |-> v]
  OBVIOUS
<1>3. c \in Entry /\ c.kind = "release" /\ c.version = v /\ v \in Nat
  BY <1>2, VersionTypes DEF Entry, Kinds
<1>4. PICK p : p = [pr[v] EXCEPT !.state = "merged", !.at = Len(main) + 1]
  OBVIOUS
<1>5. /\ main' = Append(main, c) /\ green' = Append(green, "running")
      /\ pr' = [pr EXCEPT ![v] = p]
  BY <1>1, <1>2, <1>4 DEF Squash
<1>6. /\ main' \in Seq(Entry) /\ green' \in Seq(Results)
      /\ Len(main') = Len(main) + 1 /\ Len(green') = Len(main') /\ Len(main) \in Nat
      /\ \A i \in DOMAIN main : i \in DOMAIN main' /\ main'[i] = main[i]
      /\ VersionAt(Len(main))' = c.version
  BY <1>1, <1>3, <1>5, Grows
<1>7. p \in PullsUpTo(Len(main) + 1) /\ p.state = "merged" /\ p.at = Len(main) + 1
      /\ p.base = pr[v].base /\ p.bumped = pr[v].bumped
  <2>1. pr[v] \in PullsUpTo(Len(main) + 1) /\ Len(main) + 1 \in 0..(Len(main) + 1)
    BY <1>1, <1>6, MoreIsKnown
  <2> QED BY <1>4, <2>1 DEF PullsUpTo, States
<1>8. /\ pr'[v] = p
      /\ \A u \in Versions : u # v => pr'[u] = pr[u]
  BY <1>1, <1>5
<1>9. pr' \in [Versions -> PullsUpTo(Len(main'))]
  <2>1. pr \in [Versions -> PullsUpTo(Len(main) + 1)]
    BY <1>1, <1>6, MoreIsKnown
  <2> QED BY <1>5, <1>6, <1>7, <2>1
<1>10. Kept
  <2>1. \A u \in Versions : pr[u].state # "none" => pr'[u].state # "none"
    BY <1>7, <1>8
  <2>2. \A u \in Versions : pr[u].state = "merged" =>
          pr'[u].state = "merged" /\ pr'[u].at = pr[u].at
    BY <1>1, <1>8
  <2> QED BY <1>6, <2>1, <2>2 DEF Kept
<1>11. HasUpdate(v) /\ (VersionAt(Len(main)) + 1 = v \/ VersionAt(Len(main)) = v)
  BY <1>1 DEF Fits
<1>12. VersionAt(Len(main)) <= VersionAt(Len(main))'
  <2>1. VersionAt(Len(main)) \in Nat
    BY <1>1, MainTypes
  <2> QED BY <1>3, <1>6, <1>11, <2>1
<1>13. Numbered'
  <2>1. \E i \in DOMAIN main' : main'[i].kind = "dep" /\ main'[i].version + 1 = v
    BY <1>6, <1>11 DEF HasUpdate
  <2>2. v = VersionAt(Len(main)) \/ v = VersionAt(Len(main)) + 1
    BY <1>11
  <2> QED BY <1>1, <1>3, <1>5, <1>7, <1>8, <1>10, <2>1, <2>2, NumberedGrows
<1>14. Fits(v, p) /\ p.base \in 0..Len(main)
  <2>1. pr[v].base \in 0..Len(main) /\ pr[v].bumped
    BY <1>1 DEF PullsUpTo, Fits
  <2> QED BY <1>1, <1>7, <2>1 DEF Fits
<1>15. Prepared'
  <2>1. \A u \in Versions : \/ pr'[u] = pr[u]
                            \/ pr'[u].base \in 0..Len(main) /\ Fits(u, pr'[u])
    BY <1>8, <1>14
  <2> QED BY <1>1, <1>10, <2>1, PreparedKept
<1>16. Published'
  BY <1>1, <1>10, PublishedKept
<1> QED BY <1>6, <1>7, <1>8, <1>9, <1>10, <1>12, <1>13, <1>15, <1>16

\* What is of no longer main is of main with a new commit.
LEMMA TypesGrow ==
    ASSUME Types, UNCHANGED <<releases, jobs>>, Len(main') = Len(main) + 1,
           main' \in Seq(Entry), green' \in Seq(Results), Len(green') = Len(main'),
           pr' \in [Versions -> PullsUpTo(Len(main'))],
           script' \in ScriptsUpTo(Len(main)),
           left' \in [crashes : Nat, fails : Nat, acts : Nat]
    PROVE  Types'
<1>1. Len(main) \in Nat
  BY MainTypes
<1>2. script' \in ScriptsUpTo(Len(main'))
  BY <1>1, MoreIsKnown
<1>3. releases' \subseteq RunsUpTo(Len(main')) /\ jobs' \subseteq RunsUpTo(Len(main'))
  BY <1>1, MoreIsKnown DEF Types
<1> QED BY <1>2, <1>3 DEF Types

\* The script merges the pull request that it has checked, and no other change.
LEMMA MergeKeeps ==
    ASSUME IInv, Merge
    PROVE  IInv'
<1>1. /\ Types /\ Numbered /\ Published /\ Prepared /\ Running /\ dirty = FALSE
      /\ V \in Versions /\ script.pc = "merge" /\ UNCHANGED <<releases, jobs, left>>
      /\ left' \in [crashes : Nat, fails : Nat, acts : Nat]
  BY OwnPull DEF Merge, Types
<1>2. CASE UNCHANGED <<main, green, pr, dirty>> /\ Stop
  BY <1>1, <1>2, StopKeeps
<1>3. CASE Merges /\ Squash(V) /\ dirty' = (dirty \/ pr[V].extra) /\ Goto("dispatch")
  <2>1. ~pr[V].extra
    <3>1. HeadOf(pr[V]) = HeadOf(script.head)
      BY <1>3 DEF Merges, SameHead
    <3>2. pr[V].extra = script.head.extra
      BY <3>1 DEF HeadOf
    <3> QED BY <1>1, <3>2 DEF Running
  <2>2. dirty' = FALSE
    BY <1>1, <1>3, <2>1
  <2>3. Mergeable(V)
    BY <1>3 DEF Merges
  <2>4. /\ Kept /\ VersionAt(Len(main)) <= VersionAt(Len(main))'
        /\ Numbered' /\ Published' /\ Prepared' /\ pr'[V].state = "merged"
        /\ main' \in Seq(Entry) /\ green' \in Seq(Results) /\ Len(green') = Len(main')
        /\ Len(main') = Len(main) + 1
        /\ pr' \in [Versions -> PullsUpTo(Len(main'))]
    BY <1>1, <1>3, <2>3, SquashKeeps
  <2>5. /\ script' \in ScriptsUpTo(Len(main)) /\ script'.pc = "dispatch"
        /\ script'.latest = script.latest
    <3>1. "dispatch" \in Positions
      BY DEF Positions
    <3> QED BY <1>1, <1>3, <3>1, GotoScript
  <2>6. Types'
    BY <1>1, <2>4, <2>5, TypesGrow
  <2>7. Running'
    BY <1>1, <2>4, <2>5, <2>6, MovesOn
  <2> QED BY <2>2, <2>4, <2>6, <2>7 DEF IInv
<1> QED BY <1>2, <1>3 DEF Merge

\* One act of a maintainer less is left.
LEMMA ActIsLeft ==
    ASSUME Types, Act
    PROVE  left' \in [crashes : Nat, fails : Nat, acts : Nat]
<1>1. left' = [left EXCEPT !.acts = @ - 1] /\ left.acts > 0
  BY DEF Act
<1> QED BY <1>1 DEF Types

\* A maintainer merges a pull request.
LEMMA MergeByHandKeeps ==
    ASSUME IInv, NEW v \in Versions, MergeByHand(v)
    PROVE  IInv'
<1>1. /\ Types /\ Numbered /\ Running /\ dirty = FALSE /\ dirty' = dirty
      /\ Mergeable(v) /\ Squash(v) /\ UNCHANGED <<releases, jobs, script>> /\ Act
      /\ script' \in ScriptsUpTo(Len(main))
  BY DEF IInv, MergeByHand, Types
<1>2. /\ Kept /\ VersionAt(Len(main)) <= VersionAt(Len(main))'
      /\ Numbered' /\ Published' /\ Prepared'
      /\ main' \in Seq(Entry) /\ green' \in Seq(Results) /\ Len(green') = Len(main')
      /\ Len(main') = Len(main) + 1
      /\ pr' \in [Versions -> PullsUpTo(Len(main'))]
  BY <1>1, SquashKeeps
<1>3. Types'
  BY <1>1, <1>2, ActIsLeft, TypesGrow
<1>4. Running'
  BY <1>1, <1>2, <1>3, RunningKept
<1> QED BY <1>1, <1>2, <1>3, <1>4 DEF IInv

\* Somebody commits something else.
LEMMA CommitKeeps ==
    ASSUME IInv, NEW kind \in Kinds \ {"release"}, Commit(kind)
    PROVE  IInv'
<1> DEFINE n == VersionAt(Len(main))
<1>1. /\ Types /\ Numbered /\ Published /\ Prepared /\ Running /\ dirty = FALSE /\ dirty' = dirty
      /\ UNCHANGED <<releases, jobs, script, pr, left>>
      /\ script' \in ScriptsUpTo(Len(main)) /\ left' \in [crashes : Nat, fails : Nat, acts : Nat]
  BY DEF IInv, Commit, Types
<1>2. n \in Nat /\ Len(main) \in Nat
  BY <1>1, MainTypes
<1>3. PICK c : c = [kind |-> kind, version |-> n + (IF kind = "bump" THEN 1 ELSE 0)]
  OBVIOUS
<1>4. /\ c \in Entry /\ c.kind # "release" /\ (c.version = n \/ c.version = n + 1)
      /\ (c.version = n + 1 => c.kind = "bump")
  <2> HIDE DEF n
  <2> QED BY <1>2, <1>3 DEF Entry
<1>5. main' = Append(main, c) /\ green' = Append(green, "running")
  BY <1>3 DEF Commit
<1>6. /\ main' \in Seq(Entry) /\ green' \in Seq(Results)
      /\ Len(main') = Len(main) + 1 /\ Len(green') = Len(main') /\ DOMAIN main' = 1..(Len(main) + 1)
      /\ \A i \in DOMAIN main : i \in DOMAIN main' /\ main'[i] = main[i]
      /\ main'[Len(main) + 1] = c
      /\ VersionAt(Len(main))' = c.version
  BY <1>1, <1>4, <1>5, Grows
<1>7. Kept
  BY <1>1, <1>2, <1>6 DEF Kept
<1>8. n <= VersionAt(Len(main))'
  <2> HIDE DEF n
  <2> QED BY <1>2, <1>4, <1>6
<1>9. Numbered'
  <2>1. Cardinality(Authored) < MaxMain
    BY DEF Commit, Authored
  <2>2. c.version = n + 1 => \E i \in DOMAIN main' :
            \/ main'[i].kind = "dep" /\ main'[i].version + 1 = c.version
            \/ main'[i].kind = "bump" /\ main'[i].version = c.version
    <3>1. Len(main) + 1 \in DOMAIN main'
      BY <1>2, <1>6
    <3> QED BY <1>4, <1>6, <3>1
  <2> QED BY <1>1, <1>4, <1>5, <1>7, <2>1, <2>2, NumberedGrows
<1>10. Published' /\ Prepared'
  BY <1>1, <1>7, PublishedKept, PreparedKept
<1>11. pr' \in [Versions -> PullsUpTo(Len(main'))]
  BY <1>1, <1>2, <1>6, MoreIsKnown DEF Types
<1>12. Types'
  BY <1>1, <1>6, <1>11, TypesGrow
<1>13. Running'
  BY <1>1, <1>7, <1>8, <1>12, RunningKept
<1> QED BY <1>1, <1>9, <1>10, <1>12, <1>13 DEF IInv

-----------------------------------------------------------------------------
(* publish, and release.yml.                                               *)

\* release.yml is started for main as it is.
LEMMA DispatchKeeps ==
    ASSUME IInv, Dispatch
    PROVE  IInv'
<1>1. /\ Types /\ Numbered /\ Published /\ Prepared /\ Running /\ dirty = FALSE
      /\ V \in Versions /\ script.pc = "dispatch" /\ Goto("published")
      /\ UNCHANGED <<main, green, releases, pr, dirty, left>>
  BY OwnPull DEF Dispatch
<1>2. Kept /\ VersionAt(Len(main)) <= VersionAt(Len(main))' /\ pr' = pr /\ releases' = releases
  BY <1>1, SameIsKept
<1>3. PICK job : job = [version |-> V, at |-> Len(main), auto |-> TRUE]
  OBVIOUS
<1>4. jobs' = jobs \cup {job}
  BY <1>3 DEF Dispatch
<1>5. Len(main) \in 0..Len(main) /\ V \in Nat
  BY <1>1, MainTypes, VersionTypes
<1>6. job \in RunsUpTo(Len(main)) /\ job.version = V /\ job.at = Len(main)
  BY <1>3, <1>5 DEF RunsUpTo
<1>7. pr[V].state = "merged" /\ pr[V].at <= Len(main)
  <2>1. pr[V].at \in 0..Len(main)
    BY <1>1 DEF Types, PullsUpTo
  <2> QED BY <1>1, <1>5, <2>1 DEF Running
<1>8. /\ script' \in ScriptsUpTo(Len(main)) /\ script'.pc = "published"
      /\ script'.latest = script.latest
  <2>1. "published" \in Positions
    BY DEF Positions
  <2> QED BY <1>1, <2>1, GotoScript
<1>9. Types'
  BY <1>1, <1>4, <1>6, <1>8 DEF Types
<1>10. Numbered' /\ Prepared'
  BY <1>1, <1>2, NumberedKept, PreparedKept
<1>11. Published'
  <2>1. \A r \in releases : VersionAt(r.at)' = r.version
    BY <1>1 DEF Published, VersionAt
  <2>2. IsMerged(job)'
    BY <1>1, <1>2, <1>6, <1>7 DEF IsMerged
  <2>3. \A r \in releases \cup jobs : r.auto => IsMerged(r)'
    BY <1>1, <1>2, MergedKept DEF Published
  <2> QED BY <1>1, <1>2, <1>4, <2>1, <2>2, <2>3 DEF Published
<1>12. Running'
  BY <1>1, <1>2, <1>7, <1>8, <1>9, MovesOn
<1> QED BY <1>1, <1>9, <1>10, <1>11, <1>12 DEF IInv

\* A maintainer starts release.yml for main as it is.
LEMMA ReleaseByHandKeeps ==
    ASSUME IInv, ReleaseByHand
    PROVE  IInv'
<1>1. /\ Types /\ Numbered /\ Published /\ Prepared /\ Running /\ dirty = FALSE /\ Act
      /\ UNCHANGED <<main, green, releases, pr, script, dirty>>
  BY DEF IInv, ReleaseByHand
<1>2. Kept /\ VersionAt(Len(main)) <= VersionAt(Len(main))' /\ pr' = pr /\ releases' = releases
  BY <1>1, SameIsKept
<1>3. PICK job : job = [version |-> VersionAt(Len(main)), at |-> Len(main), auto |-> FALSE]
  OBVIOUS
<1>4. jobs' = jobs \cup {job}
  BY <1>3 DEF ReleaseByHand
<1>5. Len(main) \in 0..Len(main) /\ VersionAt(Len(main)) \in Nat
  BY <1>1, MainTypes
<1>6. job \in RunsUpTo(Len(main)) /\ ~job.auto
  BY <1>3, <1>5 DEF RunsUpTo
<1>7. Types'
  BY <1>1, <1>4, <1>6, ActIsLeft DEF Types
<1>8. Numbered' /\ Prepared' /\ Running'
  BY <1>1, <1>2, <1>7, NumberedKept, PreparedKept, RunningKept
<1>9. Published'
  <2>1. \A r \in releases : VersionAt(r.at)' = r.version
    BY <1>1 DEF Published, VersionAt
  <2>2. \A r \in releases \cup jobs : r.auto => IsMerged(r)'
    BY <1>1, <1>2, MergedKept DEF Published
  <2> QED BY <1>1, <1>2, <1>4, <1>6, <2>1, <2>2 DEF Published
<1> QED BY <1>1, <1>7, <1>8, <1>9 DEF IInv

\* release.yml publishes the version its commit has, or nothing.
LEMMA JobKeeps ==
    ASSUME IInv, NEW job \in jobs, Job(job)
    PROVE  IInv'
<1>1. /\ Types /\ Numbered /\ Published /\ Prepared /\ Running /\ dirty = FALSE
      /\ UNCHANGED <<main, green, pr, script, dirty, left>> /\ jobs' = jobs \ {job}
  BY DEF IInv, Job
<1>2. \/ releases' = releases
      \/ /\ releases' = releases \cup {job}
         /\ VersionAt(job.at) = job.version /\ \A r \in releases : r.version # job.version
  BY DEF Job
<1>3. job \in RunsUpTo(Len(main)) /\ job.version \in Nat /\ \A r \in releases : r.version \in Nat
  BY <1>1 DEF Types, RunsUpTo
<1>4. Kept /\ VersionAt(Len(main)) <= VersionAt(Len(main))'
  <2>1. Len(main) \in Nat /\ VersionAt(Len(main)) \in Nat
    BY <1>1, MainTypes
  <2>2. VersionAt(Len(main))' = VersionAt(Len(main))
    BY <1>1 DEF VersionAt
  <2>3. releases \subseteq releases' /\ main' = main /\ pr' = pr
    BY <1>1, <1>2
  <2> QED BY <2>1, <2>2, <2>3 DEF Kept
<1>5. Types'
  BY <1>1, <1>2, <1>3 DEF Types
<1>6. Numbered' /\ Prepared' /\ Running'
  BY <1>1, <1>4, <1>5, NumberedKept, PreparedKept, RunningKept
<1>7. Published'
  <2>1. \A r \in releases' : VersionAt(r.at)' = r.version
    <3>1. \A r \in releases' : VersionAt(r.at) = r.version
      BY <1>1, <1>2 DEF Published
    <3> QED BY <1>1, <3>1 DEF VersionAt
  <2>2. \A r, s \in releases' : r.version = s.version => r = s
    BY <1>1, <1>2 DEF Published
  <2>3. \E r \in releases' : \A s \in releases' : s.version <= r.version
    <3>1. PICK r \in releases : \A s \in releases : s.version <= r.version
      BY <1>1 DEF Published
    <3>2. CASE job.version <= r.version
      BY <1>2, <3>1, <3>2
    <3>3. CASE ~(job.version <= r.version) /\ releases' = releases \cup {job}
      <4>1. \A s \in releases : s.version <= job.version
        BY <1>3, <3>1, <3>3
      <4>2. job.version <= job.version
        BY <1>3
      <4> QED BY <3>3, <4>1, <4>2
    <3> QED BY <1>2, <3>1, <3>2, <3>3
  <2>4. \A r \in releases' \cup jobs' : r.auto => IsMerged(r)'
    <3>1. releases' \cup jobs' \subseteq releases \cup jobs
      BY <1>1, <1>2
    <3>2. \A r \in releases \cup jobs : r.auto => IsMerged(r)'
      BY <1>1, <1>4, MergedKept DEF Published
    <3> QED BY <3>1, <3>2
  <2> QED BY <2>1, <2>2, <2>3, <2>4 DEF Published
<1> QED BY <1>1, <1>5, <1>6, <1>7 DEF IInv

-----------------------------------------------------------------------------
(* Everybody else.                                                         *)

\* The checks of a commit end.
LEMMA MainChecksKeeps ==
    ASSUME IInv, NEW i \in DOMAIN green, NEW result \in {"ok", "failed"}, MainChecks(i, result)
    PROVE  IInv'
<1>1. /\ Types /\ Numbered /\ Published /\ Prepared /\ Running /\ dirty = FALSE /\ dirty' = dirty
      /\ UNCHANGED <<main, releases, jobs, pr, script, left>>
      /\ green' = [green EXCEPT ![i] = result]
  BY DEF IInv, MainChecks
<1>2. green' \in Seq(Results) /\ Len(green') = Len(main)
  <2>1. green \in Seq(Results) /\ Len(green) = Len(main) /\ result \in Results
    BY <1>1 DEF Types, Results
  <2>2. i \in 1..Len(green)
    BY <2>1, LenProperties
  <2> QED BY <1>1, <2>1, <2>2, ExceptSeq
<1>3. Types'
  BY <1>1, <1>2 DEF Types
<1>4. Kept /\ VersionAt(Len(main)) <= VersionAt(Len(main))'
  BY <1>1, SameIsKept
<1>5. Numbered' /\ Published' /\ Prepared' /\ Running'
  BY <1>1, <1>3, <1>4, NumberedKept, PublishedKept, PreparedKept, RunningKept
<1> QED BY <1>1, <1>3, <1>5 DEF IInv

\* Somebody changes a pull request; its branch stays where it is.
LEMMA OtherPullKeeps ==
    ASSUME IInv, UNCHANGED <<main, green, releases, jobs, script, dirty>>,
           left' \in [crashes : Nat, fails : Nat, acts : Nat],
           NEW v \in Versions, NEW p \in PullsUpTo(Len(main)), pr' = [pr EXCEPT ![v] = p],
           p.base = pr[v].base, p.bumped = pr[v].bumped,
           pr[v].state \in {"branch", "open", "closed"},
           p.state = pr[v].state \/ {pr[v].state, p.state} = {"open", "closed"}
    PROVE  IInv'
<1>1. /\ Types /\ Numbered /\ Published /\ Prepared /\ Running /\ dirty = FALSE /\ dirty' = dirty
      /\ Fits(v, pr[v]) /\ pr \in [Versions -> PullsUpTo(Len(main))]
  BY DEF IInv, Types, Prepared
<1>2. p.state # "none" /\ p.state # "merged" /\ (p.state = "branch" <=> pr[v].state = "branch")
  OBVIOUS
<1>3. Fits(v, p) /\ p.base \in 0..Len(main)
  BY <1>1, <1>2 DEF Fits, PullsUpTo
<1>4. Kept /\ VersionAt(Len(main)) <= VersionAt(Len(main))' /\ pr'[v] = p
  BY <1>1, <1>2, PullKept
<1>5. Types'
  BY <1>1 DEF Types
<1>6. Prepared'
  <2>1. \A u \in Versions : \/ pr'[u] = pr[u]
                            \/ pr'[u].base \in 0..Len(main) /\ Fits(u, pr'[u])
    BY <1>1, <1>3, <1>4
  <2> QED BY <1>1, <1>4, <2>1, PreparedKept
<1>7. Numbered' /\ Published' /\ Running'
  BY <1>1, <1>4, <1>5, NumberedKept, PublishedKept, RunningKept
<1> QED BY <1>1, <1>5, <1>6, <1>7 DEF IInv

\* Checks of a pull request, pushes to it, and its being closed and reopened.
LEMMA OthersOnPulls ==
    ASSUME IInv, NEW v \in Versions,
           PullChecks(v) \/ PullFails(v) \/ Push(v) \/ Close(v) \/ Reopen(v)
    PROVE  IInv'
<1>1. /\ Types /\ pr[v] \in PullsUpTo(Len(main)) /\ pr \in [Versions -> PullsUpTo(Len(main))]
      /\ left \in [crashes : Nat, fails : Nat, acts : Nat]
  BY DEF IInv, Types
<1>2. UNCHANGED <<main, green, releases, jobs, script, dirty>>
  BY DEF PullChecks, PullFails, Push, Close, Reopen
<1>3. CASE PullChecks(v)
  <2>1. PICK p : p = [pr[v] EXCEPT !.checks = IF @ = "none" THEN "running" ELSE "ok"]
    OBVIOUS
  <2>2. pr' = [pr EXCEPT ![v] = p] /\ left' = left /\ pr[v].state = "open"
    BY <1>1, <1>3, <2>1 DEF PullChecks
  <2>3. /\ p \in PullsUpTo(Len(main)) /\ p.base = pr[v].base /\ p.bumped = pr[v].bumped
        /\ p.state = pr[v].state
    BY <1>1, <2>1 DEF PullsUpTo, Results
  <2> QED BY <1>1, <1>2, <2>2, <2>3, OtherPullKeeps
<1>4. CASE PullFails(v)
  <2>1. PICK p : p = [pr[v] EXCEPT !.checks = "failed"]
    OBVIOUS
  <2>2. /\ pr' = [pr EXCEPT ![v] = p] /\ pr[v].state = "open"
        /\ left' = [left EXCEPT !.fails = @ - 1] /\ left.fails > 0
    BY <1>1, <1>4, <2>1 DEF PullFails
  <2>3. /\ p \in PullsUpTo(Len(main)) /\ p.base = pr[v].base /\ p.bumped = pr[v].bumped
        /\ p.state = pr[v].state
    BY <1>1, <2>1 DEF PullsUpTo, Results
  <2>4. left' \in [crashes : Nat, fails : Nat, acts : Nat]
    BY <1>1, <2>2
  <2> QED BY <1>2, <2>2, <2>3, <2>4, OtherPullKeeps
<1>5. CASE Push(v)
  <2>1. PICK p : p = [pr[v] EXCEPT !.extra = TRUE, !.checks = "none"]
    OBVIOUS
  <2>2. pr' = [pr EXCEPT ![v] = p] /\ pr[v].state \in {"branch", "open"} /\ Act
    BY <1>1, <1>5, <2>1 DEF Push
  <2>3. /\ p \in PullsUpTo(Len(main)) /\ p.base = pr[v].base /\ p.bumped = pr[v].bumped
        /\ p.state = pr[v].state
    BY <1>1, <2>1 DEF PullsUpTo
  <2> QED BY <1>1, <1>2, <2>2, <2>3, ActIsLeft, OtherPullKeeps
<1>6. CASE Close(v)
  <2>1. PICK p : p = [pr[v] EXCEPT !.state = "closed"]
    OBVIOUS
  <2>2. pr' = [pr EXCEPT ![v] = p] /\ pr[v].state = "open" /\ Act
    BY <1>1, <1>6, <2>1 DEF Close
  <2>3. /\ p \in PullsUpTo(Len(main)) /\ p.base = pr[v].base /\ p.bumped = pr[v].bumped
        /\ p.state = "closed"
    BY <1>1, <2>1 DEF PullsUpTo, States
  <2> QED BY <1>1, <1>2, <2>2, <2>3, ActIsLeft, OtherPullKeeps
<1>7. CASE Reopen(v)
  <2>1. PICK p : p = [pr[v] EXCEPT !.state = "open"]
    OBVIOUS
  <2>2. pr' = [pr EXCEPT ![v] = p] /\ pr[v].state = "closed" /\ left' = left
    BY <1>1, <1>7, <2>1 DEF Reopen
  <2>3. /\ p \in PullsUpTo(Len(main)) /\ p.base = pr[v].base /\ p.bumped = pr[v].bumped
        /\ p.state = "open"
    BY <1>1, <2>1 DEF PullsUpTo, States
  <2>4. {pr[v].state, p.state} = {"open", "closed"}
    BY <2>2, <2>3
  <2> QED BY <1>1, <1>2, <2>2, <2>3, <2>4, OtherPullKeeps
<1> QED BY <1>3, <1>4, <1>5, <1>6, <1>7

-----------------------------------------------------------------------------
(* The invariant.                                                          *)

\* The first release is published, nothing is on main since, and no branch exists.
LEMMA StartsSound ==
    ASSUME Init
    PROVE  IInv
<1> DEFINE first == [version |-> 0, at |-> 0, auto |-> FALSE]
<1>1. /\ main = <<>> /\ green = <<>> /\ releases = {first} /\ jobs = {}
      /\ pr = [v \in Versions |-> NoPull] /\ script = Idle /\ dirty = FALSE
      /\ left = [crashes |-> MaxCrashes, fails |-> MaxFails, acts |-> MaxActs]
  BY DEF Init
<1>2. Len(main) = 0 /\ DOMAIN main = {} /\ VersionAt(0) = 0
  BY <1>1 DEF VersionAt
<1>3. NoPull \in PullsUpTo(0) /\ NoPull.state = "none"
  BY DEF NoPull, PullsUpTo, States
<1>4. Types
  <2>1. main \in Seq(Entry) /\ green \in Seq(Results) /\ Len(green) = Len(main)
    BY <1>1
  <2>2. first \in RunsUpTo(0)
    BY DEF RunsUpTo
  <2>3. script \in ScriptsUpTo(0)
    BY <1>1, <1>3 DEF Idle, ScriptsUpTo, Positions
  <2>4. pr \in [Versions -> PullsUpTo(0)]
    BY <1>1, <1>3
  <2>5. left \in [crashes : Nat, fails : Nat, acts : Nat]
    BY <1>1, ReleaseAssumption
  <2> QED BY <1>1, <1>2, <2>1, <2>2, <2>3, <2>4, <2>5 DEF Types
<1>5. Numbered
  <2>1. Authored = {} /\ Cardinality({}) = 0
    BY <1>2, FS_EmptySet DEF Authored
  <2>2. \A i \in 0..0 : i = 0
    OBVIOUS
  <2> QED BY <1>2, <2>1, <2>2, ReleaseAssumption DEF Numbered
<1>6. Published
  <2>1. first.version = 0 /\ first.at = 0 /\ ~first.auto
    OBVIOUS
  <2> HIDE DEF first
  <2> QED BY <1>1, <1>2, <2>1 DEF Published
<1>7. Prepared
  BY <1>1, <1>3 DEF Prepared, Fits
<1>8. Running
  <2>1. script.pc = "idle" /\ script.latest = 0
    BY <1>1 DEF Idle
  <2> QED BY <1>2, <2>1 DEF Running
<1> QED BY <1>1, <1>4, <1>5, <1>6, <1>7, <1>8 DEF IInv

\* A step keeps the invariant, whoever takes it.
LEMMA NextKeeps ==
    ASSUME IInv, [Next]_vars
    PROVE  IInv'
<1>1. CASE Run
  BY <1>1, BeginKeeps, ReadMainKeeps, ListPullsKeeps, CreateBranchKeeps, PutVersionKeeps,
     OpenPullKeeps, LoopKeeps, RegisterKeeps, WaitingKeeps, MergeKeeps, DispatchKeeps DEF Run
<1>2. CASE GitHub
  BY <1>2, JobKeeps, MainChecksKeeps, OthersOnPulls DEF GitHub
<1>3. CASE Others
  BY <1>3, CrashKeeps, CommitKeeps, MainChecksKeeps, OthersOnPulls, MergeByHandKeeps,
     ReleaseByHandKeeps DEF Others
<1>4. CASE UNCHANGED vars
  <2>1. UNCHANGED <<main, green, releases, pr, jobs, dirty>> /\ script' = script /\ left' = left
    BY <1>4 DEF vars
  <2>2. /\ script' \in ScriptsUpTo(Len(main)) /\ left' \in [crashes : Nat, fails : Nat, acts : Nat]
        /\ Types /\ Numbered /\ Running
    BY <2>1 DEF IInv, Types
  <2>3. Types' => Running'
    BY <2>1, <2>2, SameIsKept, RunningKept
  <2> QED BY <2>1, <2>2, <2>3, ReadKeeps
<1> QED BY <1>1, <1>2, <1>3, <1>4 DEF Next

\* What holds of main, the releases, the pull requests and the script between
\* any two steps, whoever commits, merges, closes or kills what.
THEOREM ReleasesStaySound == Spec => []IInv
<1>1. Init => IInv
  BY StartsSound
<1>2. IInv /\ [Next]_vars => IInv'
  BY NextKeeps
<1> QED BY <1>1, <1>2, PTL DEF Spec

-----------------------------------------------------------------------------
(* What follows from it.                                                   *)

TypeOK ==
    /\ main \in Seq(Entry) /\ Len(main) \in Commits
    /\ green \in Seq(Results) /\ Len(green) = Len(main)
    /\ releases \cup jobs \subseteq [version : Nat, at : Commits, auto : BOOLEAN]
    /\ pr \in [Versions -> Pull]
    /\ script \in Script /\ V \in Versions
    /\ dirty \in BOOLEAN
    /\ left \in [crashes : Nat, fails : Nat, acts : Nat]

\* The script merges only what it has checked, the version and nothing else,
\* whoever pushes what to the pull request, and when (dependency_release.py:149).
THEOREM MergesAreChecked == Spec => []MergedWasChecked
<1>1. IInv => MergedWasChecked
  BY DEF IInv, MergedWasChecked
<1> QED BY <1>1, ReleasesStaySound, PTL

\* An update of version v is older than what can be released as v, and newer
\* than all that was released before.
LEMMA UpdateIsReleased ==
    ASSUME Types, Numbered, Published, NEW r \in releases, HasUpdate(r.version)
    PROVE  \E i \in 1..r.at :
               /\ main[i].kind = "dep"
               /\ \A s \in releases : s.version < r.version => s.at < i
<1>1. PICK i \in DOMAIN main, b \in releases :
        /\ main[i].kind = "dep" /\ main[i].version + 1 = r.version
        /\ b.version = main[i].version /\ b.at < i
  BY DEF HasUpdate
<1>2. /\ Len(main) \in Nat /\ i \in 1..Len(main) /\ i \in 0..Len(main)
      /\ VersionAt(i) = main[i].version /\ main[i].version \in Nat
  BY MainTypes
<1>3. \A s \in releases : s.version \in Nat /\ s.at \in 0..Len(main) /\ VersionAt(s.at) = s.version
  BY ReleasesAreOnMain
<1>4. i \in 1..r.at
  <2>1. r.at \in 0..Len(main) /\ VersionAt(r.at) = main[i].version + 1
    BY <1>1, <1>3
  <2>2. r.at <= i => VersionAt(r.at) <= VersionAt(i)
    BY <1>2, <2>1 DEF Numbered
  <2>3. ~(r.at <= i)
    BY <1>2, <2>1, <2>2
  <2> QED BY <1>2, <2>1, <2>3
<1>5. ASSUME NEW s \in releases, s.version < r.version PROVE s.at < i
  <2>1. CASE s.version = b.version
    BY <1>1, <2>1 DEF Published
  <2>2. CASE s.version # b.version
    <3>1. VersionAt(s.at) < VersionAt(i) /\ s.at \in 0..Len(main) /\ VersionAt(s.at) \in Nat
      BY <1>1, <1>2, <1>3, <1>5, <2>2
    <3>2. i <= s.at => VersionAt(i) <= VersionAt(s.at)
      BY <1>2, <3>1 DEF Numbered
    <3>3. ~(i <= s.at)
      BY <1>2, <3>1, <3>2
    <3> QED BY <1>2, <3>1, <3>3
  <2> QED BY <2>1, <2>2
<1> QED BY <1>1, <1>4, <1>5

\* Every release of the script brings an update that ships and that no release
\* of a smaller version has, however many runs were killed between the decision
\* and the release, and whatever maintainers released themselves (releases.md:44-45).
THEOREM ReleasesBringUpdates == Spec => []ReleaseHasUpdate
<1>1. IInv => ReleaseHasUpdate
  <2> SUFFICES ASSUME IInv, NEW r \in releases, r.auto
               PROVE  \E i \in 1..r.at :
                        /\ main[i].kind = "dep"
                        /\ \A s \in releases : s.version < r.version => s.at < i
    BY DEF ReleaseHasUpdate
  <2>1. Types /\ Numbered /\ Published /\ Prepared
    BY DEF IInv
  <2>2. r.version \in Versions /\ pr[r.version].state = "merged"
    BY <2>1 DEF Published, IsMerged
  <2>3. HasUpdate(r.version)
    BY <2>1, <2>2 DEF Prepared, Fits
  <2> QED BY <2>1, <2>3, UpdateIsReleased
<1> QED BY <1>1, ReleasesStaySound, PTL

\* Releases follow each other as their versions do, at commits of their version
\* that contain the merged pull request, if the script made them.
ReleasesFit ==
    /\ \A r, s \in releases : r.version < s.version => r.at < s.at
    /\ \A r \in releases : VersionAt(r.at) = r.version
    /\ \A r \in releases : r.auto => pr[r.version].state = "merged" /\ pr[r.version].at <= r.at

\* Two runs of release.yml may end in any order and for different commits, but
\* a newer version is never an older commit (dependency_release.py:472).
THEOREM ReleasesAreInOrder == Spec => []ReleasesFit
<1>1. IInv => ReleasesFit
  <2> SUFFICES ASSUME IInv PROVE ReleasesFit
    OBVIOUS
  <2>1. Types /\ Numbered /\ Published
    BY DEF IInv
  <2>2. ASSUME NEW r \in releases, NEW s \in releases, r.version < s.version PROVE r.at < s.at
    <3>1. /\ r.at \in 0..Len(main) /\ VersionAt(r.at) = r.version /\ r.version \in Nat
          /\ s.at \in 0..Len(main) /\ VersionAt(s.at) = s.version /\ s.version \in Nat
      BY <2>1, ReleasesAreOnMain
    <3>2. s.at <= r.at => VersionAt(s.at) <= VersionAt(r.at)
      BY <2>1, <3>1 DEF Numbered
    <3>3. ~(s.at <= r.at)
      BY <2>2, <3>1, <3>2
    <3> QED BY <2>1, <3>1, <3>3, MainTypes
  <2> QED BY <2>1, <2>2 DEF ReleasesFit, Published, IsMerged
<1> QED BY <1>1, ReleasesStaySound, PTL

\* The state keeps its types: main never has more commits than two for each one
\* that is not a release, and the script always works on one of the versions.
THEOREM ReleaseTypesHold == Spec => []TypeOK
<1>1. IInv => TypeOK
  <2> SUFFICES ASSUME IInv PROVE TypeOK
    OBVIOUS
  <2>1. Types /\ Numbered /\ Running /\ dirty = FALSE /\ V \in Versions
    BY OwnPull
  <2>2. Len(main) \in Commits /\ Len(main) \in Nat /\ MaxMain \in Nat
    BY <2>1, MainIsShort, MainTypes, VersionTypes
  <2>3. 0..Len(main) \subseteq Commits
    BY <2>2 DEF Commits
  <2>4. PullsUpTo(Len(main)) \subseteq Pull
    BY <2>3 DEF PullsUpTo, Pull, States, Results
  <2>5. ScriptsUpTo(Len(main)) \subseteq Script
    BY <2>3, <2>4 DEF ScriptsUpTo, Script, Positions
  <2>6. RunsUpTo(Len(main)) \subseteq [version : Nat, at : Commits, auto : BOOLEAN]
    BY <2>3 DEF RunsUpTo
  <2>7. pr \in [Versions -> Pull]
    BY <2>1, <2>4 DEF Types
  <2>8. releases \cup jobs \subseteq [version : Nat, at : Commits, auto : BOOLEAN]
    BY <2>1, <2>6 DEF Types
  <2>9. dirty \in BOOLEAN
    BY <2>1
  <2> QED BY <2>1, <2>2, <2>5, <2>7, <2>8, <2>9 DEF Types, TypeOK
<1> QED BY <1>1, ReleasesStaySound, PTL
=============================================================================
