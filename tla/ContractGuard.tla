---------------------------- MODULE ContractGuard ----------------------------
(***************************************************************************)
(* scripts/check-action-contract.py in CI, the wait for CI in release.yml  *)
(* and the planner, which all read the release tags at times of their own. *)
(* CI passes a commit when its messages since the latest tag it sees       *)
(* account for its contract change; one retained success is enough for any *)
(* release of that commit, planned before or after it from other tags.     *)
(*                                                                         *)
(* main is linear, and release runs are serialized by their concurrency    *)
(* group.  Everything but the guard passes in CI.                          *)
(***************************************************************************)
EXTENDS ActionContract, Sequences, FiniteSets

CONSTANTS
    Revisions,       \* the contracts commits may have
    Messages,        \* the bumps their messages ask for
    Limit,           \* MAX_VERSION_COMPONENT
    ManualVersions,  \* the ones a maintainer dispatches
    Runs,            \* of the release workflow
    MaxCommits, MaxTags, MaxChecks  \* bounds of the instance

ASSUME GuardAssumption ==
    /\ Revisions \subseteq Contracts
    /\ Messages \subseteq Bumps
    /\ {Limit, MaxCommits, MaxTags, MaxChecks} \subseteq Nat
    /\ ManualVersions \subseteq [major : 0..Limit, minor : 0..Limit, patch : 0..Limit]
    /\ MaxCommits > 0

VARIABLES
    main,    \* the commits: contract and the bump their message asks for
    tags,    \* version, commit and what was asked for, in version order
    checks,  \* finished CI runs: commit, number of tags they saw, verdict
    runs     \* the release runs with their plans, None before the first

guardVars == <<main, tags, checks, runs>>

\* The plans are the planner's, over the releases made so far.
Planner == INSTANCE ReleasePlanner WITH
    History <- Revisions, MaxComponent <- Limit, MaxReleases <- MaxTags,
    contract <- main[Len(main)].contract,
    message <- Skip,
    releases <- [i \in 1..Len(tags) |->
                    [version |-> tags[i].version, asked |-> tags[i].asked,
                     contract |-> main[tags[i].commit].contract]]

Plans ==
    [stage : {"running", "failed", "done"}, commit : 1..MaxCommits, seen : 0..MaxTags,
     version : Planner!Versions, asked : Bumps]

Commits == [contract : Contracts, message : Bumps]

Tags == [version : Planner!Versions, commit : 1..Len(main), asked : Bumps]

GuardTypeOK ==
    /\ main \in Seq(Commits)
    /\ tags \in Seq(Tags)
    /\ checks \subseteq [commit : 1..Len(main), seen : 0..Len(tags), passed : BOOLEAN]
    /\ runs \in [Runs -> Plans \cup {None}]

GuardInit ==
    /\ \E c \in Revisions : main = <<[contract |-> c, message |-> Skip]>>
    /\ tags = <<>>
    /\ checks = {}
    /\ runs = [r \in Runs |-> None]

\* classify_range: the highest bump of the messages after one commit, up to another.
HistoryBump(from, to) ==
    CHOOSE bump \in Bumps :
        /\ bump = Skip \/ \E c \in from + 1..to : main[c].message = bump
        /\ \A c \in from + 1..to : main[c].message <= bump

\* classify_release_requirement between a tag's commit and another.
ContractBump(i, c) == RequiredBump(main[tags[i].commit].contract, main[c].contract)

Explained(i, c) == ContractBump(i, c) <= HistoryBump(tags[i].commit, c)

Push ==
    /\ Len(main) < MaxCommits
    /\ \E c \in Revisions, bump \in Messages :
          main' = Append(main, [contract |-> c, message |-> bump])
    /\ UNCHANGED <<tags, checks, runs>>

MutGuard(c) ==
    \/ tags = <<>>
    \/ main[c].contract.manifest # None /\ Explained(Len(tags), c)

\* main of check-action-contract.py.  Every tag must be reachable from the commit, so
\* CI that is run again for a commit below a newer tag fails.
Guard(c) ==
    \/ tags = <<>>
    \/ /\ tags[Len(tags)].commit <= c
       /\ main[c].contract.manifest # None
       /\ Explained(Len(tags), c)

CiRuns(c) ==
    /\ Cardinality(checks) < MaxChecks
    /\ checks' = checks \cup {[commit |-> c, seen |-> Len(tags), passed |-> Guard(c)]}
    /\ UNCHANGED <<main, tags, runs>>

-----------------------------------------------------------------------------
(* A release run *)

At(r, stage) == runs[r] # None /\ runs[r].stage = stage

Idle == ~\E r \in Runs : At(r, "running")

MutRequirementAt(c) == HistoryBump(tags[Len(tags)].commit, c)

\* The bump plan_release asks for at a commit, on the tags of this moment.
RequirementAt(c) ==
    Higher(HistoryBump(tags[Len(tags)].commit, c), ContractBump(Len(tags), c))

\* The version it calculates, or a higher explicit one.
Candidates(c) ==
    LET last == tags[Len(tags)]
        next == Planner!Bumped(last.version, RequirementAt(c))
    IN IF last.commit = c \/ main[c].contract.manifest = None THEN {}
       ELSE IF RequirementAt(c) = Skip
            THEN {v \in ManualVersions : Planner!Below(last.version, v)}
            ELSE {v \in ManualVersions \cup {next} :
                     next \in Planner!Versions /\ ~Planner!Below(v, next)}

\* The candidate is the tip; the first version is given by hand.
Plan(r) ==
    /\ Idle
    /\ Len(tags) < MaxTags
    /\ \E v \in IF tags = <<>> THEN ManualVersions ELSE Candidates(Len(main)) :
          /\ runs' = [runs EXCEPT ![r] =
                [stage |-> "running", commit |-> Len(main), seen |-> Len(tags), version |-> v,
                 asked |-> IF tags = <<>> THEN Skip ELSE RequirementAt(Len(main))]]
    /\ UNCHANGED <<main, tags, checks>>

Tag(r) ==
    /\ tags' = Append(tags, [version |-> runs[r].version, commit |-> runs[r].commit,
                             asked |-> runs[r].asked])
    /\ runs' = [runs EXCEPT ![r].stage = "done"]
    /\ UNCHANGED <<main, checks>>

MutPublishUnchecked(r) == At(r, "running") /\ Len(tags) = runs[r].seen /\ Tag(r)

\* wait_for_ci, then reconcile_remote_tag, which creates the tag on the planned graph
\* or not at all.
PublishTag(r) ==
    /\ At(r, "running")
    /\ \E e \in checks : e.commit = runs[r].commit /\ e.passed
    /\ Len(tags) = runs[r].seen
    /\ Tag(r)

\* CI failed or took too long, the tags have changed, or the run is lost.
RunFails(r) ==
    /\ At(r, "running")
    /\ runs' = [runs EXCEPT ![r].stage = "failed"]
    /\ UNCHANGED <<main, tags, checks>>

\* Its failed jobs are re-run with the plan it made, however old.
RerunFailed(r) ==
    /\ Idle
    /\ At(r, "failed")
    /\ runs' = [runs EXCEPT ![r].stage = "running"]
    /\ UNCHANGED <<main, tags, checks>>

GuardNext ==
    \/ Push
    \/ \E c \in 1..Len(main) : CiRuns(c)
    \/ \E r \in Runs : Plan(r) \/ PublishTag(r) \/ RunFails(r) \/ RerunFailed(r)

GuardSpec == GuardInit /\ [][GuardNext]_guardVars

-----------------------------------------------------------------------------
(* Properties *)

\* "A newer tag can't make an earlier CI result authorize a smaller bump": the semantic
\* versioning promise between any two releases survives evidence and plans that were
\* made from other tags than the ones a release is finally put on.
PromiseSurvivesStaleChecks == Planner!PromiseKept

\* CI's part: the messages account for a released commit's contract change since some
\* earlier tag, even though neither the plan nor the tag step looks at them for that.
\* Only a commit whose CI ran before the first tag needs no account.
AccountedSomewhere ==
    \A j \in 2..Len(tags) :
        \/ \E e \in checks : e.commit = tags[j].commit /\ e.seen = 0
        \/ \E i \in 1..j - 1 : Explained(i, tags[j].commit)

\* Running a red CI again does not help.  What was refused against an older tag is
\* refused against the newer ones, too, as long as each of them was accounted for from
\* the tag before it.
RefusalsStayRight ==
    \A e \in checks :
        /\ ~e.passed
        /\ e.seen < Len(tags)
        /\ \A j \in e.seen + 1..Len(tags) : Explained(j - 1, tags[j].commit)
        => ~Guard(e.commit)
=============================================================================
