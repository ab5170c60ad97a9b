--------------------------- MODULE ReleasePlanner ---------------------------
(***************************************************************************)
(* Version calculation: plan_release in scripts/release_state.py over the  *)
(* life of a repository.  Commits change the contract under messages that  *)
(* may or may not say so; a release takes the version its message history  *)
(* and its contract change require, or a higher explicit one.  Each plan   *)
(* is published before the next is made (ReleaseWorkflow shows that plans  *)
(* that are not published change nothing).                                 *)
(***************************************************************************)
EXTENDS ActionContract, Sequences

CONSTANTS
    History,       \* the contracts commits may have
    MaxComponent,  \* MAX_VERSION_COMPONENT
    MaxReleases    \* bound of the instance

ASSUME PlannerAssumption ==
    /\ History \subseteq Contracts
    /\ MaxComponent \in Nat
    /\ MaxReleases \in Nat

VARIABLES
    contract,   \* at the tip of main
    message,    \* the highest bump a commit message since the last release asks for
    releases    \* version, contract, and what was asked for, in version order

vars == <<contract, message, releases>>

Components == 0..MaxComponent
Versions == [major : Components, minor : Components, patch : Components]
Releases == [version : Versions, contract : Contracts, asked : Bumps]

TypeOK ==
    /\ contract \in Contracts
    /\ message \in Bumps
    /\ releases \in Seq(Releases)

Init ==
    /\ contract \in History
    /\ message = Skip
    /\ releases = <<>>

\* SemanticVersion, ordered by its fields.
Below(v, w) ==
    \/ v.major < w.major
    \/ v.major = w.major /\ v.minor < w.minor
    \/ v.major = w.major /\ v.minor = w.minor /\ v.patch < w.patch

\* SemanticVersion.bump, before its result is checked.
Bumped(v, bump) ==
    CASE bump = Major -> [major |-> v.major + 1, minor |-> 0, patch |-> 0]
      [] bump = Minor -> [major |-> v.major, minor |-> v.minor + 1, patch |-> 0]
      [] OTHER -> [major |-> v.major, minor |-> v.minor, patch |-> v.patch + 1]

Latest == releases[Len(releases)]

\* The history bump and the metadata bump; the first release has none.
Requirement == Higher(message, RequiredBump(Latest.contract, contract))

\* classify_commit and the change itself are independent: a breaking change may come
\* under any message, or one marked [skip release].
Commit ==
    /\ \E new \in History, bump \in Bumps :
          /\ contract' = new
          /\ message' = Higher(message, bump)
    /\ UNCHANGED releases

Publish(version, asked) ==
    /\ releases' = Append(releases, [version |-> version, contract |-> contract, asked |-> asked])
    /\ message' = Skip
    /\ UNCHANGED contract

\* Its commit need not have a manifest: legacy releases do not.
FirstRelease ==
    /\ releases = <<>>
    /\ MaxReleases > 0
    /\ \E v \in Versions : Publish(v, Skip)

MayRelease == Len(releases) \in 1..(MaxReleases - 1) /\ contract.manifest # None

MutReleaseNext ==
    /\ MayRelease
    /\ Requirement # Skip
    /\ Publish(Bumped(Latest.version, Requirement), Requirement)

\* The bump must stay in bounds; without one there is nothing to release.
ReleaseNext ==
    /\ MayRelease
    /\ Requirement # Skip
    /\ Bumped(Latest.version, Requirement) \in Versions
    /\ Publish(Bumped(Latest.version, Requirement), Requirement)

HighEnough(v) ==
    /\ Below(Latest.version, v)
    /\ Requirement # Skip =>
          /\ Bumped(Latest.version, Requirement) \in Versions
          /\ ~Below(v, Bumped(Latest.version, Requirement))

\* An explicit tag, even when nothing requires a release.
ReleaseManual ==
    /\ MayRelease
    /\ \E v \in Versions : HighEnough(v) /\ Publish(v, Requirement)

Next == Commit \/ FirstRelease \/ ReleaseNext \/ ReleaseManual

Spec == Init /\ [][Next]_vars

-----------------------------------------------------------------------------
(* Properties *)

\* What a consumer reads from two versions.
Difference(v, w) ==
    IF v.major # w.major THEN Major
    ELSE IF v.minor # w.minor THEN Minor
    ELSE IF v.patch # w.patch THEN Patch
    ELSE Skip

\* Versions only grow.
VersionsIncrease ==
    \A i, j \in 1..Len(releases) :
        i < j => Below(releases[i].version, releases[j].version)

\* The semantic-versioning promise, between any two releases and not only adjacent
\* ones: the versions differ by at least what the contracts' difference requires,
\* however the change was spread over releases and under whatever messages.
SemVerKept ==
    \A i, j \in 1..Len(releases) :
        i < j => RequiredBump(releases[i].contract, releases[j].contract)
                    <= Difference(releases[i].version, releases[j].version)

\* The same for what commit messages asked for at any release in between.
MessagesKept ==
    \A i, j, k \in 1..Len(releases) :
        i < k /\ k <= j =>
            releases[k].asked <= Difference(releases[i].version, releases[j].version)

\* The promise of the version numbers, over the life of the repository.
PromiseKept == VersionsIncrease /\ SemVerKept /\ MessagesKept
=============================================================================
