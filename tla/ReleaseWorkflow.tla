-------------------------- MODULE ReleaseWorkflow --------------------------
(***************************************************************************)
(* .github/workflows/release.yml: the runs GitHub starts for pushes to     *)
(* main and for manual dispatches, from planning to the GitHub Release.    *)
(* The tag step is scripts/release_tags.py as seen through its abstract    *)
(* specification (ReleaseTags implements TagService); between any two      *)
(* steps a run may be lost, and its failed job re-run with the outputs of  *)
(* the jobs before it.                                                     *)
(*                                                                         *)
(* main is linear: commit n is the parent of commit n + 1.  The            *)
(* annotation of a tag stands for the notes its digest binds, and notes    *)
(* for what render_release_notes makes them from.                          *)
(***************************************************************************)
EXTENDS TagGraph

CONSTANTS
    Runs,          \* workflow run numbers, in order of creation
    RequiredBump,  \* what the change from one commit to a later one asks for
    ManualTags,    \* versions a maintainer may dispatch by hand
    Editable,      \* versions whose Release a maintainer may edit by hand
    Edited,        \* text that is not what the tag of the Release binds
    InitialTags,
    None

Bumps == {"skip", "patch", "minor", "major"}

ASSUME WorkflowAssumption ==
    /\ Runs \subseteq Nat
    /\ Commits \subseteq Nat /\ 0 \in Commits
    /\ \A a, b \in Commits : IsAncestor(a, b) <=> a <= b
    /\ RequiredBump \in [Commits \X Commits -> Bumps]
    /\ ManualTags \subseteq Versions /\ Editable \subseteq Versions
    /\ InitialTags \in Graphs /\ ValidAt(InitialTags, 0)
    /\ None \notin Versions \cup Annotations
    /\ Edited \notin Annotations \cup {None}
    /\ Taggers = {"app"}
    /\ Metas = [tag : Versions, commit : Commits, previous : Versions \cup {None}]

\* Initial tags are at commit 0, so there is one at most: its notes have no range.
ASSUME InitialNotesAssumption ==
    \A v \in Tagged(InitialTags) :
        InitialTags[v].meta \in Metas =>
            InitialTags[v].meta =
                [tag |-> v, commit |-> InitialTags[v].commit, previous |-> None]

VARIABLES
    main,      \* the tip of main
    passed,    \* the commits with a retained successful CI run
    tags,
    releases,  \* the text of the GitHub Release of each tag, None without one
    latest,    \* the tag /releases/latest answers, None for HTTP 404
    status,    \* each run in the release-main concurrency group
    step,      \* where it is, or where it failed
    sha,       \* GITHUB_SHA
    manual,    \* the dispatched tag, None for a push
    plan       \* the outputs of the resolve job

vars == <<main, passed, tags, releases, latest, status, step, sha, manual, plan>>
repository == <<main, passed, tags, releases, latest>>

Steps == {"resolve", "ci", "notes", "tag", "release", "latest"}
Statuses == {"unused", "pending", "running", "cancelled", "failed", "done"}
Plans == [operation : {"publish", "recover"}, tag : Versions, previous : Versions \cup {None},
          commit : Commits, notes : Metas \cup {None}, graph : Graphs, makeLatest : BOOLEAN]

TypeOK ==
    /\ main \in Commits
    /\ passed \subseteq Commits
    /\ tags \in Graphs
    /\ releases \in [Versions -> Metas \cup {Legacy, Edited, None}]
    /\ latest \in Versions \cup {None}
    /\ status \in [Runs -> Statuses]
    /\ step \in [Runs -> Steps]
    /\ sha \in [Runs -> Commits]
    /\ manual \in [Runs -> ManualTags \cup {None}]
    /\ plan \in [Runs -> Plans \cup {None}]
    /\ \A r \in Runs : status[r] = "running" /\ step[r] # "resolve" => plan[r] \in Plans

Init ==
    /\ main = 0
    /\ passed = {0}
    /\ tags = InitialTags
    /\ releases = [v \in Versions |-> IF v \in Tagged(tags) THEN tags[v].meta ELSE None]
    /\ latest = IF \E v \in Versions : IsLatest(tags, v)
                THEN CHOOSE v \in Versions : IsLatest(tags, v) ELSE None
    /\ status = [r \in Runs |-> "unused"]
    /\ step = [r \in Runs |-> "resolve"]
    /\ sha = [r \in Runs |-> 0]
    /\ manual = [r \in Runs |-> None]
    /\ plan = [r \in Runs |-> None]

-----------------------------------------------------------------------------
(* The concurrency group: one run in progress, one waiting.  A run that    *)
(* joins cancels the one that waits; cancel-in-progress is false.          *)

MutJoin(r, current) == [current EXCEPT ![r] = "running"]

Join(r, current) ==
    [q \in Runs |->
        CASE q = r -> IF \E o \in Runs \ {r} : current[o] \in {"running", "pending"}
                      THEN "pending" ELSE "running"
          [] q # r /\ current[q] = "pending" -> "cancelled"
          [] OTHER -> current[q]]

Start(r) ==
    /\ status[r] = "pending"
    /\ \A q \in Runs : status[q] # "running"
    /\ status' = [status EXCEPT ![r] = "running"]
    /\ UNCHANGED <<repository, step, sha, manual, plan>>

NewRun(r, commit, tag) ==
    /\ status[r] = "unused"
    /\ \A q \in Runs : q < r => status[q] # "unused"
    /\ status' = Join(r, status)
    /\ sha' = [sha EXCEPT ![r] = commit]
    /\ manual' = [manual EXCEPT ![r] = tag]
    /\ UNCHANGED <<tags, releases, latest, step, plan>>

\* A pull request is merged: its commit is pushed.
Push(r) ==
    /\ main + 1 \in Commits
    /\ main' = main + 1
    /\ NewRun(r, main + 1, None)
    /\ UNCHANGED passed

\* A maintainer dispatches the workflow with an explicit tag, or without.
Dispatch(r) ==
    /\ \E tag \in ManualTags \cup {None} : NewRun(r, main, tag)
    /\ UNCHANGED <<main, passed>>

MutRerunAll(r) ==
    /\ status[r] \in {"failed", "cancelled", "done"}
    /\ status' = Join(r, status)
    /\ plan' = [plan EXCEPT ![r] = None]
    /\ UNCHANGED <<repository, step, sha, manual>>

\* "Re-run all jobs": the outputs are gone, GITHUB_SHA stays.
RerunAll(r) ==
    /\ status[r] \in {"failed", "cancelled", "done"}
    /\ status' = Join(r, status)
    /\ step' = [step EXCEPT ![r] = "resolve"]
    /\ plan' = [plan EXCEPT ![r] = None]
    /\ UNCHANGED <<repository, sha, manual>>

\* "Re-run failed jobs": outputs and artifacts of earlier jobs are reused.  The
\* tag, release and latest steps are one job.
RerunFailed(r) ==
    /\ status[r] = "failed"
    /\ status' = Join(r, status)
    /\ step' = [step EXCEPT ![r] = IF @ \in {"release", "latest"} THEN "tag" ELSE @]
    /\ UNCHANGED <<repository, sha, manual, plan>>

-----------------------------------------------------------------------------
\* One success that GitHub retains is enough, whatever other CI runs of the commit
\* say.  A commit whose CI never passes ends the run by Interrupted.
CiPasses(c) ==
    /\ c <= main
    /\ c \notin passed
    /\ passed' = passed \cup {c}
    /\ UNCHANGED <<main, tags, releases, latest, status, step, sha, manual, plan>>

\* "it still permits title and body edits" (docs/how-to/release-action.md): whoever may
\* edit a Release changes its text, or puts back what the tag binds.  Nobody is
\* taken to delete a Release, or to move the latest pointer, by hand.
EditRelease(v) ==
    /\ releases[v] # None
    /\ \E text \in {Edited, tags[v].meta} : releases' = [releases EXCEPT ![v] = text]
    /\ UNCHANGED <<main, passed, tags, latest, status, step, sha, manual, plan>>

-----------------------------------------------------------------------------
(* The jobs of a run. *)

At(r, s) == status[r] = "running" /\ step[r] = s

Goto(r, s) == step' = [step EXCEPT ![r] = s] /\ UNCHANGED status

Finish(r, outcome) == status' = [status EXCEPT ![r] = outcome] /\ UNCHANGED step

\* The tag before v, in version order.
Previous(g, v) ==
    IF \E w \in Tagged(g) : w < v
    THEN CHOOSE w \in Tagged(g) : w < v /\ \A u \in Tagged(g) : u < v => u <= w
    ELSE None

Render(v, commit, previous) == [tag |-> v, commit |-> commit, previous |-> previous]

MutRecoveryPlan(v) ==
    [operation |-> "recover", tag |-> v, previous |-> Previous(tags, v),
     commit |-> tags[v].commit, notes |-> tags[v].meta, graph |-> tags,
     makeLatest |-> FALSE]

\* recovery_plan, for a tag with canonical metadata.
RecoveryPlan(v) ==
    [operation |-> "recover", tag |-> v, previous |-> Previous(tags, v),
     commit |-> tags[v].commit, notes |-> tags[v].meta, graph |-> tags,
     makeLatest |-> IsLatest(tags, v)]

PublishPlan(r, v) ==
    [operation |-> "publish", tag |-> v, previous |-> Previous(tags, v),
     commit |-> sha[r], notes |-> None, graph |-> tags, makeLatest |-> TRUE]

\* A version is major * 10000 + minor * 100 + patch; instances keep each below 100.
Bumped(v, bump) ==
    CASE bump = "patch" -> v + 1
      [] bump = "minor" -> (v \div 100 + 1) * 100
      [] bump = "major" -> (v \div 10000 + 1) * 10000
      [] OTHER -> v

\* The tag plan_release recovers: the one asked for, or the one at HEAD.
Recovered(r) ==
    IF manual[r] \in Tagged(tags) THEN {manual[r]}
    ELSE {v \in Tagged(tags) : tags[v].commit = sha[r] /\ manual[r] \in {None, v}}

Untagged(commit) == \A v \in Tagged(tags) : tags[v].commit # commit

MutRequired(r) ==
    LET v == CHOOSE v \in Versions : IsLatest(tags, v)
        bump == RequiredBump[sha[r] - 1, sha[r]]
    IN  [bump |-> bump, minimum |-> Bumped(v, bump), above |-> v]

\* The lowest version the changes since the highest tag allow.
Required(r) ==
    LET v == CHOOSE v \in Versions : IsLatest(tags, v)
    IN  [bump |-> RequiredBump[tags[v].commit, sha[r]],
         minimum |-> Bumped(v, RequiredBump[tags[v].commit, sha[r]]), above |-> v]

\* Its new tag: an explicit one that is high enough, or the one the bump leads to.
NewTags(r) ==
    {v \in Versions :
        /\ Untagged(sha[r])
        /\ IF Tagged(tags) = {} THEN v = manual[r]
           ELSE LET required == Required(r)
                IN  IF manual[r] = None
                    THEN required.bump # "skip" /\ v = required.minimum
                    ELSE v = manual[r] /\ v > required.above /\ v >= required.minimum}

Skips(r) ==
    /\ manual[r] = None
    /\ Tagged(tags) # {}
    /\ Required(r).bump = "skip"
    /\ Recovered(r) = {}

CurrentTip(r) == sha[r] = main

Resolve(r) ==
    /\ At(r, "resolve")
    /\ CurrentTip(r)
    /\ ValidAt(tags, sha[r])
    /\ \/ \E v \in Recovered(r) :
             /\ tags[v].meta \in Metas
             /\ plan' = [plan EXCEPT ![r] = RecoveryPlan(v)]
             /\ Goto(r, "ci")
       \/ /\ Recovered(r) = {}
          /\ \E v \in NewTags(r) : plan' = [plan EXCEPT ![r] = PublishPlan(r, v)]
          /\ Goto(r, "ci")
       \/ Skips(r) /\ Finish(r, "done") /\ UNCHANGED plan
    /\ UNCHANGED <<repository, sha, manual>>

MutCiSucceeded(r) == plan[r].commit \in passed

CiSucceeded(r) == {sha[r], plan[r].commit} \subseteq passed

WaitForCi(r) ==
    /\ At(r, "ci")
    /\ CiSucceeded(r)
    /\ Goto(r, "notes")
    /\ UNCHANGED <<repository, sha, manual, plan>>

RenderedNotes(r) == Render(plan[r].tag, plan[r].commit, plan[r].previous)

\* Recovered notes must have the digest the tag binds.  The scan and the digests that
\* travel with the artifact change nothing: a mismatch ends the run by Interrupted.
GenerateNotes(r) ==
    /\ At(r, "notes")
    /\ plan[r].notes \in {None, RenderedNotes(r)}
    /\ Goto(r, "tag")
    /\ UNCHANGED <<repository, sha, manual, plan>>

MutTagAgrees(r) == plan[r].tag \in Tagged(tags)

TagAgrees(r) ==
    LET v == plan[r].tag
    IN  /\ v \in Tagged(tags)
        /\ tags[v].commit = plan[r].commit
        /\ tags[v].meta = RenderedNotes(r)
        /\ plan[r].graph \in {tags, WithoutTag(tags, v)}

MutMayCreateTag(r) == plan[r].tag \notin Tagged(tags) /\ sha[r] = plan[r].commit

MayCreateTag(r) ==
    /\ plan[r].tag \notin Tagged(tags)
    /\ sha[r] = plan[r].commit
    /\ plan[r].graph = tags
    /\ \A w \in Tagged(tags) :
          /\ w < plan[r].tag
          /\ IsAncestor(tags[w].commit, sha[r]) /\ tags[w].commit # sha[r]

ReconcileTag(r) ==
    /\ At(r, "tag")
    /\ \/ TagAgrees(r) /\ UNCHANGED tags
       \/ /\ MayCreateTag(r)
          /\ tags' = WithTag(tags, plan[r].tag,
                [commit |-> plan[r].commit, meta |-> RenderedNotes(r), tagger |-> "app"])
    /\ Goto(r, "release")
    /\ UNCHANGED <<main, passed, releases, latest, sha, manual, plan>>

\* A missing GitHub Release is created.  The step then looks again and verifies, also
\* when gh reports that it could not.
CreateRelease(r) ==
    /\ At(r, "release")
    /\ releases[plan[r].tag] = None
    /\ releases' = [releases EXCEPT ![plan[r].tag] = RenderedNotes(r)]
    /\ latest' = IF plan[r].makeLatest THEN plan[r].tag ELSE latest
    /\ UNCHANGED <<main, passed, tags, status, step, sha, manual, plan>>

MutReleaseAgrees(r) == releases[plan[r].tag] # None

\* verify_github_release, of the text.
ReleaseAgrees(r) == releases[plan[r].tag] = RenderedNotes(r)

VerifyRelease(r) ==
    /\ At(r, "release")
    /\ ReleaseAgrees(r)
    /\ Goto(r, "latest")
    /\ UNCHANGED <<repository, sha, manual, plan>>

LatestAgrees(r) == (latest = plan[r].tag) <=> plan[r].makeLatest

VerifyLatest(r) ==
    /\ At(r, "latest")
    /\ LatestAgrees(r)
    /\ Finish(r, "done")
    /\ UNCHANGED <<repository, sha, manual, plan>>

CanResolve(r) ==
    /\ CurrentTip(r)
    /\ ValidAt(tags, sha[r])
    /\ IF Recovered(r) # {} THEN \A v \in Recovered(r) : tags[v].meta \in Metas
                            ELSE NewTags(r) # {} \/ Skips(r)

\* A check of the step does not hold: the job fails.
CheckFails(r) ==
    /\ \/ At(r, "resolve") /\ ~CanResolve(r)
       \/ At(r, "notes") /\ plan[r].notes \notin {None, RenderedNotes(r)}
       \/ At(r, "tag") /\ ~TagAgrees(r) /\ ~MayCreateTag(r)
       \/ At(r, "release") /\ releases[plan[r].tag] # None /\ ~ReleaseAgrees(r)
       \/ At(r, "latest") /\ ~LatestAgrees(r)
    /\ Finish(r, "failed")
    /\ UNCHANGED <<repository, sha, manual, plan>>

\* An API call, an installation, the scan or the runner fails, an artifact has
\* expired, no CI run passed, or the 90 polls for one are over.
Interrupted(r) ==
    /\ status[r] = "running"
    /\ Finish(r, "failed")
    /\ UNCHANGED <<repository, sha, manual, plan>>

RunStep(r) ==
    \/ Resolve(r)
    \/ WaitForCi(r)
    \/ GenerateNotes(r)
    \/ ReconcileTag(r)
    \/ CreateRelease(r)
    \/ VerifyRelease(r)
    \/ VerifyLatest(r)
    \/ CheckFails(r)

-----------------------------------------------------------------------------
Next ==
    \/ \E r \in Runs :
          \/ Push(r) \/ Dispatch(r) \/ RerunAll(r) \/ RerunFailed(r)
          \/ Start(r) \/ RunStep(r) \/ Interrupted(r)
    \/ \E c \in Commits : CiPasses(c)
    \/ \E v \in Editable : EditRelease(v)

Spec == Init /\ [][Next]_vars

\* Nothing fails and nobody intervenes: commits are merged, CI passes, jobs run.
QuietNext ==
    \/ \E r \in Runs : Push(r) \/ Start(r) \/ RunStep(r)
    \/ \E c \in Commits : CiPasses(c)

\* The same, with maintainers who dispatch the workflow.
DispatchedNext == QuietNext \/ \E r \in Runs : Dispatch(r)

\* GitHub starts a waiting run, runners execute jobs, CI finishes.
Progress ==
    /\ \A r \in Runs : WF_vars(Start(r)) /\ WF_vars(RunStep(r))
    /\ \A c \in Commits : WF_vars(CiPasses(c))

QuietSpec == Init /\ [][QuietNext]_vars /\ Progress
DispatchedSpec == Init /\ [][DispatchedNext]_vars /\ Progress

-----------------------------------------------------------------------------
(* Properties *)

Registry == INSTANCE TagRegistry WITH registry <- tags

\* Runs call the tag step as the service that ReleaseTags implements, and their re-runs
\* and interruptions ask nothing else of it: what a run takes for published stands from
\* then on, above the very releases that its notes start from.
ServiceCall ==
    [r \in Runs |->
        CASE step[r] = "resolve" -> "none"
          [] step[r] \in {"release", "latest"} -> "published"
          [] OTHER -> IF status[r] = "running" THEN "open" ELSE "closed"]

ServicePlan ==
    [r \in Runs |->
        IF step[r] = "resolve" THEN None
        ELSE [tag |-> plan[r].tag, commit |-> plan[r].commit, meta |-> RenderedNotes(r),
              graph |-> plan[r].graph]]

Service == INSTANCE TagService WITH
               Callers <- Runs, call <- ServiceCall, plan <- ServicePlan
ServiceImplemented == Service!Spec

\* A run that got past the tag step is right about its tag for good, also after it failed
\* and while later runs, or the re-run job of an older one, publish: the tag has its
\* commit and its notes, and below it is exactly what the notes were rendered against.
ReconciledTagStands ==
    \A r \in Runs :
        step[r] \in {"release", "latest"} =>
            /\ plan[r].tag \in Tagged(tags)
            /\ tags[plan[r].tag].commit = plan[r].commit
            /\ tags[plan[r].tag].meta = RenderedNotes(r)
            /\ \A w \in Versions : w < plan[r].tag => tags[w] = plan[r].graph[w]

\* A new version never stops being the latest release because an older run
\* finishes late: /releases/latest only moves to higher versions.
LatestNeverGoesBack == [][latest' # latest => latest = None \/ latest' > latest]_vars

\* Recovering older releases leaves the highest released tag the latest one.
HighestReleaseIsLatest ==
    \A v \in Versions : IsLatest(tags, v) /\ releases[v] # None => latest = v

\* A GitHub Release has a tag, and shows the notes that the tag binds unless somebody
\* edited it by hand: no run, however late, writes anything else into it.
ReleaseMatchesTag ==
    \A v \in Versions :
        releases[v] # None => v \in Tagged(tags) /\ releases[v] \in {tags[v].meta, Edited}

\* "At publication or recovery time, the workflow requires the exact scanned notes"
\* (docs/how-to/release-action.md): when a run gets past its Release, that one shows what
\* the tag on the remote binds, although the text may have been edited between two
\* attempts, before a recovery, or since the run created it.
VerifiedAsBound ==
    [][\A r \in Runs :
          At(r, "release") /\ step'[r] = "latest" =>
              releases'[plan[r].tag] = tags'[plan[r].tag].meta]_vars

\* The notes a tag binds can be rendered again from the tags of today: no tag was
\* added that splits the range of commits they list.
NotesReproducible ==
    \A v \in Tagged(tags) :
        tags[v].meta \in Metas =>
            tags[v].meta = Render(v, tags[v].commit,
                IF \E w \in Tagged(tags) : w < v
                THEN CHOOSE w \in Tagged(tags) : w < v /\ \A u \in Tagged(tags) : u >= v \/ u <= w
                ELSE None)

\* A release is published by tooling that passed CI, from a commit that passed CI,
\* even if the jobs that waited for it ran in an earlier attempt.
PublishedAfterCi ==
    \A r \in Runs :
        At(r, "tag") => sha[r] \in passed /\ plan[r].commit \in passed

\* A green run that did not skip left a tag and a GitHub Release of it behind.
DoneMeansPublished ==
    \A r \in Runs :
        status[r] = "done" /\ plan[r] # None =>
            /\ plan[r].tag \in Tagged(tags)
            /\ tags[plan[r].tag].commit = plan[r].commit
            /\ releases[plan[r].tag] # None

\* Tags, Releases and the reports of runs agree, in whatever order runs were interrupted,
\* re-run and overtaken.
ReleasesAgreeWithTags == ReleaseMatchesTag /\ NotesReproducible /\ DoneMeansPublished

\* When nothing fails and nobody intervenes, a commit that asks for a release is in
\* one some day, even when the runs of pushes cancel or overtake each other.
EveryCommitReleased ==
    \A c \in Commits \ {0} :
        RequiredBump[<<c - 1, c>>] # "skip" /\ c <= main
            ~> \E v \in Tagged(tags) : c <= tags[v].commit /\ releases[v] # None

\* "A later serialized run evaluates those commits from the newly published tag"
\* (docs/how-to/release-action.md): the same when maintainers dispatch the
\* workflow between the pushes.
LaterRunEvaluates == EveryCommitReleased

\* "Recovery incorrectly promoted an older release to latest" (release.yml): the
\* step says so only of a release that this recovery promoted, and
\* CreateRelease never promotes an older one.
PromotionIsBlamedRightly ==
    \A r \in Runs : At(r, "latest") /\ ~plan[r].makeLatest => latest # plan[r].tag
=============================================================================
