----------------------- MODULE ReleaseWorkflowProofs -----------------------
(***************************************************************************)
(* Release publication for any number of runs, commits and versions: what  *)
(* pushes, dispatches, re-runs and interruptions leave on the repository.  *)
(* The argument: one run is in progress at a time, so what it checked of   *)
(* the tags stays true until it acts on it; every tag that is added is     *)
(* above all others, so the notes bound by older tags keep their range.    *)
(***************************************************************************)
EXTENDS ReleaseWorkflow, TLAPS

\* The concurrency group of release.yml: one run is in progress.
OneRunning ==
    \A q, r \in Runs : status[q] = "running" /\ status[r] = "running" => q = r

\* Which steps a run of a status is at, and that it has a plan from the first on.
Progressed(r) ==
    /\ status[r] = "unused" => step[r] = "resolve"
    /\ status[r] = "pending" => step[r] \notin {"release", "latest"}
    /\ status[r] = "done" => step[r] \in {"resolve", "latest"}
    /\ IF step[r] = "resolve" THEN plan[r] = None ELSE plan[r] \in Plans

\* A run is past wait-for-ci only with CI passed for its tooling and its commit.
CiWaited(r) ==
    step[r] \in {"notes", "tag", "release", "latest"} => {sha[r], plan[r].commit} \subseteq passed

\* A plan is right about the graph it was made from.
FaithfulPlan(p) ==
    /\ p.previous = Previous(p.graph, p.tag)
    /\ p.operation = "recover" =>
          p.tag \in Tagged(p.graph) /\ (p.makeLatest <=> IsLatest(p.graph, p.tag))
    /\ p.operation = "publish" => p.makeLatest /\ \A w \in Tagged(p.graph) : w < p.tag

\* What the running job established of its tag still holds, and its Release is still
\* there: not its text, which may be edited at any time.
TagStands(r) ==
    LET v == plan[r].tag
    IN  status[r] = "running" /\ step[r] \in {"release", "latest"} =>
            /\ v \in Tagged(tags)
            /\ tags[v].commit = plan[r].commit
            /\ tags[v].meta = RenderedNotes(r)
            /\ plan[r].makeLatest <=> IsLatest(tags, v)
            /\ step[r] = "latest" => releases[v] # None

\* What a green run left behind.
Published(r) ==
    LET v == plan[r].tag
    IN  /\ v \in Tagged(tags)
        /\ tags[v].commit = plan[r].commit
        /\ releases[v] # None

RunInv(r) ==
    /\ Progressed(r)
    /\ CiWaited(r)
    /\ step[r] # "resolve" => FaithfulPlan(plan[r])
    /\ TagStands(r)
    /\ status[r] = "done" /\ plan[r] # None => Published(r)

\* Finitely many tags: a highest one, and before each the next lower one.
HasLatest(g) == Tagged(g) = {} \/ \E v \in Versions : IsLatest(g, v)

\* w is the tag before v.
IsPrevious(g, w, v) == w \in Tagged(g) /\ w < v /\ \A u \in Tagged(g) : u < v => u <= w

HasPrevious(g) ==
    \A v \in Tagged(g) :
        (\E w \in Tagged(g) : w < v) => \E w \in Tagged(g) : IsPrevious(g, w, v)

\* What holds of tags, Releases and the latest pointer whatever the runs are at.
RepositoryInv ==
    /\ HasLatest(tags)
    /\ HasPrevious(tags)
    /\ Annotated(tags)
    /\ ReleaseMatchesTag
    /\ NotesReproducible
    /\ latest # None => latest \in Tagged(tags)
    /\ HighestReleaseIsLatest

Inv == TypeOK /\ OneRunning /\ RepositoryInv /\ \A r \in Runs : RunInv(r)
-----------------------------------------------------------------------------
(* Tag graphs *)

\* What is tagged is a version and an object.
LEMMA TaggedObject ==
    ASSUME NEW g \in Graphs, NEW v \in Tagged(g)
    PROVE  /\ v \in Versions /\ v \in Nat
           /\ g[v] \in Objects
           /\ g[v].commit \in Commits /\ g[v].meta \in Annotations
BY VersionsAssumption DEF Tagged, Graphs, Objects

\* The tag before v is the highest lower one, where there is one.
LEMMA PreviousIs ==
    ASSUME NEW g \in Graphs, NEW v \in Versions, NEW w, IsPrevious(g, w, v)
    PROVE  Previous(g, v) = w
<1>1. \E u \in Tagged(g) : u < v
  BY DEF IsPrevious
<1>2. IsPrevious(g, Previous(g, v), v)
  BY <1>1 DEF Previous, IsPrevious
<1> QED BY <1>2, TaggedObject, VersionsAssumption DEF IsPrevious

\* The notes of every canonical tag can be rendered again.
Reproduced(g) ==
    \A v \in Tagged(g) :
        g[v].meta \in Metas => g[v].meta = Render(v, g[v].commit, Previous(g, v))

\* Previous and the predecessor that NotesReproducible names are one.
LEMMA PredecessorOf ==
    ASSUME NEW g \in Graphs, HasPrevious(g), NEW v \in Tagged(g)
    PROVE  Previous(g, v) =
               IF \E w \in Tagged(g) : w < v
               THEN CHOOSE w \in Tagged(g) : w < v /\ \A u \in Tagged(g) : u >= v \/ u <= w
               ELSE None
<1>1. v \in Versions /\ v \in Nat
  BY TaggedObject
<1>2. CASE ~\E w \in Tagged(g) : w < v
  BY <1>2 DEF Previous
<1>3. CASE \E w \in Tagged(g) : w < v
  <2> DEFINE Before(w) == w < v /\ \A u \in Tagged(g) : u >= v \/ u <= w
             chosen == CHOOSE w \in Tagged(g) : Before(w)
  <2>1. PICK w : IsPrevious(g, w, v)
    BY <1>3 DEF HasPrevious
  <2>2. w \in Tagged(g) /\ Before(w)
    BY <2>1, <1>1, TaggedObject DEF IsPrevious
  <2>3. chosen \in Tagged(g) /\ Before(chosen)
    BY <2>2
  <2> HIDE DEF chosen
  <2>4. IsPrevious(g, chosen, v)
    BY <2>3, <1>1, TaggedObject DEF IsPrevious
  <2>5. Previous(g, v) = chosen
    BY <2>4, <1>1, PreviousIs
  <2> QED BY <1>3, <2>5 DEF chosen
<1> QED BY <1>2, <1>3

\* So NotesReproducible says it of Previous.
LEMMA PredecessorIsPrevious ==
    ASSUME tags \in Graphs, HasPrevious(tags)
    PROVE  NotesReproducible <=> Reproduced(tags)
BY PredecessorOf DEF NotesReproducible, Reproduced

\* A version above all tags comes right after the highest one.
LEMMA PreviousOfHighest ==
    ASSUME NEW g \in Graphs, NEW v \in Versions, HasLatest(g), \A w \in Tagged(g) : w < v
    PROVE  /\ Tagged(g) = {} => Previous(g, v) = None
           /\ Tagged(g) # {} => IsPrevious(g, Previous(g, v), v)
<1>1. CASE Tagged(g) = {}
  BY <1>1 DEF Previous
<1>2. CASE Tagged(g) # {}
  <2>1. PICK w \in Versions : IsLatest(g, w)
    BY <1>2 DEF HasLatest
  <2>2. IsPrevious(g, w, v)
    BY <2>1 DEF IsPrevious, IsLatest
  <2> QED BY <1>2, <2>2, PreviousIs
<1> QED BY <1>1, <1>2

\* A tag with the notes of its place, added above all others, leaves a graph of the
\* same kind: no older tag gets another predecessor.
LEMMA AddHighest ==
    ASSUME NEW g \in Graphs, HasLatest(g), HasPrevious(g), Reproduced(g),
           NEW v \in Versions, NEW o \in Objects,
           \A w \in Tagged(g) : w < v,
           o.meta = Render(v, o.commit, Previous(g, v)),
           NEW h, h = WithTag(g, v, o)
    PROVE  /\ h \in Graphs
           /\ Tagged(h) = Tagged(g) \cup {v} /\ v \notin Tagged(g)
           /\ h[v] = o /\ \A w \in Tagged(g) : h[w] = g[w]
           /\ IsLatest(h, v) /\ HasLatest(h)
           /\ HasPrevious(h)
           /\ Reproduced(h)
<1>1. h \in Graphs
  BY DEF WithTag, Graphs
<1>2. v \in Nat /\ v \notin Tagged(g) /\ \A w \in Tagged(g) : w \in Nat
  BY TaggedObject, VersionsAssumption
<1>3. Tagged(h) = Tagged(g) \cup {v} /\ h[v] = o /\ \A w \in Tagged(g) : h[w] = g[w]
  BY <1>2, TagAssumption DEF WithTag, Graphs, Tagged
<1>4. IsLatest(h, v) /\ HasLatest(h)
  BY <1>2, <1>3 DEF IsLatest, HasLatest
<1>5. \A w, u : u \in Tagged(g) => (IsPrevious(g, w, u) <=> IsPrevious(h, w, u))
  BY <1>2, <1>3 DEF IsPrevious
<1>6. \A w : IsPrevious(g, w, v) => IsPrevious(h, w, v)
  BY <1>2, <1>3 DEF IsPrevious
<1>7. HasPrevious(h)
  <2> SUFFICES ASSUME NEW u \in Tagged(h), NEW w \in Tagged(h), w < u
               PROVE  \E x \in Tagged(h) : IsPrevious(h, x, u)
    BY DEF HasPrevious
  <2>1. CASE u \in Tagged(g)
    <3>1. w \in Tagged(g)
      BY <1>2, <1>3, <2>1
    <3>2. PICK x \in Tagged(g) : IsPrevious(g, x, u)
      BY <2>1, <3>1 DEF HasPrevious
    <3> QED BY <1>3, <1>5, <2>1, <3>2
  <2>2. CASE u = v
    <3>1. w \in Tagged(g)
      BY <1>2, <1>3, <2>2
    <3>2. IsPrevious(g, Previous(g, v), v)
      BY <3>1, PreviousOfHighest
    <3> QED BY <1>3, <1>6, <2>2, <3>2 DEF IsPrevious
  <2> QED BY <1>3, <2>1, <2>2
<1>8. ASSUME NEW u \in Tagged(h)
      PROVE  Previous(h, u) = Previous(g, u)
  <2>1. u \in Versions
    BY <1>1, TaggedObject
  <2>2. CASE \E w \in Tagged(h) : w < u
    <3>1. PICK x \in Tagged(h) : IsPrevious(h, x, u)
      BY <1>7, <2>2 DEF HasPrevious
    <3>2. x \in Tagged(g) /\ IsPrevious(g, x, u)
      BY <1>2, <1>3, <3>1 DEF IsPrevious
    <3> QED BY <1>1, <2>1, <3>1, <3>2, PreviousIs
  <2>3. CASE ~\E w \in Tagged(h) : w < u
    BY <1>3, <2>3 DEF Previous
  <2> QED BY <2>2, <2>3
<1>9. Reproduced(h)
  BY <1>3, <1>8 DEF Reproduced
<1> QED BY <1>1, <1>2, <1>3, <1>4, <1>7, <1>9
-----------------------------------------------------------------------------
(* Plans *)

\* A required bump leads above the version it is applied to.
LEMMA BumpRaises ==
    ASSUME NEW v \in Nat, NEW bump \in Bumps, bump # "skip"
    PROVE  Bumped(v, bump) > v
<1>1. v + 1 > v /\ (v \div 100 + 1) * 100 > v /\ (v \div 10000 + 1) * 10000 > v
  OBVIOUS
<1> QED BY <1>1 DEF Bumped, Bumps

\* A new tag is above every tag of the graph it is planned from.
LEMMA NewTagIsHighest ==
    ASSUME TypeOK, HasLatest(tags), NEW r \in Runs, NEW v \in NewTags(r)
    PROVE  v \in Versions /\ \A w \in Tagged(tags) : w < v
<1>1. v \in Versions /\ v \in Nat
  BY VersionsAssumption DEF NewTags
<1>2. CASE Tagged(tags) = {}
  BY <1>1, <1>2
<1>3. CASE Tagged(tags) # {}
  <2> DEFINE above == CHOOSE w \in Versions : IsLatest(tags, w)
             bump == RequiredBump[tags[above].commit, sha[r]]
  <2>1. IsLatest(tags, above)
    BY <1>3 DEF HasLatest
  <2>2. above \in Tagged(tags) /\ above \in Nat /\ tags[above].commit \in Commits
    BY <2>1, TaggedObject DEF IsLatest, TypeOK
  <2>3. bump \in Bumps
    <3>1. tags[above].commit \in Commits /\ sha[r] \in Commits
      BY <2>2 DEF TypeOK
    <3>2. <<tags[above].commit, sha[r]>> \in Commits \X Commits
      BY <3>1
    <3>3. RequiredBump \in [Commits \X Commits -> Bumps]
      BY WorkflowAssumption, Zenon
    <3> HIDE DEF above
    <3> QED BY <3>2, <3>3
  <2> HIDE DEF above, bump
  <2>4. /\ Required(r).above = above
        /\ Required(r).bump = bump
        /\ Required(r).minimum = Bumped(above, bump)
    BY DEF Required, above, bump
  <2>5. above < v
    BY <1>1, <1>3, <2>2, <2>3, <2>4, BumpRaises DEF NewTags
  <2>6. \A w \in Tagged(tags) : w \in Nat /\ w <= above
    BY <2>1, TaggedObject DEF IsLatest, TypeOK
  <2> QED BY <1>1, <2>2, <2>5, <2>6
<1> QED BY <1>2, <1>3

\* What resolve decides to publish.
LEMMA PublishPlanIsFaithful ==
    ASSUME TypeOK, HasLatest(tags), NEW r \in Runs, NEW v \in NewTags(r)
    PROVE  PublishPlan(r, v) \in Plans /\ FaithfulPlan(PublishPlan(r, v))
<1>1. v \in Versions /\ \A w \in Tagged(tags) : w < v
  BY NewTagIsHighest
<1>2. tags \in Graphs /\ sha[r] \in Commits
  BY DEF TypeOK
<1>3. Previous(tags, v) \in Versions \cup {None}
  BY <1>1, <1>2, PreviousOfHighest, TaggedObject DEF IsPrevious
<1>4. PublishPlan(r, v) \in Plans
  BY <1>1, <1>2, <1>3 DEF PublishPlan, Plans
<1> QED BY <1>1, <1>4 DEF PublishPlan, FaithfulPlan

\* And to recover.
LEMMA RecoveryPlanIsFaithful ==
    ASSUME TypeOK, HasPrevious(tags), NEW v \in Tagged(tags), tags[v].meta \in Metas
    PROVE  RecoveryPlan(v) \in Plans /\ FaithfulPlan(RecoveryPlan(v))
<1>1. tags \in Graphs /\ v \in Versions /\ tags[v].commit \in Commits
  BY TaggedObject DEF TypeOK
<1>2. Previous(tags, v) \in Versions \cup {None}
  <2>1. CASE \E w \in Tagged(tags) : w < v
    <3>1. PICK w \in Tagged(tags) : IsPrevious(tags, w, v)
      BY <2>1 DEF HasPrevious
    <3> QED BY <1>1, <3>1, PreviousIs, TaggedObject
  <2>2. CASE ~\E w \in Tagged(tags) : w < v
    BY <2>2 DEF Previous
  <2> QED BY <2>1, <2>2
<1>3. IsLatest(tags, v) \in BOOLEAN
  BY DEF IsLatest
<1>4. RecoveryPlan(v) \in Plans
  BY <1>1, <1>2, <1>3 DEF RecoveryPlan, Plans
<1>5. FaithfulPlan(RecoveryPlan(v))
  BY DEF RecoveryPlan, FaithfulPlan
<1> QED BY <1>4, <1>5

\* The notes rendered from a plan are ones a tag can bind.
LEMMA NotesType ==
    ASSUME NEW p \in Plans
    PROVE  /\ p.tag \in Versions /\ p.commit \in Commits /\ p.graph \in Graphs
           /\ Render(p.tag, p.commit, p.previous) \in Metas
BY WorkflowAssumption DEF Plans, Render

-----------------------------------------------------------------------------
(* What a step leaves alone *)

\* A run that a step does not move: at most, the one that joins cancels it.
Waits(q) ==
    /\ step'[q] = step[q] /\ plan'[q] = plan[q] /\ sha'[q] = sha[q]
    /\ status'[q] = status[q] \/ status'[q] = "cancelled"

\* Tags that exist stay as they are, and Releases stay.
Kept ==
    /\ \A v \in Tagged(tags) : v \in Tagged(tags') /\ tags'[v] = tags[v]
    /\ \A v \in Versions : releases[v] # None => releases'[v] # None

\* Such a run keeps its invariant when others change nothing it is about to use.
LEMMA WaitingRun ==
    ASSUME Inv, NEW q \in Runs, Waits(q), passed \subseteq passed', Kept,
           UNCHANGED tags \/ status[q] # "running"
    PROVE  RunInv(q)'
<1>1. RunInv(q)
  BY DEF Inv
<1>2. Progressed(q)'
  BY <1>1 DEF RunInv, Progressed, Waits
<1>3. CiWaited(q)'
  BY <1>1 DEF RunInv, CiWaited, Waits
<1>4. step'[q] # "resolve" => FaithfulPlan(plan'[q])
  BY <1>1 DEF RunInv, Waits
<1>5. TagStands(q)'
  <2>1. CASE UNCHANGED tags
    <3>1. TagStands(q)
      BY <1>1 DEF RunInv
    <3>2. step[q] = "latest" /\ releases[plan[q].tag] # None /\ plan[q].tag \in Tagged(tags) =>
              releases'[plan[q].tag] # None
      BY DEF Kept, Tagged
    <3> QED BY <2>1, <3>1, <3>2 DEF TagStands, RenderedNotes, IsLatest, Tagged, Waits
  <2>2. CASE status[q] # "running"
    BY <2>2 DEF TagStands, Waits
  <2> QED BY <2>1, <2>2
<1>6. ASSUME status'[q] = "done", plan'[q] # None
      PROVE  Published(q)'
  <2>1. Published(q) /\ plan'[q] = plan[q]
    BY <1>1, <1>6 DEF RunInv, Waits
  <2>2. plan[q].tag \in Versions /\ releases[plan[q].tag] # None
    BY <2>1, TaggedObject, WorkflowAssumption DEF Published, Inv, TypeOK
  <2> QED BY <2>1, <2>2 DEF Published, Kept
<1> QED BY <1>2, <1>3, <1>4, <1>5, <1>6 DEF RunInv

\* The invariant of the repository is about tags, Releases and the latest one.
LEMMA SameRepository ==
    ASSUME RepositoryInv, UNCHANGED <<tags, releases, latest>>
    PROVE  RepositoryInv' /\ Kept
BY DEF RepositoryInv, HasLatest, IsLatest, HasPrevious, IsPrevious, ReleaseMatchesTag,
       NotesReproducible, HighestReleaseIsLatest, Annotated, Tagged, Kept

\* A step of one run keeps the invariant when it does so for the repository and for
\* that run; only the run in progress may change tags.
LEMMA StepOfRun ==
    ASSUME Inv, NEW r \in Runs,
           TypeOK', OneRunning', RepositoryInv', RunInv(r)',
           passed \subseteq passed', Kept,
           \A q \in Runs \ {r} : Waits(q),
           UNCHANGED tags \/ status[r] = "running"
    PROVE  Inv'
<1>1. ASSUME NEW q \in Runs \ {r}
      PROVE  RunInv(q)'
  <2>1. UNCHANGED tags \/ status[q] # "running"
    BY DEF Inv, OneRunning
  <2> QED BY <2>1, WaitingRun
<1> QED BY <1>1 DEF Inv

\* The concurrency group, when a run joins it: nobody else starts, and the run in
\* progress goes on.
LEMMA JoinIs ==
    ASSUME TypeOK, OneRunning, NEW r \in Runs, status[r] # "running",
           status' = Join(r, status)
    PROVE  /\ status' \in [Runs -> Statuses]
           /\ status'[r] \in {"pending", "running"}
           /\ \A q \in Runs \ {r} : status'[q] = status[q] \/ status'[q] = "cancelled"
           /\ OneRunning'
<1>1. \A q \in Runs \ {r} :
          status'[q] = IF status[q] = "pending" THEN "cancelled" ELSE status[q]
  BY DEF Join
<1>2. /\ status'[r] \in {"pending", "running"}
      /\ status'[r] = "running" => \A q \in Runs \ {r} : status[q] # "running"
  BY DEF Join
<1>3. status' \in [Runs -> Statuses]
  BY DEF Join, TypeOK, Statuses
<1>4. OneRunning'
  BY <1>1, <1>2 DEF OneRunning
<1> QED BY <1>1, <1>2, <1>3, <1>4

-----------------------------------------------------------------------------
(* The steps of GitHub and of maintainers *)

\* A push or a dispatch starts a run that has not planned anything.
LEMMA NewRunStep ==
    ASSUME Inv, NEW r \in Runs, Push(r) \/ Dispatch(r)
    PROVE  Inv'
<1> PICK commit \in Commits, tag \in ManualTags \cup {None} : NewRun(r, commit, tag)
  BY DEF Push, Dispatch, Inv, TypeOK
<1>1. /\ status[r] = "unused" /\ status' = Join(r, status)
      /\ sha' = [sha EXCEPT ![r] = commit]
      /\ manual' = [manual EXCEPT ![r] = tag]
      /\ UNCHANGED <<tags, releases, latest, step, plan>>
  BY DEF NewRun
<1>2. main' \in Commits /\ passed' = passed
  BY DEF Push, Dispatch, Inv, TypeOK
<1>3. /\ status' \in [Runs -> Statuses] /\ status'[r] \in {"pending", "running"}
      /\ \A q \in Runs \ {r} : status'[q] = status[q] \/ status'[q] = "cancelled"
      /\ OneRunning'
  BY <1>1, JoinIs DEF Inv
<1>4. step[r] = "resolve" /\ plan[r] = None
  BY <1>1 DEF Inv, RunInv, Progressed
<1>5. TypeOK'
  <2>1. \A q \in Runs : step[q] # "resolve" => plan[q] \in Plans
    BY DEF Inv, RunInv, Progressed
  <2> QED BY <1>1, <1>2, <1>3, <2>1 DEF Inv, TypeOK
<1>6. RunInv(r)'
  BY <1>1, <1>3, <1>4 DEF RunInv, Progressed, CiWaited, TagStands
<1>7. \A q \in Runs \ {r} : Waits(q)
  BY <1>1, <1>3 DEF Waits, Inv, TypeOK
<1> QED BY <1>1, <1>2, <1>3, <1>5, <1>6, <1>7, SameRepository, StepOfRun DEF Inv

\* A waiting run starts: the tags and Releases it will act on are still to be read.
LEMMA StartStep ==
    ASSUME Inv, NEW r \in Runs, Start(r)
    PROVE  Inv'
<1>1. /\ status[r] = "pending" /\ status' = [status EXCEPT ![r] = "running"]
      /\ \A q \in Runs : status[q] # "running"
      /\ UNCHANGED <<repository, step, sha, manual, plan>>
  BY DEF Start
<1>2. status'[r] = "running" /\ \A q \in Runs \ {r} : status'[q] = status[q]
  BY <1>1 DEF Inv, TypeOK
<1>3. RunInv(r)
  BY DEF Inv
<1>4. TypeOK'
  <2>1. \A q \in Runs : step[q] # "resolve" => plan[q] \in Plans
    BY DEF Inv, RunInv, Progressed
  <2> QED BY <1>1, <2>1 DEF Inv, TypeOK, repository, Statuses
<1>5. OneRunning'
  BY <1>1, <1>2 DEF OneRunning
<1>6. RunInv(r)'
  BY <1>1, <1>2, <1>3 DEF RunInv, Progressed, CiWaited, TagStands, repository
<1>7. \A q \in Runs \ {r} : Waits(q)
  BY <1>1, <1>2 DEF Waits
<1> QED BY <1>1, <1>4, <1>5, <1>6, <1>7, SameRepository, StepOfRun DEF Inv, repository

\* Either way of re-running: what earlier attempts planned is forgotten, or kept with
\* the CI runs it waited for.
LEMMA RerunStep ==
    ASSUME Inv, NEW r \in Runs, RerunAll(r) \/ RerunFailed(r)
    PROVE  Inv'
<1>1. /\ status[r] \in {"failed", "cancelled", "done"} /\ status' = Join(r, status)
      /\ UNCHANGED <<repository, sha, manual>>
  BY DEF RerunAll, RerunFailed
<1>2. /\ status' \in [Runs -> Statuses] /\ status'[r] \in {"pending", "running"}
      /\ \A q \in Runs \ {r} : status'[q] = status[q] \/ status'[q] = "cancelled"
      /\ OneRunning'
  BY <1>1, JoinIs DEF Inv
<1>3. /\ step' \in [Runs -> Steps] /\ plan' \in [Runs -> Plans \cup {None}]
      /\ \A q \in Runs \ {r} : step'[q] = step[q] /\ plan'[q] = plan[q]
  BY DEF RerunAll, RerunFailed, Inv, TypeOK, Steps
<1>4. RunInv(r)
  BY DEF Inv
<1>5. \/ step'[r] = "resolve" /\ plan'[r] = None
      \/ /\ plan'[r] = plan[r]
         /\ step'[r] = IF step[r] \in {"release", "latest"} THEN "tag" ELSE step[r]
  BY DEF RerunAll, RerunFailed, Inv, TypeOK
<1>6. RunInv(r)'
  BY <1>1, <1>2, <1>4, <1>5
     DEF RunInv, Progressed, CiWaited, TagStands, repository
<1>7. TypeOK'
  <2>1. \A q \in Runs : step'[q] # "resolve" => plan'[q] \in Plans
    BY <1>3, <1>6 DEF Inv, RunInv, Progressed
  <2> QED BY <1>1, <1>2, <1>3, <2>1 DEF Inv, TypeOK, repository
<1>8. \A q \in Runs \ {r} : Waits(q)
  BY <1>1, <1>2, <1>3 DEF Waits, repository
<1> QED BY <1>1, <1>2, <1>6, <1>7, <1>8, SameRepository, StepOfRun DEF Inv, repository

\* CI of a commit ends.
LEMMA CiStep ==
    ASSUME Inv, NEW c \in Commits, CiPasses(c)
    PROVE  Inv'
<1>1. /\ passed' = passed \cup {c}
      /\ UNCHANGED <<main, tags, releases, latest, status, step, sha, manual, plan>>
  BY DEF CiPasses
<1>2. TypeOK' /\ OneRunning'
  BY <1>1 DEF Inv, TypeOK, OneRunning
<1>3. RepositoryInv' /\ Kept
  BY <1>1, SameRepository DEF Inv
<1>4. \A q \in Runs : Waits(q)
  BY <1>1 DEF Waits
<1>5. \A q \in Runs : RunInv(q)'
  BY <1>1, <1>3, <1>4, WaitingRun
<1> QED BY <1>2, <1>3, <1>5 DEF Inv

\* Somebody edits a Release: it is still there, and still the Release of a tag.
LEMMA EditStep ==
    ASSUME Inv, NEW v \in Editable, EditRelease(v)
    PROVE  Inv'
<1>1. PICK text \in {Edited, tags[v].meta} : releases' = [releases EXCEPT ![v] = text]
  BY DEF EditRelease
<1>2. /\ releases[v] # None
      /\ UNCHANGED <<main, passed, tags, latest, status, step, sha, manual, plan>>
  BY DEF EditRelease
<1>3. v \in Tagged(tags) /\ v \in Versions
  BY <1>2, WorkflowAssumption DEF Inv, RepositoryInv, ReleaseMatchesTag
<1>4. text \in Metas \cup {Legacy, Edited} /\ text # None
  <2>1. tags[v].meta \in Annotations /\ tags[v].meta # Lightweight
    BY <1>3, TaggedObject DEF Inv, TypeOK, RepositoryInv, Annotated
  <2> QED BY <1>1, <2>1, WorkflowAssumption DEF Annotations
<1>5. /\ releases' \in [Versions -> Metas \cup {Legacy, Edited, None}]
      /\ releases'[v] = text /\ \A w \in Versions : w # v => releases'[w] = releases[w]
  BY <1>1, <1>3, <1>4 DEF Inv, TypeOK
<1>6. TypeOK' /\ OneRunning'
  BY <1>2, <1>5 DEF Inv, TypeOK, OneRunning
<1>7. Kept
  BY <1>2, <1>4, <1>5 DEF Kept, Tagged
<1>8. ReleaseMatchesTag'
  BY <1>1, <1>2, <1>3, <1>5 DEF Inv, RepositoryInv, ReleaseMatchesTag, Tagged
<1>9. HighestReleaseIsLatest'
  BY <1>2, <1>3, <1>5 DEF Inv, RepositoryInv, HighestReleaseIsLatest, IsLatest, Tagged
<1>10. RepositoryInv'
  BY <1>2, <1>8, <1>9
     DEF Inv, RepositoryInv, HasLatest, IsLatest, HasPrevious, IsPrevious, NotesReproducible,
         Annotated, Tagged
<1>11. \A q \in Runs : Waits(q)
  BY <1>2 DEF Waits
<1>12. \A q \in Runs : RunInv(q)'
  BY <1>2, <1>7, <1>11, WaitingRun
<1> QED BY <1>6, <1>10, <1>12 DEF Inv

-----------------------------------------------------------------------------
(* The jobs of a run *)

\* A step of the run in progress after which only that run is somewhere else: what
\* remains to be shown is about that run and, where it changes, the repository.
LEMMA StepInProgress ==
    ASSUME Inv, NEW r \in Runs, status[r] = "running",
           NEW s \in Steps, NEW outcome \in {"running", "failed", "done"},
           step' = [step EXCEPT ![r] = s], status' = [status EXCEPT ![r] = outcome],
           NEW p \in Plans \cup {None}, plan' = [plan EXCEPT ![r] = p],
           UNCHANGED <<main, passed, sha, manual>>,
           tags' \in Graphs, releases' \in [Versions -> Metas \cup {Legacy, Edited, None}],
           latest' \in Versions \cup {None},
           RepositoryInv', Kept, RunInv(r)'
    PROVE  Inv'
<1>1. /\ step'[r] = s /\ status'[r] = outcome /\ plan'[r] = p
      /\ \A q \in Runs \ {r} :
            step'[q] = step[q] /\ status'[q] = status[q] /\ plan'[q] = plan[q]
  BY DEF Inv, TypeOK
<1>2. TypeOK'
  <2>1. \A q \in Runs : step'[q] # "resolve" => plan'[q] \in Plans
    BY <1>1 DEF Inv, RunInv, Progressed
  <2>2. status' \in [Runs -> Statuses] /\ step' \in [Runs -> Steps]
    BY DEF Inv, TypeOK, Statuses
  <2>3. plan' \in [Runs -> Plans \cup {None}]
    BY DEF Inv, TypeOK
  <2> QED BY <2>1, <2>2, <2>3 DEF Inv, TypeOK
<1>3. OneRunning'
  BY <1>1 DEF Inv, OneRunning
<1>4. \A q \in Runs \ {r} : Waits(q)
  BY <1>1 DEF Waits
<1> QED BY <1>2, <1>3, <1>4, StepOfRun

\* The same for a step that leaves the repository alone.
LEMMA QuietStep ==
    ASSUME Inv, NEW r \in Runs, status[r] = "running",
           NEW s \in Steps, NEW outcome \in {"running", "failed", "done"},
           step' = [step EXCEPT ![r] = s], status' = [status EXCEPT ![r] = outcome],
           NEW p \in Plans \cup {None}, plan' = [plan EXCEPT ![r] = p],
           UNCHANGED <<repository, sha, manual>>, RunInv(r)'
    PROVE  Inv'
<1>1. RepositoryInv' /\ Kept
  BY SameRepository DEF Inv, repository
<1> QED BY <1>1, StepInProgress DEF Inv, TypeOK, repository

\* The plan a run makes is faithful to the tags of the moment.
LEMMA ResolveStep ==
    ASSUME Inv, NEW r \in Runs, Resolve(r)
    PROVE  Inv'
<1>1. /\ status[r] = "running" /\ step[r] = "resolve" /\ plan[r] = None
      /\ UNCHANGED <<repository, sha, manual>>
  BY DEF Resolve, At, Inv, RunInv, Progressed
<1>2. TypeOK /\ HasLatest(tags) /\ HasPrevious(tags)
  BY DEF Inv, RepositoryInv
<1>3. ASSUME NEW p \in Plans, FaithfulPlan(p), plan' = [plan EXCEPT ![r] = p], Goto(r, "ci")
      PROVE  Inv'
  <2>1. /\ step' = [step EXCEPT ![r] = "ci"] /\ status' = [status EXCEPT ![r] = "running"]
        /\ step'[r] = "ci" /\ status'[r] = "running" /\ plan'[r] = p
    BY <1>1, <1>2, <1>3 DEF Goto, TypeOK
  <2>2. RunInv(r)'
    BY <1>3, <2>1 DEF RunInv, Progressed, CiWaited, TagStands
  <2> QED BY <1>1, <1>3, <2>1, <2>2, QuietStep DEF Steps
<1>4. CASE \E v \in Recovered(r) : tags[v].meta \in Metas
                /\ plan' = [plan EXCEPT ![r] = RecoveryPlan(v)] /\ Goto(r, "ci")
  <2> PICK v \in Recovered(r) : tags[v].meta \in Metas
                /\ plan' = [plan EXCEPT ![r] = RecoveryPlan(v)] /\ Goto(r, "ci")
    BY <1>4
  <2>1. v \in Tagged(tags)
    BY DEF Recovered
  <2> QED BY <1>2, <1>3, <2>1, RecoveryPlanIsFaithful
<1>5. CASE (\E v \in NewTags(r) : plan' = [plan EXCEPT ![r] = PublishPlan(r, v)])
            /\ Goto(r, "ci")
  BY <1>2, <1>3, <1>5, PublishPlanIsFaithful
<1>6. CASE Finish(r, "done") /\ UNCHANGED plan
  <2>1. /\ step' = [step EXCEPT ![r] = "resolve"] /\ status' = [status EXCEPT ![r] = "done"]
        /\ plan' = [plan EXCEPT ![r] = None]
        /\ step'[r] = "resolve" /\ status'[r] = "done" /\ plan'[r] = None
    BY <1>1, <1>2, <1>6 DEF Finish, TypeOK
  <2>2. RunInv(r)'
    BY <2>1 DEF RunInv, Progressed, CiWaited, TagStands
  <2> QED BY <1>1, <2>1, <2>2, QuietStep DEF Steps
<1> QED BY <1>4, <1>5, <1>6 DEF Resolve

\* The wait for CI, and the notes.
LEMMA PreparationStep ==
    ASSUME Inv, NEW r \in Runs, WaitForCi(r) \/ GenerateNotes(r)
    PROVE  Inv'
<1> DEFINE s == IF step[r] = "ci" THEN "notes" ELSE "tag"
<1>1. /\ status[r] = "running" /\ step[r] \in {"ci", "notes"}
      /\ step[r] = "ci" => {sha[r], plan[r].commit} \subseteq passed
      /\ Goto(r, s) /\ UNCHANGED <<repository, sha, manual, plan>>
  BY DEF WaitForCi, CiSucceeded, GenerateNotes, At
<1>2. /\ step' = [step EXCEPT ![r] = s] /\ status' = [status EXCEPT ![r] = "running"]
      /\ plan' = [plan EXCEPT ![r] = plan[r]]
      /\ step'[r] = s /\ status'[r] = "running" /\ plan'[r] = plan[r] /\ plan[r] \in Plans
  BY <1>1 DEF Goto, Inv, TypeOK
<1>3. RunInv(r)
  BY DEF Inv
<1>4. RunInv(r)'
  BY <1>1, <1>2, <1>3 DEF RunInv, Progressed, CiWaited, TagStands, repository
<1> QED BY <1>1, <1>2, <1>4, QuietStep DEF Steps

\* A run that fails keeps where it was.
LEMMA FailureStep ==
    ASSUME Inv, NEW r \in Runs, CheckFails(r) \/ Interrupted(r)
    PROVE  Inv'
<1>1. /\ status[r] = "running" /\ Finish(r, "failed")
      /\ UNCHANGED <<repository, sha, manual, plan>>
  BY DEF CheckFails, Interrupted, At
<1>2. /\ step' = [step EXCEPT ![r] = step[r]] /\ status' = [status EXCEPT ![r] = "failed"]
      /\ plan' = [plan EXCEPT ![r] = plan[r]]
      /\ step'[r] = step[r] /\ status'[r] = "failed" /\ plan'[r] = plan[r]
      /\ plan[r] \in Plans \cup {None} /\ step[r] \in Steps
  BY <1>1 DEF Finish, Inv, TypeOK
<1>3. RunInv(r)
  BY DEF Inv
<1>4. RunInv(r)'
  BY <1>1, <1>2, <1>3 DEF RunInv, Progressed, CiWaited, TagStands, repository
<1> QED BY <1>1, <1>2, <1>4, QuietStep

\* What a run that tags, publishes or verifies works from.
LEMMA PlanAtWork ==
    ASSUME Inv, NEW r \in Runs, step[r] \in {"tag", "release", "latest"}
    PROVE  /\ plan[r] \in Plans /\ FaithfulPlan(plan[r]) /\ RunInv(r)
           /\ plan[r].tag \in Versions /\ plan[r].commit \in Commits
           /\ plan[r].graph \in Graphs
           /\ RenderedNotes(r) \in Metas
           /\ {sha[r], plan[r].commit} \subseteq passed
<1>1. RunInv(r)
  BY DEF Inv
<1>2. plan[r] \in Plans /\ FaithfulPlan(plan[r]) /\ {sha[r], plan[r].commit} \subseteq passed
  BY <1>1 DEF RunInv, Progressed, CiWaited
<1> QED BY <1>1, <1>2, NotesType DEF RenderedNotes

\* An existing tag that agrees with the plan is the latest one exactly when the plan
\* says so, although the plan may be older than the tag.
LEMMA AgreedTagStands ==
    ASSUME Inv, NEW r \in Runs, step[r] = "tag", TagAgrees(r)
    PROVE  plan[r].makeLatest <=> IsLatest(tags, plan[r].tag)
<1> DEFINE p == plan[r]
           v == plan[r].tag
<1>1. /\ FaithfulPlan(p) /\ p \in Plans /\ v \in Versions /\ tags \in Graphs
      /\ v \in Tagged(tags) /\ p.graph \in {tags, WithoutTag(tags, v)}
  BY PlanAtWork DEF TagAgrees, Inv, TypeOK
<1>2. p.graph = WithoutTag(tags, v) => v \notin Tagged(p.graph)
  BY <1>1 DEF WithoutTag, Tagged, Graphs
<1>3. \A w \in Tagged(tags) : w # v => w \in Tagged(p.graph)
  BY <1>1 DEF WithoutTag, Tagged, Graphs
<1>4. CASE p.operation = "recover"
  <2>1. v \in Tagged(p.graph) /\ (p.makeLatest <=> IsLatest(p.graph, v))
    BY <1>1, <1>4 DEF FaithfulPlan
  <2>2. p.graph = tags
    BY <1>1, <1>2, <2>1
  <2> QED BY <2>1, <2>2
<1>5. CASE p.operation = "publish"
  <2>1. p.makeLatest /\ \A w \in Tagged(p.graph) : w < v
    BY <1>1, <1>5 DEF FaithfulPlan
  <2>2. v \in Nat /\ \A w \in Tagged(tags) : w \in Nat
    BY <1>1, TaggedObject
  <2>3. IsLatest(tags, v)
    BY <1>1, <1>3, <2>1, <2>2 DEF IsLatest
  <2> QED BY <2>1, <2>3
<1>6. p.operation \in {"publish", "recover"}
  BY <1>1 DEF Plans
<1> QED BY <1>4, <1>5, <1>6

\* The object a run would tag.
NewObject(r) == [commit |-> plan[r].commit, meta |-> RenderedNotes(r), tagger |-> "app"]

\* A tag is created above all others, from a plan made on these very tags.
LEMMA CreatedTag ==
    ASSUME Inv, NEW r \in Runs, step[r] = "tag", MayCreateTag(r),
           tags' = WithTag(tags, plan[r].tag, NewObject(r)),
           UNCHANGED <<releases, latest>>
    PROVE  /\ NewObject(r) \in Objects
           /\ tags' \in Graphs /\ tags'[plan[r].tag] = NewObject(r)
           /\ IsLatest(tags', plan[r].tag) /\ plan[r].makeLatest
           /\ RepositoryInv' /\ Kept
<1> DEFINE p == plan[r]
           v == plan[r].tag
<1>1. /\ FaithfulPlan(p) /\ p \in Plans /\ v \in Versions /\ tags \in Graphs
      /\ RenderedNotes(r) \in Metas /\ p.commit \in Commits
  BY PlanAtWork DEF Inv, TypeOK
<1>2. /\ v \notin Tagged(tags) /\ p.graph = tags
      /\ \A w \in Tagged(tags) : w < v
  BY DEF MayCreateTag
<1>3. RepositoryInv
  BY DEF Inv
<1>4. NewObject(r) \in Objects
  BY <1>1, WorkflowAssumption DEF NewObject, Objects, Annotations
<1>5. NewObject(r).meta = Render(v, NewObject(r).commit, Previous(tags, v))
  BY <1>1, <1>2 DEF NewObject, RenderedNotes, FaithfulPlan
<1>6. Reproduced(tags)
  BY <1>1, <1>3, PredecessorIsPrevious DEF RepositoryInv
<1>7. /\ tags' \in Graphs
      /\ Tagged(tags') = Tagged(tags) \cup {v}
      /\ tags'[v] = NewObject(r) /\ \A w \in Tagged(tags) : tags'[w] = tags[w]
      /\ IsLatest(tags', v) /\ HasLatest(tags') /\ HasPrevious(tags') /\ Reproduced(tags')
  BY <1>1, <1>2, <1>3, <1>4, <1>5, <1>6, AddHighest DEF RepositoryInv
<1>8. NotesReproducible'
  <2>1. \A w \in Tagged(tags') :
            tags'[w].meta \in Metas =>
                tags'[w].meta = Render(w, tags'[w].commit, Previous(tags', w))
    BY <1>7 DEF Reproduced
  <2>2. ASSUME NEW w \in Tagged(tags')
        PROVE  Previous(tags', w) =
                   IF \E x \in Tagged(tags') : x < w
                   THEN CHOOSE x \in Tagged(tags') :
                           x < w /\ \A u \in Tagged(tags') : u >= w \/ u <= x
                   ELSE None
    BY <1>7, PredecessorOf
  <2> QED BY <2>1, <2>2 DEF NotesReproducible
<1>9. releases[v] = None
  BY <1>1, <1>2, <1>3 DEF RepositoryInv, ReleaseMatchesTag
<1>10. ReleaseMatchesTag' /\ HighestReleaseIsLatest'
  <2>1. ReleaseMatchesTag'
    BY <1>3, <1>7 DEF RepositoryInv, ReleaseMatchesTag
  <2>2. \A w \in Versions : IsLatest(tags', w) => w = v
    BY <1>7, TaggedObject DEF IsLatest
  <2> QED BY <1>9, <2>1, <2>2 DEF HighestReleaseIsLatest
<1>11. Kept
  BY <1>7 DEF Kept
<1>12. p.makeLatest
  <2>1. p.operation = "publish"
    BY <1>1, <1>2 DEF Plans, FaithfulPlan
  <2> QED BY <1>1, <2>1 DEF FaithfulPlan
<1>13. Annotated(tags')
  BY <1>1, <1>3, <1>7, TagAssumption DEF RepositoryInv, Annotated, NewObject
<1> QED BY <1>3, <1>4, <1>7, <1>8, <1>10, <1>11, <1>12, <1>13 DEF RepositoryInv

\* The tag step.
LEMMA ReconcileStep ==
    ASSUME Inv, NEW r \in Runs, ReconcileTag(r)
    PROVE  Inv'
<1>1. /\ status[r] = "running" /\ step[r] = "tag" /\ Goto(r, "release")
      /\ UNCHANGED <<main, passed, releases, latest, sha, manual, plan>>
  BY DEF ReconcileTag, At
<1>2. /\ step' = [step EXCEPT ![r] = "release"] /\ status' = [status EXCEPT ![r] = "running"]
      /\ plan' = [plan EXCEPT ![r] = plan[r]]
      /\ step'[r] = "release" /\ status'[r] = "running" /\ plan'[r] = plan[r]
  BY <1>1 DEF Goto, Inv, TypeOK
<1>3. /\ plan[r] \in Plans /\ FaithfulPlan(plan[r])
      /\ {sha[r], plan[r].commit} \subseteq passed
  BY <1>1, PlanAtWork
<1> DEFINE v == plan[r].tag
<1>4. /\ tags' \in Graphs /\ RepositoryInv' /\ Kept
      /\ v \in Tagged(tags') /\ tags'[v].commit = plan[r].commit
      /\ tags'[v].meta = RenderedNotes(r)
      /\ plan[r].makeLatest <=> IsLatest(tags', v)
  <2>1. CASE TagAgrees(r) /\ UNCHANGED tags
    <3>1. plan[r].makeLatest <=> IsLatest(tags, v)
      BY <1>1, <2>1, AgreedTagStands
    <3>2. IsLatest(tags', v) <=> IsLatest(tags, v)
      BY <2>1
    <3> QED BY <1>1, <2>1, <3>1, <3>2, SameRepository DEF TagAgrees, Inv, TypeOK
  <2>2. CASE MayCreateTag(r) /\ tags' = WithTag(tags, v, NewObject(r))
    <3>1. /\ tags' \in Graphs /\ tags'[v] = NewObject(r) /\ IsLatest(tags', v)
          /\ plan[r].makeLatest /\ RepositoryInv' /\ Kept
      BY <1>1, <2>2, CreatedTag
    <3> QED BY <3>1 DEF NewObject, IsLatest
  <2> QED BY <2>1, <2>2 DEF ReconcileTag, NewObject
<1>5. RunInv(r)'
  <2>1. TagStands(r)'
    BY <1>2, <1>4 DEF TagStands, RenderedNotes
  <2> QED BY <1>1, <1>2, <1>3, <2>1 DEF RunInv, Progressed, CiWaited
<1> QED BY <1>1, <1>2, <1>3, <1>4, <1>5, StepInProgress DEF Steps, Inv, TypeOK

\* The GitHub Release of an agreed tag is created.
LEMMA CreateReleaseStep ==
    ASSUME Inv, NEW r \in Runs, CreateRelease(r)
    PROVE  Inv'
<1> DEFINE v == plan[r].tag
<1>1. /\ status[r] = "running" /\ step[r] = "release" /\ releases[v] = None
      /\ releases' = [releases EXCEPT ![v] = RenderedNotes(r)]
      /\ latest' = IF plan[r].makeLatest THEN v ELSE latest
      /\ UNCHANGED <<main, passed, tags, status, step, sha, manual, plan>>
  BY DEF CreateRelease, At
<1>2. /\ step' = [step EXCEPT ![r] = "release"] /\ status' = [status EXCEPT ![r] = "running"]
      /\ plan' = [plan EXCEPT ![r] = plan[r]]
  BY <1>1 DEF Inv, TypeOK
<1>3. /\ plan[r] \in Plans /\ FaithfulPlan(plan[r]) /\ v \in Versions
      /\ RenderedNotes(r) \in Metas /\ {sha[r], plan[r].commit} \subseteq passed
  BY <1>1, PlanAtWork
<1>4. /\ v \in Tagged(tags) /\ tags[v].commit = plan[r].commit
      /\ tags[v].meta = RenderedNotes(r)
      /\ plan[r].makeLatest <=> IsLatest(tags, v)
  BY <1>1 DEF Inv, RunInv, TagStands
<1>5. /\ releases' \in [Versions -> Metas \cup {Legacy, Edited, None}]
      /\ releases'[v] = RenderedNotes(r)
      /\ \A w \in Versions : w # v => releases'[w] = releases[w]
      /\ latest' \in Versions \cup {None}
  BY <1>1, <1>3 DEF Inv, TypeOK
<1>6. Kept
  BY <1>1, <1>5 DEF Kept
<1>7. ReleaseMatchesTag'
  BY <1>1, <1>3, <1>4, <1>5 DEF Inv, RepositoryInv, ReleaseMatchesTag, Tagged
<1>8. latest' # None => latest' \in Tagged(tags')
  BY <1>1, <1>4 DEF Inv, RepositoryInv
<1>9. HighestReleaseIsLatest'
  <2> SUFFICES ASSUME NEW w \in Versions, IsLatest(tags, w), releases'[w] # None
               PROVE  latest' = w
    BY <1>1 DEF HighestReleaseIsLatest
  <2>1. CASE w = v
    BY <1>1, <1>4, <2>1
  <2>2. CASE w # v
    <3>1. ~IsLatest(tags, v)
      BY <2>2, TaggedObject DEF IsLatest, Inv, TypeOK
    <3> QED BY <1>1, <1>4, <1>5, <2>2, <3>1 DEF Inv, RepositoryInv, HighestReleaseIsLatest
  <2> QED BY <2>1, <2>2
<1>10. RepositoryInv'
  BY <1>1, <1>7, <1>8, <1>9 DEF Inv, RepositoryInv, NotesReproducible
<1>11. RunInv(r)'
  <2>1. TagStands(r)'
    BY <1>1, <1>4 DEF TagStands, RenderedNotes
  <2> QED BY <1>1, <1>3, <2>1 DEF RunInv, Progressed, CiWaited
<1> QED BY <1>1, <1>2, <1>3, <1>5, <1>6, <1>10, <1>11, StepInProgress DEF Steps, Inv, TypeOK

\* And verified, whoever created it.
LEMMA VerifyReleaseStep ==
    ASSUME Inv, NEW r \in Runs, VerifyRelease(r)
    PROVE  Inv'
<1>1. /\ status[r] = "running" /\ step[r] = "release" /\ Goto(r, "latest")
      /\ releases[plan[r].tag] = RenderedNotes(r)
      /\ UNCHANGED <<repository, sha, manual, plan>>
  BY DEF VerifyRelease, ReleaseAgrees, At
<1>2. /\ step' = [step EXCEPT ![r] = "latest"] /\ status' = [status EXCEPT ![r] = "running"]
      /\ plan' = [plan EXCEPT ![r] = plan[r]]
      /\ step'[r] = "latest" /\ status'[r] = "running" /\ plan'[r] = plan[r]
  BY <1>1 DEF Goto, Inv, TypeOK
<1>3. /\ plan[r] \in Plans /\ FaithfulPlan(plan[r]) /\ RunInv(r)
      /\ RenderedNotes(r) \in Metas /\ {sha[r], plan[r].commit} \subseteq passed
  BY <1>1, PlanAtWork
<1>4. releases[plan[r].tag] # None
  BY <1>1, <1>3, WorkflowAssumption DEF Annotations
<1>5. RunInv(r)'
  <2>1. TagStands(r)'
    BY <1>1, <1>2, <1>3, <1>4 DEF RunInv, TagStands, RenderedNotes, repository, IsLatest
  <2> QED BY <1>1, <1>2, <1>3, <2>1 DEF RunInv, Progressed, CiWaited, repository
<1> QED BY <1>1, <1>2, <1>3, <1>5, QuietStep DEF Steps

\* The run ends, with its release on the repository.
LEMMA VerifyStep ==
    ASSUME Inv, NEW r \in Runs, VerifyLatest(r)
    PROVE  Inv'
<1>1. /\ status[r] = "running" /\ step[r] = "latest" /\ Finish(r, "done")
      /\ UNCHANGED <<repository, sha, manual, plan>>
  BY DEF VerifyLatest, At
<1>2. /\ step' = [step EXCEPT ![r] = "latest"] /\ status' = [status EXCEPT ![r] = "done"]
      /\ plan' = [plan EXCEPT ![r] = plan[r]]
      /\ step'[r] = "latest" /\ status'[r] = "done" /\ plan'[r] = plan[r]
  BY <1>1 DEF Finish, Inv, TypeOK
<1>3. /\ plan[r] \in Plans /\ FaithfulPlan(plan[r])
      /\ {sha[r], plan[r].commit} \subseteq passed
  BY <1>1, PlanAtWork
<1>4. Published(r)
  BY <1>1 DEF Inv, RunInv, TagStands, Published
<1>5. RunInv(r)'
  <2>1. Published(r)'
    BY <1>1, <1>4 DEF Published, repository, Tagged
  <2> QED BY <1>1, <1>2, <1>3, <2>1
             DEF RunInv, Progressed, CiWaited, TagStands, repository
<1> QED BY <1>1, <1>2, <1>3, <1>5, QuietStep DEF Steps

-----------------------------------------------------------------------------
(* The inductive invariant *)

\* The first release, or none, is what it starts from.
LEMMA InitInv == Init => Inv
<1> SUFFICES ASSUME Init PROVE Inv
  OBVIOUS
<1>1. tags = InitialTags /\ tags \in Graphs /\ 0 \in Commits
  BY WorkflowAssumption DEF Init
<1>2. \A v \in Tagged(tags) : v \in Nat /\ IsAncestor(tags[v].commit, 0) /\ tags[v].commit \in Commits
  BY <1>1, WorkflowAssumption, TaggedObject DEF ValidAt
<1>3. \A v, w \in Tagged(tags) : v = w
  <2>1. \A v \in Tagged(tags) : tags[v].commit = 0
    <3>1. \A c \in Commits : c \in Nat /\ (IsAncestor(c, 0) <=> c <= 0)
      BY <1>1, WorkflowAssumption, Zenon
    <3>2. \A c \in Commits : IsAncestor(c, 0) => c = 0
      BY <3>1
    <3> QED BY <1>2, <3>2
  <2>2. \A v, w \in Tagged(tags) : ~(v < w)
    BY <1>1, <2>1, WorkflowAssumption DEF ValidAt, Ordered
  <2> QED BY <1>2, <2>2
<1>4. \A v \in Tagged(tags) : IsLatest(tags, v) /\ v \in Versions
  BY <1>1, <1>2, <1>3, TaggedObject DEF IsLatest
<1>5. \A v \in Tagged(tags) : ~\E w \in Tagged(tags) : w < v
  BY <1>2, <1>3
<1>6. HasLatest(tags) /\ HasPrevious(tags)
  BY <1>4, <1>5 DEF HasLatest, HasPrevious
<1>7. /\ releases = [v \in Versions |-> IF v \in Tagged(tags) THEN tags[v].meta ELSE None]
      /\ \A v \in Tagged(tags) : tags[v].meta \in Metas \cup {Legacy}
  <2>1. \A v \in Tagged(tags) : tags[v].meta \in Annotations /\ tags[v].meta # Lightweight
    BY <1>1, WorkflowAssumption, TaggedObject DEF ValidAt, Annotated
  <2> QED BY <2>1 DEF Init, Annotations
<1>8. ReleaseMatchesTag
  BY <1>7 DEF ReleaseMatchesTag
<1>9. NotesReproducible
  <2>1. Reproduced(tags)
    BY <1>1, <1>5, InitialNotesAssumption DEF Reproduced, Render, Previous
  <2> QED BY <1>1, <1>6, <2>1, PredecessorIsPrevious
<1>10. latest # None => latest \in Tagged(tags)
  BY <1>4 DEF Init, IsLatest
<1>11. HighestReleaseIsLatest
  <2> SUFFICES ASSUME NEW v \in Versions, IsLatest(tags, v) PROVE latest = v
    BY DEF HighestReleaseIsLatest
  <2>1. latest = CHOOSE w \in Versions : IsLatest(tags, w)
    BY DEF Init
  <2>2. IsLatest(tags, latest)
    BY <2>1
  <2> QED BY <1>3, <2>2 DEF IsLatest
<1>12. TypeOK
  <2>1. releases \in [Versions -> Metas \cup {Legacy, Edited, None}]
    BY <1>7
  <2>2. latest \in Versions \cup {None}
    BY <1>4, <1>10
  <2> QED BY <1>1, <2>1, <2>2 DEF Init, TypeOK, Statuses, Steps
<1>13. \A r \in Runs : RunInv(r)
  BY DEF Init, RunInv, Progressed, CiWaited, TagStands
<1>14. OneRunning
  BY DEF Init, OneRunning
<1>15. Annotated(tags)
  BY <1>1, WorkflowAssumption DEF ValidAt
<1> QED BY <1>6, <1>8, <1>9, <1>10, <1>11, <1>12, <1>13, <1>14, <1>15 DEF Inv, RepositoryInv

\* Every step keeps it.
LEMMA StepInv == Inv /\ [Next]_vars => Inv'
<1> SUFFICES ASSUME Inv, [Next]_vars PROVE Inv'
  OBVIOUS
<1>1. CASE UNCHANGED vars
  <2>1. RepositoryInv' /\ Kept
    BY <1>1, SameRepository DEF vars, Inv
  <2>2. \A r \in Runs : RunInv(r)'
    BY <1>1, <2>1, WaitingRun DEF vars, Waits
  <2> QED BY <1>1, <2>1, <2>2 DEF vars, Inv, TypeOK, OneRunning
<1>2. ASSUME NEW c \in Commits, CiPasses(c) PROVE Inv'
  BY <1>2, CiStep
<1>3. ASSUME NEW r \in Runs,
             Push(r) \/ Dispatch(r) \/ RerunAll(r) \/ RerunFailed(r) \/ Start(r)
      PROVE  Inv'
  BY <1>3, NewRunStep, RerunStep, StartStep
<1>4. ASSUME NEW r \in Runs, RunStep(r) \/ Interrupted(r) PROVE Inv'
  BY <1>4, ResolveStep, PreparationStep, ReconcileStep, CreateReleaseStep,
     VerifyReleaseStep, VerifyStep, FailureStep DEF RunStep
<1>5. ASSUME NEW v \in Editable, EditRelease(v) PROVE Inv'
  BY <1>5, EditStep
<1> QED BY <1>1, <1>2, <1>3, <1>4, <1>5 DEF Next

\* It holds for any number of runs, however they are started, re-run and interrupted.
THEOREM Invariance == Spec => []Inv
BY InitInv, StepInv, PTL DEF Spec

\* No plan, tag or Release leaves its type.
THEOREM TypeCorrect == Spec => []TypeOK
<1>1. Inv => TypeOK
  BY DEF Inv
<1> QED BY <1>1, Invariance, PTL

\* The highest released tag is the latest release, whatever older releases are recovered.
THEOREM HighestStaysLatest == Spec => []HighestReleaseIsLatest
<1>1. Inv => HighestReleaseIsLatest
  BY DEF Inv, RepositoryInv
<1> QED BY <1>1, Invariance, PTL

\* Tags, Releases and the reports of runs agree.
THEOREM ReleasesAgree == Spec => []ReleasesAgreeWithTags
<1>1. Inv => ReleasesAgreeWithTags
  <2>1. Inv => DoneMeansPublished
    BY DEF Inv, RunInv, Published, DoneMeansPublished
  <2> QED BY <2>1 DEF Inv, RepositoryInv, ReleasesAgreeWithTags
<1> QED BY <1>1, Invariance, PTL

\* The job that publishes works on commits that passed CI, in every attempt.
THEOREM CiPassedFirst == Spec => []PublishedAfterCi
<1>1. Inv => PublishedAfterCi
  BY DEF Inv, RunInv, CiWaited, PublishedAfterCi, At
<1> QED BY <1>1, Invariance, PTL

-----------------------------------------------------------------------------
(* What a step may do *)

\* Only CreateRelease changes the latest release, only ReconcileTag a tag.
LEMMA WhoPublishes ==
    ASSUME [Next]_vars
    PROVE  /\ latest' # latest => \E r \in Runs : CreateRelease(r)
           /\ tags' # tags => \E r \in Runs : ReconcileTag(r)
BY DEF Next, vars, repository, Push, Dispatch, NewRun, RerunAll, RerunFailed, Start, CiPasses,
       RunStep, Resolve, WaitForCi, GenerateNotes, ReconcileTag, CreateRelease, VerifyRelease,
       VerifyLatest, CheckFails, Interrupted, EditRelease

\* A run that finishes late does not take "latest" from a newer release.
THEOREM LatestOnlyGrows == Spec => LatestNeverGoesBack
<1>1. Inv /\ [Next]_vars => [latest' # latest => latest = None \/ latest' > latest]_vars
  <2> SUFFICES ASSUME Inv, [Next]_vars, latest' # latest, latest # None
               PROVE  latest' > latest
    OBVIOUS
  <2>1. PICK r \in Runs : CreateRelease(r)
    BY WhoPublishes
  <2>2. plan[r].makeLatest /\ latest' = plan[r].tag
    BY <2>1 DEF CreateRelease
  <2>3. IsLatest(tags, plan[r].tag)
    BY <2>1, <2>2 DEF CreateRelease, At, Inv, RunInv, TagStands
  <2>4. latest \in Tagged(tags)
    BY DEF Inv, RepositoryInv
  <2>5. latest <= plan[r].tag /\ latest \in Nat /\ plan[r].tag \in Nat
    BY <2>3, <2>4, TaggedObject DEF IsLatest, Inv, TypeOK
  <2> QED BY <2>2, <2>5
<1> QED BY <1>1, Invariance, PTL DEF Spec, LatestNeverGoesBack

\* Only the check of its Release takes a run past it.
LEMMA WhoVerifies ==
    ASSUME Inv, [Next]_vars, NEW r \in Runs, At(r, "release"), step'[r] = "latest"
    PROVE  VerifyRelease(r)
<1>1. step[r] # step'[r] /\ status[r] = "running" /\ step[r] = "release"
  BY DEF At
<1>2. CASE UNCHANGED vars
  BY <1>1, <1>2 DEF vars
<1>3. ASSUME NEW c \in Commits, CiPasses(c) PROVE VerifyRelease(r)
  BY <1>1, <1>3 DEF CiPasses
<1>4. ASSUME NEW v \in Editable, EditRelease(v) PROVE VerifyRelease(r)
  BY <1>1, <1>4 DEF EditRelease
<1>5. ASSUME NEW q \in Runs, Push(q) \/ Dispatch(q) \/ Start(q) \/ Interrupted(q) \/ CheckFails(q)
      PROVE  VerifyRelease(r)
  BY <1>1, <1>5 DEF Push, Dispatch, NewRun, Start, Interrupted, CheckFails, Finish
<1>6. ASSUME NEW q \in Runs, RerunAll(q) \/ RerunFailed(q) PROVE VerifyRelease(r)
  BY <1>1, <1>6 DEF RerunAll, RerunFailed, Inv, TypeOK
<1>7. ASSUME NEW q \in Runs, Resolve(q) \/ WaitForCi(q) \/ GenerateNotes(q) \/ ReconcileTag(q)
      PROVE  VerifyRelease(r)
  BY <1>1, <1>7
     DEF Resolve, WaitForCi, GenerateNotes, ReconcileTag, Goto, Finish, At, Inv, TypeOK
<1>8. ASSUME NEW q \in Runs, CreateRelease(q) \/ VerifyLatest(q) PROVE VerifyRelease(r)
  BY <1>1, <1>8 DEF CreateRelease, VerifyLatest, Finish
<1>9. ASSUME NEW q \in Runs, VerifyRelease(q) PROVE VerifyRelease(r)
  <2>1. q = r
    BY <1>1, <1>9 DEF VerifyRelease, At, Inv, OneRunning
  <2> QED BY <1>9, <2>1
<1> QED BY <1>2, <1>3, <1>4, <1>5, <1>6, <1>7, <1>8, <1>9 DEF Next, RunStep

\* Whatever was edited between attempts or since its creation, a run gets past its Release
\* only when that one shows what the tag binds.
THEOREM VerificationIsOfTheTag == Spec => VerifiedAsBound
<1>1. Inv /\ [Next]_vars =>
          [\A r \in Runs :
              At(r, "release") /\ step'[r] = "latest" =>
                  releases'[plan[r].tag] = tags'[plan[r].tag].meta]_vars
  <2> SUFFICES ASSUME Inv, [Next]_vars, NEW r \in Runs, At(r, "release"), step'[r] = "latest"
               PROVE  releases'[plan[r].tag] = tags'[plan[r].tag].meta
    OBVIOUS
  <2>1. releases[plan[r].tag] = RenderedNotes(r) /\ UNCHANGED <<releases, tags>>
    BY WhoVerifies DEF VerifyRelease, ReleaseAgrees, repository
  <2>2. tags[plan[r].tag].meta = RenderedNotes(r)
    BY DEF At, Inv, RunInv, TagStands
  <2> QED BY <2>1, <2>2
<1> QED BY <1>1, Invariance, PTL DEF Spec, VerifiedAsBound

\* Release publication implements the registry its readers are promised, the tag step
\* being the only one they see.
THEOREM Refinement == Spec => Registry!Spec
<1>1. Init => Registry!Init
  BY DEF Init, Registry!Init
<1>2. Inv /\ [Next]_vars => [Registry!Append]_tags
  <2> SUFFICES ASSUME Inv, [Next]_vars, tags' # tags PROVE Registry!Append
    OBVIOUS
  <2>1. PICK r \in Runs : ReconcileTag(r)
    BY WhoPublishes
  <2>2. /\ step[r] = "tag" /\ MayCreateTag(r)
        /\ tags' = WithTag(tags, plan[r].tag, NewObject(r))
        /\ UNCHANGED <<releases, latest>>
    BY <2>1 DEF ReconcileTag, At, NewObject
  <2>3. NewObject(r) \in Objects /\ plan[r].tag \in Versions /\ RenderedNotes(r) \in Metas
    BY <2>2, CreatedTag, PlanAtWork
  <2>4. Registry!MayAppend(plan[r].tag, NewObject(r))
    BY <2>2, <2>3 DEF MayCreateTag, NewObject, Registry!MayAppend, Registry!Tagged,
       Registry!IsAncestor, Tagged, IsAncestor
  <2> QED BY <2>2, <2>3, <2>4 DEF Registry!Append, Registry!WithTag, WithTag,
             Registry!Objects, Objects, Registry!Annotations, Annotations
<1> QED BY <1>1, <1>2, Invariance, PTL DEF Spec, Registry!Spec

-----------------------------------------------------------------------------
(* The tag service as the runs use it *)

\* What the service shows of a run: nothing before it has planned, a request from then on.
LEMMA ServiceViews ==
    ASSUME NEW r \in Runs
    PROVE  /\ step[r] = "resolve" => ServiceCall[r] = "none" /\ ServicePlan[r] = None
           /\ step[r] \in {"release", "latest"} => ServiceCall[r] = "published"
           /\ step[r] \in {"ci", "notes", "tag"} =>
                 ServiceCall[r] = IF status[r] = "running" THEN "open" ELSE "closed"
           /\ step[r] # "resolve" =>
                 ServicePlan[r] = [tag |-> plan[r].tag, commit |-> plan[r].commit,
                                   meta |-> RenderedNotes(r), graph |-> plan[r].graph]
BY DEF ServiceCall, ServicePlan

\* The other runs stay where they are, and none of them starts or stops.
MovesAlone(r) ==
    \A q \in Runs \ {r} :
        /\ step'[q] = step[q] /\ plan'[q] = plan[q]
        /\ (status'[q] = "running") <=> (status[q] = "running")

\* So the service shows the same of every other run.
LEMMA ServiceFrame ==
    ASSUME NEW r \in Runs, MovesAlone(r)
    PROVE  /\ ServiceCall' = [ServiceCall EXCEPT ![r] = ServiceCall'[r]]
           /\ ServicePlan' = [ServicePlan EXCEPT ![r] = ServicePlan'[r]]
<1>1. \A q \in Runs \ {r} : ServiceCall'[q] = ServiceCall[q] /\ ServicePlan'[q] = ServicePlan[q]
  BY DEF MovesAlone, ServiceCall, ServicePlan, RenderedNotes
<1>2. /\ ServiceCall = [q \in Runs |-> ServiceCall[q]]
      /\ ServicePlan = [q \in Runs |-> ServicePlan[q]]
      /\ ServiceCall' = [q \in Runs |-> ServiceCall'[q]]
      /\ ServicePlan' = [q \in Runs |-> ServicePlan'[q]]
  BY DEF ServiceCall, ServicePlan
<1> QED BY <1>1, <1>2

\* A request that is kept, for a run that becomes known to the service as something else.
Becomes(r, outcome) ==
    /\ ServiceCall' = [ServiceCall EXCEPT ![r] = outcome]
    /\ UNCHANGED ServicePlan

\* A run that goes on with its plan.
LEMMA ServiceKeeps ==
    ASSUME NEW r \in Runs, MovesAlone(r), step[r] # "resolve", step'[r] # "resolve",
           plan'[r] = plan[r]
    PROVE  Becomes(r, ServiceCall'[r])
<1>1. ServicePlan'[r] = ServicePlan[r]
  BY DEF ServicePlan, RenderedNotes
<1>2. ServicePlan = [q \in Runs |-> ServicePlan[q]]
  BY DEF ServicePlan
<1> QED BY <1>1, <1>2, ServiceFrame DEF Becomes

\* A step that shows nothing.
LEMMA ServiceRests ==
    ASSUME NEW r \in Runs, MovesAlone(r), UNCHANGED tags,
           ServiceCall'[r] = ServiceCall[r], ServicePlan'[r] = ServicePlan[r]
    PROVE  UNCHANGED Service!serviceVars
<1>1. /\ ServiceCall = [q \in Runs |-> ServiceCall[q]]
      /\ ServicePlan = [q \in Runs |-> ServicePlan[q]]
  BY DEF ServiceCall, ServicePlan
<1>2. ServiceCall' = ServiceCall /\ ServicePlan' = ServicePlan
  BY <1>1, ServiceFrame
<1> QED BY <1>2 DEF Service!serviceVars

\* Nor does any step of a run that has not planned and does not do so.
LEMMA UnplannedRests ==
    ASSUME NEW r \in Runs, MovesAlone(r), UNCHANGED tags,
           step[r] = "resolve", step'[r] = "resolve"
    PROVE  UNCHANGED Service!serviceVars
<1>1. ServiceCall'[r] = ServiceCall[r] /\ ServicePlan'[r] = ServicePlan[r]
  BY DEF ServiceCall, ServicePlan
<1> QED BY <1>1, ServiceRests

\* A run that joins the concurrency group, or rejoins it, moves no other.
LEMMA JoinMovesAlone ==
    ASSUME TypeOK, NEW r \in Runs, status' = Join(r, status),
           \A q \in Runs \ {r} : step'[q] = step[q] /\ plan'[q] = plan[q]
    PROVE  MovesAlone(r)
BY DEF Join, MovesAlone

\* A step of the service, or none.
Served == Service!Next \/ UNCHANGED Service!serviceVars

\* Pushes and dispatches ask nothing of the service.
LEMMA NewRunServed ==
    ASSUME Inv, NEW r \in Runs, Push(r) \/ Dispatch(r)
    PROVE  Served
<1>1. /\ status[r] = "unused" /\ status' = Join(r, status)
      /\ UNCHANGED <<tags, step, plan>>
  BY DEF Push, Dispatch, NewRun
<1>2. step[r] = "resolve"
  BY <1>1 DEF Inv, RunInv, Progressed
<1>3. MovesAlone(r)
  BY <1>1, JoinMovesAlone DEF Inv
<1> QED BY <1>1, <1>2, <1>3, UnplannedRests DEF Served

\* A waiting run that starts asks again for what an earlier attempt had planned.
LEMMA StartServed ==
    ASSUME Inv, NEW r \in Runs, Start(r)
    PROVE  Served
<1>1. /\ status[r] = "pending" /\ status' = [status EXCEPT ![r] = "running"]
      /\ UNCHANGED <<tags, step, plan>>
  BY DEF Start, repository
<1>2. MovesAlone(r) /\ status'[r] = "running"
  BY <1>1 DEF MovesAlone, Inv, TypeOK
<1>3. step[r] \in {"resolve", "ci", "notes", "tag"}
  BY <1>1 DEF Inv, TypeOK, Steps, RunInv, Progressed
<1>4. CASE step[r] = "resolve"
  BY <1>1, <1>2, <1>4, UnplannedRests DEF Served
<1>5. CASE step[r] \in {"ci", "notes", "tag"}
  <2>1. ServiceCall[r] = "closed" /\ ServiceCall'[r] = "open"
    BY <1>1, <1>2, <1>5 DEF ServiceCall
  <2>2. Becomes(r, "open")
    BY <1>1, <1>2, <1>5, <2>1, ServiceKeeps
  <2> QED BY <1>1, <2>1, <2>2 DEF Served, Becomes, Service!Next, Service!Again, Service!Becomes
<1> QED BY <1>3, <1>4, <1>5

\* Re-running the failed jobs asks again, or waits to; re-running all forgets.
LEMMA RerunServed ==
    ASSUME Inv, NEW r \in Runs, RerunAll(r) \/ RerunFailed(r)
    PROVE  Served
<1>1. /\ status[r] \in {"failed", "cancelled", "done"} /\ status' = Join(r, status)
      /\ UNCHANGED tags
  BY DEF RerunAll, RerunFailed, repository
<1>2. MovesAlone(r)
  <2>1. \A q \in Runs \ {r} : step'[q] = step[q] /\ plan'[q] = plan[q]
    BY DEF RerunAll, RerunFailed, Inv, TypeOK
  <2> QED BY <1>1, <2>1, JoinMovesAlone DEF Inv
<1>3. step[r] \in Steps
  BY DEF Inv, TypeOK
<1>4. status[r] # "running" /\ status'[r] \in {"pending", "running"}
  BY <1>1 DEF Join
<1>5. ServiceCall[r] = IF step[r] = "resolve" THEN "none"
                       ELSE IF step[r] \in {"release", "latest"} THEN "published" ELSE "closed"
  BY <1>3, <1>4, ServiceViews DEF Steps
<1>6. CASE RerunAll(r)
  <2>1. step'[r] = "resolve"
    BY <1>6 DEF RerunAll, Inv, TypeOK
  <2>2. CASE step[r] = "resolve"
    BY <1>1, <1>2, <2>1, <2>2, UnplannedRests DEF Served
  <2>3. CASE step[r] # "resolve"
    <3>1. ServiceCall[r] \in {"published", "closed"}
      BY <1>5, <2>3
    <3>2. ServiceCall'[r] = "none" /\ ServicePlan'[r] = None
      BY <2>1 DEF ServiceCall, ServicePlan
    <3>3. /\ ServiceCall' = [ServiceCall EXCEPT ![r] = "none"]
          /\ ServicePlan' = [ServicePlan EXCEPT ![r] = None]
      BY <1>2, <3>2, ServiceFrame
    <3> QED BY <1>1, <3>1, <3>3 DEF Served, Service!Next, Service!Forget, Service!Becomes
  <2> QED BY <2>2, <2>3
<1>7. CASE RerunFailed(r)
  <2>1. /\ plan'[r] = plan[r]
        /\ step'[r] = IF step[r] \in {"release", "latest"} THEN "tag" ELSE step[r]
    BY <1>7 DEF RerunFailed, Inv, TypeOK
  <2>2. CASE step[r] = "resolve"
    BY <1>1, <1>2, <2>1, <2>2, UnplannedRests DEF Served
  <2>3. CASE step[r] # "resolve"
    <3>1. step'[r] \in {"ci", "notes", "tag"}
      BY <1>3, <2>1, <2>3 DEF Steps
    <3>2. Becomes(r, ServiceCall'[r])
      BY <1>2, <2>1, <2>3, <3>1, ServiceKeeps
    <3>3. ServiceCall'[r] = IF status'[r] = "running" THEN "open" ELSE "closed"
      BY <3>1 DEF ServiceCall
    <3>4. CASE status'[r] = "running"
      BY <1>1, <1>5, <2>3, <3>2, <3>3, <3>4
         DEF Served, Becomes, Service!Next, Service!Again, Service!Becomes
    <3>5. CASE status'[r] # "running" /\ ServiceCall[r] = "published"
      BY <1>1, <3>2, <3>3, <3>5
         DEF Served, Becomes, Service!Next, Service!Close, Service!Becomes
    <3>6. CASE status'[r] # "running" /\ ServiceCall[r] = "closed"
      <4>1. ServiceCall'[r] = ServiceCall[r]
        BY <3>3, <3>6
      <4>2. ServicePlan'[r] = ServicePlan[r]
        BY <3>2 DEF Becomes
      <4> QED BY <1>1, <1>2, <4>1, <4>2, ServiceRests DEF Served
    <3> QED BY <1>5, <2>3, <3>4, <3>5, <3>6
  <2> QED BY <2>2, <2>3
<1> QED BY <1>6, <1>7

\* Resolving asks for a release, on the graph of the moment; a run that skips asks nothing.
LEMMA ResolveServed ==
    ASSUME Inv, Inv', NEW r \in Runs, Resolve(r)
    PROVE  Served
<1>1. /\ status[r] = "running" /\ step[r] = "resolve" /\ UNCHANGED tags
  BY DEF Resolve, At, repository
<1>2. ASSUME NEW p \in Plans, p.graph = tags, plan' = [plan EXCEPT ![r] = p], Goto(r, "ci")
      PROVE  Served
  <2>1. /\ plan'[r] = p /\ step'[r] = "ci" /\ status'[r] = "running" /\ MovesAlone(r)
    BY <1>1, <1>2 DEF Goto, Inv, TypeOK, MovesAlone
  <2>2. ServiceCall[r] # "open" /\ ServiceCall'[r] = "open"
    BY <1>1, <2>1 DEF ServiceCall
  <2>3. ServicePlan'[r] = [tag |-> p.tag, commit |-> p.commit,
                           meta |-> Render(p.tag, p.commit, p.previous), graph |-> p.graph]
    BY <2>1 DEF ServicePlan, RenderedNotes
  <2>4. Service!Graphs = Graphs
    BY DEF Service!Graphs, Service!Objects, Service!Annotations, Graphs, Objects, Annotations
  <2>5. ServicePlan'[r] \in Service!Plans /\ ServicePlan'[r].graph = tags
    BY <1>2, <2>3, <2>4, NotesType DEF Service!Plans
  <2>6. /\ ServiceCall' = [ServiceCall EXCEPT ![r] = "open"]
        /\ ServicePlan' = [ServicePlan EXCEPT ![r] = ServicePlan'[r]]
    BY <2>1, <2>2, ServiceFrame
  <2> QED BY <1>1, <2>2, <2>5, <2>6 DEF Served, Service!Next, Service!Ask, Service!Becomes
<1>3. TypeOK /\ HasLatest(tags) /\ HasPrevious(tags)
  BY DEF Inv, RepositoryInv
<1>4. ASSUME NEW v \in Recovered(r), tags[v].meta \in Metas,
             plan' = [plan EXCEPT ![r] = RecoveryPlan(v)], Goto(r, "ci")
      PROVE  Served
  <2>1. v \in Tagged(tags)
    BY DEF Recovered
  <2>2. RecoveryPlan(v).graph = tags
    BY DEF RecoveryPlan
  <2> QED BY <1>2, <1>3, <1>4, <2>1, <2>2, RecoveryPlanIsFaithful
<1>5. ASSUME NEW v \in NewTags(r), plan' = [plan EXCEPT ![r] = PublishPlan(r, v)],
             Goto(r, "ci")
      PROVE  Served
  <2>1. PublishPlan(r, v).graph = tags
    BY DEF PublishPlan
  <2> QED BY <1>2, <1>3, <1>5, <2>1, PublishPlanIsFaithful
<1>6. CASE Finish(r, "done") /\ UNCHANGED plan
  <2>1. MovesAlone(r) /\ step'[r] = "resolve"
    BY <1>1, <1>6 DEF Finish, MovesAlone, Inv, TypeOK
  <2> QED BY <1>1, <2>1, UnplannedRests DEF Served
<1> QED BY <1>4, <1>5, <1>6 DEF Resolve

\* Between its request and its answer, and after that, a job that goes on shows nothing.
LEMMA QuietServed ==
    ASSUME Inv, NEW r \in Runs,
           \/ WaitForCi(r) \/ GenerateNotes(r)
           \/ CreateRelease(r) \/ VerifyRelease(r) \/ VerifyLatest(r)
    PROVE  Served
<1>1. /\ status[r] = "running" /\ UNCHANGED <<tags, plan>>
      /\ \/ step[r] = "ci" /\ Goto(r, "notes")
         \/ step[r] = "notes" /\ Goto(r, "tag")
         \/ step[r] = "release" /\ UNCHANGED <<status, step>>
         \/ step[r] = "release" /\ Goto(r, "latest")
         \/ step[r] = "latest" /\ Finish(r, "done")
  BY DEF WaitForCi, GenerateNotes, CreateRelease, VerifyRelease, VerifyLatest, At, repository
<1>2. MovesAlone(r)
  BY <1>1 DEF MovesAlone, Goto, Finish, Inv, TypeOK
<1>3. \/ /\ {step[r], step'[r]} \subseteq {"ci", "notes", "tag"}
         /\ status[r] = "running" /\ status'[r] = "running"
      \/ {step[r], step'[r]} \subseteq {"release", "latest"}
  BY <1>1 DEF Goto, Finish, Inv, TypeOK
<1>4. ServiceCall'[r] = ServiceCall[r]
  BY <1>3 DEF ServiceCall
<1>5. ServicePlan'[r] = ServicePlan[r]
  BY <1>1, <1>3 DEF ServicePlan, RenderedNotes
<1> QED BY <1>1, <1>2, <1>4, <1>5, ServiceRests DEF Served

\* A job that fails before its tag is reconciled gives up for now.
LEMMA FailureServed ==
    ASSUME Inv, NEW r \in Runs, CheckFails(r) \/ Interrupted(r)
    PROVE  Served
<1>1. /\ status[r] = "running" /\ Finish(r, "failed") /\ UNCHANGED <<tags, plan>>
  BY DEF CheckFails, Interrupted, At, repository
<1>2. MovesAlone(r) /\ step'[r] = step[r] /\ status'[r] = "failed" /\ plan'[r] = plan[r]
  BY <1>1 DEF MovesAlone, Finish, Inv, TypeOK
<1>3. step[r] \in Steps
  BY DEF Inv, TypeOK
<1>4. ServicePlan'[r] = ServicePlan[r]
  BY <1>2 DEF ServicePlan, RenderedNotes
<1>5. CASE step[r] \in {"resolve", "release", "latest"}
  <2>1. ServiceCall'[r] = ServiceCall[r]
    BY <1>2, <1>5 DEF ServiceCall
  <2> QED BY <1>1, <1>2, <1>4, <2>1, ServiceRests DEF Served
<1>6. CASE step[r] \in {"ci", "notes", "tag"}
  <2>1. ServiceCall[r] = "open" /\ ServiceCall'[r] = "closed"
    BY <1>1, <1>2, <1>6 DEF ServiceCall
  <2>2. Becomes(r, "closed")
    BY <1>2, <1>6, <2>1, ServiceKeeps
  <2> QED BY <1>1, <2>1, <2>2 DEF Served, Becomes, Service!Next, Service!Close, Service!Becomes
<1> QED BY <1>3, <1>5, <1>6 DEF Steps

\* Tags below a planned one are those it was planned on, when it agrees with the remote.
LEMMA AgreedTagIsPublished ==
    ASSUME Inv, NEW r \in Runs, step[r] = "tag", TagAgrees(r)
    PROVE  Service!Published(r)
<1>1. /\ plan[r].graph \in Graphs /\ plan[r].tag \in Versions /\ tags \in Graphs
      /\ plan[r].tag \in Nat
  BY PlanAtWork, VersionsAssumption DEF Inv, TypeOK
<1>2. \A v \in Versions : v < plan[r].tag => tags[v] = plan[r].graph[v]
  BY <1>1, VersionsAssumption DEF TagAgrees, WithoutTag, Graphs
<1>3. ServicePlan[r] = [tag |-> plan[r].tag, commit |-> plan[r].commit,
                        meta |-> RenderedNotes(r), graph |-> plan[r].graph]
  BY ServiceViews
<1>4. /\ plan[r].tag \in Service!Tagged(tags)
      /\ tags[plan[r].tag].commit = plan[r].commit
      /\ tags[plan[r].tag].meta = RenderedNotes(r)
  BY DEF TagAgrees, Service!Tagged, Tagged
<1> QED BY <1>2, <1>3, <1>4 DEF Service!Published

\* The tag step answers the run, with the release it created or the one it found.
LEMMA ReconcileServed ==
    ASSUME Inv, NEW r \in Runs, ReconcileTag(r)
    PROVE  Served
<1>1. /\ status[r] = "running" /\ step[r] = "tag" /\ Goto(r, "release")
      /\ UNCHANGED <<releases, latest, plan>>
  BY DEF ReconcileTag, At
<1>2. MovesAlone(r) /\ step'[r] = "release" /\ plan'[r] = plan[r]
  BY <1>1 DEF MovesAlone, Goto, Inv, TypeOK
<1>3. ServiceCall[r] = "open" /\ ServiceCall'[r] = "published"
  BY <1>1, <1>2 DEF ServiceCall
<1>4. Becomes(r, "published")
  BY <1>1, <1>2, <1>3, ServiceKeeps
<1>5. ServicePlan[r] = [tag |-> plan[r].tag, commit |-> plan[r].commit,
                        meta |-> RenderedNotes(r), graph |-> plan[r].graph]
  BY <1>1, ServiceViews
<1>6. CASE TagAgrees(r) /\ UNCHANGED tags
  <2>1. Service!Published(r)
    BY <1>1, <1>6, AgreedTagIsPublished
  <2> QED BY <1>3, <1>4, <1>6, <2>1
             DEF Served, Becomes, Service!Next, Service!Publish, Service!Becomes
<1>7. CASE MayCreateTag(r) /\ tags' = WithTag(tags, plan[r].tag, NewObject(r))
  <2>1. /\ NewObject(r) \in Objects /\ RenderedNotes(r) \in Metas
        /\ tags'[plan[r].tag] = NewObject(r)
    BY <1>1, <1>7, CreatedTag, PlanAtWork
  <2>2. NewObject(r).commit = plan[r].commit /\ NewObject(r).meta = RenderedNotes(r)
    BY DEF NewObject
  <2>3. Service!Registry!MayAppend(plan[r].tag, NewObject(r))
    BY <1>7, <2>1, <2>2
       DEF MayCreateTag, Service!Registry!MayAppend, Service!Registry!Tagged,
           Service!Registry!IsAncestor, Tagged, IsAncestor
  <2>4. Service!Create(r)
    <3>1. tags = ServicePlan[r].graph /\ ServicePlan[r].tag = plan[r].tag
      BY <1>5, <1>7 DEF MayCreateTag
    <3>2. /\ NewObject(r).commit = ServicePlan[r].commit
          /\ NewObject(r).meta = ServicePlan[r].meta
          /\ NewObject(r) \in Service!Objects
      BY <1>5, <2>1, <2>2 DEF Service!Objects, Objects, Service!Annotations, Annotations
    <3>3. tags' = Service!WithTag(tags, plan[r].tag, NewObject(r))
      BY <1>7 DEF Service!WithTag, WithTag
    <3> QED BY <1>3, <1>4, <2>1, <2>3, <3>1, <3>2, <3>3
               DEF Becomes, Service!Create, Service!Becomes
  <2> QED BY <2>4 DEF Served, Service!Next
<1> QED BY <1>1, <1>6, <1>7 DEF ReconcileTag, NewObject

\* Every step of the workflow is one step of the service it uses, or none.
LEMMA ServiceStep ==
    ASSUME Inv, Inv', [Next]_vars
    PROVE  Served
<1>1. CASE UNCHANGED vars
  BY <1>1 DEF vars, Served, Service!serviceVars, ServiceCall, ServicePlan, RenderedNotes
<1>2. ASSUME NEW c \in Commits, CiPasses(c) PROVE Served
  BY <1>2 DEF CiPasses, Served, Service!serviceVars, ServiceCall, ServicePlan, RenderedNotes
<1>3. ASSUME NEW r \in Runs,
             Push(r) \/ Dispatch(r) \/ RerunAll(r) \/ RerunFailed(r) \/ Start(r)
      PROVE  Served
  BY <1>3, NewRunServed, RerunServed, StartServed
<1>4. ASSUME NEW r \in Runs, RunStep(r) \/ Interrupted(r) PROVE Served
  BY <1>4, ResolveServed, QuietServed, ReconcileServed, FailureServed DEF RunStep
<1>5. ASSUME NEW v \in Editable, EditRelease(v) PROVE Served
  BY <1>5 DEF EditRelease, Served, Service!serviceVars, ServiceCall, ServicePlan, RenderedNotes
<1> QED BY <1>1, <1>2, <1>3, <1>4, <1>5 DEF Next

\* Nothing that runs, maintainers or failures do asks more of the tag step than the service
\* promises: the workflow implements the service that ReleaseTags implements.
THEOREM ServiceRefinement == Spec => ServiceImplemented
<1>1. Init => Service!Init
  <2> SUFFICES ASSUME Init PROVE Service!Init
    OBVIOUS
  <2>1. \A r \in Runs : ServiceCall[r] = "none" /\ ServicePlan[r] = None
    BY ServiceViews DEF Init
  <2>2. /\ ServiceCall = [r \in Runs |-> ServiceCall[r]]
        /\ ServicePlan = [r \in Runs |-> ServicePlan[r]]
    BY DEF ServiceCall, ServicePlan
  <2>3. /\ ServiceCall = [r \in Runs |-> "none"]
        /\ ServicePlan = [r \in Runs |-> None]
    BY <2>1, <2>2
  <2> QED BY <2>3 DEF Init, Service!Init
<1>2. Inv /\ Inv' /\ [Next]_vars => [Service!Next]_Service!serviceVars
  BY ServiceStep DEF Served
<1> QED BY <1>1, <1>2, Invariance, PTL DEF Spec, ServiceImplemented, Service!Spec

\* What every implementation of the service inherits.
Promise == INSTANCE TagServiceProofs WITH
               Callers <- Runs, call <- ServiceCall, plan <- ServicePlan

\* TagGraph's assumptions are those of this instance.
LEMMA PromiseInv ==
    /\ InitialTags \in Promise!Graphs /\ Promise!Init => Promise!Inv
    /\ Promise!Inv /\ [Promise!Next]_Promise!serviceVars => Promise!Inv'
BY VersionsAssumption, AncestryAssumption, TagAssumption, Promise!InitInv, Promise!StepInv
   DEF Promise!IsAncestor, Promise!Tagged, Promise!Graphs, Promise!Objects,
       Promise!Annotations, Objects, Annotations

\* The service that TagServiceProofs speaks of is the one the workflow implements.
LEMMA PromiseIsService ==
    /\ Service!Init => Promise!Init
    /\ [Service!Next]_Service!serviceVars => [Promise!Next]_Promise!serviceVars
BY DEF Service!Init, Promise!Init, Service!Next, Promise!Next,
       Service!Ask, Promise!Ask, Service!Again, Promise!Again,
       Service!Create, Promise!Create, Service!Publish, Promise!Publish,
       Service!Close, Promise!Close, Service!Forget, Promise!Forget,
       Service!Becomes, Promise!Becomes, Service!Plans, Promise!Plans,
       Service!Published, Promise!Published, Service!Tagged, Promise!Tagged,
       Service!Graphs, Promise!Graphs, Service!Objects, Promise!Objects,
       Service!Annotations, Promise!Annotations, Service!WithTag, Promise!WithTag,
       Service!Registry!MayAppend, Promise!Registry!MayAppend,
       Service!Registry!Tagged, Promise!Registry!Tagged,
       Service!Registry!IsAncestor, Promise!Registry!IsAncestor,
       Service!serviceVars, Promise!serviceVars

\* So what the service promises holds of the workflow in every state.
LEMMA PromiseInvariance == Spec => []Promise!Inv
<1>1. InitialTags \in Promise!Graphs
  BY WorkflowAssumption
     DEF Promise!Graphs, Promise!Objects, Promise!Annotations, Graphs, Objects, Annotations
<1>2. Service!Init => Promise!Inv
  BY <1>1, PromiseInv, PromiseIsService
<1>3. Promise!Inv /\ [Service!Next]_Service!serviceVars => Promise!Inv'
  BY PromiseInv, PromiseIsService
<1> QED BY <1>2, <1>3, ServiceRefinement, PTL DEF ServiceImplemented, Service!Spec

\* A run that got past the tag step is right about it for good, failed and overtaken or not:
\* its tag is on the remote, above the very releases its notes start from.
THEOREM ReconciledRunsStand == Spec => []ReconciledTagStands
<1>1. Inv /\ Promise!Inv => ReconciledTagStands
  <2> SUFFICES ASSUME Inv, Promise!Inv, NEW r \in Runs, step[r] \in {"release", "latest"}
               PROVE  /\ plan[r].tag \in Tagged(tags)
                      /\ tags[plan[r].tag].commit = plan[r].commit
                      /\ tags[plan[r].tag].meta = RenderedNotes(r)
                      /\ \A w \in Versions : w < plan[r].tag => tags[w] = plan[r].graph[w]
    BY DEF ReconciledTagStands
  <2>1. ServiceCall[r] = "published"
    BY ServiceViews
  <2>2. ServicePlan[r] = [tag |-> plan[r].tag, commit |-> plan[r].commit,
                          meta |-> RenderedNotes(r), graph |-> plan[r].graph]
    BY ServiceViews
  <2>3. Promise!Published(r)
    BY <2>1 DEF Promise!Inv, Promise!PublishedForEver
  <2> QED BY <2>2, <2>3 DEF Promise!Published, Promise!Tagged, Tagged
<1> QED BY <1>1, Invariance, PromiseInvariance, PTL

\* Of the runs that planned on one graph, whether they raced or one was re-run after the
\* other, at most one got a new release of its own.
THEOREM OneReleasePerGraph == Spec => []Service!OneTagPerGraph
<1>1. Promise!Inv => Promise!OneTagPerGraph
  BY VersionsAssumption, AncestryAssumption, TagAssumption, Promise!OnePublished
     DEF Promise!IsAncestor, Promise!Objects, Promise!Annotations, Objects, Annotations
<1>2. Promise!OneTagPerGraph => Service!OneTagPerGraph
  BY DEF Promise!OneTagPerGraph, Promise!Tagged, Service!OneTagPerGraph, Service!Tagged
<1> QED BY <1>1, <1>2, PromiseInvariance, PTL
=============================================================================
