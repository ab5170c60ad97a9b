# Specifications of vexcalibur-action

vexcalibur-action is a composite GitHub Action that installs the `vexcalibur` CLI, runs one
command of it and publishes the numbers of its execution report as step outputs. Around it
lives the automation that releases the action: it decides the next version, waits for CI,
checks the tag rulesets, renders the notes, creates one annotated tag on the remote and the
GitHub Release that goes with it.

This directory holds TLA+ modules of both, the TLC instances that check them, and the theorems
about them that the TLA+ proof system (tlapm) checks. `PROJECT.json` maps every definition to the
lines it models, and lists runs, hazards, findings and theorems.

1. [The system](#1-the-system)
2. [The modules and the plan](#2-the-modules-and-the-plan)
3. [How the modules correspond to the code](#3-how-the-modules-correspond-to-the-code)
4. [What the runs check](#4-what-the-runs-check)
5. [Fairness and other assumptions](#5-fairness-and-other-assumptions)
6. [What is proved](#6-what-is-proved)
7. [Findings](#7-findings)
8. [What is not modelled](#8-what-is-not-modelled)
9. [What comes next](#9-what-comes-next)

Paths are relative to the repository's root.

## 1. The system

### Components

| Component | State it keeps | Operations | Talks to |
|---|---|---|---|
| Release tag reconciliation (`scripts/release_tags.py`) | the remote's release tags and the branch `release-coordination` | read the branch, read the tags, check, push the tag and the branch together, read back | called by the workflow's tag step; the git remote |
| Release workflow (`.github/workflows/release.yml`) | runs in one concurrency group, job outputs, GitHub Releases, the latest pointer | resolve, wait for CI, notes, tag, release, verify latest; re-run; dispatch | every release script; GitHub's API |
| Release policy gate (`scripts/release_policy.py`) | two tag rulesets and an attestation stored as a repository variable | the owner's preflight, the job's check | administrators, who edit the rulesets at any time |
| Release planning (`scripts/release_state.py`) | none of its own; reads the tags and the commits since the latest | classify commit messages, plan a new release, plan a recovery, verify a GitHub Release | contract comparison, tag graph |
| Contract guard (`scripts/check-action-contract.py`) | its verdict, kept by CI per commit | compare a commit with the latest tag and with its messages | CI, the workflow's wait for CI |
| Contract comparison (`scripts/action_contract.py`, parts of `scripts/release_metadata.py`) | none | compare two `action.yml` files and two compatibility manifests | planning, contract guard |
| Release metadata and notes (`scripts/release_metadata.py`) | the notes, in two artifacts of one workflow run | render, scan, verify, bind to the tag, publish, parse back | planning, the notes jobs, the tag step |
| PyPI artifact verification (`verify_selected_pypi_artifact`, `ci.yml`, `resolve-vexcalibur-wheel`) | one stored wheel per Python | select, verify, download, store, test | pip, PyPI, the test jobs of CI |
| Release command line (`scripts/release.py`) | none | argument parsing around the above | the workflow |
| Action step (`scripts/run-vexcalibur.sh`, `scripts/check-execution-report-support.py`) | a private directory, the caller's arguments | validate inputs, install, probe the package, run the CLI | the CLI, the publisher |
| Execution report publisher (`scripts/publish-execution-report.py`) | the bytes appended to `GITHUB_OUTPUT` | validate the report, append, roll back | the action step, the runner's file |
| Action metadata (`action.yml`) | none | inputs, outputs, the one step | GitHub's expression evaluation |
| The rest of CI, end-to-end actions, fuzzing, developer scripts | none that outlives a job | see section 8 | |

Control flows from the workflow down: a push to `main` or a dispatch starts a run, the run plans
(`release_state.py`), the plan travels through job outputs to the notes job and to the tag step,
and the tag step (`release_tags.py`) is the only writer of release tags. State is shared through
the remote alone (tags, branch, Releases, rulesets), and every part reads it at a different time.
The action step and its publisher are a separate system that shares nothing with the release
automation but the contract (`action.yml`) that planning compares.

### What is hard about it

* **Optimistic concurrency on two refs.** A publisher reads the branch and the tags separately and
  pushes much later. What decides between rivals is one lease in one atomic push, and git's rules
  for which refs it sends at all are subtler than the command line suggests.
* **Answers that are lost.** A push may be applied and reported as failed. The code looks again and
  has to tell its own tag from somebody else's.
* **Re-runs.** "Re-run failed jobs" reuses outputs, notes and the digest of the tag graph of an
  earlier attempt, while tags and `main` have moved, or after the run's own tag was created.
* **Runs that replace each other.** GitHub keeps one run in progress and one waiting per group.
* **Partial failures.** The tag exists and its Release does not; `gh` created a Release and said it
  had not; a file append stops in the middle; a CLI fails after it wrote its report.
* **Releases that others edit.** An immutable Release keeps its tag, but its text may be edited at any
  time; the workflow verifies it when it publishes or recovers, and promises nothing of later.
* **Evidence that goes stale.** Who may bypass a ruleset is not visible to the job; an attestation
  stands for it, tied to the rulesets' revisions. The settings are read before the tag is pushed
  and may be edited after it. A verdict of CI is of the latest tag of its own moment and is accepted
  days and tags later. PyPI answers about a file that a maintainer withdraws a moment later.
* **Bytes that travel.** The notes cross three runners and a scanner's disk, under artifact names that
  carry the attempt, in runs whose jobs are of different attempts.
* **Text that looks like structure.** Commit subjects may hold backticks or the marker of the notes'
  block, commit messages may hold anything, a report's path may look like a delimiter.
* **Changes spread over several releases.** Each release is compared with the one before it only.

### What correctness means, per component

* Reconciliation: the tags are an append-only registry, ordered by commit ancestry; a reported
  outcome is true for ever; a publisher's notes keep the predecessor they were rendered against;
  recovery is not refused without cause; publishers of one release all succeed.
* Workflow: tags, notes, Releases and the latest pointer agree, whatever was re-run or
  overtaken; a Release shows what its tag binds whenever a run verified it, and shows something else only
  after an edit by hand; nothing is published from an untested commit; every commit that asks for a release is
  in one some day.
* Policy gate: a job that passes had both rulesets in force at one moment; nobody is refused
  whose rulesets are as they were attested; the tag of a green job can never change again.
* Notes: the tag binds bytes that were scanned, the Release shows them when a job makes or verifies it,
  readers see subjects
  literally and the parser finds its own block.
* Contract guard: the SemVer promise and the account of contract changes survive verdicts that were
  made from other tags than a release is put on.
* PyPI artifact: what CI tests was on offer, and all tests of a Python are of one wheel.
* Planning: any two releases, not only adjacent ones, differ by at least what their contracts and
  the messages in between require; versions grow; a message means what the documentation says.
* Action step and publisher: all outputs or none, and only those of a validated report of a
  successful managed command; the action's option is parsed as an option; other commands are run
  untouched; file and outputs say the same, add up and are read back as they were written.

## 2. The modules and the plan

| # | Module | What it is |
|---|---|---|
| 1 | `TagGraph` | the release-tag graph and its operators; no state |
| 2 | `TagRegistry`, `TagService`, `TagServiceProofs` | abstract specifications: of the tags for their readers (one at a time is appended, above every earlier version and on a descendant of its commit), and of the tag step for its callers (each call takes effect in one step, on the graph it was planned from); the proofs say what every implementation inherits |
| 3 | `ReleaseTags` | `reconcile_remote_tag` run by any number of publishers, one action per remote operation |
| 4 | `ReleaseTagsProofs` | its inductive invariants, among publishers and among outsiders, its safety theorems, and that it implements `TagService` and `TagRegistry` |
| 5 | `ReleaseWorkflow`, `ReleaseWorkflowProofs` | runs of `release.yml`, with the tag step as one atomic step |
| 6 | `ActionRun`, `ActionRunProofs` | one run of the action's step down to the bytes of `GITHUB_OUTPUT`; the proofs are about 14, too |
| 7 | `BumpRanks`, `ActionContract` | the ranks of bumps, and the comparison of two contracts |
| 8 | `ReleasePlanner`, `ReleasePlannerProofs` | planning over the life of a repository; the proofs are about 7 and 10, too |
| 9 | `ContractGuard`, `ContractGuardProofs` | CI's verdicts, release runs and the planner, each on tags of its own time |
| 10 | `CommitMessage` | the grammar of commit messages |
| 11 | `ReleasePolicy`, `ProtectedTag` | rulesets, attestation and the gate; the publish job behind it |
| 12 | `NotesPipeline`, `ReleaseJobsProofs` | the notes' way through three jobs, artifacts and re-runs; the proofs are about 11, too |
| 13 | `ReleaseNotes`, `TextProofs` | the text of the notes, as Markdown and as the parser read it; the proofs are about 15, too |
| 14 | `PackageArtifact` | the wheel that CI selects, verifies, stores and tests |
| 15 | `ExecutionReport` | validation of a report, and the records that are made of it |

`MC*` modules hold the instances. `MCReleasePlanner`, `MCReleaseJobs` and `MCActionRun` put several
modules with a common question into one run: a variable `part` names the module a behaviour is about,
only that module's actions are taken, and the variables of the others rest at one initial value. So
such a run explores the sum, not the product, of its parts. The order is that of risk: the tag protocol first, because a
wrong tag can never be removed (the rulesets forbid it); then the workflow that drives it; then the
step that users run; then the calculation and the gate; then what these take from elsewhere: CI's
verdict, the notes, messages, reports.

How they compose:

* Two abstract specifications stand above the tag protocol. `TagRegistry` is what readers of the tags
  see; `TagService` is what callers see, too: on whose behalf a tag is created, from which graph, and
  what the caller is told. `TagService` implements `TagRegistry` (`TagServiceProofs!RegistryRefinement`).
* `ReleaseTags` implements `TagService` (`ServiceImplemented`, checked by `tags_race`, proved by
  `ReleaseTagsProofs!ServiceRefinement`). The mapping shows of a call whether it is open, was told of its
  release (`created`, `existing`) or was refused. A tag appears when the server applies the push, which
  may be long before the caller hears of it, or without it ever hearing.
* `ReleaseWorkflow` replaces the whole protocol by one step, `ReconcileTag`, which either finds the
  tag in agreement or creates it under the conditions `ReleaseTags` puts on it. It implements the same
  `TagService` (`ReleaseWorkflowProofs!ServiceRefinement`): a run is an open call from planning on, closed
  while it has failed, and published once it is past the tag step; "Re-run failed jobs" is another
  attempt with the old request, "Re-run all jobs" forgets it. So the runs make no request, and draw no
  conclusion from an answer, that the service does not have. The two refinements meet in the service;
  that one may be put in the place of the other step by step is not a theorem, and liveness is not
  part of the promise.
* That the runs keep a `TagRegistry`, too, is `ReleaseWorkflowProofs!Refinement`.
* `ReleasePlanner` extends `ActionContract`. `ReleaseWorkflow` takes the requirement between two
  commits as a constant function (`RequiredBump`), so what it shows does not depend on how it is
  computed.
* `ContractGuard` instantiates `ReleasePlanner` over its own tags (`Planner`), and states the planner's
  promises of them: what `ReleasePlanner` has in one step is here a plan, a CI verdict and a tag, with
  pushes, other releases and re-runs in between.
* `ReleasePolicy` is the gate in front of the tag step; a refusal is one of the interruptions of
  `ReleaseWorkflow`. `ProtectedTag` extends it by the publish job behind the gate and by what GitHub
  lets others do to the tag meanwhile.
* `NotesPipeline` refines in detail what `ReleaseWorkflow` does in `GenerateNotes`: one run, seen as
  jobs, attempts and artifacts. `ReleaseNotes` is the text that travels.
* `ActionRun` decides whether a report is valid by a choice; `ExecutionReport` says which ones are.

No module declares a RECURSIVE operator: recursion is in functions, so all modules can be proved about.

## 3. How the modules correspond to the code

**`TagGraph`.** A graph is the list of `ReleaseTag`s as a function from versions to tag objects. The
code compares graphs by SHA-256 over name, object and target; the specification compares the graphs.
An object is its target, its canonical annotation, and the tagger line: two publishers make equal
objects exactly when the three agree. Versions are natural numbers in SemVer order. `Readable` is
what `remote_release_tags` accepts, `ValidAt` what `release_tags` accepts in a clone.

**`ReleaseTags`.** `tags` and `coord` are the remote. `pc[p]` names how far publisher `p` is in
`reconcile_remote_tag`; `plan`, `coordBefore`, `seen`, `commands` and `push` are the call's
arguments and locals. The push is two actions, because git is a client and a server: `Negotiate`
compares the advertised refs with what the client wants and decides which commands to send,
`Apply` compares each command with the remote as it is then. Between any two actions another
publisher may act. `PushLost`, `GitFails` and the lost answer in `Apply` are the failures; `Retry`
is the re-run with the old arguments; `OutsiderTag` and `OutsiderMovesCoordination` are whoever
else holds credentials, in the open specification. The client's and the server's rules (`Negotiate`,
`Applicable`, `Apply`) are those of git and marked external in the map.

**`ReleaseWorkflow`.** One action per job or step that changes or decides something, one `CheckFails` for
their negated guards and one `Interrupted` for everything that can stop a job from outside. The
policy gate, the App token, the scan of the notes and the artifact upload can only stop a job; they
are interruptions. `RerunFailed` keeps the outputs and starts the failed job from its first step,
which is why a failure in the release step goes back to the tag step. The release step is two actions:
`CreateRelease` makes a missing Release, `VerifyRelease` looks at it again and passes if it shows the
notes of the plan (`ReleaseAgrees`, the body of `verify_github_release`), and `CheckFails` has the refusal.
`EditRelease` is a maintainer who changes the text of a Release, or puts it back, at any time: before
a recovery, between two attempts, or between the creation and the verification.

**`ActionRun`.** The shell script's stages in order, with every exit. An argument list is a sequence of
the five words the script tells apart. The installed package is one of three kinds, the answers of the
probe. The publisher's loop is modelled by bytes: a write appends any positive part of what is left,
an exception may strike before or after the bytes are in the file, the rollback may fail.

**`ActionContract` and `ReleasePlanner`.** Contracts are parsed `action.yml` files with the manifest.
The reasons the code collects are predicates, the bump is the rank of the highest. A commit changes
the contract and asks for a bump in its message, independently. A release is published from the
plan that `plan_release` returns, for an automatic or an explicit version, or there is none.

**`ContractGuard`.** `main` is a sequence of commits, each with a contract and the bump its message asks
for. `CiRuns` is the guard on the tags of that moment, and its verdict stays in `checks`; `Plan` is
`plan_release` for the tip; `PublishTag` is the wait for CI (any retained success of the commit will do)
and the tag step, which insists on the planned graph; `RerunFailed` goes on with the old plan. A
first release has an explicit version.

**`CommitMessage`.** A line is one of ten kinds, what the patterns in `release_state.py` tell apart. The
regular expression that splits paragraphs consumes one blank line with both of its line ends, so
matches cannot overlap; `Splits` says so by a recursive function.

**`ProtectedTag`.** The remote's tag is absent, as planned (`ours`) or anything else (`foreign`).
`OutsiderCreates` and `OutsiderChanges` are all that others may do while a ruleset does not protect,
`OwnerSwitches` is the setting for immutable Releases. A Release made by somebody else is not modelled.

**`NotesPipeline`.** The three jobs by what they download, check, write and upload. A download may
leave other bytes than were stored, a scanner may write its input, a runner may be lost after an
upload. `RerunFailed` keeps results and outputs of the jobs that succeeded and gives the others a new
attempt; `RerunAll` plans anew, from the tag if there is one by then. `EditRelease` changes the text of the
Release at any time. `edited`, a history variable, says whether it did since a job last made or verified it.

**`ReleaseNotes`.** A text is a sequence of symbols: a backtick, a space, the block's marker, anything
else. `Markdown` is CommonMark's rule for code spans on one line, as GitHub renders it, and external.

**`PackageArtifact`.** pip's choice, PyPI's answer and the download are three steps, and maintainers
upload, yank, restore and delete between them. A wheel stands for its URL, its name and its bytes.
`offered` and `tested` are history variables.

**`ExecutionReport`.** A report is the sequence of its JSON members, written by any program. Three counts
stand for all fields: one required, two that are summed. Values keep their Python type, because
`True` and `1.0` are equal to 1. Outputs are sequences of lines; what the runner makes of the records is
external.

**`ReleasePolicy`.** A ruleset is what the verification decides on it: its revision, whether its
enforcement, patterns and rules are the required ones (`strict`), and whether nobody but the
permitted App may bypass it (`narrow`). The job sees the first two, the attestation has the first
and the third. The field `held` of a job is a history variable.

## 4. What the runs check

| Run | States | Question |
|---|---|---|
| `tags_race` | two publishers, four versions, four commits | do racing, crashing and retrying publishers keep the registry, and are their reports true? |
| `tags_converge` | two publishers of one release | do both end with success, whatever the interleaving? |
| `tags_open` | two publishers among outsiders | what is still true when others push tags and move the branch? |
| `tags_same_commit` | two publishers, one commit | does the lease serialize them? (no: finding 1) |
| `workflow` | three runs, three commits | do tags, notes, Releases and the latest pointer agree? |
| `workflow_quiet` | three pushes | is every commit that asks for it released? |
| `workflow_dispatch` | pushes and a dispatch | the same with dispatches (no: finding 2) |
| `workflow_latest` | two runs, two tags | is a failed latest check always a wrong promotion? (no: finding 3) |
| `planner` | three releases of seven contracts; three commits with three CI runs; messages of six lines | what number may a release have? |
| `commit_blank_lines` | messages of six lines | does every message mean what the documentation says? (no: finding 4) |
| `release_jobs` | one job and two edits; three attempts; two commits | can the publish job trust what it checked? |
| `action_run` | one step; reports of four members; two Pythons, two tests, two wheels | what may a user believe of a step's outputs, and of what CI tested? |

A property that has several sides is a conjunction of named parts, and the run checks the
conjunction; the parts are given in parentheses below.

**`tags_race`**: `RemoteInv` (`OrderedHistory`; `CoordinationAtLatest`, else every later publisher is
refused), `NotesRangeStable`, `TruthfulReports` (`TruthfulSuccess`, `CreatedIsOwn`), `LandsOnPlannedGraph`,
`NoSpuriousRefusal` and the refinement `ServiceImplemented`. The requests are ten, chosen so that every pair of
conflicts occurs: one version for two commits, one version under two notes, one commit for two
versions, a later version on a descendant and on a sibling branch, the legacy tag, a wrong clone, a
local tag that already exists. The commits are a root, two branches and a grandchild, the smallest
tree in which "higher version" and "descendant" can disagree. Two publishers suffice to race: the
protocol never counts publishers, and each acts on the remote alone; the theorems hold for any
number. Four versions allow one tag below and one above the disputed two.

**`tags_open`** drops the assumption that only publishers write. `TruthfulSuccess` and
`CreatedExtendsPlan` survive; order and coordination do not, and are not claimed. Publishers share one tagger line there, so that two of them can make the same object.

**`workflow`**: `LatestNeverGoesBack`, `HighestReleaseIsLatest`, `ReleasesAgreeWithTags`
(`ReleaseMatchesTag`, `NotesReproducible`, `DoneMeansPublished`), `PublishedAfterCi`, `ReconciledTagStands` and
`VerifiedAsBound`. About one and a half million states. The text of one Release, v1.0.1, may be edited without limit;
of the three versions it is the one that can be created, recovered and overtaken. Three runs are the smallest number in which one runs, one waits and one replaces it; three
commits give a patch, a minor release and the release that existed before. The versions are v1.0.0, v1.0.1
and v1.1.0, and v1.0.1 may be asked for by hand, so that an explicit tag can be behind, equal to or
ahead of the calculated one. Every run may be interrupted at any step and re-run without limit.

**`workflow_quiet`** has four commits, three pushes and a liveness property, `EveryCommitReleased`.
It is small (294 states) because nothing fails in it; the question is only whether runs that
cancel or overtake each other lose a commit.

**`action_run`** asks three parts. `ActionRun` (`AllOrNothing`; `PublishedIffEarned`, which is
`PublishedIsEarned` and `SuccessPublishes`; `CallersWordsKept`, which is `OthersUntouched` and
`OptionComesFirst`) has three bytes of records, enough for a write to be first, middle and last, and every
argument list of up to three words, with the longer ones that begin with `-- generate`: the word
positions the script looks at are the first two, and what follows matters by what it contains and
by its order relative to `--`. `ExecutionReport` (`OutputsAreTheReport`, which is
`FileIsTheOutput` and `CountsAddUp`; `RunnerReadsOutputs`)
takes every report of up to four members over three keys, so that each key may be present, absent and
repeated, with every integer from one below to one above the permitted range, `True` and `1.0`; there
are two delimiters, so that one may occur in a value. `PackageArtifact` (`OneOfferedWheel`, which is
`TestedWasOffered` and `OneWheelTested`) has three attempts, the smallest number in which a job is verified again and then
tested again.

**`planner`** asks three parts. `ReleasePlanner` (`PromiseKept`, which is
`VersionsIncrease`, `SemVerKept` and `MessagesKept`) has seven
contracts that differ by an optional, a required or a deprecated input, an output, the manifest or its
absence, components up to 1 so that the limit of a component is reached, and three releases, so that
there are releases that are not adjacent. `ContractGuard` (`PromiseSurvivesStaleChecks`,
`AccountedSomewhere`, `RefusalsStayRight`) has two contracts, so that an output comes and goes, three
commits, three tags, three CI runs and two release runs: a verdict, a plan or both may be of an older
tag than the one a release follows. `CommitMessage` (`CleanMessagesAsDocumented`, `TrailersAddNothing`) has
every message of up to six lines: subject, blank line, body, blank line, and a footer of two.
`CleanMessagesAsDocumented` compares with the table of the documentation, read without the code's
regular expressions.

**`release_jobs`** asks four parts. `NotesPipeline` (`NotesAreBound`, which is `TagBindsScannedNotes`,
`ReleaseShowsBoundNotes` and `RecoveredNotesAreBound`; `MissedMeansExpired`) has two notes and three attempts, so that a full re-run may
be followed by a re-run of its failed jobs, and edits of the Release's text at any moment. `ReleaseNotes` (`SubjectsAreData`, which is
`SubjectsAreLiteral` and `NotesParseBack`) has every
pair of subjects of up to seven symbols in all: two runs of backticks of different length with
text between and at both ends. `ProtectedTag` (`UneditedTagIsOurs`, `GreenIsForever`) begins with
protecting rulesets and has two edits, to open them and to close them again, beside the owner's
switch, at any moment. `ReleasePolicy` (`PassedWhileProtected`,
`UneditedIsAccepted`) is the gate alone, from any rulesets: one job, because jobs do not influence each
other, and two edits: one may hit each ruleset, or both the same one, at every point between the four
reads. The owner's documents spell instants with `Z` and the job's either way, so that both agree and
both differ.

Deadlock is checked in all runs of `ReleaseTags`. It is not checked for the workflow (a repository in
which nothing happens is a good state), for `action_run` (a step ends), for `planner` (the bounds on
releases, commits and lines) and for `release_jobs` (the bounds on edits and attempts, and a job that
passed is over).

Each of these runs also checks the type invariants of its parts (`TypeOK`; `PlannerPartsTypeOK`,
`JobPartsTypeOK` and `StepPartsTypeOK` where there are several).

Each property of a passing run has at least one mutation of a definition, listed in `PROJECT.json`,
under which the same run finds it violated. The definitions named `Mut...` in the modules are those
mutated forms and have no other use.

## 5. Fairness and other assumptions

* `CalmSpec` (`tags_converge`): weak fairness of `Reconcile(p)`. Every git command ends, by a timeout
  if not otherwise, and the script then goes on to its next statement: a call that can take a step
  takes one. Pushes are refused only for what other publishers did. No fairness is put on planning.
* `QuietSpec` and `DispatchedSpec`: GitHub starts a waiting run when the group is free, runners
  execute jobs, CI of a pushed commit ends with success. Nothing is assumed of pushes, dispatches or
  re-runs: nobody has to do any of them.
* `Undisputed` (in `ReleaseTags!Spec`): no two calls under way claim one commit for different
  versions. The concurrency group in `release.yml` (lines 14-16) guarantees more, one run at a
  time. It is not idle: finding 1 shows what happens without it.
* The remote's rulesets let nobody move or delete a release tag; even outsiders only add.
* SHA-256 digests stand for what they digest.
* Of what GitHub lets people do to a Release by hand, edits of its text are modelled (`EditRelease`), so
  nothing is claimed of the text after a run turned green. Titles and the other fields that
  `verify_github_release` compares are not: an edit of one can only stop a run, as `Interrupted` does.
  It is assumed that nobody creates or deletes a Release of these tags or moves the latest pointer
  by hand; `HighestReleaseIsLatest` and `LatestNeverGoesBack` are about what the runs do to it.
* `InitialNotesAssumption` (`ReleaseWorkflow`): a release that is there before the first run and has
  canonical notes has those of its place. `WorkflowAssumption` has such releases on the first commit, so
  there is at most one, and nothing is before it.
* `main` is linear in `ReleaseWorkflow` (pull requests are merged one after another). `ReleaseTags`
  takes any ancestry.
* GitHub stamps a ruleset with a new revision whenever it is edited (`ReleasePolicy`), and keeps the
  tag of an immutable Release where it is (`ProtectedTag`).
* In `ContractGuard` `main` is linear, release runs are serialized by their concurrency group, and CI
  fails through the guard only.
* Outputs of a job survive a re-run of others, artifacts until they expire (`NotesPipeline`,
  `PackageArtifact`). Nothing is assumed of how long that is.
* PyPI answers with its current state and never gives a file name twice (`PackageArtifact`).

## 6. What is proved

The groups of properties that runs check are theorems, too: `RemoteStands`, `ReportsAreTrue`, `OutputsIffEarned`,
`WordsStay`, `PromiseHolds`, `NotesStayBound` and `OneOffered` join the ones named below.

All theorems are for every value of the constants that satisfies the named assumptions.

**`ReleaseTagsProofs`** (`Spec => []...`): `TypeCorrect` (even without `Undisputed`),
`HistoryIsOrdered`, `CoordinationFollows`, `NotesStayRight`, `SuccessIsTruthful`, `CreatorIsOwner`,
`CreationIsAtomic`, `Refinement`, `ServiceRefinement` and `OneReleasePerGraph`. They follow from one inductive invariant, `ReleaseTags!Inv`
(theorem `Invariance`). The question is why a push under the lease lands on the graph that its
publisher read, although branch and tags were read separately and nothing locks them. The argument:

1. A lease names a commit that is already released, if it names one (`LeaseIsReleased`), and every
   creation moves the branch to a commit that is not. So the branch never comes back to an old
   value.
2. Hence, while the branch still has the leased value, nothing was created since the tags were
   read: `seen[p] = tags` (`LeaseGuardsGraph`). All checks made on `seen[p]` hold of the remote.
3. git skips the lease when the branch is already where the push wants it. Under `Undisputed` that
   happens only by a publisher of the same tag (`ClaimIsShared`), and then the tag is already there:
   the tag is never sent without the branch (`SentTogether`).
4. A created tag is above and descends from everything before, so each graph anyone planned on or
   read is a prefix of the remote's graph for ever (`PrefixOf` in `CallInv`), and outcomes
   that were true stay true.

`ServiceRefinement` (`ServiceImplemented`) goes step by step: planning asks, a retry asks again, the push that
creates a tag is the service's `Create` (`ServiceCreates`: by 1-3 it lands on the planned graph), the two ways to
report success are its `Publish` (`ServicePublishes`: by 4 the graph below the tag is the planned one), every
refusal is its `Close`, and the reads and lost pushes in between show nothing (`ServiceRests`).

`RecoveryIsIdempotent` (`NoSpuriousRefusal`) needs `RecoveryInv`, which adds to `Inv` that a publisher
only ever reads more than was planned on, and that a lease and a reading that are both of the planned
graph agree: nothing was created between them. So a call whose release is there fails none of its
checks. Under `OpenSpec`, where outsiders push any tag and move the branch anywhere, the lease says nothing about
the tags and most of `Inv` is lost. What is left, `OpenInv`, is enough for `OpenSuccessIsTruthful`
(`TruthfulSuccess`) and `CreationExtendsPlan` (`CreatedExtendsPlan`): the planned
graph descends to the planning clone's head, which is the requested commit when the push is sent; and tags are only
ever added (`TagsAreKept`), so what the last check saw is still there.

**`TagServiceProofs`** is about the promise alone, for any callers and for any graph of tags that the service begins
with: `TypeCorrect`, `AnswersStand` (`PublishedForEver`), `OnePublishedPerGraph` (`OneTagPerGraph`) and `RegistryRefinement`.
A created tag is above all others (`CreatedAbove`), so a published release keeps everything below it as it was
planned on (`PublishedStays`); two new releases on one graph would each stand right above it, and so are one
(`OnePublished`). Implementations inherit this by instantiating the module (`Promise`): `OneReleasePerGraph` is
the documentation's sentence on concurrent publishers (`docs/how-to/release-action.md:182-184`) for `ReleaseTags!Spec`, where
no two calls dispute a commit (without that it is false: finding 1), and for the runs of the workflow;
`ReconciledRunsStand` (`ReconciledTagStands`) says that a run that got past the tag step is right about its tag for good, also after
it has failed and while others overtake it, which `TagStands` below has of the run in progress only.

**`ReleaseWorkflowProofs`**: `TypeCorrect`, `HighestStaysLatest`, `ReleasesAgree`, `CiPassedFirst`, `LatestOnlyGrows`,
`VerificationIsOfTheTag` (`VerifiedAsBound`), `Refinement` (of `TagRegistry`), `ServiceRefinement` (of `TagService`),
`ReconciledRunsStand` and `OneReleasePerGraph`, for any number of runs, commits, versions, re-runs and interruptions. The
invariant rests on the concurrency group: one run is in progress (`OneRunning`), so what its job
established of the tag stands until the job ends (`TagStands`), although a later attempt starts from
the plan of an earlier one (`FaithfulPlan`, of the graph it was planned on). A tag is appended above all
others, so that the notes of older tags keep the range they were rendered for (`AddHighest`), and the
latest Release moves only to the highest tag. Of a Release's text the invariant says only who wrote it: the
runs, of whom each writes the notes of its tag, or somebody by hand (`ReleasesAgree`). That a run gets past it
with the text of the tag alone (`VerificationIsOfTheTag`) needs `TagStands` again: the code compares with
the notes of the run's plan, and those are the tag's. The invariant was checked by TLC on repositories without a
tag, with a canonical and with a legacy one before it was proved. The theorems are of `Spec`; the runs that state
fairness have fewer behaviours.

**`ActionRunProofs`**: `TypeCorrect`, `AllOrNothingHolds`, `OutputsAreEarned`, `SuccessIsPublished`, `OthersStayUntouched`
and `OptionIsFirst`, for records of any size in any number of writes, and argument lists of any
length. The invariant says that the write stage is reached only from a validated report of a
managed command that succeeded, and that before it nothing was written. `OptionIsFirst` rests on
`ManagedArgsShape`, a lemma about where the option lands in the concatenated list.

**`ReleasePlannerProofs`**: `RequiredBumpTriangle`; `TypeCorrect`, `VersionsGrow`,
`SemVerHolds` and `MessagesHold`, for all sets of inputs,
outputs, values, runtimes, packages and manifests. The code compares a release with the one before it
only; that this is enough for any two releases is an ultrametric inequality on both sides.
`RequiredBumpTriangle`: what a change requires is at most the maximum of what its two halves
require, so no breaking change hides in two steps. `DifferenceGrows`: the difference of two versions
is at least that of any two in between. `PublishKeeps` puts them together by way of the
latest release.

Its last part is about `CommitMessage`: `CleanMessagesMeanTheTable` (`CleanMessagesAsDocumented`) and
`TrailersAreNeutral` (`TrailersAddNothing`), for messages of any length. The split of a message into
paragraphs is a recursive function on its lines. In place of induction stands `LeastNumber`, the
least-number principle, which follows from the well-foundedness of `<` on `Nat`: the function exists
(`SplitsDefined`), and the paragraph that it ends with is the one after the last blank line (`LastParagraphIs`),
because there is no least line at which this could fail.

**`ContractGuardProofs`**: `GuardTypeCorrect`, `ReleasesAreAccounted`, `RefusalsStand` and `PromiseStands`, for any
history, any number of runs and any bounds. The invariant has the released commits ascend (`TagsAscend`), says what
a plan may be for (`PlansFit`), and for each retained verdict what it still means after newer tags
(`SuccessAccounts`, `RefusalsHold`). The heart is the triangle again: if the change from tag i to tag j was accounted
for and the change from j to a commit is, then the one from i is. `PromiseStands` (`PromiseSurvivesStaleChecks`)
uses that the tag step puts a version on nothing but the graph it was planned from: whatever CI and
the plan looked at before, it follows the release it was computed from.

**`TextProofs`** is about what is read of a text that was written.
`SubjectsStayData` (`SubjectsAreData`) is about `ReleaseNotes`, for subjects of any length and in any
number. No run of backticks in a subject is longer than its longest (`LongestRunIs`), so none closes the
fence before its own end (`SubjectSpan`). What Markdown makes of a commit's line is read off position by
position (`LineIsLiteral`). The parser searches from the end and needs no bound on what subjects
quote: the last line with its marker is the one that the renderer wrote (`NotesOfAnyCommits`).
`OutputsStayTheReport` (`OutputsAreTheReport`) and `OutputsReachTheRunner` (`RunnerReadsOutputs`) are about
`ExecutionReport`, for reports with any members, any permitted counts and any set of delimiters. The total that
`validate_report` compares is a sum over a set, the one that a workflow can form of the output is along a list;
`SumsAgree` makes them equal, by way of the community modules' own definition of a sum (`SumSolves`).
A record is read back wherever it stands (`RecordIsRead`), because the first later line that is its
delimiter is the one that closes it. The two of `ExecutionReport` are facts about every
list of members; `SubjectsStayData` needs of the behaviours that subjects are lists of symbols (`SubjectsTyped`).
Markdown and the runner read by a recursive function of the position in the text. That it exists
(`ReadingExists`) is shown by the latest position from which there would be none (`LeastNumber`),
which stands for an induction.

**`ActionRunProofs`, second part**: `PackageTypeCorrect`, `OnlyOfferedWheels`, `OneWheel` and `OneOffered`
about `PackageArtifact`, for any Pythons, tests,
wheels and attempts. A verified wheel was on offer (`VerifiedWasOffered`), a stored one is the one selected
(`StoredIsSelected`), and a green test ran that one (`GreenRanSelected`): a new selection makes all tests
start over.

**`ReleaseJobsProofs`**: `TypeCorrect`, `GateIsSound` and `UneditedPassesGate`, for any number of jobs and edits. A ruleset that still has a
recorded revision is as it was recorded, so an attestation vouches for the rulesets while they have
its revisions (`Vouches`); and a second ruleset that is found at its attested revision already had it
when the first was read (`GateInv`). Conversely (`UneditedIsAccepted`), what a job has read is not older than its
policy and not newer than what is in force (`ReadingInv`), so a reading that differs from the policy is of
a ruleset that was edited since. Behind the gate, `ProtectedTypeCorrect`, `UneditedTagStays` and `GreenStays`:
as long as no ruleset is edited, the one that forbids changes is in force whenever the tag could be
touched; and a job becomes green only by seeing an immutable Release, which holds its tag.

**`ReleaseJobsProofs`, second part**: `PipelineTypeCorrect`, `TagIsScanned`, `ReleaseIsBound`, `OnlyExpiredIsMissed` and
`RecoveryIsBound`, for any notes and any number of attempts. The invariant follows the digest: an output
names an artifact that was stored under this digest and has either kept it or expired
(`OutputsAreStored`), and a digest leaves the scan job only after those bytes were scanned (`ScanHandsOn`).
`NotesStayBound` is about a text that others edit: it holds of the tag at all times, and of the Release
from the moment that a job makes or verifies it until the next edit.

**Composed runs.** The theorems above are of a module's own specification; `planner`, `release_jobs` and
`action_run` check several modules side by side. `PartsAreWhole`, in the proofs of each, shows that a
behaviour of the composition is one of every part, so the theorems hold of what the runs check, and
their joint type correctness follows (`PlannerPartsTypeCorrect`, `JobPartsTypeCorrect`,
`StepPartsTypeCorrect`). In `release_jobs` the gate without the job behind it is more
liberal than `ProtectedTag` has it (it may start without immutable Releases), so there the types of
the remote need a step of their own (`RemoteTypeKept`).

**Model-checked only.** Liveness (`CreatorsConverge`, `EveryCommitReleased`) is beyond this prover.
Every invariant, every action property and the refinement that a run checks is a theorem. Conversely,
two refinements have theorems and no run of their own: that `ReleaseWorkflow` implements `TagService`, which TLC found to
hold on the instance of `workflow` before it was proved, but too slowly to be
repeated with every run; and `TagRegistry` below `TagService`, which follows.

## 7. Findings

1. **One commit, two tags** (`tags_same_commit`, `scripts/release_tags.py:289`). The lease does not
   serialize publishers that tag the *same* commit with different versions. git treats a ref that
   already has the wanted value as up to date before it considers the lease: after A moved the
   branch to C, B's push (another version on C, with A's predecessor as its lease) sends the tag alone
   and succeeds. From then on `remote_release_tags` refuses the remote's tags, and the rulesets do not let
   anyone delete one. `docs/how-to/release-action.md:182-184` promises at most one new tag from the
   same observed state. The workflow's concurrency group keeps such calls apart.
2. **A dispatch can swallow a push** (`workflow_dispatch`, `.github/workflows/release.yml:14`). A dispatch
   of an existing tag, made while one run is in progress and a push waits, cancels the waiting run and
   then only recovers its tag. `docs/how-to/release-action.md:285-287` says a later serialized run evaluates
   such commits; without another push or dispatch none does.
3. **An innocent recovery is blamed** (`workflow_latest`, `.github/workflows/release.yml:579`). When the highest
   tag still lacks its Release, the release below it is rightly the latest. Dispatching that lower tag
   creates and promotes nothing, and fails with "Recovery incorrectly promoted an older release to
   latest."

4. **A footer after two blank lines is not seen** (`commit_blank_lines`, `scripts/release_state.py:171`). The
   regular expression that splits paragraphs consumes a blank line together with the line ends on both
   sides; of two blank lines before the last paragraph, the second stays with the paragraph, whose first
   line is then empty and no footer entry. `feat: a`, a body, two blank lines and `BREAKING CHANGE: x`
   plan a minor release; with one or three blank lines, a major one.
   `docs/how-to/release-action.md:222` promises a major bump for an entry in the final footer paragraph. Git's
   default cleanup never leaves two blank lines together, and for such messages
   `CleanMessagesAsDocumented` holds; `--cleanup=verbatim` and GitHub's API may.

## 8. What is not modelled

* **End-to-end actions, Scorecard and fuzz workflows, fuzz harness, developer scripts**: straight-line
  commands that share no state; the jobs of **CI** other than the guard and the released package only add
  to the verdict per commit, which `ReleaseWorkflow` and `ContractGuard` have.
* **Partly modelled**: `release.py` is argument parsing around the modelled operations; the expressions of
  `action.yml` are evaluated by GitHub. Parsing of YAML and JSON is abstracted to what is parsed, in contracts,
  rulesets and PyPI's documents; the fields of a report whose rule is a pattern or an enumeration
  stand under its other fields.
* **The rollback's look at the file's size** (`publish-execution-report.py`, lines 329-331): it truncates only a
  file that has grown by no more than the records. Nothing else writes `GITHUB_OUTPUT` while the step
  runs, so in `ActionRun` the condition always holds and `Rollback` leaves it out.
* The interval between the policy gate and the push (`release.yml`, after line 465) is in `ProtectedTag`,
  and so is its limit: after an edit of a ruleset, a tag may be replaced between the tag step
  and the creation of the Release, whose `--verify-tag` asks for the name only. The job may then
  be green about a foreign tag; what holds is that it never changes from then on (`GreenIsForever`). That it is
  the planned one is claimed only while nobody edits a ruleset (`UneditedTagIsOurs`).
* `ContractGuard` has CI pass whenever the guard does, and no commits beside `main`; pull requests are
  checked by the same script against the same tags.

## 9. What comes next

1. Several jobs behind the gate of `ProtectedTag` in TLC (the theorems already have any number).
