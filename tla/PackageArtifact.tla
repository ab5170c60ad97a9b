--------------------------- MODULE PackageArtifact ---------------------------
(***************************************************************************)
(* The released package that CI tests: verify_selected_pypi_artifact in    *)
(* scripts/release_metadata.py and the jobs of ci.yml around it.  For each *)
(* Python, pip selects a wheel of the pinned version, a second request     *)
(* asks PyPI about it, a third downloads it, and test jobs run the wheel   *)
(* that was stored.  Meanwhile the maintainers upload, yank and delete     *)
(* files.  A wheel stands for its URL, its name and its bytes: PyPI never  *)
(* gives a file name twice.                                                *)
(***************************************************************************)
EXTENDS Integers

CONSTANTS
    Pythons,      \* of the compatibility declaration
    Tests,        \* the released-package-* jobs
    Wheels,       \* files of the pinned version
    Broken,       \* bytes of a transfer that went wrong
    MaxAttempts,  \* bound of the instance
    NoWheel

ASSUME PackageAssumption ==
    /\ MaxAttempts \in Nat \ {0}
    /\ Broken \notin Wheels /\ NoWheel \notin Wheels \cup {Broken}

VARIABLES
    attempt,   \* of the workflow run
    index,     \* PyPI's files of the version
    verify,    \* stage of verify-released-package-artifact, by Python
    selected,  \* in pip's report or artifact_url, by Python
    artifact,  \* the stored wheel, by Python
    tests,     \* result of each test job
    tested,    \* history: the bytes each test job has run
    offered    \* history: wheels on offer at some moment since pip selected one, by Python

packageVars == <<attempt, index, verify, selected, artifact, tests, tested, offered>>

TestJobs == Pythons \X Tests

PackageTypeOK ==
    /\ attempt \in 1..MaxAttempts
    /\ index \in [Wheels -> {"absent", "offered", "yanked", "deleted"}]
    /\ verify \in [Pythons -> {"waiting", "selected", "verified", "success", "failed"}]
    /\ selected \in [Pythons -> Wheels \cup {NoWheel}]
    /\ artifact \in [Pythons -> Wheels \cup {NoWheel}]
    /\ tests \in [TestJobs -> {"waiting", "success", "failed"}]
    /\ tested \in [TestJobs -> Wheels \cup {NoWheel}]
    /\ offered \in [Pythons -> SUBSET Wheels]

In(states) == {w \in Wheels : index[w] \in states}

PackageInit ==
    /\ attempt = 1
    /\ index \in [Wheels -> {"absent", "offered", "yanked"}]
    /\ verify = [p \in Pythons |-> "waiting"]
    /\ selected = [p \in Pythons |-> NoWheel]
    /\ artifact = [p \in Pythons |-> NoWheel]
    /\ tests = [t \in TestJobs |-> "waiting"]
    /\ tested = [t \in TestJobs |-> NoWheel]
    /\ offered = [p \in Pythons |-> {}]

-----------------------------------------------------------------------------
(* verify-released-package-artifact *)

Reaches(p, stage) == verify' = [verify EXCEPT ![p] = stage]

\* pip passes over yanked files, unless an exact version has no others (PEP 592).
Candidates == IF In({"offered"}) # {} THEN In({"offered"}) ELSE In({"yanked"})

\* pip install --dry-run --only-binary=:all: --report
Select(p) ==
    /\ verify[p] = "waiting"
    /\ \E w \in Candidates : selected' = [selected EXCEPT ![p] = w]
    /\ offered' = [offered EXCEPT ![p] = In({"offered"})]
    /\ Reaches(p, "selected")
    /\ UNCHANGED <<attempt, index, artifact, tests, tested>>

MutListed(w) == index[w] \in {"offered", "yanked"}

\* PyPI's release document has the URL, once and not yanked.
Listed(w) == index[w] \in {"offered", "yanked"} /\ index[w] # "yanked"

\* curl https://pypi.org/pypi/vexcalibur/<version>/json and verify-package-artifact.
Verify(p) ==
    /\ verify[p] = "selected"
    /\ Listed(selected[p])
    /\ Reaches(p, "verified")
    /\ UNCHANGED <<attempt, index, selected, artifact, tests, tested, offered>>

\* sha256sum --check, with PyPI's digest of the file.
Matches(bytes, w) == bytes = w

\* The file server gives a file to who has its URL, whatever the index says by now.
Download(p) ==
    /\ verify[p] = "verified"
    /\ \E bytes \in {selected[p], Broken} :
          /\ Matches(bytes, selected[p])
          /\ artifact' = [artifact EXCEPT ![p] = bytes]
    /\ Reaches(p, "success")
    /\ UNCHANGED <<attempt, index, selected, tests, tested, offered>>

\* A check or a command fails.
VerifyFails(p) ==
    /\ verify[p] \in {"waiting", "selected", "verified"}
    /\ Reaches(p, "failed")
    /\ UNCHANGED <<attempt, index, selected, artifact, tests, tested, offered>>

-----------------------------------------------------------------------------
(* released-package-help, -query-osv, -openvex, -csaf *)

\* resolve-vexcalibur-wheel: the stored wheel of the same Python.
Installed(p) == {artifact[p]} \ {NoWheel}

\* The tests need every Python's verification.
Test(t) ==
    /\ tests[t] = "waiting"
    /\ \A p \in Pythons : verify[p] = "success"
    /\ \/ \E w \in Installed(t[1]) :
             /\ tested' = [tested EXCEPT ![t] = w]
             /\ tests' = [tests EXCEPT ![t] = "success"]
       \/ UNCHANGED tested /\ tests' = [tests EXCEPT ![t] = "failed"]
    /\ UNCHANGED <<attempt, index, verify, selected, artifact, offered>>

-----------------------------------------------------------------------------
(* PyPI and GitHub *)

Changes == {<<"absent", "offered">>, <<"offered", "yanked">>, <<"yanked", "offered">>,
            <<"offered", "deleted">>, <<"yanked", "deleted">>}

\* A maintainer uploads, yanks, restores or deletes a file.
Maintain(w) ==
    /\ \E change \in Changes :
          index[w] = change[1] /\ index' = [index EXCEPT ![w] = change[2]]
    /\ offered' = [p \in Pythons |->
          offered[p] \cup {v \in Wheels : verify[p] = "selected" /\ index'[v] = "offered"}]
    /\ UNCHANGED <<attempt, verify, selected, artifact, tests, tested>>

\* retention-days: 1
Expire(p) ==
    /\ artifact[p] # NoWheel
    /\ artifact' = [artifact EXCEPT ![p] = NoWheel]
    /\ UNCHANGED <<attempt, index, verify, selected, tests, tested, offered>>

\* The given verify jobs and test jobs run again.
Again(ps, ts) ==
    /\ attempt < MaxAttempts
    /\ attempt' = attempt + 1
    /\ verify' = [p \in Pythons |-> IF p \in ps THEN "waiting" ELSE verify[p]]
    /\ tests' = [t \in TestJobs |-> IF t \in ts THEN "waiting" ELSE tests[t]]
    /\ tested' = [t \in TestJobs |-> IF t \in ts THEN NoWheel ELSE tested[t]]
    /\ UNCHANGED <<index, selected, artifact, offered>>

Running == \/ \E p \in Pythons : verify[p] \in {"waiting", "selected", "verified"}
           \/ \E t \in TestJobs : tests[t] = "waiting" /\ \A p \in Pythons : verify[p] = "success"

RerunFailed ==
    LET failed == {p \in Pythons : verify[p] = "failed"} IN
    /\ ~Running
    /\ Again(failed, IF failed # {} THEN TestJobs ELSE {t \in TestJobs : tests[t] = "failed"})

\* All jobs, or one job and the jobs that need it.
Rerun ==
    /\ ~Running
    /\ \/ \E ps \in {Pythons} \cup {{p} : p \in Pythons} : Again(ps, TestJobs)
       \/ \E t \in TestJobs : Again({}, {t})

PackageNext ==
    \/ \E p \in Pythons : Select(p) \/ Verify(p) \/ Download(p) \/ VerifyFails(p) \/ Expire(p)
    \/ \E t \in TestJobs : Test(t)
    \/ \E w \in Wheels : Maintain(w)
    \/ RerunFailed \/ Rerun

PackageSpec == PackageInit /\ [][PackageNext]_packageVars

-----------------------------------------------------------------------------
(* Properties *)

\* "reject it if PyPI marks the selected file as yanked": a tested wheel was on offer to
\* every user at some moment between pip's choice and its verification, although pip takes
\* a yanked file for an exact version and the index changes between the three requests.
TestedWasOffered ==
    \A t \in TestJobs : tests[t] = "success" => tested[t] \in offered[t[1]]

\* Whatever attempts the run took, the tests of one Python that are green have all run
\* one wheel, the one verified last.
OneWheelTested ==
    \A t, u \in TestJobs :
        t[1] = u[1] /\ tests[t] = "success" /\ tests[u] = "success" =>
            tested[t] = tested[u] /\ tested[t] = selected[t[1]]

\* The green tests of a Python vouch for one wheel that users could get.
OneOfferedWheel == TestedWasOffered /\ OneWheelTested
=============================================================================
