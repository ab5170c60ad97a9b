---------------------------- MODULE ProtectedTag ----------------------------
(***************************************************************************)
(* The publish job behind the gate of ReleasePolicy, and what the remote   *)
(* enforces meanwhile.  The job reads the repository's settings before it  *)
(* pushes the tag and creates the Release; they may be edited in between,  *)
(* and then anyone may create, move or delete the tag.  An immutable       *)
(* Release keeps its tag where it is, but GitHub makes one only while      *)
(* immutable releases are enabled.                                         *)
(***************************************************************************)
EXTENDS ReleasePolicy

VARIABLES
    immutability,  \* whether immutable releases are enforced
    tag,           \* the release tag on the remote: none, ours (as planned) or foreign
    release,       \* its GitHub Release: none, mutable or immutable
    jobs           \* where each job is behind the gate

remote == <<immutability, tag, release>>
protectedVars == <<vars, remote, jobs>>

ProtectedTypeOK ==
    /\ TypeOK
    /\ immutability \in BOOLEAN
    /\ tag \in {"none", "ours", "foreign"}
    /\ release \in {"none", "mutable", "immutable"}
    /\ jobs \in [Gates -> {"gate", "tagged", "failed", "done"}]

ProtectedInit ==
    /\ Init
    /\ immutability \in BOOLEAN
    /\ tag = "none"
    /\ release = "none"
    /\ jobs = [g \in Gates |-> "gate"]

-----------------------------------------------------------------------------
(* The job *)

\* The steps of ReleasePolicy up to the end of the gate.  Immutable releases are
\* required before the rulesets are read.
GateStep ==
    /\ Next
    /\ \A g \in Gates :
          /\ gates[g].stage = "passed" => gates'[g] = gates[g]
          /\ gates[g].stage = "waiting" /\ gates'[g].stage = "started" => immutability
    /\ UNCHANGED <<remote, jobs>>

Behind(g, stage) == gates[g].stage = "passed" /\ jobs[g] = stage

MutReconcileTag(g) ==
    /\ Behind(g, "gate")
    /\ tag' = IF tag = "none" THEN "ours" ELSE tag
    /\ jobs' = [jobs EXCEPT ![g] = "tagged"]
    /\ UNCHANGED <<vars, immutability, release>>

\* reconcile_remote_tag creates the tag, or finds it as it was planned.
ReconcileTag(g) ==
    /\ Behind(g, "gate")
    /\ tag # "foreign"
    /\ tag' = "ours"
    /\ jobs' = [jobs EXCEPT ![g] = "tagged"]
    /\ UNCHANGED <<vars, immutability, release>>

\* The Release there is, or the one GitHub makes.
Created == IF release # "none" THEN release
           ELSE IF immutability THEN "immutable" ELSE "mutable"

MutCreateRelease(g) ==
    /\ Behind(g, "tagged")
    /\ release = "none" => tag # "none"
    /\ release' = Created
    /\ jobs' = [jobs EXCEPT ![g] = "done"]
    /\ UNCHANGED <<vars, immutability, tag>>

\* gh release create --verify-tag asks for the tag's name only; verify_github_release
\* wants the Release it finds or has created to be immutable.
CreateRelease(g) ==
    /\ Behind(g, "tagged")
    /\ release = "none" => tag # "none"
    /\ release' = Created
    /\ jobs' = [jobs EXCEPT ![g] = IF Created = "immutable" THEN "done" ELSE "failed"]
    /\ UNCHANGED <<vars, immutability, tag>>

\* A step fails where it is, or because of what it finds.
JobFails(g) ==
    /\ Behind(g, "gate") \/ Behind(g, "tagged")
    /\ jobs' = [jobs EXCEPT ![g] = "failed"]
    /\ UNCHANGED <<vars, remote>>

\* A failed job is re-run from its first step: it passes the gate again.
RerunJob(g) ==
    /\ Behind(g, "failed")
    /\ Rerun(g)
    /\ jobs' = [jobs EXCEPT ![g] = "gate"]
    /\ UNCHANGED remote

-----------------------------------------------------------------------------
(* Everybody else, as far as GitHub lets them *)

OwnerSwitches ==
    /\ immutability' = ~immutability
    /\ UNCHANGED <<vars, tag, release, jobs>>

OutsiderCreates ==
    /\ tag = "none" /\ ~Protects(live["creation"])
    /\ tag' = "foreign"
    /\ UNCHANGED <<vars, immutability, release, jobs>>

OutsiderChanges ==
    /\ tag # "none" /\ ~Protects(live["immutable"]) /\ release # "immutable"
    /\ tag' \in {"none", "foreign"}
    /\ UNCHANGED <<vars, immutability, release, jobs>>

ProtectedNext ==
    \/ GateStep
    \/ \E g \in Gates : ReconcileTag(g) \/ CreateRelease(g) \/ JobFails(g) \/ RerunJob(g)
    \/ OwnerSwitches \/ OutsiderCreates \/ OutsiderChanges

ProtectedSpec == ProtectedInit /\ [][ProtectedNext]_protectedVars

-----------------------------------------------------------------------------
(* Properties *)

\* Whether the rulesets are still the ones the owner attested for the job.
Unedited(g) == \A k \in Kinds : live[k].revision = gates[g].policy[k].revision

\* The settings are read long before the tag is pushed.  Still, while nobody edits a
\* ruleset, the tag of a job that reported it stays what was planned.
UneditedTagIsOurs ==
    \A g \in Gates :
        (Behind(g, "tagged") \/ Behind(g, "done")) /\ Unedited(g) => tag = "ours"

\* A job is only green about a tag that can never change again, whatever is edited
\* during the job or after it.
GreenIsForever ==
    [][\A g \in Gates : Behind(g, "done") => tag' = tag /\ tag # "none"]_protectedVars
=============================================================================
