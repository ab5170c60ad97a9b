-------------------------- MODULE MCReleaseWorkflow --------------------------
(* Instances of ReleaseWorkflow for TLC: main is 0 <- 1 <- 2 <- 3, v1.0.0 is at *)
(* commit 0.                                                                    *)
EXTENDS ReleaseWorkflow

CONSTANTS Fixes, Features   \* the commits whose messages ask for a bump

MCAncestry == {p \in Commits \X Commits : p[1] <= p[2]}

MCMetas == [tag : Versions, commit : Commits, previous : Versions \cup {None}]

MCRequiredBump ==
    [p \in Commits \X Commits |->
        CASE \E c \in Features : p[1] < c /\ c <= p[2] -> "minor"
          [] \E c \in Fixes : p[1] < c /\ c <= p[2] -> "patch"
          [] OTHER -> "skip"]

NoTags == [v \in Versions |-> NoTag]

FirstRelease == [NoTags EXCEPT ![10000] =
    [commit |-> 0, meta |-> Render(10000, 0, None), tagger |-> "app"]]

LegacyRelease == [NoTags EXCEPT ![10000] = [commit |-> 0, meta |-> Legacy, tagger |-> "app"]]
=============================================================================
