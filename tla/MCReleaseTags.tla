---------------------------- MODULE MCReleaseTags ----------------------------
(* Instances of ReleaseTags for TLC. *)
EXTENDS ReleaseTags, TLC

CONSTANTS p1, p2, k1, k2, m1, m2

\* c0 is the root, c1 and c2 are branches from it, c3 is a child of c1.
MCAncestry ==
    {<<c, c>> : c \in Commits} \cup
    ({<<"c0", "c1">>, <<"c0", "c2">>, <<"c0", "c3">>, <<"c1", "c3">>} \cap (Commits \X Commits))

DistinctTaggers == p1 :> k1 @@ p2 :> k2
SharedTagger == p1 :> k1 @@ p2 :> k1

Request(v, c, m) ==
    [tag |-> v, commit |-> c, meta |-> m, head |-> c, localTag |-> FALSE]

NoTags == [v \in Versions |-> NoTag]
LegacyTag == [NoTags EXCEPT ![1] = [commit |-> "c0", meta |-> Legacy, tagger |-> k1]]

\* Two rivals for one version with different commits or notes, a commit
\* claimed for two versions, a later release, the legacy tag claimed under
\* canonical metadata, and two calls made from the wrong clone.
RaceRequests ==
    {Request(2, "c1", m1), Request(2, "c1", m2), Request(2, "c2", m1), Request(2, "c3", m1),
     Request(3, "c1", m1), Request(3, "c2", m1), Request(4, "c3", m1), Request(1, "c0", m1),
     [Request(4, "c3", m1) EXCEPT !.head = "c1"],
     [Request(4, "c3", m1) EXCEPT !.localTag = TRUE]}

\* One version per publisher, both for the same commit.
SameCommitRequests == {Request(2, "c1", m1), Request(3, "c1", m1)}

\* Two versions, to be created or found among outsiders' tags.
OpenRequests == {Request(1, "c1", m1), Request(2, "c1", m1)}

OneRelease == {Request(2, "c1", m1)}
=============================================================================
