---------------------------- MODULE ReleaseTags ----------------------------
(***************************************************************************)
(* scripts/release_tags.py: reconcile_remote_tag, run by any number of     *)
(* publishers against one remote repository.  A publisher plans a release  *)
(* from the tag graph it sees, and later creates the annotated tag or      *)
(* verifies the one that is there.  The two refs it depends on are the     *)
(* release tags, which the remote's rulesets make append-only, and the     *)
(* branch refs/heads/release-coordination, which every tag creation        *)
(* advances under a lease in the same atomic push.                         *)
(*                                                                         *)
(* One action per remote operation: between any two of them other          *)
(* publishers, or someone holding the App's credentials, may act.          *)
(***************************************************************************)
EXTENDS TagGraph

CONSTANTS
    Publishers,
    Tagger,        \* the tagger line each publisher writes; may be shared
    Requests,      \* the arguments a publisher may be run with
    InitialTags,   \* the release tags that predate the coordination branch
    None

ASSUME PublisherAssumption ==
    /\ Tagger \in [Publishers -> Taggers]
    /\ Requests \subseteq [tag : Versions, commit : Commits, meta : Metas,
                           head : Commits, localTag : BOOLEAN]
    /\ None \notin Commits

ASSUME InitialTagsAssumption ==
    /\ InitialTags \in Graphs
    /\ Annotated(InitialTags)
    /\ Ordered(InitialTags)
    /\ Tagged(InitialTags) = {} \/ \E v \in Versions : IsLatest(InitialTags, v)

VARIABLES
    tags,         \* the remote's release tags
    coord,        \* the remote's coordination branch, None when absent
    pc,           \* how far each publisher's call has come
    plan,         \* its arguments, and the graph their digest was taken from
    coordBefore,  \* coordination_before, the value the lease expects
    seen,         \* remote_tags, then final_tags
    commands,     \* the ref updates its push sends
    push          \* what its push returned

vars == <<tags, coord, pc, plan, coordBefore, seen, commands, push>>
remote == <<tags, coord>>
locals == <<plan, coordBefore, seen, commands, push>>

Outcomes == {"created", "existing", "refused"}
Stages == {"planned", "leased", "read", "push", "send", "pushed", "reread", "verified"}
Active(p) == pc[p] \in Stages
Succeeded(p) == pc[p] \in {"created", "existing"}

\* `graph` is what --expected-tag-graph-sha256 digests.
Plans == [tag : Versions, commit : Commits, meta : Metas, head : Commits,
          localTag : BOOLEAN, graph : Graphs]

TypeOK ==
    /\ tags \in Graphs
    /\ coord \in Commits \cup {None}
    /\ pc \in [Publishers -> {"idle"} \cup Outcomes \cup Stages]
    /\ plan \in [Publishers -> Plans \cup {None}]
    /\ \A p \in Publishers : pc[p] # "idle" => plan[p] \in Plans
    /\ coordBefore \in [Publishers -> Commits \cup {None}]
    /\ seen \in [Publishers -> Graphs]
    /\ commands \in [Publishers -> SUBSET {"tag", "coordination"}]
    /\ push \in [Publishers -> {"none", "ok", "failed"}]

Init ==
    /\ tags = InitialTags
    /\ coord = None
    /\ pc = [p \in Publishers |-> "idle"]
    /\ plan = [p \in Publishers |-> None]
    /\ coordBefore = [p \in Publishers |-> None]
    /\ seen = [p \in Publishers |-> EmptyGraph]
    /\ commands = [p \in Publishers |-> {}]
    /\ push = [p \in Publishers |-> "none"]

Step(p, from, to) == pc[p] = from /\ pc' = [pc EXCEPT ![p] = to]

\* The call returns or raises: its local variables are gone.
Return(p, from, outcome) ==
    /\ Step(p, from, outcome)
    /\ coordBefore' = [coordBefore EXCEPT ![p] = None]
    /\ seen' = [seen EXCEPT ![p] = EmptyGraph]
    /\ commands' = [commands EXCEPT ![p] = {}]
    /\ push' = [push EXCEPT ![p] = "none"]
    /\ UNCHANGED <<tags, coord, plan>>

Tag(p) == plan[p].tag

\* The tag object mktag builds.
Object(p) == [commit |-> plan[p].commit, meta |-> plan[p].meta, tagger |-> Tagger[p]]

\* A check left out.
MutSkipped(p) == TRUE

\* verify_tag_reference: the target and the complete annotation.
Matches(object, p) == object.commit = plan[p].commit /\ object.meta = plan[p].meta

-----------------------------------------------------------------------------
(* Planning.  The planner and the publisher run on clones of one commit.   *)

Plan(p) ==
    /\ ~Active(p)
    /\ \E r \in Requests :
          /\ ValidAt(tags, r.head)
          /\ plan' = [plan EXCEPT ![p] =
                [tag |-> r.tag, commit |-> r.commit, meta |-> r.meta,
                 head |-> r.head, localTag |-> r.localTag, graph |-> tags]]
    /\ pc' = [pc EXCEPT ![p] = "planned"]
    /\ UNCHANGED <<tags, coord, coordBefore, seen, commands, push>>

\* "Re-run failed jobs": the same arguments, the same expected digest.
Retry(p) ==
    /\ Step(p, "refused", "planned")
    /\ UNCHANGED <<remote, locals>>

-----------------------------------------------------------------------------
(* reconcile_remote_tag                                                    *)

ReadCoordination(p) ==
    /\ Step(p, "planned", "leased")
    /\ coordBefore' = [coordBefore EXCEPT ![p] = coord]
    /\ UNCHANGED <<remote, plan, seen, commands, push>>

ReadTags(p) ==
    /\ Step(p, "leased", "read")
    /\ Readable(tags)
    /\ seen' = [seen EXCEPT ![p] = tags]
    /\ UNCHANGED <<remote, plan, coordBefore, commands, push>>

\* The expected digest may be of the graph with the tag or without it.
MutExistingOnlyBefore(p) ==
    Matches(tags[Tag(p)], p) /\ plan[p].graph = WithoutTag(seen[p], Tag(p))

MutExistingOnAnyGraph(p) == Matches(tags[Tag(p)], p)

ExistingAgrees(p) ==
    /\ Matches(tags[Tag(p)], p)
    /\ plan[p].graph \in {seen[p], WithoutTag(seen[p], Tag(p))}

VerifyExisting(p) ==
    /\ Return(p, "read", "existing")
    /\ Tag(p) \in Tagged(seen[p])
    /\ ExistingAgrees(p)

\* The checks between the two reads and the push of an absent tag.
AboveLatest(p) == \A v \in Tagged(seen[p]) : v < Tag(p)

DescendsFromLatest(p) ==
    \A v \in Versions : IsLatest(seen[p], v) => IsAncestor(seen[p][v].commit, plan[p].commit)

LeaseAgrees(p) ==
    coordBefore[p] # None =>
        \E v \in Versions : IsLatest(seen[p], v) /\ coordBefore[p] = seen[p][v].commit

PlannedGraph(p) == seen[p] = plan[p].graph

CommitIsFree(p) == \A v \in Tagged(seen[p]) : seen[p][v].commit # plan[p].commit

MayCreate(p) ==
    /\ Tag(p) \notin Tagged(seen[p])
    /\ plan[p].head = plan[p].commit
    /\ AboveLatest(p)
    /\ DescendsFromLatest(p)
    /\ LeaseAgrees(p)
    /\ PlannedGraph(p)
    /\ CommitIsFree(p)
    /\ ~plan[p].localTag

PrepareTag(p) ==
    /\ Step(p, "read", "push")
    /\ MayCreate(p)
    /\ UNCHANGED <<remote, locals>>

(* git push --atomic --force-with-lease.  The client compares the refs the *)
(* remote advertises with the ones it wants: a ref that is already there   *)
(* is up to date and is not sent, whatever the lease says; a tag is never  *)
(* overwritten; the lease must name the advertised value of the branch.    *)
Negotiable(p) ==
    /\ Tag(p) \in Tagged(tags) => tags[Tag(p)] = Object(p)
    /\ coord \in {coordBefore[p], plan[p].commit}

Negotiate(p) ==
    /\ Step(p, "push", "send")
    /\ Negotiable(p)
    /\ commands' = [commands EXCEPT ![p] =
          {c \in {"tag", "coordination"} :
              IF c = "tag" THEN Tag(p) \notin Tagged(tags)
                           ELSE coord # plan[p].commit}]
    /\ UNCHANGED <<remote, plan, coordBefore, seen, push>>

\* The remote compares each ref it was sent a command for with the value the
\* client saw.
MutApplicableWithoutLease(p) == "tag" \in commands[p] => Tag(p) \notin Tagged(tags)

Applicable(p) ==
    /\ "tag" \in commands[p] => Tag(p) \notin Tagged(tags)
    /\ "coordination" \in commands[p] => coord = coordBefore[p]

MutApplyEach(p) ==
    /\ Step(p, "send", "pushed")
    /\ tags' = IF "tag" \in commands[p] /\ Tag(p) \notin Tagged(tags)
               THEN WithTag(tags, Tag(p), Object(p)) ELSE tags
    /\ coord' = IF "coordination" \in commands[p] /\ coord = coordBefore[p]
                THEN plan[p].commit ELSE coord
    /\ \E answer \in {"ok", "failed"} : push' = [push EXCEPT ![p] = answer]
    /\ UNCHANGED <<plan, coordBefore, seen, commands>>

\* All commands are applied, or none.  The answer may be lost on its way back.
Apply(p) ==
    /\ Step(p, "send", "pushed")
    /\ Applicable(p)
    /\ tags' = IF "tag" \in commands[p] THEN WithTag(tags, Tag(p), Object(p)) ELSE tags
    /\ coord' = IF "coordination" \in commands[p] THEN plan[p].commit ELSE coord
    /\ \E answer \in {"ok", "failed"} : push' = [push EXCEPT ![p] = answer]
    /\ UNCHANGED <<plan, coordBefore, seen, commands>>

\* Nothing is applied, and reconcile_remote_tag goes on to look for itself.
MutPushRaises(p, stage) == Step(p, stage, "failed") /\ UNCHANGED <<remote, locals>>

PushFailed(p, stage) ==
    /\ Step(p, stage, "pushed")
    /\ push' = [push EXCEPT ![p] = "failed"]
    /\ UNCHANGED <<remote, plan, coordBefore, seen, commands>>

PushRefused(p) ==
    \/ PushFailed(p, "push") /\ ~Negotiable(p)
    \/ PushFailed(p, "send") /\ ~Applicable(p)

\* Whatever the push returned, the remote decides.
MutReadFinalAfterOk(p) ==
    /\ Step(p, "pushed", "reread")
    /\ push[p] = "ok"
    /\ seen' = [seen EXCEPT ![p] = tags]
    /\ UNCHANGED <<remote, plan, coordBefore, commands, push>>

ReadFinal(p) ==
    /\ Step(p, "pushed", "reread")
    /\ Readable(tags)
    /\ Tag(p) \in Tagged(tags)
    /\ seen' = [seen EXCEPT ![p] = tags]
    /\ UNCHANGED <<remote, plan, coordBefore, commands, push>>

MutVerifyNothing(p) == Step(p, "reread", "verified") /\ UNCHANGED <<remote, locals>>

VerifyTag(p) ==
    /\ Step(p, "reread", "verified")
    /\ Matches(tags[Tag(p)], p)
    /\ UNCHANGED <<remote, locals>>

PublicationAgrees(p) ==
    /\ coord = plan[p].commit
    /\ WithoutTag(seen[p], Tag(p)) = plan[p].graph

MutConfirmAnyPush(p) == Return(p, "verified", "created") /\ PublicationAgrees(p)

ConfirmPublication(p) ==
    /\ Return(p, "verified", IF push[p] = "ok" THEN "created" ELSE "existing")
    /\ PublicationAgrees(p)

\* fail(): the check of this stage does not hold.
CheckFails(p) ==
    \/ /\ Return(p, "leased", "refused")
       /\ ~Readable(tags)
    \/ /\ Return(p, "read", "refused")
       /\ Tag(p) \in Tagged(seen[p])
       /\ ~ExistingAgrees(p)
    \/ /\ Return(p, "read", "refused")
       /\ Tag(p) \notin Tagged(seen[p])
       /\ ~MayCreate(p)
    \/ /\ Return(p, "pushed", "refused")
       /\ ~(Readable(tags) /\ Tag(p) \in Tagged(tags))
    \/ /\ Return(p, "reread", "refused")
       /\ ~Matches(tags[Tag(p)], p)
    \/ /\ Return(p, "verified", "refused")
       /\ ~PublicationAgrees(p)

\* A hook, a ruleset or the network stops the push.
PushLost(p) == PushFailed(p, "push") \/ PushFailed(p, "send")

\* Any other git command may fail, and the runner may be lost, at any stage.
\* A push that is under way ends before the call does.
GitFails(p) == \E stage \in Stages \ {"push", "send"} : Return(p, stage, "refused")

Reconcile(p) ==
    \/ ReadCoordination(p)
    \/ ReadTags(p)
    \/ VerifyExisting(p)
    \/ PrepareTag(p)
    \/ Negotiate(p)
    \/ Apply(p)
    \/ PushRefused(p)
    \/ ReadFinal(p)
    \/ VerifyTag(p)
    \/ ConfirmPublication(p)
    \/ CheckFails(p)

Publisher(p) == Plan(p) \/ Retry(p) \/ Reconcile(p) \/ PushLost(p) \/ GitFails(p)

-----------------------------------------------------------------------------
(* Whoever else may push.  The rulesets forbid moving or deleting a tag;   *)
(* they cannot require annotation, order or the coordination branch.       *)

OutsiderTag ==
    /\ \E v \in Versions, object \in Objects :
          /\ v \notin Tagged(tags)
          /\ tags' = WithTag(tags, v, object)
    /\ UNCHANGED <<coord, pc, locals>>

OutsiderMovesCoordination ==
    /\ coord' \in (Commits \cup {None}) \ {coord}
    /\ UNCHANGED <<tags, pc, locals>>

-----------------------------------------------------------------------------
\* Publishers alone, in any interleaving.
RacingNext == \E p \in Publishers : Publisher(p)
RacingSpec == Init /\ [][RacingNext]_vars

\* No two calls under way claim one commit for different versions.  The
\* concurrency group of release.yml guarantees more: one run at a time.
Undisputed ==
    \A p, q \in Publishers :
        Active(p) /\ Active(q) /\ plan[p].commit = plan[q].commit => Tag(p) = Tag(q)

Next == RacingNext /\ Undisputed'
Spec == Init /\ [][Next]_vars

\* Publishers among outsiders.
OpenNext == RacingNext \/ OutsiderTag \/ OutsiderMovesCoordination
OpenSpec == Init /\ [][OpenNext]_vars
\* A quiet remote: pushes are refused only by what other publishers did, and
\* every git command ends.  A call that can go on does.
CalmNext == \E p \in Publishers : Plan(p) \/ Reconcile(p)
CalmSpec == Init /\ [][CalmNext]_vars /\ \A p \in Publishers : WF_vars(Reconcile(p))
-----------------------------------------------------------------------------
(* Properties *)

\* Released versions follow commit ancestry: a higher tag is on a strict
\* descendant, whatever publishers raced (planning relies on it, lines 66-70).
OrderedHistory == Annotated(tags) /\ Ordered(tags)

\* Once the coordination branch exists it names the commit of the highest
\* tag, so the next publisher is not refused (lines 241-244).
CoordinationAtLatest ==
    coord # None => \E v \in Versions : IsLatest(tags, v) /\ tags[v].commit = coord

\* A publisher that reported success did so for the release its notes were
\* rendered for: no tag was or will ever be slipped in below it, so the
\* predecessor in its notes stays its predecessor.
NotesRangeStable ==
    \A p \in Publishers : Succeeded(p) =>
        \A v \in Tagged(tags) :
            v < Tag(p) => v \in Tagged(plan[p].graph) /\ plan[p].graph[v] = tags[v]

\* "created" and "existing" mean the remote holds the requested target under
\* the requested annotation, even when the push's answer was lost.
TruthfulSuccess ==
    \A p \in Publishers : Succeeded(p) =>
        Tag(p) \in Tagged(tags) /\ Matches(tags[Tag(p)], p)

\* Only the publisher whose object is the tag says it created it.
CreatedIsOwn ==
    \A p \in Publishers : pc[p] = "created" => tags[Tag(p)] = Object(p)

\* What a call reports is true for ever, of the release and of who created it.
TruthfulReports == TruthfulSuccess /\ CreatedIsOwn

\* A created release is above, and descends from, everything in the graph it
\* was planned on, even if outsiders touched either ref on the way.
CreatedExtendsPlan ==
    \A p \in Publishers : pc[p] = "created" =>
        \A v \in Tagged(plan[p].graph) :
            v < Tag(p) /\ IsAncestor(plan[p].graph[v].commit, plan[p].commit)

\* A tag is created only while the remote still is the graph its publisher
\* planned from: one observed state leads to at most one new tag.
LandsOnPlannedGraph ==
    [][tags' # tags =>
        \E p \in Publishers :
            /\ pc[p] = "send"
            /\ tags = plan[p].graph
            /\ tags' = WithTag(tags, Tag(p), Object(p))]_vars

\* Recovery is idempotent: a well-formed call is not refused by any check
\* while the remote holds the planned graph with the requested release in it,
\* whoever created it and whatever became of the earlier attempts.
ReleaseIsThere(p) ==
    /\ Tag(p) \in Tagged(tags)
    /\ Matches(tags[Tag(p)], p)
    /\ plan[p].graph \in {tags, WithoutTag(tags, Tag(p))}

WellFormed(p) == plan[p].head = plan[p].commit /\ ~plan[p].localTag

NoSpuriousRefusal ==
    [][\A p \in Publishers : CheckFails(p) => ~(WellFormed(p) /\ ReleaseIsThere(p))]_vars

\* What docs/how-to/release-action.md promises of racing publishers: from one
\* observed graph at most one of their tags is created.
Created(p) ==
    /\ pc[p] # "idle"
    /\ Tag(p) \notin Tagged(plan[p].graph)
    /\ tags[Tag(p)] = Object(p)

OneTagPerObservedState ==
    \A p, q \in Publishers :
        Created(p) /\ Created(q) /\ plan[p].graph = plan[q].graph => Tag(p) = Tag(q)

\* Every publisher of one release ends with that release published, however
\* their calls interleave: one creates the tag, the others verify it.
CreatorsConverge == \A p \in Publishers : pc[p] = "planned" ~> Succeeded(p)

\* The remote's tags implement the append-only registry.
Registry == INSTANCE TagRegistry WITH registry <- tags
RegistryImplemented == Registry!Spec

\* For whoever calls it, the protocol is an atomic service: interleaved, interrupted and
\* repeated calls of reconcile_remote_tag take effect in one step each, on the graph that
\* was planned on, and what a publisher reports is what the service promises.
ServiceCall ==
    [p \in Publishers |->
        CASE pc[p] = "idle" -> "none"
          [] Active(p) -> "open"
          [] Succeeded(p) -> "published"
          [] OTHER -> "closed"]

ServicePlan ==
    [p \in Publishers |->
        IF pc[p] = "idle" THEN None
        ELSE [tag |-> plan[p].tag, commit |-> plan[p].commit, meta |-> plan[p].meta,
              graph |-> plan[p].graph]]

Service == INSTANCE TagService WITH
               Callers <- Publishers, call <- ServiceCall, plan <- ServicePlan
ServiceImplemented == Service!Spec
-----------------------------------------------------------------------------
(* The inductive invariant of Spec. *)

\* The tags are ordered, and the coordination branch, moved in the same push as each of
\* them, names the commit of the highest.
RemoteInv ==
    /\ OrderedHistory
    /\ Tagged(tags) = {} \/ \E v \in Versions : IsLatest(tags, v)
    /\ CoordinationAtLatest

\* A lease names a commit that is already released, so no later tag creation
\* can bring the branch back to it.
LeaseIsReleased(p) ==
    coordBefore[p] # None => \E v \in Tagged(tags) : tags[v].commit = coordBefore[p]

\* While the lease holds nothing has been created since the tags were read.
LeaseGuardsGraph(p) == coord = coordBefore[p] => seen[p] = tags

\* The branch reached this commit behind the publisher's back only by way of
\* a publisher of the same tag.
ClaimIsShared(p) ==
    CommitIsFree(p) /\ coord = plan[p].commit => Tag(p) \in Tagged(tags)

\* The tag never travels without the lease.
SentTogether(p) ==
    IF "tag" \in commands[p] THEN "coordination" \in commands[p]
                             ELSE tags[Tag(p)] = Object(p)

CallInv(p) ==
    /\ pc[p] # "idle" => PrefixOf(plan[p].graph, tags)
    /\ PrefixOf(seen[p], tags)
    /\ pc[p] \in {"leased", "read", "push", "send"} => LeaseIsReleased(p)
    /\ pc[p] \in {"read", "push", "send"} => LeaseGuardsGraph(p) /\ ClaimIsShared(p)
    /\ pc[p] \in {"push", "send"} => MayCreate(p)
    /\ pc[p] = "send" => SentTogether(p)
    /\ pc[p] \in {"pushed", "reread", "verified"} /\ push[p] = "ok" => tags[Tag(p)] = Object(p)
    /\ pc[p] \in {"reread", "verified"} => Tag(p) \in Tagged(seen[p])
    /\ pc[p] = "verified" => Matches(tags[Tag(p)], p)

OutcomeInv(p) ==
    /\ Succeeded(p) =>
          /\ Tag(p) \in Tagged(tags)
          /\ Matches(tags[Tag(p)], p)
          /\ \A v \in Tagged(tags) :
                v < Tag(p) => v \in Tagged(plan[p].graph) /\ plan[p].graph[v] = tags[v]
    /\ pc[p] = "created" => tags[Tag(p)] = Object(p)

Inv ==
    /\ TypeOK
    /\ Undisputed
    /\ RemoteInv
    /\ \A p \in Publishers : CallInv(p) /\ OutcomeInv(p)
=============================================================================
