------------------------- MODULE ReleaseTagsProofs -------------------------
(***************************************************************************)
(* Proofs about ReleaseTags.tla for every set of publishers, requests,     *)
(* versions and commits: the protocol among publishers with Inv, what is   *)
(* left of it among outsiders with OpenInv, and idempotent recovery with   *)
(* RecoveryInv.                                                            *)
(***************************************************************************)
EXTENDS ReleaseTags, TLAPS

\* Types.  The arguments of a call and the graph they were planned on have the
\* types the command line validates, at every stage of every publisher.
LEMMA InitType == Init => TypeOK
<1> SUFFICES ASSUME Init PROVE TypeOK
    OBVIOUS
<1>1. EmptyGraph \in Graphs
    BY DEF EmptyGraph, Graphs
<1>2. QED
    BY <1>1, InitialTagsAssumption DEF Init, TypeOK

\* The object a publisher makes for its tag is a canonical one.
LEMMA ObjectType ==
    ASSUME TypeOK, NEW p \in Publishers, pc[p] # "idle"
    PROVE  /\ plan[p] \in Plans
           /\ Tag(p) \in Versions
           /\ plan[p].graph \in Graphs
           /\ Object(p) \in Objects
           /\ Object(p).meta \in Metas
           /\ Object(p) # NoTag
<1>1. plan[p] \in Plans
    BY DEF TypeOK
<1>2. Tagger[p] \in Taggers
    BY PublisherAssumption
<1>3. QED
    BY <1>1, <1>2, TagAssumption DEF Plans, Tag, Object, Objects, Annotations

\* Adding and removing a tag gives a graph.
LEMMA GraphType ==
    ASSUME NEW g \in Graphs, NEW v \in Versions, NEW o \in Objects \cup {NoTag}
    PROVE  WithTag(g, v, o) \in Graphs /\ WithoutTag(g, v) \in Graphs
BY DEF Graphs, WithTag, WithoutTag

\* A call that returns or raises keeps the types.
LEMMA ReturnType ==
    ASSUME TypeOK, NEW p \in Publishers, NEW from \in Stages, NEW outcome \in Outcomes,
           Return(p, from, outcome)
    PROVE  TypeOK'
<1>1. EmptyGraph \in Graphs
    BY DEF EmptyGraph, Graphs
<1>2. QED
    BY <1>1 DEF TypeOK, Return, Step, Stages, Outcomes

\* A push that fails keeps the types.
LEMMA PushFailedType ==
    ASSUME TypeOK, NEW p \in Publishers, NEW stage \in Stages, PushFailed(p, stage)
    PROVE  TypeOK'
BY DEF TypeOK, PushFailed, Step, Stages, Outcomes, remote

\* Every step of a publisher keeps the types, one case per action.
LEMMA StepType == TypeOK /\ [RacingNext]_vars => TypeOK'
<1> SUFFICES ASSUME TypeOK, RacingNext PROVE TypeOK'
    BY DEF TypeOK, vars
<1> PICK p \in Publishers : Publisher(p)
    BY DEF RacingNext
<1>1. CASE Plan(p)
    <2>1. PICK r \in Requests :
              plan' = [plan EXCEPT ![p] =
                [tag |-> r.tag, commit |-> r.commit, meta |-> r.meta,
                 head |-> r.head, localTag |-> r.localTag, graph |-> tags]]
        BY <1>1 DEF Plan
    <2>2. r \in [tag : Versions, commit : Commits, meta : Metas, head : Commits,
                 localTag : BOOLEAN]
        BY PublisherAssumption
    <2>3. [tag |-> r.tag, commit |-> r.commit, meta |-> r.meta,
           head |-> r.head, localTag |-> r.localTag, graph |-> tags] \in Plans
        BY <2>2 DEF Plans, TypeOK
    <2>4. plan' \in [Publishers -> Plans \cup {None}] /\ plan'[p] \in Plans
        BY <2>1, <2>3 DEF TypeOK
    <2>5. \A q \in Publishers : pc'[q] # "idle" => plan'[q] \in Plans
        BY <1>1, <2>1, <2>4 DEF Plan, TypeOK
    <2>6. QED
        BY <1>1, <2>4, <2>5 DEF Plan, TypeOK, Stages
<1>2. CASE Retry(p)
    BY <1>2 DEF Retry, Step, TypeOK, Stages, Outcomes, remote, locals
<1>3. CASE ReadCoordination(p)
    BY <1>3 DEF ReadCoordination, Step, TypeOK, Stages, Outcomes, remote
<1>4. CASE ReadTags(p)
    BY <1>4 DEF ReadTags, Step, TypeOK, Stages, Outcomes, remote
<1>5. CASE VerifyExisting(p)
    BY <1>5, ReturnType DEF VerifyExisting, Stages, Outcomes
<1>6. CASE PrepareTag(p)
    BY <1>6 DEF PrepareTag, Step, TypeOK, Stages, Outcomes, remote, locals
<1>7. CASE Negotiate(p)
    BY <1>7 DEF Negotiate, Step, TypeOK, Stages, Outcomes, remote
<1>8. CASE Apply(p)
    <2>1. pc[p] = "send"
        BY <1>8 DEF Apply, Step
    <2>2. tags' \in Graphs /\ coord' \in Commits \cup {None}
        BY <1>8, <2>1, ObjectType, GraphType DEF Apply, TypeOK, Plans
    <2>3. push' \in [Publishers -> {"none", "ok", "failed"}]
        BY <1>8 DEF Apply, TypeOK
    <2>4. QED
        BY <1>8, <2>2, <2>3 DEF Apply, Step, TypeOK, Stages, Outcomes
<1>9. CASE PushRefused(p) \/ PushLost(p)
    BY <1>9, PushFailedType DEF PushRefused, PushLost, Stages
<1>10. CASE ReadFinal(p)
    BY <1>10 DEF ReadFinal, Step, TypeOK, Stages, Outcomes, remote
<1>11. CASE VerifyTag(p)
    BY <1>11 DEF VerifyTag, Step, TypeOK, Stages, Outcomes, remote, locals
<1>12. CASE ConfirmPublication(p)
    BY <1>12, ReturnType DEF ConfirmPublication, Stages, Outcomes
<1>13. CASE CheckFails(p)
    BY <1>13, ReturnType DEF CheckFails, Stages, Outcomes
<1>14. CASE GitFails(p)
    BY <1>14, ReturnType DEF GitFails, Outcomes
<1>15. QED
    BY <1>1, <1>2, <1>3, <1>4, <1>5, <1>6, <1>7, <1>8, <1>9, <1>10, <1>11,
       <1>12, <1>13, <1>14 DEF Publisher, Reconcile

\* The type invariant, for publishers alone whatever they were asked to do.
THEOREM TypeCorrect == RacingSpec => []TypeOK
BY InitType, StepType, PTL DEF RacingSpec

\* Next only restricts RacingNext.
COROLLARY SpecTypeCorrect == Spec => []TypeOK
<1>1. TypeOK /\ [Next]_vars => TypeOK'
    BY StepType DEF Next
<1>2. QED
    BY <1>1, InitType, PTL DEF Spec
-----------------------------------------------------------------------------
(* Graphs that grow at the top. *)

\* Tagged versions are numbers.
LEMMA TaggedVersion ==
    ASSUME NEW g, NEW v \in Tagged(g) PROVE v \in Versions /\ v \in Nat
BY VersionsAssumption DEF Tagged

\* What a graph holds after a tag is put above its highest one.
LEMMA AppendGraph ==
    ASSUME NEW g \in Graphs, NEW v \in Versions, NEW o \in Objects,
           \A w \in Tagged(g) : w < v
    PROVE  /\ Tagged(WithTag(g, v, o)) = Tagged(g) \cup {v}
           /\ WithTag(g, v, o)[v] = o
           /\ \A w \in Tagged(g) : WithTag(g, v, o)[w] = g[w]
           /\ IsLatest(WithTag(g, v, o), v)
<1>1. o # NoTag
    BY TagAssumption
<1>2. v \notin Tagged(g)
    <2>1. ~(v < v)
        BY VersionsAssumption
    <2>2. QED
        BY <2>1
<1>3. \A w \in Versions : WithTag(g, v, o)[w] = IF w = v THEN o ELSE g[w]
    BY DEF WithTag, Graphs
<1>4. Tagged(WithTag(g, v, o)) = Tagged(g) \cup {v}
    BY <1>1, <1>3 DEF Tagged
<1>5. \A w \in Tagged(g) \cup {v} : w <= v
    <2> SUFFICES ASSUME NEW w \in Tagged(g) \cup {v} PROVE w <= v
        OBVIOUS
    <2>1. w \in Nat /\ v \in Nat
        BY TaggedVersion, VersionsAssumption
    <2>2. w < v \/ w = v
        OBVIOUS
    <2>3. QED
        BY <2>1, <2>2
<1>6. QED
    BY <1>2, <1>3, <1>4, <1>5 DEF Tagged, IsLatest

\* A prefix of a graph is one of the graph with a tag appended.
LEMMA AppendKeepsPrefix ==
    ASSUME NEW g \in Graphs, NEW v \in Versions, NEW o \in Objects,
           \A w \in Tagged(g) : w < v,
           NEW old \in Graphs, PrefixOf(old, g)
    PROVE  PrefixOf(old, WithTag(g, v, o))
<1> SUFFICES ASSUME NEW u \in Tagged(old)
             PROVE  /\ WithTag(g, v, o)[u] = old[u]
                    /\ \A w \in Tagged(WithTag(g, v, o)) : w < u => w \in Tagged(old)
    BY DEF PrefixOf
<1>1. g[u] = old[u] /\ u \in Tagged(g)
    BY DEF PrefixOf, Tagged
<1>2. u < v
    BY <1>1
<1>3. ~(v < u)
    BY <1>1, <1>2, TaggedVersion, VersionsAssumption
<1>4. QED
    BY <1>1, <1>3, AppendGraph DEF PrefixOf

\* Appending a strict descendant of the highest tag's commit keeps the order.
LEMMA AppendKeepsOrder ==
    ASSUME NEW g \in Graphs, NEW v \in Versions, NEW o \in Objects,
           \A w \in Tagged(g) : w < v,
           Annotated(g), Ordered(g), o.meta # Lightweight,
           Tagged(g) = {} \/ \E w \in Versions : IsLatest(g, w),
           \A w \in Versions : IsLatest(g, w) => IsAncestor(g[w].commit, o.commit),
           \A w \in Tagged(g) : g[w].commit # o.commit
    PROVE  /\ \A w \in Tagged(g) : IsAncestor(g[w].commit, o.commit)
           /\ Annotated(WithTag(g, v, o))
           /\ Ordered(WithTag(g, v, o))
<1> DEFINE h == WithTag(g, v, o)
<1>1. \A w \in Tagged(g) : w \in Versions /\ g[w] \in Objects /\ g[w].commit \in Commits
    BY DEF Tagged, Graphs, Objects
<1>2. o.commit \in Commits
    BY DEF Objects
<1>3. ASSUME NEW w \in Tagged(g)
      PROVE  IsAncestor(g[w].commit, o.commit)
    <2>1. PICK l \in Versions : IsLatest(g, l)
        OBVIOUS
    <2>2. l \in Tagged(g) /\ w <= l
        BY <2>1 DEF IsLatest
    <2>3. IsAncestor(g[l].commit, o.commit)
        BY <2>1
    <2>4. IsAncestor(g[w].commit, g[l].commit)
        <3>1. CASE w = l
            BY <3>1, <1>1, AncestryAssumption DEF IsAncestor
        <3>2. CASE w < l
            BY <3>2, <2>2 DEF Ordered
        <3>3. QED
            BY <3>1, <3>2, <2>2, TaggedVersion
    <2>5. QED
        BY <2>2, <2>3, <2>4, <1>1, <1>2, AncestryAssumption DEF IsAncestor
<1>4. Tagged(h) = Tagged(g) \cup {v} /\ h[v] = o /\ \A w \in Tagged(g) : h[w] = g[w]
    BY AppendGraph
<1>5. Annotated(h)
    BY <1>4 DEF Annotated
<1>6. Ordered(h)
    <2> SUFFICES ASSUME NEW a \in Tagged(h), NEW b \in Tagged(h), a < b
                 PROVE  IsAncestor(h[a].commit, h[b].commit) /\ h[a].commit # h[b].commit
        BY DEF Ordered
    <2>1. a \in Tagged(g)
        <3>1. ~(v < b)
            <4>1. b \in Nat /\ v \in Nat /\ b <= v
                BY AppendGraph, TaggedVersion, VersionsAssumption DEF IsLatest
            <4>2. QED
                BY <4>1
        <3>2. QED
            BY <3>1, <1>4
    <2>2. CASE b = v
        BY <2>1, <2>2, <1>3, <1>4
    <2>3. CASE b \in Tagged(g)
        BY <2>1, <2>3, <1>4 DEF Ordered
    <2>4. QED
        BY <2>2, <2>3, <1>4
<1>7. QED
    BY <1>3, <1>5, <1>6

\* Every graph is a prefix of itself.
LEMMA PrefixRefl == ASSUME NEW g \in Graphs PROVE PrefixOf(g, g)
BY DEF PrefixOf

\* The empty graph is a prefix of every graph.
LEMMA EmptyPrefix == ASSUME NEW g \in Graphs PROVE PrefixOf(EmptyGraph, g)
BY DEF PrefixOf, EmptyGraph, Tagged
-----------------------------------------------------------------------------
(* Safety of racing publishers. *)

\* The local variables of a publisher that does not move.
Untouched(q) ==
    /\ pc'[q] = pc[q]
    /\ plan'[q] = plan[q]
    /\ coordBefore'[q] = coordBefore[q]
    /\ seen'[q] = seen[q]
    /\ commands'[q] = commands[q]
    /\ push'[q] = push[q]

\* A tag is created only on the graph it was planned on; any other push leaves
\* the remote as it was.
Creates(p) ==
    /\ tags' = WithTag(tags, Tag(p), Object(p))
    /\ coord' = plan[p].commit
    /\ seen[p] = tags
    /\ MayCreate(p)

\* A push that sends its tag finds the graph its publisher read; any other leaves the
\* remote as it is.
LEMMA ApplyCreates ==
    ASSUME Inv, NEW p \in Publishers, Apply(p)
    PROVE  UNCHANGED remote \/ Creates(p)
<1>1. pc[p] = "send"
    BY DEF Apply, Step
<1>2. MayCreate(p) /\ SentTogether(p) /\ LeaseGuardsGraph(p)
    BY <1>1 DEF Inv, CallInv
<1>3. Object(p) # NoTag /\ Tag(p) \in Versions
    BY <1>1, ObjectType DEF Inv
<1>4. CASE "tag" \in commands[p]
    <2>1. "coordination" \in commands[p]
        BY <1>2, <1>4 DEF SentTogether
    <2>2. coord = coordBefore[p]
        BY <2>1 DEF Apply, Applicable
    <2>3. QED
        BY <1>2, <1>4, <2>1, <2>2 DEF Apply, Creates, LeaseGuardsGraph
<1>5. CASE "tag" \notin commands[p]
    <2>1. Tag(p) \in Tagged(tags)
        BY <1>2, <1>3, <1>5 DEF SentTogether, Tagged
    <2>2. seen[p] # tags
        BY <1>2, <2>1 DEF MayCreate
    <2>3. "coordination" \notin commands[p]
        BY <1>2, <2>2 DEF Apply, Applicable, LeaseGuardsGraph
    <2>4. QED
        BY <1>5, <2>3 DEF Apply, remote
<1>6. QED
    BY <1>4, <1>5

\* What creating a tag does to the remote.
LEMMA CreateOnRemote ==
    ASSUME Inv, NEW p \in Publishers, pc[p] = "send", Creates(p)
    PROVE  /\ Tag(p) \in Versions
           /\ Object(p) \in Objects
           /\ tags \in Graphs
           /\ \A v \in Tagged(tags) :
                 /\ v < Tag(p)
                 /\ tags'[v] = tags[v]
                 /\ IsAncestor(tags[v].commit, plan[p].commit)
                 /\ tags[v].commit # plan[p].commit
           /\ Tagged(tags') = Tagged(tags) \cup {Tag(p)}
           /\ tags'[Tag(p)] = Object(p)
           /\ plan[p].commit # None
           /\ RemoteInv'
<1>1. Tag(p) \in Versions /\ Object(p) \in Objects /\ Object(p).meta \in Metas
    BY ObjectType DEF Inv
<1>2. tags \in Graphs /\ Object(p).commit = plan[p].commit
    BY DEF Inv, TypeOK, Object
<1>3. /\ \A v \in Tagged(tags) : v < Tag(p)
      /\ \A v \in Tagged(tags) : tags[v].commit # plan[p].commit
      /\ \A v \in Versions : IsLatest(tags, v) => IsAncestor(tags[v].commit, plan[p].commit)
    BY DEF Creates, MayCreate, AboveLatest, CommitIsFree, DescendsFromLatest
<1>4. Object(p).meta # Lightweight
    BY <1>1, TagAssumption
<1>5. Annotated(tags) /\ Ordered(tags)
    BY DEF Inv, RemoteInv, OrderedHistory
<1>6. Tagged(tags) = {} \/ \E v \in Versions : IsLatest(tags, v)
    BY DEF Inv, RemoteInv
<1>7. /\ \A v \in Tagged(tags) : IsAncestor(tags[v].commit, plan[p].commit)
      /\ Annotated(tags')
      /\ Ordered(tags')
    BY <1>1, <1>2, <1>3, <1>4, <1>5, <1>6, AppendKeepsOrder DEF Creates
<1>8. /\ Tagged(tags') = Tagged(tags) \cup {Tag(p)}
      /\ tags'[Tag(p)] = Object(p)
      /\ \A v \in Tagged(tags) : tags'[v] = tags[v]
      /\ IsLatest(tags', Tag(p))
    BY <1>1, <1>2, <1>3, AppendGraph DEF Creates
<1>9. RemoteInv'
    <2>1. OrderedHistory'
        BY <1>7 DEF OrderedHistory
    <2>2. CoordinationAtLatest'
        BY <1>1, <1>2, <1>8 DEF CoordinationAtLatest, Creates
    <2>3. QED
        BY <1>1, <1>8, <2>1, <2>2 DEF RemoteInv
<1>10. plan[p].commit # None
    BY <1>1, <1>2, PublisherAssumption DEF Objects
<1>11. QED
    BY <1>1, <1>2, <1>3, <1>7, <1>8, <1>9, <1>10

\* Everybody else while the remote stays as it is.
LEMMA QuietFrame ==
    ASSUME UNCHANGED remote, NEW q \in Publishers, Untouched(q), CallInv(q), OutcomeInv(q)
    PROVE  CallInv(q)' /\ OutcomeInv(q)'
<1>1. tags' = tags /\ coord' = coord
    BY DEF remote
<1>2. CallInv(q)'
    BY <1>1 DEF Untouched, CallInv, LeaseIsReleased, LeaseGuardsGraph, ClaimIsShared,
        CommitIsFree, SentTogether, MayCreate, AboveLatest, DescendsFromLatest,
        LeaseAgrees, PlannedGraph, Tag, Object, Matches
<1>3. OutcomeInv(q)'
    BY <1>1 DEF Untouched, OutcomeInv, Succeeded, Tag, Object, Matches
<1>4. QED
    BY <1>2, <1>3

\* Everybody else when a tag is created.
LEMMA CreateFrame ==
    ASSUME Inv, NEW p \in Publishers, pc[p] = "send", Creates(p),
           NEW q \in Publishers, Untouched(q)
    PROVE  CallInv(q)' /\ OutcomeInv(q)'
<1> USE CreateOnRemote
<1>1. CallInv(q) /\ OutcomeInv(q)
    BY DEF Inv
<1>2. seen[q] \in Graphs /\ (pc[q] # "idle" => plan[q].graph \in Graphs)
    BY ObjectType DEF Inv, TypeOK
<1>3. /\ pc[q] # "idle" => PrefixOf(plan[q].graph, tags')
      /\ PrefixOf(seen[q], tags')
    BY <1>1, <1>2, AppendKeepsPrefix DEF CallInv, Creates
<1>4. pc[q] \in {"leased", "read", "push", "send"} => LeaseIsReleased(q)'
    BY <1>1 DEF CallInv, LeaseIsReleased, Untouched
<1>5. pc[q] \in {"read", "push", "send"} => LeaseGuardsGraph(q)'
    <2> SUFFICES ASSUME pc[q] \in {"read", "push", "send"} PROVE coord' # coordBefore[q]
        BY DEF LeaseGuardsGraph, Untouched
    <2>1. LeaseIsReleased(q)
        BY <1>1 DEF CallInv
    <2>2. QED
        BY <2>1 DEF LeaseIsReleased, Creates
<1>6. pc[q] \in {"read", "push", "send"} => ClaimIsShared(q)'
    <2> SUFFICES ASSUME pc[q] \in {"read", "push", "send"}, plan[q].commit = plan[p].commit
                 PROVE  Tag(q) \in Tagged(tags')
        BY DEF ClaimIsShared, Creates, Untouched, Tag
    <2>1. Tag(q) = Tag(p)
        BY DEF Inv, Undisputed, Active, Stages
    <2>2. QED
        BY <2>1
<1>7. pc[q] \in {"push", "send"} => MayCreate(q)'
    BY <1>1 DEF CallInv, Untouched, MayCreate, AboveLatest, DescendsFromLatest,
        LeaseAgrees, PlannedGraph, CommitIsFree, Tag
<1>8. \A o : o # NoTag /\ pc[q] # "idle" /\ tags[Tag(q)] = o => tags'[Tag(q)] = o
    BY ObjectType DEF Inv, Tagged
<1>9. pc[q] # "idle" => Object(q) # NoTag
    BY ObjectType DEF Inv
<1>10. pc[q] = "send" => SentTogether(q)'
    BY <1>1, <1>8, <1>9 DEF CallInv, SentTogether, Untouched, Tag, Object
<1>11. pc[q] \in {"pushed", "reread", "verified"} /\ push[q] = "ok" => tags'[Tag(q)] = Object(q)
    BY <1>1, <1>8, <1>9 DEF CallInv
<1>12. pc[q] = "verified" => Matches(tags'[Tag(q)], q)
    <2> SUFFICES ASSUME pc[q] = "verified" PROVE tags'[Tag(q)] = tags[Tag(q)]
        BY <1>1 DEF CallInv
    <2>1. Tag(q) \in Tagged(seen[q]) /\ PrefixOf(seen[q], tags)
        BY <1>1 DEF CallInv
    <2>2. Tag(q) \in Tagged(tags)
        BY <2>1 DEF PrefixOf, Tagged
    <2>3. QED
        BY <2>2
<1>13. CallInv(q)'
    BY <1>1, <1>3, <1>4, <1>5, <1>6, <1>7, <1>10, <1>11, <1>12
        DEF CallInv, Untouched, Tag, Object, Matches
<1>14. OutcomeInv(q)'
    <2>1. ASSUME Succeeded(q)
          PROVE  /\ Tag(q) \in Tagged(tags')
                 /\ tags'[Tag(q)] = tags[Tag(q)]
                 /\ \A v \in Tagged(tags') : v < Tag(q) => v \in Tagged(tags) /\ tags'[v] = tags[v]
        <3>1. Tag(q) \in Tagged(tags)
            BY <1>1, <2>1 DEF OutcomeInv
        <3>2. ~(Tag(p) < Tag(q))
            BY <3>1, TaggedVersion, VersionsAssumption
        <3>3. QED
            BY <3>1, <3>2
    <2>2. QED
        BY <1>1, <2>1 DEF OutcomeInv, Succeeded, Untouched, Tag, Object, Matches
<1>15. QED
    BY <1>13, <1>14

\* No call is under way, and the initial tags are ordered.
LEMMA InitInv == Init => Inv
<1> SUFFICES ASSUME Init PROVE Inv
    OBVIOUS
<1>1. TypeOK
    BY InitType
<1>2. Undisputed
    BY DEF Init, Undisputed, Active, Stages
<1>3. RemoteInv
    BY InitialTagsAssumption DEF Init, RemoteInv, OrderedHistory, CoordinationAtLatest
<1>4. ASSUME NEW p \in Publishers PROVE CallInv(p) /\ OutcomeInv(p)
    <2>1. PrefixOf(seen[p], tags)
        BY EmptyPrefix, InitialTagsAssumption DEF Init
    <2>2. QED
        BY <2>1 DEF Init, CallInv, OutcomeInv, Succeeded
<1>5. QED
    BY <1>1, <1>2, <1>3, <1>4 DEF Inv

\* A returning call keeps nothing but its outcome.
LEMMA ReturnCall ==
    ASSUME Inv, NEW p \in Publishers, NEW from \in Stages, NEW outcome \in Outcomes,
           Return(p, from, outcome)
    PROVE  /\ CallInv(p)'
           /\ pc'[p] = outcome
           /\ UNCHANGED remote
           /\ \A q \in Publishers \ {p} : Untouched(q)
<1>1. PrefixOf(EmptyGraph, tags)
    BY EmptyPrefix DEF Inv, TypeOK
<1>2. PrefixOf(plan[p].graph, tags)
    BY DEF Inv, CallInv, Return, Step, Stages
<1>3. pc'[p] = outcome /\ seen'[p] = EmptyGraph /\ plan' = plan /\ tags' = tags
    BY DEF Return, Step, Inv, TypeOK
<1>4. CallInv(p)'
    BY <1>1, <1>2, <1>3 DEF CallInv, Outcomes
<1>5. \A q \in Publishers \ {p} : Untouched(q)
    BY DEF Return, Step, Untouched, Inv, TypeOK
<1>6. QED
    BY <1>3, <1>4, <1>5 DEF Return, remote

\* A refused call leaves nothing to keep.
LEMMA ReturnRefused ==
    ASSUME Inv, NEW p \in Publishers, NEW from \in Stages, Return(p, from, "refused")
    PROVE  /\ CallInv(p)' /\ OutcomeInv(p)'
           /\ UNCHANGED remote
           /\ \A q \in Publishers \ {p} : Untouched(q)
<1>1. "refused" \in Outcomes
    BY DEF Outcomes
<1>2. QED
    BY <1>1, ReturnCall DEF OutcomeInv, Succeeded

\* A push that fails leaves the call to look at the remote.
LEMMA PushFailedCall ==
    ASSUME Inv, NEW p \in Publishers, NEW stage \in {"push", "send"}, PushFailed(p, stage)
    PROVE  /\ CallInv(p)' /\ OutcomeInv(p)'
           /\ UNCHANGED remote
           /\ \A q \in Publishers \ {p} : Untouched(q)
<1>1. CallInv(p) /\ pc[p] = stage /\ pc'[p] = "pushed" /\ push'[p] = "failed"
    BY DEF PushFailed, Step, Inv, TypeOK
<1>2. CallInv(p)' /\ OutcomeInv(p)'
    BY <1>1 DEF PushFailed, CallInv, OutcomeInv, Succeeded, remote
<1>3. QED
    BY <1>2 DEF PushFailed, Step, Untouched, remote, Inv, TypeOK

\* A step that leaves the remote alone.
Quiet(p) ==
    /\ CallInv(p)' /\ OutcomeInv(p)'
    /\ UNCHANGED remote
    /\ \A q \in Publishers \ {p} : Untouched(q)

\* A step that leaves the remote alone keeps the invariant for everybody.
LEMMA QuietStep ==
    ASSUME Inv, TypeOK', Undisputed', NEW p \in Publishers, Quiet(p)
    PROVE  Inv'
<1>1. RemoteInv'
    BY DEF Inv, Quiet, remote, RemoteInv, OrderedHistory, CoordinationAtLatest
<1>2. \A q \in Publishers : CallInv(q)' /\ OutcomeInv(q)'
    BY QuietFrame DEF Inv, Quiet
<1>3. QED
    BY <1>1, <1>2 DEF Inv

\* Opening a call.
LEMMA PlanCall ==
    ASSUME Inv, NEW p \in Publishers, Plan(p) \/ Retry(p) \/ ReadCoordination(p)
    PROVE  Quiet(p)
<1>1. tags \in Graphs /\ CallInv(p)
    BY DEF Inv, TypeOK
<1>2. CASE Plan(p)
    <2>1. plan'[p].graph = tags /\ pc'[p] = "planned" /\ seen'[p] = seen[p] /\ tags' = tags
        BY <1>2 DEF Plan, Inv, TypeOK
    <2>2. PrefixOf(tags, tags)
        BY <1>1, PrefixRefl
    <2>3. CallInv(p)' /\ OutcomeInv(p)'
        BY <1>1, <2>1, <2>2 DEF CallInv, OutcomeInv, Succeeded
    <2>4. QED
        BY <1>2, <2>3 DEF Plan, Quiet, Untouched, remote, Inv, TypeOK
<1>3. CASE Retry(p)
    <2>1. pc[p] = "refused" /\ pc'[p] = "planned"
        BY <1>3 DEF Retry, Step, Inv, TypeOK
    <2>2. CallInv(p)' /\ OutcomeInv(p)'
        BY <1>1, <1>3, <2>1 DEF Retry, remote, locals, CallInv, OutcomeInv, Succeeded
    <2>3. QED
        BY <1>3, <2>2 DEF Retry, Step, Quiet, Untouched, remote, locals, Inv, TypeOK
<1>4. CASE ReadCoordination(p)
    <2>1. pc[p] = "planned" /\ pc'[p] = "leased" /\ coordBefore'[p] = coord
        BY <1>4 DEF ReadCoordination, Step, Inv, TypeOK
    <2>2. coord # None => \E v \in Tagged(tags) : tags[v].commit = coord
        BY DEF Inv, RemoteInv, CoordinationAtLatest, IsLatest
    <2>3. CallInv(p)' /\ OutcomeInv(p)'
        BY <1>1, <1>4, <2>1, <2>2
           DEF ReadCoordination, remote, CallInv, LeaseIsReleased, OutcomeInv, Succeeded
    <2>4. QED
        BY <1>4, <2>3 DEF ReadCoordination, Step, Quiet, Untouched, remote, Inv, TypeOK
<1>5. QED
    BY <1>2, <1>3, <1>4

\* From the reads to the push.
LEMMA ReadCall ==
    ASSUME Inv, NEW p \in Publishers, ReadTags(p) \/ PrepareTag(p) \/ Negotiate(p)
    PROVE  Quiet(p)
<1>1. tags \in Graphs /\ CallInv(p)
    BY DEF Inv, TypeOK
<1>2. CASE ReadTags(p)
    <2>1. pc[p] = "leased" /\ pc'[p] = "read" /\ seen'[p] = tags /\ tags' = tags /\ coord' = coord
        BY <1>2 DEF ReadTags, Step, remote, Inv, TypeOK
    <2>2. PrefixOf(tags, tags)
        BY <1>1, PrefixRefl
    <2>3. ClaimIsShared(p)'
        <3> SUFFICES ASSUME \A v \in Tagged(tags) : tags[v].commit # plan[p].commit,
                            coord = plan[p].commit
                     PROVE  FALSE
            BY <1>2, <2>1 DEF ClaimIsShared, CommitIsFree, ReadTags
        <3>1. plan[p].commit # None
            BY <2>1, ObjectType, PublisherAssumption DEF Inv, Plans
        <3>2. QED
            BY <3>1 DEF Inv, RemoteInv, CoordinationAtLatest, IsLatest
    <2>4. CallInv(p)' /\ OutcomeInv(p)'
        BY <1>1, <1>2, <2>1, <2>2, <2>3
           DEF ReadTags, CallInv, LeaseIsReleased, LeaseGuardsGraph, OutcomeInv, Succeeded
    <2>5. QED
        BY <1>2, <2>4 DEF ReadTags, Step, Quiet, Untouched, remote, Inv, TypeOK
<1>3. CASE PrepareTag(p)
    <2>1. pc[p] = "read" /\ pc'[p] = "push"
        BY <1>3 DEF PrepareTag, Step, Inv, TypeOK
    <2>2. CallInv(p)' /\ OutcomeInv(p)'
        BY <1>1, <1>3, <2>1
           DEF PrepareTag, remote, locals, CallInv, LeaseIsReleased, LeaseGuardsGraph,
               ClaimIsShared, CommitIsFree, MayCreate, AboveLatest, DescendsFromLatest,
               LeaseAgrees, PlannedGraph, Tag, OutcomeInv, Succeeded
    <2>3. QED
        BY <1>3, <2>2 DEF PrepareTag, Step, Quiet, Untouched, remote, locals, Inv, TypeOK
<1>4. CASE Negotiate(p)
    <2>1. pc[p] = "push" /\ pc'[p] = "send"
        BY <1>4 DEF Negotiate, Step, Inv, TypeOK
    <2>2. commands'[p] = {c \in {"tag", "coordination"} :
              IF c = "tag" THEN Tag(p) \notin Tagged(tags) ELSE coord # plan[p].commit}
        BY <1>4 DEF Negotiate, Inv, TypeOK
    <2>3. SentTogether(p)'
        <3>1. CASE Tag(p) \in Tagged(tags)
            <4>1. tags[Tag(p)] = Object(p)
                BY <1>4, <3>1 DEF Negotiate, Negotiable
            <4>2. QED
                BY <1>4, <2>2, <3>1, <4>1 DEF SentTogether, Negotiate, remote, Tag, Object
        <3>2. CASE Tag(p) \notin Tagged(tags)
            <4>1. ClaimIsShared(p) /\ CommitIsFree(p)
                BY <1>1, <2>1 DEF CallInv, MayCreate
            <4>2. coord # plan[p].commit
                BY <3>2, <4>1 DEF ClaimIsShared
            <4>3. QED
                BY <2>2, <3>2, <4>2 DEF SentTogether
        <3>3. QED
            BY <3>1, <3>2
    <2>4. CallInv(p)' /\ OutcomeInv(p)'
        BY <1>1, <1>4, <2>1, <2>3
           DEF Negotiate, remote, CallInv, LeaseIsReleased, LeaseGuardsGraph,
               ClaimIsShared, CommitIsFree, MayCreate, AboveLatest, DescendsFromLatest,
               LeaseAgrees, PlannedGraph, Tag, OutcomeInv, Succeeded
    <2>5. QED
        BY <1>4, <2>4 DEF Negotiate, Step, Quiet, Untouched, remote, Inv, TypeOK
<1>5. QED
    BY <1>2, <1>3, <1>4

\* The read-back after the push.
LEMMA RereadCall ==
    ASSUME Inv, NEW p \in Publishers, ReadFinal(p) \/ VerifyTag(p)
    PROVE  Quiet(p)
<1>1. tags \in Graphs /\ CallInv(p)
    BY DEF Inv, TypeOK
<1>2. CASE ReadFinal(p)
    <2>1. pc[p] = "pushed" /\ pc'[p] = "reread" /\ seen'[p] = tags
        BY <1>2 DEF ReadFinal, Step, Inv, TypeOK
    <2>2. PrefixOf(tags, tags)
        BY <1>1, PrefixRefl
    <2>3. CallInv(p)' /\ OutcomeInv(p)'
        BY <1>1, <1>2, <2>1, <2>2
           DEF ReadFinal, remote, CallInv, Tag, Object, OutcomeInv, Succeeded
    <2>4. QED
        BY <1>2, <2>3 DEF ReadFinal, Step, Quiet, Untouched, remote, Inv, TypeOK
<1>3. CASE VerifyTag(p)
    <2>1. pc[p] = "reread" /\ pc'[p] = "verified"
        BY <1>3 DEF VerifyTag, Step, Inv, TypeOK
    <2>2. CallInv(p)' /\ OutcomeInv(p)'
        BY <1>1, <1>3, <2>1
           DEF VerifyTag, remote, locals, CallInv, Tag, Object, Matches, OutcomeInv, Succeeded
    <2>3. QED
        BY <1>3, <2>2 DEF VerifyTag, Step, Quiet, Untouched, remote, locals, Inv, TypeOK
<1>4. QED
    BY <1>2, <1>3

\* The two ways to succeed.
LEMMA SuccessCall ==
    ASSUME Inv, NEW p \in Publishers, VerifyExisting(p) \/ ConfirmPublication(p)
    PROVE  Quiet(p)
<1> DEFINE outcome == IF VerifyExisting(p) THEN "existing"
                      ELSE IF push[p] = "ok" THEN "created" ELSE "existing"
<1>1. PICK from \in {"read", "verified"} : Return(p, from, outcome) /\ pc[p] = from
    BY DEF VerifyExisting, ConfirmPublication, Return, Step
<1>2. outcome \in Outcomes /\ from \in Stages
    BY DEF Outcomes, Stages
<1>3. /\ CallInv(p)' /\ pc'[p] = outcome /\ UNCHANGED remote
      /\ \A q \in Publishers \ {p} : Untouched(q)
    <2> HIDE DEF outcome
    <2>1. QED
        BY <1>1, <1>2, ReturnCall
<1>4. CallInv(p)
    BY DEF Inv
<1>5. /\ Tag(p) \in Tagged(seen[p])
      /\ Matches(tags[Tag(p)], p)
      /\ plan[p].graph \in {seen[p], WithoutTag(seen[p], Tag(p))}
      /\ outcome = "created" => tags[Tag(p)] = Object(p)
    BY <1>1, <1>4 DEF VerifyExisting, ExistingAgrees, ConfirmPublication, PublicationAgrees,
        Return, Step, CallInv
<1>6. PrefixOf(seen[p], tags) /\ PrefixOf(plan[p].graph, tags)
    BY <1>1, <1>4 DEF CallInv
<1>7. seen[p] \in Graphs /\ Tag(p) \in Versions
    BY <1>1, ObjectType DEF Inv, TypeOK
<1>8. Tag(p) \in Tagged(tags)
    BY <1>5, <1>6 DEF PrefixOf, Tagged
<1>9. ASSUME NEW v \in Tagged(tags), v < Tag(p)
      PROVE  v \in Tagged(plan[p].graph) /\ plan[p].graph[v] = tags[v]
    <2>1. v \in Tagged(seen[p])
        BY <1>5, <1>6, <1>9 DEF PrefixOf
    <2>2. v # Tag(p)
        <3>1. v \in Nat /\ v < Tag(p)
            BY <1>9, TaggedVersion
        <3>2. QED
            BY <3>1
    <2>3. WithoutTag(seen[p], Tag(p))[v] = seen[p][v]
        BY <1>7, <2>1, <2>2 DEF WithoutTag, Graphs, Tagged
    <2>4. v \in Tagged(plan[p].graph)
        BY <1>5, <2>1, <2>3 DEF Tagged
    <2>5. QED
        BY <1>6, <2>4 DEF PrefixOf
<1>10. tags' = tags /\ plan' = plan
    BY <1>1 DEF Return
<1>11. OutcomeInv(p)'
    BY <1>3, <1>5, <1>8, <1>9, <1>10 DEF OutcomeInv, Succeeded, Tag, Object, Matches
<1>12. QED
    BY <1>3, <1>11 DEF Quiet

\* The push.
LEMMA ApplyStep ==
    ASSUME Inv, TypeOK', Undisputed', NEW p \in Publishers, Apply(p)
    PROVE  Inv'
<1>1. pc[p] = "send" /\ pc'[p] = "pushed" /\ plan' = plan /\ seen' = seen
    BY DEF Apply, Step, Inv, TypeOK
<1>2. \A q \in Publishers \ {p} : Untouched(q)
    BY DEF Apply, Step, Untouched, Inv, TypeOK
<1>3. CallInv(p) /\ SentTogether(p)
    BY <1>1 DEF Inv, CallInv
<1>4. CASE UNCHANGED remote
    <2>1. tags[Tag(p)] = Object(p)
        <3>1. CASE "tag" \in commands[p]
            <4>1. Tag(p) \in Versions /\ tags \in Graphs /\ Object(p) \in Objects
                BY <1>1, ObjectType DEF Inv, TypeOK
            <4>2. tags' = WithTag(tags, Tag(p), Object(p))
                BY <3>1 DEF Apply
            <4>3. QED
                BY <1>4, <4>1, <4>2 DEF remote, WithTag, Graphs
        <3>2. QED
            BY <1>3, <3>1 DEF SentTogether
    <2>2. CallInv(p)' /\ OutcomeInv(p)'
        BY <1>1, <1>3, <1>4, <2>1 DEF remote, CallInv, OutcomeInv, Succeeded, Tag, Object
    <2>3. QED
        BY <1>2, <1>4, <2>2, QuietStep DEF Quiet
<1>5. CASE Creates(p)
    <2>1. RemoteInv' /\ tags'[Tag(p)] = Object(p)
        BY <1>1, <1>5, CreateOnRemote
    <2>2. PrefixOf(plan[p].graph, tags') /\ PrefixOf(seen[p], tags')
        <3>1. plan[p].graph \in Graphs /\ seen[p] \in Graphs
            BY <1>1, ObjectType DEF Inv, TypeOK
        <3>2. PrefixOf(plan[p].graph, tags) /\ PrefixOf(seen[p], tags)
            BY <1>1, <1>3 DEF CallInv
        <3>3. QED
            BY <1>1, <1>5, <3>1, <3>2, CreateOnRemote, AppendKeepsPrefix DEF Creates
    <2>3. CallInv(p)' /\ OutcomeInv(p)'
        BY <1>1, <2>1, <2>2 DEF CallInv, OutcomeInv, Succeeded, Tag, Object
    <2>4. \A q \in Publishers : CallInv(q)' /\ OutcomeInv(q)'
        BY <1>1, <1>2, <1>5, <2>3, CreateFrame
    <2>5. QED
        BY <2>1, <2>4 DEF Inv
<1>6. QED
    BY <1>4, <1>5, ApplyCreates

\* The invariant is inductive, one case per action.
LEMMA StepInv == Inv /\ [Next]_vars => Inv'
<1>1. CASE UNCHANGED vars
    <2> SUFFICES ASSUME Inv, UNCHANGED vars PROVE Inv'
        BY <1>1
    <2>1. TypeOK' /\ Undisputed' /\ RemoteInv'
        BY DEF vars, Inv, TypeOK, Undisputed, Active, Tag, RemoteInv, OrderedHistory,
            CoordinationAtLatest
    <2>2. UNCHANGED remote /\ \A q \in Publishers : Untouched(q)
        BY DEF vars, remote, Untouched
    <2>3. \A q \in Publishers : CallInv(q)' /\ OutcomeInv(q)'
        BY <2>2, QuietFrame DEF Inv
    <2>4. QED
        BY <2>1, <2>3 DEF Inv
<1>2. ASSUME Inv, Next PROVE Inv'
    <2>1. TypeOK' /\ Undisputed'
        BY <1>2, StepType DEF Inv, Next
    <2>2. PICK p \in Publishers : Publisher(p)
        BY <1>2 DEF Next, RacingNext
    <2>3. CASE Plan(p) \/ Retry(p) \/ ReadCoordination(p)
        BY <1>2, <2>1, <2>3, PlanCall, QuietStep
    <2>4. CASE ReadTags(p) \/ PrepareTag(p) \/ Negotiate(p)
        BY <1>2, <2>1, <2>4, ReadCall, QuietStep
    <2>5. CASE Apply(p)
        BY <1>2, <2>1, <2>5, ApplyStep
    <2>6. CASE PushRefused(p) \/ PushLost(p)
        <3>1. Quiet(p)
            BY <1>2, <2>6, PushFailedCall DEF PushRefused, PushLost, Quiet
        <3>2. QED
            BY <1>2, <2>1, <3>1, QuietStep
    <2>7. CASE ReadFinal(p) \/ VerifyTag(p)
        BY <1>2, <2>1, <2>7, RereadCall, QuietStep
    <2>8. CASE VerifyExisting(p) \/ ConfirmPublication(p)
        BY <1>2, <2>1, <2>8, SuccessCall, QuietStep
    <2>9. CASE CheckFails(p) \/ GitFails(p)
        <3>1. PICK from \in Stages : Return(p, from, "refused")
            BY <2>9 DEF CheckFails, GitFails, Stages
        <3>2. Quiet(p)
            BY <1>2, <3>1, ReturnRefused DEF Quiet
        <3>3. QED
            BY <1>2, <2>1, <3>2, QuietStep
    <2>10. QED
        BY <2>2, <2>3, <2>4, <2>5, <2>6, <2>7, <2>8, <2>9 DEF Publisher, Reconcile
<1>3. QED
    BY <1>1, <1>2

\* The inductive invariant holds for any number of publishers whose calls do not
\* dispute a commit.
THEOREM Invariance == Spec => []Inv
BY InitInv, StepInv, PTL DEF Spec

\* However publishers interleave, crash, lose answers and retry, a higher
\* version is always on a strict descendant of every lower one.
THEOREM HistoryIsOrdered == Spec => []OrderedHistory
<1>1. Inv => OrderedHistory
    BY DEF Inv, RemoteInv
<1>2. QED
    BY <1>1, Invariance, PTL

\* The coordination branch never disagrees with the highest tag, so no
\* publisher is locked out by line 243.
THEOREM CoordinationFollows == Spec => []CoordinationAtLatest
<1>1. Inv => CoordinationAtLatest
    BY DEF Inv, RemoteInv
<1>2. QED
    BY <1>1, Invariance, PTL

\* Order and coordination, for every remote that publishers leave behind.
THEOREM RemoteStands == Spec => []RemoteInv
<1>1. Inv => RemoteInv
    BY DEF Inv
<1>2. QED
    BY <1>1, Invariance, PTL

\* A published release keeps the predecessor its notes were rendered against.
THEOREM NotesStayRight == Spec => []NotesRangeStable
<1>1. Inv => NotesRangeStable
    BY DEF Inv, OutcomeInv, NotesRangeStable
<1>2. QED
    BY <1>1, Invariance, PTL

\* What a publisher reports is on the remote, exactly as requested.
THEOREM SuccessIsTruthful == Spec => []TruthfulSuccess
<1>1. Inv => TruthfulSuccess
    BY DEF Inv, OutcomeInv, TruthfulSuccess
<1>2. QED
    BY <1>1, Invariance, PTL

\* "created" is said by the creator only.
THEOREM CreatorIsOwner == Spec => []CreatedIsOwn
<1>1. Inv => CreatedIsOwn
    BY DEF Inv, OutcomeInv, CreatedIsOwn
<1>2. QED
    BY <1>1, Invariance, PTL
-----------------------------------------------------------------------------
(* What a step may do to the remote, and the refinement. *)

\* No report is ever refuted by the remote.
THEOREM ReportsAreTrue == Spec => []TruthfulReports
BY SuccessIsTruthful, CreatorIsOwner, PTL DEF TruthfulReports

\* Only a creation changes the remote.
LEMMA OnlyCreates ==
    ASSUME Inv, [Next]_vars
    PROVE  \/ UNCHANGED remote
           \/ \E p \in Publishers : pc[p] = "send" /\ Creates(p)
<1>1. CASE UNCHANGED vars
    BY <1>1 DEF vars, remote
<1>2. CASE Next
    <2>1. PICK p \in Publishers : Publisher(p)
        BY <1>2 DEF Next, RacingNext
    <2>2. CASE Apply(p)
        BY <2>2, ApplyCreates DEF Apply, Step
    <2>3. CASE Plan(p) \/ Retry(p) \/ ReadCoordination(p)
        BY <2>3, PlanCall DEF Quiet
    <2>4. CASE ReadTags(p) \/ PrepareTag(p) \/ Negotiate(p)
        BY <2>4, ReadCall DEF Quiet
    <2>5. CASE PushRefused(p) \/ PushLost(p)
        BY <2>5 DEF PushRefused, PushLost, PushFailed
    <2>6. CASE ReadFinal(p) \/ VerifyTag(p)
        BY <2>6, RereadCall DEF Quiet
    <2>7. CASE VerifyExisting(p) \/ ConfirmPublication(p)
        BY <2>7, SuccessCall DEF Quiet
    <2>8. CASE CheckFails(p) \/ GitFails(p)
        BY <2>8 DEF CheckFails, GitFails, Return, remote
    <2>9. QED
        BY <2>1, <2>2, <2>3, <2>4, <2>5, <2>6, <2>7, <2>8 DEF Publisher, Reconcile
<1>3. QED
    BY <1>1, <1>2

\* One observed state leads to at most one new tag.
THEOREM CreationIsAtomic == Spec => LandsOnPlannedGraph
<1> DEFINE Lands ==
        tags' # tags =>
            \E p \in Publishers :
                /\ pc[p] = "send"
                /\ tags = plan[p].graph
                /\ tags' = WithTag(tags, Tag(p), Object(p))
<1>1. Inv /\ [Next]_vars => [Lands]_vars
    <2> SUFFICES ASSUME Inv, [Next]_vars PROVE Lands
        OBVIOUS
    <2>1. QED
        BY OnlyCreates DEF remote, Creates, MayCreate, PlannedGraph
<1>2. QED
    BY <1>1, Invariance, PTL DEF Spec, LandsOnPlannedGraph

\* The tags any reader sees are an append-only registry.
THEOREM Refinement == Spec => RegistryImplemented
<1>1. Init => Registry!Init
    BY DEF Init, Registry!Init
<1>2. Inv /\ [Next]_vars => [Registry!Append]_tags
    <2> SUFFICES ASSUME Inv, [Next]_vars, ~UNCHANGED tags PROVE Registry!Append
        OBVIOUS
    <2>1. PICK p \in Publishers : pc[p] = "send" /\ Creates(p)
        BY OnlyCreates DEF remote
    <2>2. Tag(p) \in Versions /\ Object(p) \in Objects /\ Object(p).meta \in Metas
        BY <2>1, ObjectType DEF Inv
    <2>3. Registry!MayAppend(Tag(p), Object(p))
        BY <2>1, <2>2, CreateOnRemote 
           DEF Registry!MayAppend, Registry!Tagged, Registry!IsAncestor, Tagged, IsAncestor, Object
    <2>4. tags' = WithTag(tags, Tag(p), Object(p))
        BY <2>1 DEF Creates
    <2>5. QED
        BY <2>2, <2>3, <2>4 
           DEF Registry!Append, Registry!WithTag, WithTag, Registry!Objects, Objects,
               Registry!Annotations, Annotations
<1>3. QED
    BY <1>1, <1>2, Invariance, PTL DEF Spec, RegistryImplemented, Registry!Spec
-----------------------------------------------------------------------------
(* The service that callers see. *)

\* A step of one publisher is one of its call, and of no other's.
MovesAlone(p) ==
    /\ pc' = [pc EXCEPT ![p] = pc'[p]]
    /\ plan' = [plan EXCEPT ![p] = plan'[p]]

\* What the service shows of one publisher.
LEMMA ServiceViews ==
    ASSUME NEW p \in Publishers
    PROVE  /\ pc[p] = "idle" => ServiceCall[p] = "none" /\ ServicePlan[p] = None
           /\ Active(p) => ServiceCall[p] = "open"
           /\ Succeeded(p) => ServiceCall[p] = "published"
           /\ pc[p] = "refused" => ServiceCall[p] = "closed"
           /\ pc[p] # "idle" =>
                 ServicePlan[p] = [tag |-> plan[p].tag, commit |-> plan[p].commit,
                                   meta |-> plan[p].meta, graph |-> plan[p].graph]
BY DEF ServiceCall, ServicePlan, Active, Stages, Succeeded

\* The service shows the same of every other publisher.
LEMMA ServiceFrame ==
    ASSUME TypeOK, NEW p \in Publishers, MovesAlone(p)
    PROVE  /\ ServiceCall' = [ServiceCall EXCEPT ![p] = ServiceCall'[p]]
           /\ ServicePlan' = [ServicePlan EXCEPT ![p] = ServicePlan'[p]]
<1>1. \A q \in Publishers \ {p} : pc'[q] = pc[q] /\ plan'[q] = plan[q]
    BY DEF MovesAlone, TypeOK
<1>2. \A q \in Publishers \ {p} : ServiceCall'[q] = ServiceCall[q]
    BY <1>1 DEF ServiceCall, Active, Succeeded
<1>3. \A q \in Publishers \ {p} : ServicePlan'[q] = ServicePlan[q]
    BY <1>1 DEF ServicePlan
<1>4. /\ ServiceCall = [q \in Publishers |-> ServiceCall[q]]
      /\ ServicePlan = [q \in Publishers |-> ServicePlan[q]]
      /\ ServiceCall' = [q \in Publishers |-> ServiceCall'[q]]
      /\ ServicePlan' = [q \in Publishers |-> ServicePlan'[q]]
    BY DEF ServiceCall, ServicePlan
<1>5. QED
    BY <1>2, <1>3, <1>4

\* A step inside a call shows nothing.
LEMMA ServiceRests ==
    ASSUME TypeOK, NEW p \in Publishers, MovesAlone(p), UNCHANGED <<tags, plan>>,
           Active(p), Active(p)'
    PROVE  UNCHANGED Service!serviceVars
<1>1. ServiceCall'[p] = ServiceCall[p] /\ ServicePlan'[p] = ServicePlan[p]
    <2>1. pc[p] # "idle" /\ pc'[p] # "idle"
        BY DEF Active, Stages
    <2>2. ServiceCall[p] = "open" /\ ServiceCall'[p] = "open"
        BY <2>1 DEF ServiceCall, Active, Stages, Succeeded
    <2>3. ServicePlan'[p] = ServicePlan[p]
        BY <2>1 DEF ServicePlan
    <2>4. QED
        BY <2>2, <2>3
<1>2. /\ ServiceCall = [q \in Publishers |-> ServiceCall[q]]
      /\ ServicePlan = [q \in Publishers |-> ServicePlan[q]]
    BY DEF ServiceCall, ServicePlan
<1>3. ServiceCall' = ServiceCall /\ ServicePlan' = ServicePlan
    BY <1>1, <1>2, ServiceFrame
<1>4. QED
    BY <1>3 DEF Service!serviceVars

\* Plan asks, and Retry asks again.
LEMMA ServiceAsks ==
    ASSUME TypeOK, TypeOK', NEW p \in Publishers, Plan(p) \/ Retry(p)
    PROVE  Service!Next
<1>1. MovesAlone(p) /\ UNCHANGED tags /\ pc'[p] = "planned"
    BY DEF Plan, Retry, Step, remote, locals, MovesAlone, TypeOK
<1>2. ServiceCall'[p] = "open"
    BY <1>1 DEF ServiceCall, Active, Stages, Succeeded
<1>3. /\ ServiceCall' = [ServiceCall EXCEPT ![p] = "open"]
      /\ ServicePlan' = [ServicePlan EXCEPT ![p] = ServicePlan'[p]]
    BY <1>1, <1>2, ServiceFrame
<1>4. CASE Plan(p)
    <2>1. ServiceCall[p] # "open"
        BY <1>4 DEF Plan, ServiceCall, Active, Succeeded
    <2>2. /\ plan'[p].tag \in Versions
          /\ plan'[p].commit \in Commits
          /\ plan'[p].meta \in Metas
          /\ plan'[p].graph = tags
          /\ tags \in Graphs
        BY <1>4, PublisherAssumption DEF Plan, TypeOK
    <2>3. ServicePlan'[p] = [tag |-> plan'[p].tag, commit |-> plan'[p].commit,
                             meta |-> plan'[p].meta, graph |-> plan'[p].graph]
        BY <1>1 DEF ServicePlan
    <2>4. Service!Graphs = Graphs
        BY DEF Service!Graphs, Service!Objects, Service!Annotations, Graphs, Objects, Annotations
    <2>5. ServicePlan'[p] \in Service!Plans /\ ServicePlan'[p].graph = tags
        BY <2>2, <2>3, <2>4 DEF Service!Plans
    <2>6. QED
        BY <1>1, <1>3, <2>1, <2>5 DEF Service!Next, Service!Ask, Service!Becomes
<1>5. CASE Retry(p)
    <2>1. ServiceCall[p] = "closed"
        BY <1>5 DEF Retry, Step, ServiceCall, Active, Stages, Succeeded
    <2>2. ServicePlan'[p] = ServicePlan[p]
        BY <1>1, <1>5 DEF Retry, Step, locals, ServicePlan
    <2>3. ServicePlan' = ServicePlan
        BY <1>3, <2>2 DEF ServicePlan
    <2>4. QED
        BY <1>1, <1>3, <2>1, <2>3 DEF Service!Next, Service!Again, Service!Becomes
<1>6. QED
    BY <1>4, <1>5

\* A call that ends keeps its request.
LEMMA ServiceReturns ==
    ASSUME TypeOK, NEW p \in Publishers, NEW from \in Stages, NEW outcome \in Outcomes,
           Return(p, from, outcome)
    PROVE  /\ ServiceCall[p] = "open"
           /\ ServiceCall' = [ServiceCall EXCEPT ![p] =
                                 IF outcome = "refused" THEN "closed" ELSE "published"]
           /\ UNCHANGED <<tags, ServicePlan>>
<1>1. MovesAlone(p) /\ UNCHANGED <<tags, plan>> /\ pc[p] = from /\ pc'[p] = outcome
    BY DEF Return, Step, MovesAlone, TypeOK
<1>2. ServiceCall[p] = "open"
    BY <1>1 DEF ServiceCall, Active, Stages, Succeeded
<1>3. ServiceCall'[p] = IF outcome = "refused" THEN "closed" ELSE "published"
    BY <1>1 DEF ServiceCall, Active, Stages, Succeeded, Outcomes
<1>4. ServicePlan'[p] = ServicePlan[p]
    BY <1>1 DEF ServicePlan, Stages, Outcomes
<1>5. ServicePlan = [q \in Publishers |-> ServicePlan[q]]
    BY DEF ServicePlan
<1>6. QED
    BY <1>1, <1>2, <1>3, <1>4, <1>5, ServiceFrame

\* What the remote holds when a call reports success is what the service publishes.
LEMMA ServicePublishes ==
    ASSUME Inv, Inv', NEW p \in Publishers, VerifyExisting(p) \/ ConfirmPublication(p)
    PROVE  Service!Next
<1>1. PICK from \in Stages, outcome \in {"created", "existing"} : Return(p, from, outcome)
    BY DEF VerifyExisting, ConfirmPublication, Stages
<1>2. /\ ServiceCall[p] = "open"
      /\ ServiceCall' = [ServiceCall EXCEPT ![p] = "published"]
      /\ UNCHANGED <<tags, ServicePlan>>
    BY <1>1, ServiceReturns DEF Inv, Outcomes
<1>3. pc'[p] = outcome /\ UNCHANGED <<tags, plan>> /\ pc[p] # "idle"
    BY <1>1 DEF Return, Step, Inv, TypeOK, Stages
<1>4. ServicePlan[p] = [tag |-> plan[p].tag, commit |-> plan[p].commit,
                        meta |-> plan[p].meta, graph |-> plan[p].graph]
    BY <1>3, ServiceViews
<1>5. /\ plan[p].tag \in Tagged(tags)
      /\ tags[plan[p].tag].commit = plan[p].commit
      /\ tags[plan[p].tag].meta = plan[p].meta
      /\ \A v \in Tagged(tags) : v < plan[p].tag => plan[p].graph[v] = tags[v]
    BY <1>3 DEF Inv, OutcomeInv, Succeeded, Tag, Matches
<1>6. \A v \in Versions : v < plan[p].tag => tags[v] = plan[p].graph[v]
    BY <1>3, <1>5 DEF Inv, CallInv, PrefixOf, Tagged
<1>7. Service!Published(p)
    BY <1>4, <1>5, <1>6 DEF Service!Published, Service!Tagged, Tagged
<1>8. QED
    BY <1>2, <1>7 DEF Service!Next, Service!Publish, Service!Becomes

\* The push that creates a tag is the step the service takes for its caller.
LEMMA ServiceCreates ==
    ASSUME Inv, NEW p \in Publishers, Apply(p)
    PROVE  Service!Next \/ UNCHANGED Service!serviceVars
<1>1. MovesAlone(p) /\ UNCHANGED plan /\ pc[p] = "send" /\ pc'[p] = "pushed"
    BY DEF Apply, Step, MovesAlone, Inv, TypeOK
<1>2. Active(p) /\ Active(p)' /\ TypeOK
    BY <1>1 DEF Active, Stages, Inv
<1>3. CASE UNCHANGED tags
    BY <1>1, <1>2, <1>3, ServiceRests
<1>4. CASE Creates(p)
    <2>1. UNCHANGED <<ServiceCall, ServicePlan>>
        <3>1. ServiceCall'[p] = ServiceCall[p] /\ ServicePlan'[p] = ServicePlan[p]
            BY <1>1 DEF ServiceCall, ServicePlan, Active, Stages, Succeeded
        <3>2. /\ ServiceCall = [q \in Publishers |-> ServiceCall[q]]
              /\ ServicePlan = [q \in Publishers |-> ServicePlan[q]]
            BY DEF ServiceCall, ServicePlan
        <3>3. QED
            BY <1>1, <1>2, <3>1, <3>2, ServiceFrame
    <2>2. ServiceCall[p] = "open"
        BY <1>2, ServiceViews
    <2>3. ServicePlan[p] = [tag |-> plan[p].tag, commit |-> plan[p].commit,
                            meta |-> plan[p].meta, graph |-> plan[p].graph]
        BY <1>1, ServiceViews
    <2>4. /\ tags = plan[p].graph
          /\ tags' = WithTag(tags, Tag(p), Object(p))
        BY <1>4 DEF Creates, MayCreate, PlannedGraph
    <2>5. /\ tags'[Tag(p)] = Object(p)
          /\ Object(p) \in Objects
          /\ \A v \in Tagged(tags) :
                v < Tag(p) /\ IsAncestor(tags[v].commit, plan[p].commit)
                           /\ tags[v].commit # plan[p].commit
        BY <1>1, <1>4, CreateOnRemote
    <2>6. /\ Object(p).commit = plan[p].commit
          /\ Object(p).meta = plan[p].meta
          /\ plan[p].meta \in Metas
        BY <1>1, ObjectType DEF Object, Inv
    <2>7. Service!Registry!MayAppend(Tag(p), Object(p))
        BY <2>5, <2>6
           DEF Service!Registry!MayAppend, Service!Registry!Tagged, Service!Registry!IsAncestor,
               Tagged, IsAncestor
    <2>8. Service!Create(p)
        BY <2>1, <2>2, <2>3, <2>4, <2>5, <2>6, <2>7
           DEF Service!Create, Service!WithTag, WithTag, Service!Objects, Objects,
               Service!Annotations, Annotations, Tag
    <2>9. QED
        BY <2>8 DEF Service!Next
<1>5. QED
    BY <1>3, <1>4, ApplyCreates DEF remote

\* Every step of a publisher is one step of the service, or none.
LEMMA ServiceStep ==
    ASSUME Inv, Inv', [Next]_vars
    PROVE  Service!Next \/ UNCHANGED Service!serviceVars
<1>1. CASE UNCHANGED vars
    BY <1>1 DEF vars, Service!serviceVars, ServiceCall, ServicePlan, Active, Succeeded
<1>2. ASSUME NEW p \in Publishers, Publisher(p)
      PROVE  Service!Next \/ UNCHANGED Service!serviceVars
    <2>1. CASE Plan(p) \/ Retry(p)
        BY <2>1, ServiceAsks DEF Inv
    <2>2. CASE Apply(p)
        BY <2>2, ServiceCreates
    <2>3. CASE VerifyExisting(p) \/ ConfirmPublication(p)
        BY <2>3, ServicePublishes
    <2>4. CASE CheckFails(p) \/ GitFails(p)
        <3>1. PICK from \in Stages : Return(p, from, "refused")
            BY <2>4 DEF CheckFails, GitFails, Stages
        <3>2. /\ ServiceCall[p] = "open"
              /\ ServiceCall' = [ServiceCall EXCEPT ![p] = "closed"]
              /\ UNCHANGED <<tags, ServicePlan>>
            BY <3>1, ServiceReturns DEF Inv, Outcomes
        <3>3. QED
            BY <3>2 DEF Service!Next, Service!Close, Service!Becomes
    <2>5. CASE \/ ReadCoordination(p) \/ ReadTags(p) \/ PrepareTag(p) \/ Negotiate(p)
               \/ ReadFinal(p) \/ VerifyTag(p) \/ PushRefused(p) \/ PushLost(p)
        <3>1. PICK from \in Stages, to \in Stages : Step(p, from, to)
            BY <2>5 DEF ReadCoordination, ReadTags, PrepareTag, Negotiate, ReadFinal, VerifyTag,
                        PushRefused, PushLost, PushFailed, Stages
        <3>2. UNCHANGED <<tags, plan>>
            BY <2>5 DEF ReadCoordination, ReadTags, PrepareTag, Negotiate, ReadFinal, VerifyTag,
                        PushRefused, PushLost, PushFailed, remote, locals
        <3>3. TypeOK /\ MovesAlone(p) /\ Active(p) /\ Active(p)'
            BY <3>1, <3>2 DEF Step, MovesAlone, Active, Inv, TypeOK
        <3>4. QED
            BY <3>2, <3>3, ServiceRests
    <2>6. QED
        BY <1>2, <2>1, <2>2, <2>3, <2>4, <2>5 DEF Publisher, Reconcile
<1>3. QED
    BY <1>1, <1>2 DEF Next, RacingNext

\* The protocol implements the atomic service: callers cannot tell its interleaved,
\* interrupted and repeated calls from ones that take effect in one step.
THEOREM ServiceRefinement == Spec => ServiceImplemented
<1>1. Init => Service!Init
    <2> SUFFICES ASSUME Init PROVE Service!Init
        OBVIOUS
    <2>1. \A p \in Publishers : pc[p] = "idle"
        BY DEF Init
    <2>2. \A p \in Publishers : ServiceCall[p] = "none" /\ ServicePlan[p] = None
        BY <2>1, ServiceViews
    <2>3. /\ ServiceCall = [p \in Publishers |-> ServiceCall[p]]
          /\ ServicePlan = [p \in Publishers |-> ServicePlan[p]]
        BY DEF ServiceCall, ServicePlan
    <2>4. /\ ServiceCall = [p \in Publishers |-> "none"]
          /\ ServicePlan = [p \in Publishers |-> None]
        BY <2>2, <2>3
    <2>5. QED
        BY <2>4 DEF Init, Service!Init
<1>2. Inv /\ Inv' /\ [Next]_vars => [Service!Next]_Service!serviceVars
    BY ServiceStep
<1>3. QED
    BY <1>1, <1>2, Invariance, PTL DEF Spec, ServiceImplemented, Service!Spec

\* What every implementation of the service inherits.
Promise == INSTANCE TagServiceProofs WITH
               Callers <- Publishers, call <- ServiceCall, plan <- ServicePlan

\* TagGraph's assumptions are those of this instance.
LEMMA PromiseInv ==
    /\ InitialTags \in Promise!Graphs /\ Promise!Init => Promise!Inv
    /\ Promise!Inv /\ [Promise!Next]_Promise!serviceVars => Promise!Inv'
BY VersionsAssumption, AncestryAssumption, TagAssumption, Promise!InitInv, Promise!StepInv
   DEF Promise!IsAncestor, Promise!Tagged, Promise!Graphs, Promise!Objects,
       Promise!Annotations, Objects, Annotations

\* The service that TagServiceProofs speaks of is the one the protocol implements.
LEMMA PromiseIsService ==
    /\ Service!Init => Promise!Init
    /\ [Service!Next]_Service!serviceVars => [Promise!Next]_Promise!serviceVars
BY DEF Service!Init, Promise!Init, Service!Next, Promise!Next,
       Service!Ask, Promise!Ask, Service!Again, Promise!Again,
       Service!Create, Promise!Create, Service!Publish, Promise!Publish,
       Service!Close, Promise!Close, Service!Forget, Promise!Forget,
       Service!Becomes, Promise!Becomes, Service!Plans, Promise!Plans,
       Service!Published, Promise!Published, Service!Tagged, Promise!Tagged,
       Service!Graphs, Promise!Graphs, Service!Objects, Promise!Objects,
       Service!Annotations, Promise!Annotations, Service!WithTag, Promise!WithTag,
       Service!Registry!MayAppend, Promise!Registry!MayAppend,
       Service!Registry!Tagged, Promise!Registry!Tagged,
       Service!Registry!IsAncestor, Promise!Registry!IsAncestor,
       Service!serviceVars, Promise!serviceVars

\* So what the service promises holds of the protocol in every state.
LEMMA PromiseInvariance == Spec => []Promise!Inv
<1>1. InitialTags \in Promise!Graphs
    BY InitialTagsAssumption
       DEF Promise!Graphs, Promise!Objects, Promise!Annotations, Graphs, Objects, Annotations
<1>2. Service!Init => Promise!Inv
    BY <1>1, PromiseInv, PromiseIsService
<1>3. Promise!Inv /\ [Service!Next]_Service!serviceVars => Promise!Inv'
    BY PromiseInv, PromiseIsService
<1>4. QED
    BY <1>2, <1>3, ServiceRefinement, PTL DEF ServiceImplemented, Service!Spec

\* "Concurrent publishers can therefore create at most one new tag from the same observed
\* state" (docs/how-to/release-action.md:182-184): of the publishers that planned on one
\* graph, no two are told of different new releases, if no calls dispute a commit.
THEOREM OneReleasePerGraph == Spec => []Service!OneTagPerGraph
<1>1. Promise!Inv => Promise!OneTagPerGraph
    BY VersionsAssumption, AncestryAssumption, TagAssumption, Promise!OnePublished
       DEF Promise!IsAncestor, Promise!Objects, Promise!Annotations, Objects, Annotations
<1>2. Promise!OneTagPerGraph => Service!OneTagPerGraph
    BY DEF Promise!OneTagPerGraph, Promise!Tagged, Service!OneTagPerGraph, Service!Tagged
<1>3. QED
    BY <1>1, <1>2, PromiseInvariance, PTL
-----------------------------------------------------------------------------
(* Publishers among outsiders, who may create any tag and move the           *)
(* coordination branch anywhere.                                             *)

\* What a call under way knows, whatever outsiders do meanwhile.
OpenCallInv(p) ==
    /\ pc[p] # "idle" =>
          \A v \in Tagged(plan[p].graph) : IsAncestor(plan[p].graph[v].commit, plan[p].head)
    /\ pc[p] \in {"push", "send", "pushed", "reread", "verified", "created"} =>
          /\ plan[p].head = plan[p].commit
          /\ \A v \in Tagged(plan[p].graph) : v < Tag(p)
    /\ pc[p] = "read" => \A v \in Tagged(seen[p]) : tags[v] = seen[p][v]
    /\ pc[p] \in {"reread", "verified"} => Tag(p) \in Tagged(tags)
    /\ pc[p] = "verified" => Matches(tags[Tag(p)], p)
    /\ Succeeded(p) => Tag(p) \in Tagged(tags) /\ Matches(tags[Tag(p)], p)

OpenInv == TypeOK /\ \A p \in Publishers : OpenCallInv(p)

\* Tags are only ever added.
KeepsTags == \A v \in Tagged(tags) : v \in Tagged(tags') /\ tags'[v] = tags[v]

\* Outsiders, too, push only well-typed tags and commits.
LEMMA OpenType == TypeOK /\ [OpenNext]_vars => TypeOK'
<1> SUFFICES ASSUME TypeOK, OpenNext PROVE TypeOK'
    BY StepType
<1>1. CASE RacingNext
    BY <1>1, StepType
<1>2. CASE OutsiderTag
    <2>1. tags' \in Graphs
        BY <1>2, GraphType DEF OutsiderTag, TypeOK
    <2>2. QED
        BY <1>2, <2>1 DEF OutsiderTag, locals, TypeOK
<1>3. CASE OutsiderMovesCoordination
    BY <1>3 DEF OutsiderMovesCoordination, locals, TypeOK
<1>4. QED
    BY <1>1, <1>2, <1>3 DEF OpenNext

\* A tag put where there is none leaves the others alone.
LEMMA NewTagKeeps ==
    ASSUME TypeOK, NEW v \in Versions, NEW o \in Objects, v \notin Tagged(tags),
           tags' = WithTag(tags, v, o)
    PROVE  KeepsTags
BY TagAssumption DEF TypeOK, KeepsTags, WithTag, Tagged, Graphs

\* Neither a publisher's push nor an outsider's replaces a tag.
LEMMA TagsAreKept == ASSUME TypeOK, [OpenNext]_vars PROVE KeepsTags
<1>1. CASE UNCHANGED tags
    BY <1>1 DEF KeepsTags, Tagged
<1>2. CASE OutsiderTag
    BY <1>2, NewTagKeeps DEF OutsiderTag
<1>3. ASSUME NEW p \in Publishers, Publisher(p), ~UNCHANGED tags
      PROVE  KeepsTags
    <2>1. Apply(p)
        BY <1>3 DEF Publisher, Plan, Retry, Reconcile, ReadCoordination, ReadTags,
            VerifyExisting, PrepareTag, Negotiate, PushRefused, PushFailed, ReadFinal,
            VerifyTag, ConfirmPublication, CheckFails, PushLost, GitFails, Return, remote
    <2>2. Tag(p) \notin Tagged(tags) /\ tags' = WithTag(tags, Tag(p), Object(p))
        BY <1>3, <2>1 DEF Apply, Applicable
    <2>3. Tag(p) \in Versions /\ Object(p) \in Objects
        BY <2>1, ObjectType DEF Apply, Step
    <2>4. QED
        BY <2>2, <2>3, NewTagKeeps
<1>4. QED
    BY <1>1, <1>2, <1>3 DEF OpenNext, RacingNext, OutsiderMovesCoordination, vars

\* What a call knows stays true while others act.
LEMMA OpenFrame ==
    ASSUME KeepsTags, NEW q \in Publishers, Untouched(q), OpenCallInv(q)
    PROVE  OpenCallInv(q)'
<1>1. ASSUME pc[q] = "read", NEW v \in Tagged(seen[q])
      PROVE  tags'[v] = seen[q][v]
    <2>1. tags[v] = seen[q][v] /\ v \in Tagged(tags)
        BY <1>1 DEF OpenCallInv, Tagged
    <2>2. QED
        BY <2>1 DEF KeepsTags
<1>2. Tag(q)' = Tag(q) /\ Succeeded(q)' = Succeeded(q)
    BY DEF Tag, Succeeded, Untouched
<1>3. Tag(q) \in Tagged(tags) =>
          Tag(q) \in Tagged(tags') /\ (Matches(tags[Tag(q)], q) => Matches(tags[Tag(q)], q)')
    BY DEF KeepsTags, Matches, Tag, Untouched
<1>4. QED
    BY <1>1, <1>2, <1>3 DEF OpenCallInv, Untouched, KeepsTags, Matches

\* A call that does not end in success keeps what it planned from.
LEMMA OpenReturn ==
    ASSUME TypeOK, NEW p \in Publishers, OpenCallInv(p),
           NEW from \in Stages, Return(p, from, "refused")
    PROVE  OpenCallInv(p)'
BY DEF TypeOK, Return, Step, OpenCallInv, Succeeded, Stages

\* The publisher's own steps, one case per action.
LEMMA OpenOwn ==
    ASSUME TypeOK, NEW p \in Publishers, OpenCallInv(p), Publisher(p), KeepsTags
    PROVE  OpenCallInv(p)'
<1>1. CASE Plan(p)
    <2>1. /\ plan'[p].graph = tags /\ ValidAt(tags, plan'[p].head)
          /\ pc'[p] = "planned"
        BY <1>1 DEF Plan, TypeOK
    <2>2. QED
        BY <2>1 DEF OpenCallInv, ValidAt, Succeeded
<1>2. CASE Retry(p)
    BY <1>2 DEF Retry, Step, remote, locals, TypeOK, OpenCallInv, Succeeded
<1>3. CASE ReadCoordination(p)
    BY <1>3 DEF ReadCoordination, Step, remote, TypeOK, OpenCallInv, Succeeded
<1>4. CASE ReadTags(p)
    BY <1>4 DEF ReadTags, Step, remote, TypeOK, OpenCallInv, Succeeded
<1>5. CASE VerifyExisting(p)
    <2>1. pc[p] = "read" /\ pc'[p] = "existing" /\ UNCHANGED <<tags, plan>>
        BY <1>5 DEF VerifyExisting, Return, Step, TypeOK
    <2>2. Tag(p) \in Tagged(tags) /\ Matches(tags[Tag(p)], p)
        BY <1>5, <2>1 DEF VerifyExisting, ExistingAgrees, OpenCallInv, Tagged
    <2>3. QED
        BY <2>1, <2>2 DEF OpenCallInv, Succeeded, Tag, Matches
<1>6. CASE PrepareTag(p)
    <2>1. pc[p] = "read" /\ pc'[p] = "push" /\ UNCHANGED <<tags, plan>>
        BY <1>6 DEF PrepareTag, Step, remote, locals, TypeOK
    <2>2. /\ plan[p].head = plan[p].commit
          /\ \A v \in Tagged(plan[p].graph) : v < Tag(p)
        BY <1>6 DEF PrepareTag, MayCreate, AboveLatest, PlannedGraph
    <2>3. QED
        BY <2>1, <2>2 DEF OpenCallInv, Succeeded, Tag
<1>7. CASE Negotiate(p)
    BY <1>7 DEF Negotiate, Step, remote, TypeOK, OpenCallInv, Succeeded, Tag
<1>8. CASE Apply(p)
    BY <1>8 DEF Apply, Step, TypeOK, OpenCallInv, Succeeded, Tag
<1>9. CASE PushRefused(p) \/ PushLost(p)
    BY <1>9 DEF PushRefused, PushLost, PushFailed, Step, remote, TypeOK, OpenCallInv,
        Succeeded, Tag
<1>10. CASE ReadFinal(p)
    BY <1>10 DEF ReadFinal, Step, remote, TypeOK, OpenCallInv, Succeeded, Tag
<1>11. CASE VerifyTag(p)
    BY <1>11 DEF VerifyTag, Step, remote, locals, TypeOK, OpenCallInv, Succeeded, Tag, Matches
<1>12. CASE ConfirmPublication(p)
    <2>1. /\ pc[p] = "verified" /\ pc'[p] \in {"created", "existing"}
          /\ UNCHANGED <<tags, plan>>
        BY <1>12 DEF ConfirmPublication, Return, Step, TypeOK
    <2>2. QED
        BY <2>1 DEF OpenCallInv, Succeeded, Tag, Matches
<1>13. CASE CheckFails(p) \/ GitFails(p)
    <2>1. PICK from \in Stages : Return(p, from, "refused")
        BY <1>13 DEF CheckFails, GitFails, Stages
    <2>2. QED
        BY <2>1, OpenReturn
<1>14. QED
    BY <1>1, <1>2, <1>3, <1>4, <1>5, <1>6, <1>7, <1>8, <1>9, <1>10, <1>11, <1>12,
       <1>13 DEF Publisher, Reconcile

\* A publisher's step leaves the others' calls alone.
LEMMA OthersUntouched ==
    ASSUME TypeOK, NEW p \in Publishers, Publisher(p), NEW q \in Publishers \ {p}
    PROVE  Untouched(q)
<1>1. CASE Plan(p) \/ Retry(p) \/ ReadCoordination(p) \/ ReadTags(p) \/ PrepareTag(p)
    BY <1>1 DEF Plan, Retry, ReadCoordination, ReadTags, PrepareTag, Step, remote, locals,
        TypeOK, Untouched
<1>2. CASE Negotiate(p) \/ Apply(p) \/ PushRefused(p) \/ PushLost(p) \/ ReadFinal(p)
           \/ VerifyTag(p)
    BY <1>2 DEF Negotiate, Apply, PushRefused, PushLost, PushFailed, ReadFinal, VerifyTag,
        Step, remote, locals, TypeOK, Untouched
<1>3. CASE VerifyExisting(p) \/ ConfirmPublication(p) \/ CheckFails(p) \/ GitFails(p)
    BY <1>3 DEF VerifyExisting, ConfirmPublication, CheckFails, GitFails, Return, Step,
        TypeOK, Untouched
<1>4. QED
    BY <1>1, <1>2, <1>3 DEF Publisher, Reconcile

\* Outsiders touch nobody's call, and a stuttering step nothing at all.
LEMMA OpenStep == OpenInv /\ [OpenNext]_vars => OpenInv'
<1> SUFFICES ASSUME OpenInv, [OpenNext]_vars PROVE OpenInv'
    OBVIOUS
<1>1. TypeOK' /\ KeepsTags
    BY OpenType, TagsAreKept DEF OpenInv
<1>2. CASE RacingNext
    <2>1. PICK p \in Publishers : Publisher(p)
        BY <1>2 DEF RacingNext
    <2>2. OpenCallInv(p)'
        BY <1>1, <2>1, OpenOwn DEF OpenInv
    <2>3. \A q \in Publishers \ {p} : OpenCallInv(q)'
        BY <1>1, <2>1, OthersUntouched, OpenFrame DEF OpenInv
    <2>4. QED
        BY <1>1, <2>2, <2>3 DEF OpenInv
<1>3. CASE OutsiderTag \/ OutsiderMovesCoordination \/ UNCHANGED vars
    <2>1. \A q \in Publishers : Untouched(q)
        BY <1>3 DEF OutsiderTag, OutsiderMovesCoordination, vars, locals, Untouched
    <2>2. \A q \in Publishers : OpenCallInv(q)'
        BY <1>1, <2>1, OpenFrame DEF OpenInv
    <2>3. QED
        BY <1>1, <2>2 DEF OpenInv
<1>4. QED
    BY <1>2, <1>3 DEF OpenNext

\* The invariant holds whatever outsiders and publishers do.
THEOREM OpenInvariance == OpenSpec => []OpenInv
<1>1. Init => OpenInv
    <2>1. Init => TypeOK
        BY InitType
    <2>2. Init => \A p \in Publishers : OpenCallInv(p)
        BY DEF Init, OpenCallInv, Succeeded
    <2>3. QED
        BY <2>1, <2>2 DEF OpenInv
<1>2. QED
    BY <1>1, OpenStep, PTL DEF OpenSpec

\* Success is reported only for a release that is on the remote as requested,
\* even when outsiders push tags and move the coordination branch meanwhile.
THEOREM OpenSuccessIsTruthful == OpenSpec => []TruthfulSuccess
<1>1. OpenInv => TruthfulSuccess
    BY DEF OpenInv, OpenCallInv, TruthfulSuccess
<1>2. QED
    BY <1>1, OpenInvariance, PTL

\* A created release is above everything its planner saw and descends from it,
\* among outsiders too.
THEOREM CreationExtendsPlan == OpenSpec => []CreatedExtendsPlan
<1>1. OpenInv => CreatedExtendsPlan
    BY DEF OpenInv, OpenCallInv, CreatedExtendsPlan
<1>2. QED
    BY <1>1, OpenInvariance, PTL

-----------------------------------------------------------------------------
(* No spurious refusal: what a call knows about the graph it was planned on. *)

\* A publisher only ever reads more than was planned on; a lease and a reading that are
\* both of the planned graph agree, because nothing was created between them;
\* until the branch exists nothing has been created at all.
RefusalInv(p) ==
    /\ pc[p] \in {"read", "push", "send", "pushed", "reread", "verified"} =>
          PrefixOf(plan[p].graph, seen[p])
    /\ pc[p] = "leased" /\ tags = plan[p].graph => coordBefore[p] = coord
    /\ pc[p] = "read" /\ PlannedGraph(p) => LeaseAgrees(p)
    /\ pc[p] \in {"push", "send", "pushed", "reread", "verified"} =>
          \A v \in Tagged(plan[p].graph) : v < Tag(p)
    /\ pc[p] # "idle" /\ coord = None => plan[p].graph = tags

RecoveryInv == Inv /\ \A p \in Publishers : RefusalInv(p)

\* A publisher that does not move, by what becomes of the remote.
LEMMA RefusalFrame ==
    ASSUME Inv, NEW q \in Publishers, Untouched(q), RefusalInv(q),
           UNCHANGED remote \/ \E p \in Publishers : pc[p] = "send" /\ Creates(p)
    PROVE  RefusalInv(q)'
<1>1. CASE UNCHANGED remote
    BY <1>1 DEF remote, Untouched, RefusalInv, PlannedGraph, LeaseAgrees, Tag
<1>2. ASSUME NEW p \in Publishers, pc[p] = "send", Creates(p) PROVE RefusalInv(q)'
    <2>1. coord' # None /\ Tag(p) \in Versions /\ Tag(p) \in Tagged(tags')
        BY <1>2, CreateOnRemote DEF Creates
    <2>2. Tag(p) \notin Tagged(tags)
        BY <1>2 DEF Creates, MayCreate
    <2>3. pc[q] # "idle" => tags' # plan[q].graph
        BY <2>1, <2>2 DEF Inv, CallInv, PrefixOf, Tagged
    <2>4. QED
        BY <2>1, <2>3 DEF Untouched, RefusalInv, PlannedGraph, LeaseAgrees, Tag
<1>3. QED
    BY <1>1, <1>2

\* The readings of a call, one case per action.
LEMMA RefusalReads ==
    ASSUME Inv, NEW p \in Publishers, RefusalInv(p),
           Plan(p) \/ Retry(p) \/ ReadCoordination(p) \/ ReadTags(p) \/ ReadFinal(p)
    PROVE  RefusalInv(p)'
<1>1. CASE Plan(p)
    BY <1>1 DEF Plan, Inv, TypeOK, RefusalInv
<1>2. CASE Retry(p)
    BY <1>2 DEF Retry, Step, remote, locals, Inv, TypeOK, RefusalInv
<1>3. CASE ReadCoordination(p)
    BY <1>3 DEF ReadCoordination, Step, remote, Inv, TypeOK, RefusalInv
<1>4. CASE ReadTags(p)
    <2>1. /\ pc[p] = "leased" /\ pc'[p] = "read" /\ seen'[p] = tags
          /\ UNCHANGED <<tags, coord, plan, coordBefore>>
        BY <1>4 DEF ReadTags, Step, remote, Inv, TypeOK
    <2>2. PrefixOf(plan[p].graph, tags)
        BY <2>1 DEF Inv, CallInv
    <2>3. ASSUME tags = plan[p].graph, coordBefore[p] # None
          PROVE  \E v \in Versions : IsLatest(tags, v) /\ coordBefore[p] = tags[v].commit
        BY <2>1, <2>3 DEF RefusalInv, Inv, RemoteInv, CoordinationAtLatest
    <2>4. QED
        BY <2>1, <2>2, <2>3 DEF RefusalInv, PlannedGraph, LeaseAgrees
<1>5. CASE ReadFinal(p)
    <2>1. /\ pc[p] = "pushed" /\ pc'[p] = "reread" /\ seen'[p] = tags
          /\ UNCHANGED <<tags, coord, plan>>
        BY <1>5 DEF ReadFinal, Step, remote, Inv, TypeOK
    <2>2. PrefixOf(plan[p].graph, tags)
        BY <2>1 DEF Inv, CallInv
    <2>3. QED
        BY <2>1, <2>2 DEF RefusalInv, Tag
<1>6. QED
    BY <1>1, <1>2, <1>3, <1>4, <1>5

\* The push and what follows it.
LEMMA RefusalOwn ==
    ASSUME Inv, NEW p \in Publishers, RefusalInv(p), Publisher(p)
    PROVE  RefusalInv(p)'
<1>1. CASE Plan(p) \/ Retry(p) \/ ReadCoordination(p) \/ ReadTags(p) \/ ReadFinal(p)
    BY <1>1, RefusalReads
<1>2. CASE PrepareTag(p)
    <2>1. /\ pc[p] = "read" /\ pc'[p] = "push"
          /\ UNCHANGED <<tags, coord, plan, coordBefore, seen>>
        BY <1>2 DEF PrepareTag, Step, remote, locals, Inv, TypeOK
    <2>2. \A v \in Tagged(plan[p].graph) : v < Tag(p)
        BY <1>2 DEF PrepareTag, MayCreate, AboveLatest, PlannedGraph
    <2>3. QED
        BY <2>1, <2>2 DEF RefusalInv, Tag
<1>3. CASE Negotiate(p)
    BY <1>3 DEF Negotiate, Step, remote, Inv, TypeOK, RefusalInv, Tag
<1>4. CASE Apply(p)
    <2>1. /\ pc[p] = "send" /\ pc'[p] = "pushed"
          /\ UNCHANGED <<plan, seen>>
        BY <1>4 DEF Apply, Step, Inv, TypeOK
    <2>2. UNCHANGED remote \/ coord' # None
        BY <1>4, <2>1, ApplyCreates, CreateOnRemote DEF Creates
    <2>3. QED
        BY <2>1, <2>2 DEF remote, RefusalInv, Tag
<1>5. CASE PushRefused(p) \/ PushLost(p)
    BY <1>5 DEF PushRefused, PushLost, PushFailed, Step, remote, Inv, TypeOK, RefusalInv, Tag
<1>6. CASE VerifyTag(p)
    BY <1>6 DEF VerifyTag, Step, remote, locals, Inv, TypeOK, RefusalInv, Tag
<1>7. CASE VerifyExisting(p) \/ ConfirmPublication(p) \/ CheckFails(p) \/ GitFails(p)
    <2>1. PICK from \in Stages, outcome \in Outcomes : Return(p, from, outcome)
        BY <1>7 DEF VerifyExisting, ConfirmPublication, CheckFails, GitFails, Stages, Outcomes
    <2>2. /\ pc[p] # "idle" /\ pc'[p] \in Outcomes
          /\ UNCHANGED <<tags, coord, plan>>
        BY <2>1 DEF Return, Step, Inv, TypeOK, Stages
    <2>3. QED
        BY <2>2 DEF RefusalInv, Outcomes
<1>8. QED
    BY <1>1, <1>2, <1>3, <1>4, <1>5, <1>6, <1>7 DEF Publisher, Reconcile

\* The strengthened invariant is inductive.
LEMMA RecoveryStep == RecoveryInv /\ [Next]_vars => RecoveryInv'
<1> SUFFICES ASSUME RecoveryInv, [Next]_vars PROVE RecoveryInv'
    OBVIOUS
<1>1. Inv /\ TypeOK /\ Inv'
    BY StepInv DEF RecoveryInv, Inv
<1>2. UNCHANGED remote \/ \E p \in Publishers : pc[p] = "send" /\ Creates(p)
    BY <1>1, OnlyCreates
<1>3. CASE UNCHANGED vars
    <2>1. \A q \in Publishers : Untouched(q)
        BY <1>3 DEF vars, Untouched
    <2>2. QED
        BY <1>1, <1>2, <2>1, RefusalFrame DEF RecoveryInv
<1>4. CASE Next
    <2>1. PICK p \in Publishers : Publisher(p)
        BY <1>4 DEF Next, RacingNext
    <2>2. RefusalInv(p)'
        BY <1>1, <2>1, RefusalOwn DEF RecoveryInv
    <2>3. \A q \in Publishers \ {p} : RefusalInv(q)'
        BY <1>1, <1>2, <2>1, OthersUntouched, RefusalFrame DEF RecoveryInv
    <2>4. QED
        BY <1>1, <2>2, <2>3 DEF RecoveryInv
<1>5. QED
    BY <1>3, <1>4

\* It holds for any number of publishers whose calls do not dispute a commit.
THEOREM RecoveryInvariance == Spec => []RecoveryInv
<1>1. Init => RecoveryInv
    BY InitInv DEF Init, RecoveryInv, RefusalInv
<1>2. QED
    BY <1>1, RecoveryStep, PTL DEF Spec

\* What a publisher saw of a remote that now is the planned graph with the release in it.
LEMMA SeenOfRelease ==
    ASSUME Inv, NEW p \in Publishers, RefusalInv(p), ReleaseIsThere(p),
           pc[p] \in {"read", "reread", "verified"}
    PROVE  IF Tag(p) \in Tagged(seen[p]) THEN seen[p] = tags
           ELSE /\ seen[p] = WithoutTag(tags, Tag(p))
                /\ seen[p] = plan[p].graph
                /\ \A v \in Tagged(seen[p]) : v < Tag(p) /\ seen[p][v] = tags[v]
<1>1. /\ tags \in Graphs /\ seen[p] \in Graphs /\ plan[p].graph \in Graphs
      /\ Tag(p) \in Versions /\ Tag(p) \in Tagged(tags)
    BY ObjectType DEF Inv, TypeOK, ReleaseIsThere
<1>2. PrefixOf(plan[p].graph, seen[p]) /\ PrefixOf(seen[p], tags)
    BY DEF RefusalInv, Inv, CallInv
<1>3. plan[p].graph \in {tags, WithoutTag(tags, Tag(p))}
    BY DEF ReleaseIsThere
<1>4. \A v \in Versions \ {Tag(p)} : plan[p].graph[v] = tags[v]
    BY <1>1, <1>3 DEF WithoutTag, Graphs
<1>5. \A v \in Versions \ {Tag(p)} : seen[p][v] = tags[v]
    BY <1>1, <1>2, <1>4 DEF PrefixOf, Tagged
<1>6. CASE Tag(p) \in Tagged(seen[p])
    <2>1. seen[p][Tag(p)] = tags[Tag(p)]
        BY <1>2, <1>6 DEF PrefixOf
    <2>2. seen[p] = tags
        BY <1>1, <1>5, <2>1 DEF Graphs
    <2>3. QED
        BY <1>6, <2>2
<1>7. CASE Tag(p) \notin Tagged(seen[p])
    <2>1. seen[p][Tag(p)] = NoTag
        BY <1>1, <1>7 DEF Tagged
    <2>2. seen[p] = WithoutTag(tags, Tag(p))
        BY <1>1, <1>5, <2>1 DEF WithoutTag, Graphs
    <2>3. plan[p].graph # tags
        BY <1>1, <1>2, <1>7 DEF PrefixOf, Tagged
    <2>4. ASSUME NEW v \in Tagged(seen[p])
          PROVE  v < Tag(p) /\ seen[p][v] = tags[v]
        <3>1. seen[p][v] = tags[v] /\ ~(Tag(p) < v) /\ v # Tag(p)
            BY <1>1, <1>2, <1>7 DEF PrefixOf
        <3>2. v \in Nat /\ Tag(p) \in Nat
            BY <1>1, TaggedVersion, VersionsAssumption
        <3>3. QED
            BY <3>1, <3>2
    <2>5. QED
        BY <1>3, <1>7, <2>2, <2>3, <2>4
<1>8. QED
    BY <1>6, <1>7

\* The remote that publishers leave behind is always readable.
LEMMA RemoteIsReadable == ASSUME Inv PROVE Readable(tags)
<1>1. \A v, w \in Tagged(tags) : v < w \/ w < v \/ v = w
    BY TaggedVersion
<1>2. QED
    BY <1>1 DEF Inv, RemoteInv, OrderedHistory, Ordered, Readable, DistinctCommits

\* A publisher that missed the release passes every check on the way to its push.
LEMMA LateCreatorMayCreate ==
    ASSUME Inv, NEW p \in Publishers, RefusalInv(p), ReleaseIsThere(p), WellFormed(p),
           pc[p] = "read", Tag(p) \notin Tagged(seen[p])
    PROVE  MayCreate(p)
<1>1. /\ seen[p] = plan[p].graph
      /\ \A v \in Tagged(seen[p]) : v < Tag(p) /\ seen[p][v] = tags[v]
    BY SeenOfRelease
<1>2. tags[Tag(p)].commit = plan[p].commit /\ Tag(p) \in Tagged(tags)
    BY DEF ReleaseIsThere, Matches
<1>3. \A v \in Tagged(seen[p]) : v \in Tagged(tags)
    BY <1>1 DEF Tagged
<1>4. \A v \in Tagged(seen[p]) :
          /\ IsAncestor(seen[p][v].commit, plan[p].commit)
          /\ seen[p][v].commit # plan[p].commit
    BY <1>1, <1>2, <1>3 DEF Inv, RemoteInv, OrderedHistory, Ordered
<1>5. LeaseAgrees(p)
    BY <1>1 DEF RefusalInv, PlannedGraph
<1>6. QED
    BY <1>1, <1>4, <1>5 DEF MayCreate, WellFormed, AboveLatest, DescendsFromLatest,
        IsLatest, PlannedGraph, CommitIsFree

\* A publisher that pushed and read the release back finds the publication it asked for.
LEMMA ReleaseIsPublished ==
    ASSUME Inv, NEW p \in Publishers, RefusalInv(p), ReleaseIsThere(p), pc[p] = "verified"
    PROVE  PublicationAgrees(p)
<1>1. Tag(p) \in Tagged(seen[p]) /\ Tag(p) \in Tagged(tags) /\ Tag(p) \in Nat
    BY TaggedVersion DEF Inv, CallInv, ReleaseIsThere
<1>2. seen[p] = tags
    BY <1>1, SeenOfRelease
<1>3. \A v \in Tagged(plan[p].graph) : v < Tag(p)
    BY DEF RefusalInv
<1>4. plan[p].graph # tags
    BY <1>1, <1>3
<1>5. plan[p].graph = WithoutTag(tags, Tag(p))
    BY <1>4 DEF ReleaseIsThere
<1>6. coord # None
    BY <1>4 DEF RefusalInv
<1>7. PICK v \in Versions : IsLatest(tags, v) /\ tags[v].commit = coord
    BY <1>6 DEF Inv, RemoteInv, CoordinationAtLatest
<1>8. v = Tag(p)
    <2>1. v \in Tagged(tags) /\ v \in Nat /\ Tag(p) <= v
        BY <1>1, <1>7, TaggedVersion DEF IsLatest
    <2>2. v # Tag(p) => v \in Tagged(plan[p].graph)
        BY <1>5, <2>1 DEF WithoutTag, Tagged, Inv, TypeOK, Graphs
    <2>3. QED
        BY <1>1, <1>3, <2>1, <2>2
<1>9. coord = plan[p].commit
    BY <1>7, <1>8 DEF ReleaseIsThere, Matches
<1>10. QED
    BY <1>2, <1>5, <1>9 DEF PublicationAgrees

\* Recovery is idempotent: while the remote holds the planned graph with the
\* requested release in it, no check refuses a well-formed call, whoever created
\* the release and whatever became of the earlier attempts.
THEOREM RecoveryIsIdempotent == Spec => NoSpuriousRefusal
<1> DEFINE Refuses == \A p \in Publishers : CheckFails(p) => ~(WellFormed(p) /\ ReleaseIsThere(p))
<1>1. RecoveryInv => Refuses
    <2> SUFFICES ASSUME RecoveryInv, NEW p \in Publishers, CheckFails(p),
                        WellFormed(p), ReleaseIsThere(p)
                 PROVE  FALSE
        OBVIOUS
    <2>1. Inv /\ RefusalInv(p) /\ Readable(tags)
        BY RemoteIsReadable DEF RecoveryInv
    <2>2. Tag(p) \in Tagged(tags) /\ Matches(tags[Tag(p)], p)
        BY DEF ReleaseIsThere
    <2>3. CASE pc[p] = "read" /\ Tag(p) \in Tagged(seen[p]) /\ ~ExistingAgrees(p)
        BY <2>1, <2>2, <2>3, SeenOfRelease DEF ExistingAgrees, ReleaseIsThere
    <2>4. CASE pc[p] = "read" /\ Tag(p) \notin Tagged(seen[p]) /\ ~MayCreate(p)
        BY <2>1, <2>4, LateCreatorMayCreate
    <2>5. CASE pc[p] = "verified" /\ ~PublicationAgrees(p)
        BY <2>1, <2>5, ReleaseIsPublished
    <2>6. QED
        BY <2>1, <2>2, <2>3, <2>4, <2>5 DEF CheckFails, Return, Step
<1>2. RecoveryInv /\ [Next]_vars => [Refuses]_vars
    BY <1>1
<1>3. QED
    BY <1>2, RecoveryInvariance, PTL DEF Spec, NoSpuriousRefusal
=============================================================================
