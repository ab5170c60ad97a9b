----------------------------- MODULE TagService -----------------------------
(***************************************************************************)
(* What the tag step promises the runs that call it                        *)
(* (docs/how-to/release-action.md): the calls of reconcile_remote_tag      *)
(* behave as if each took effect in one step, on the remote as its caller  *)
(* saw it when planning.  A caller that is told of a release can rely on   *)
(* it for ever; one that is refused may ask again with the same arguments. *)
(*                                                                         *)
(* TagRegistry says what becomes of the tags, this module also on whose    *)
(* behalf, and from which graph.                                           *)
(***************************************************************************)
EXTENDS TagGraph

CONSTANTS Callers, InitialTags, None

VARIABLES
    tags,   \* the remote's release tags
    call,   \* what became of each caller's last request
    plan    \* that request, with the graph it was planned from

serviceVars == <<tags, call, plan>>

Plans == [tag : Versions, commit : Commits, meta : Metas, graph : Graphs]

ServiceTypeOK ==
    /\ tags \in Graphs
    /\ call \in [Callers -> {"none", "open", "published", "closed"}]
    /\ plan \in [Callers -> Plans \cup {None}]
    /\ \A c \in Callers : call[c] # "none" => plan[c] \in Plans

Init ==
    /\ tags = InitialTags
    /\ call = [c \in Callers |-> "none"]
    /\ plan = [c \in Callers |-> None]

Registry == INSTANCE TagRegistry WITH registry <- tags

\* The requested release is there, and nothing below it that was not planned on.
Published(c) ==
    LET p == plan[c]
    IN  /\ p.tag \in Tagged(tags)
        /\ tags[p.tag].commit = p.commit
        /\ tags[p.tag].meta = p.meta
        /\ \A v \in Versions : v < p.tag => tags[v] = p.graph[v]

Becomes(c, outcome) == call' = [call EXCEPT ![c] = outcome]

Ask(c) ==
    /\ call[c] # "open"
    /\ Becomes(c, "open")
    /\ plan'[c] \in Plans
    /\ plan'[c].graph = tags
    /\ plan' = [plan EXCEPT ![c] = plan'[c]]
    /\ UNCHANGED tags

Again(c) ==
    /\ call[c] \in {"published", "closed"}
    /\ Becomes(c, "open")
    /\ UNCHANGED <<tags, plan>>

\* The tag is created on exactly the graph that was planned on.  The caller may not
\* hear of it yet.
Create(c) ==
    /\ call[c] = "open"
    /\ tags = plan[c].graph
    /\ LET object == tags'[plan[c].tag]
       IN  /\ object \in Objects
           /\ object.commit = plan[c].commit
           /\ object.meta = plan[c].meta
           /\ Registry!MayAppend(plan[c].tag, object)
           /\ tags' = WithTag(tags, plan[c].tag, object)
    /\ UNCHANGED call \/ Becomes(c, "published")
    /\ UNCHANGED plan

\* The caller hears of the release, whoever created it.
Publish(c) ==
    /\ call[c] = "open"
    /\ Published(c)
    /\ Becomes(c, "published")
    /\ UNCHANGED <<tags, plan>>

Close(c) ==
    /\ call[c] \in {"open", "published"}
    /\ Becomes(c, "closed")
    /\ UNCHANGED <<tags, plan>>

Forget(c) ==
    /\ call[c] \in {"published", "closed"}
    /\ Becomes(c, "none")
    /\ plan' = [plan EXCEPT ![c] = None]
    /\ UNCHANGED tags

Next ==
    \E c \in Callers :
        Ask(c) \/ Again(c) \/ Create(c) \/ Publish(c) \/ Close(c) \/ Forget(c)

Spec == Init /\ [][Next]_serviceVars

-----------------------------------------------------------------------------
(* What callers may rely on *)

\* A caller that was told of its release finds it on the remote ever after, above the
\* releases it was planned on and no others: the notes stay right.
PublishedForEver == \A c \in Callers : call[c] = "published" => Published(c)

\* "Concurrent publishers can therefore create at most one new tag from the same observed
\* state" (docs/how-to/release-action.md:182-184).  The protocol is such a service as long as
\* no two calls under way claim one commit for different versions.
OneTagPerGraph ==
    \A c, d \in Callers :
        /\ call[c] = "published" /\ call[d] = "published"
        /\ plan[c].graph = plan[d].graph
        /\ plan[c].tag \notin Tagged(plan[c].graph)
        /\ plan[d].tag \notin Tagged(plan[d].graph)
        => plan[c].tag = plan[d].tag /\ plan[c].commit = plan[d].commit
             /\ plan[c].meta = plan[d].meta
=============================================================================
