------------------------------ MODULE TagGraph ------------------------------
(***************************************************************************)
(* The release-tag graph: which strict vMAJOR.MINOR.PATCH tags exist, and  *)
(* which annotated object each one names.  scripts/release_tags.py carries *)
(* a graph as a list of ReleaseTag sorted by version; here it is a total   *)
(* function on versions whose value is NoTag where no tag exists.  The     *)
(* SHA-256 of a graph (tag_graph_sha256) covers name, object and target of *)
(* every tag in order, so two graphs have one digest exactly when they are *)
(* equal: the specification compares the graphs.                           *)
(***************************************************************************)
EXTENDS Integers

CONSTANTS
    Versions,   \* semantic versions, by their position in SemVer order
    Commits,
    Ancestry,   \* <<a, b>> when commit a is b or an ancestor of b
    Metas,      \* canonical annotations: manifest digest, notes format, notes digest
    Taggers,    \* tagger lines: committer identity and second
    Legacy,     \* the annotation of a tag older than the canonical format
    Lightweight,\* what a tag that is not an object is annotated with
    NoTag       \* where a graph holds no tag

ASSUME VersionsAssumption == Versions \subseteq Nat

ASSUME AncestryAssumption ==
    /\ Ancestry \subseteq Commits \X Commits
    /\ \A c \in Commits : <<c, c>> \in Ancestry
    /\ \A a, b, c \in Commits :
          <<a, b>> \in Ancestry /\ <<b, c>> \in Ancestry => <<a, c>> \in Ancestry
    /\ \A a, b \in Commits :
          <<a, b>> \in Ancestry /\ <<b, a>> \in Ancestry => a = b

Annotations == Metas \cup {Legacy, Lightweight}

Objects == [commit : Commits, meta : Annotations, tagger : Taggers]

ASSUME TagAssumption ==
    /\ NoTag \notin Objects
    /\ Metas \cap {Legacy, Lightweight} = {}

Graphs == [Versions -> Objects \cup {NoTag}]

EmptyGraph == [v \in Versions |-> NoTag]

Tagged(g) == {v \in Versions : g[v] # NoTag}

WithTag(g, v, object) == [g EXCEPT ![v] = object]

WithoutTag(g, v) == [g EXCEPT ![v] = NoTag]

IsAncestor(a, b) == <<a, b>> \in Ancestry

IsLatest(g, v) == v \in Tagged(g) /\ \A w \in Tagged(g) : w <= v

DistinctCommits(g) == \A v, w \in Tagged(g) : g[v].commit = g[w].commit => v = w

Annotated(g) == \A v \in Tagged(g) : g[v].meta # Lightweight

\* remote_release_tags refuses any other graph.
Readable(g) == Annotated(g) /\ DistinctCommits(g)

\* Version order follows commit ancestry, strictly.
Ordered(g) ==
    \A v, w \in Tagged(g) :
        v < w => IsAncestor(g[v].commit, g[w].commit) /\ g[v].commit # g[w].commit

\* The graphs release_tags returns for a clone whose HEAD is head.
ValidAt(g, head) ==
    /\ Annotated(g)
    /\ Ordered(g)
    /\ \A v \in Tagged(g) : IsAncestor(g[v].commit, head)

\* old is what new was before tags were appended above its last one.
PrefixOf(old, new) ==
    \A v \in Tagged(old) :
        /\ new[v] = old[v]
        /\ \A w \in Tagged(new) : w < v => w \in Tagged(old)
=============================================================================
