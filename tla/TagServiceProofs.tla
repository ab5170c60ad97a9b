-------------------------- MODULE TagServiceProofs --------------------------
(***************************************************************************)
(* What follows from the promise of the tag service alone, for any number  *)
(* of callers, tags and commits: hence for whatever implements it.         *)
(***************************************************************************)
EXTENDS TagService, TLAPS

\* What every state satisfies: each answer that a caller was given still holds.
Inv == ServiceTypeOK /\ PublishedForEver

-----------------------------------------------------------------------------
(* What one step leaves to a caller *)

\* A tag that is created is above all others: they stay as they are.
LEMMA CreatedAbove ==
    ASSUME ServiceTypeOK, NEW c \in Callers, Create(c)
    PROVE  /\ tags' \in Graphs /\ plan[c].tag \in Versions
           /\ tags' = WithTag(tags, plan[c].tag, tags'[plan[c].tag])
           /\ tags'[plan[c].tag] \in Objects
           /\ \A w \in Tagged(tags) : w < plan[c].tag /\ tags'[w] = tags[w]
           /\ Tagged(tags') = Tagged(tags) \cup {plan[c].tag}
<1> DEFINE v == plan[c].tag
           object == tags'[v]
<1>1. v \in Versions /\ v \in Nat /\ tags \in Graphs
  BY VersionsAssumption DEF Create, ServiceTypeOK, Plans
<1>2. /\ object \in Objects /\ Registry!MayAppend(v, object)
      /\ tags' = WithTag(tags, v, object)
  BY DEF Create
<1> HIDE DEF v, object
<1>3. tags' \in Graphs
  BY <1>1, <1>2 DEF WithTag, Graphs
<1>4. \A w \in Tagged(tags) : w \in Versions /\ w \in Nat /\ w < v
  BY <1>2, VersionsAssumption DEF Registry!MayAppend, Registry!Tagged, Tagged
<1>5. \A w \in Tagged(tags) : tags'[w] = tags[w]
  BY <1>1, <1>2, <1>4 DEF WithTag, Graphs
<1>6. object # NoTag
  BY <1>2, TagAssumption
<1>7. tags'[v] = object /\ \A w \in Versions \ {v} : tags'[w] = tags[w]
  BY <1>1, <1>2 DEF WithTag, Graphs
<1>8. Tagged(tags') = Tagged(tags) \cup {v}
  BY <1>1, <1>6, <1>7 DEF Tagged
<1> QED BY <1>1, <1>2, <1>3, <1>4, <1>5, <1>8 DEF v, object

\* A release that is published stays so whatever is created above it.
LEMMA PublishedStays ==
    ASSUME ServiceTypeOK, NEW c \in Callers, NEW d \in Callers, plan[c] \in Plans, Published(c),
           Create(d), plan'[c] = plan[c]
    PROVE  Published(c)'
<1> DEFINE v == plan[c].tag
           w == plan[d].tag
<1>1. v \in Tagged(tags) /\ tags \in Graphs /\ v \in Versions
  BY DEF Published, ServiceTypeOK, Plans
<1>2. /\ w \in Versions /\ v < w /\ tags'[v] = tags[v]
      /\ tags' = WithTag(tags, w, tags'[w])
      /\ Tagged(tags') = Tagged(tags) \cup {w}
  BY <1>1, CreatedAbove
<1>3. \A u \in Versions : u # w => tags'[u] = tags[u]
  BY <1>1, <1>2 DEF WithTag, Graphs
<1> HIDE DEF v, w
<1>4. \A u \in Versions : u < v => u # w
  BY <1>1, <1>2, VersionsAssumption
<1>5. \A u \in Versions : u < v => tags'[u] = plan[c].graph[u]
  BY <1>3, <1>4 DEF Published, v
<1> QED BY <1>1, <1>2, <1>5 DEF Published, v

\* The release that a call creates is published when the caller hears of it at once.
LEMMA CreatedIsPublished ==
    ASSUME ServiceTypeOK, NEW c \in Callers, Create(c)
    PROVE  Published(c)'
<1> DEFINE v == plan[c].tag
<1>1. /\ v \in Versions /\ v \in Nat /\ tags \in Graphs
      /\ tags' = WithTag(tags, v, tags'[v]) /\ v \in Tagged(tags')
  BY CreatedAbove, VersionsAssumption DEF ServiceTypeOK
<1>2. /\ tags = plan[c].graph /\ plan'[c] = plan[c]
      /\ tags'[v].commit = plan[c].commit /\ tags'[v].meta = plan[c].meta
  BY DEF Create
<1> HIDE DEF v
<1>3. ~(v < v)
  BY <1>1
<1>4. \A u \in Versions : u < v => tags'[u] = plan[c].graph[u]
  BY <1>1, <1>2, <1>3 DEF WithTag, Graphs
<1> QED BY <1>1, <1>2, <1>4 DEF Published, v

-----------------------------------------------------------------------------
(* The invariant *)

\* Calls and requests keep their types.
LEMMA TypeStep == ServiceTypeOK /\ [Next]_serviceVars => ServiceTypeOK'
<1> SUFFICES ASSUME ServiceTypeOK, [Next]_serviceVars PROVE ServiceTypeOK'
  OBVIOUS
<1>1. CASE UNCHANGED serviceVars
  BY <1>1 DEF serviceVars, ServiceTypeOK
<1>2. ASSUME NEW c \in Callers, Ask(c) PROVE ServiceTypeOK'
  <2> PICK p : p = plan'[c]
    OBVIOUS
  <2>1. /\ p \in Plans /\ plan' = [plan EXCEPT ![c] = p]
        /\ call' = [call EXCEPT ![c] = "open"] /\ tags' = tags
    BY <1>2 DEF Ask, Becomes
  <2> QED BY <2>1 DEF ServiceTypeOK
<1>3. ASSUME NEW c \in Callers, Again(c) PROVE ServiceTypeOK'
  BY <1>3 DEF Again, Becomes, ServiceTypeOK
<1>4. ASSUME NEW c \in Callers, Create(c) PROVE ServiceTypeOK'
  <2>1. tags' \in Graphs
    BY <1>4, CreatedAbove
  <2>2. /\ plan' = plan /\ call[c] = "open"
        /\ call' = call \/ call' = [call EXCEPT ![c] = "published"]
    BY <1>4 DEF Create, Becomes
  <2> QED BY <2>1, <2>2 DEF ServiceTypeOK
<1>5. ASSUME NEW c \in Callers, Publish(c) \/ Close(c) PROVE ServiceTypeOK'
  BY <1>5 DEF Publish, Close, Becomes, ServiceTypeOK
<1>6. ASSUME NEW c \in Callers, Forget(c) PROVE ServiceTypeOK'
  BY <1>6 DEF Forget, Becomes, ServiceTypeOK
<1> QED BY <1>1, <1>2, <1>3, <1>4, <1>5, <1>6 DEF Next

\* A step that leaves the tags alone publishes nothing that is not there.
LEMMA QuietKeeps ==
    ASSUME Inv, UNCHANGED tags,
           \A c \in Callers : call'[c] = "published" =>
               plan'[c] = plan[c] /\ (call[c] = "published" \/ Published(c))
    PROVE  PublishedForEver'
BY DEF Inv, PublishedForEver, Published

\* What callers were told stays true.
LEMMA PublishedStep == Inv /\ [Next]_serviceVars => PublishedForEver'
<1> SUFFICES ASSUME Inv, [Next]_serviceVars PROVE PublishedForEver'
  OBVIOUS
<1>1. CASE UNCHANGED serviceVars
  BY <1>1, QuietKeeps DEF serviceVars
<1>2. ASSUME NEW c \in Callers, Ask(c) PROVE PublishedForEver'
  <2> PICK p : p = plan'[c]
    OBVIOUS
  <2>1. /\ plan' = [plan EXCEPT ![c] = p] /\ call' = [call EXCEPT ![c] = "open"]
        /\ tags' = tags
    BY <1>2 DEF Ask, Becomes
  <2>2. call'[c] = "open"
       /\ \A d \in Callers \ {c} : call'[d] = call[d] /\ plan'[d] = plan[d]
    BY <2>1 DEF Inv, ServiceTypeOK
  <2> QED BY <2>1, <2>2, QuietKeeps
<1>3. ASSUME NEW c \in Callers, Again(c) \/ Close(c) \/ Forget(c) PROVE PublishedForEver'
  <2>1. /\ tags' = tags /\ call'[c] # "published"
        /\ \A d \in Callers \ {c} : call'[d] = call[d] /\ plan'[d] = plan[d]
    BY <1>3 DEF Again, Close, Forget, Becomes, Inv, ServiceTypeOK
  <2> QED BY <2>1, QuietKeeps
<1>4. ASSUME NEW c \in Callers, Publish(c) PROVE PublishedForEver'
  <2>1. /\ tags' = tags /\ plan' = plan /\ Published(c)
        /\ \A d \in Callers \ {c} : call'[d] = call[d]
    BY <1>4 DEF Publish, Becomes, Inv, ServiceTypeOK
  <2> QED BY <2>1, QuietKeeps
<1>5. ASSUME NEW c \in Callers, Create(c) PROVE PublishedForEver'
  <2>1. /\ plan' = plan
        /\ \A d \in Callers \ {c} : call'[d] = call[d]
    BY <1>5 DEF Create, Becomes, Inv, ServiceTypeOK
  <2>2. Published(c)'
    BY <1>5, CreatedIsPublished DEF Inv
  <2>3. ASSUME NEW d \in Callers \ {c}, call'[d] = "published" PROVE Published(d)'
    <3>1. Published(d) /\ plan[d] \in Plans
      BY <2>1, <2>3 DEF Inv, PublishedForEver, ServiceTypeOK
    <3> QED BY <1>5, <2>1, <3>1, PublishedStays DEF Inv
  <2> QED BY <2>2, <2>3 DEF PublishedForEver
<1> QED BY <1>1, <1>2, <1>3, <1>4, <1>5 DEF Next

\* It holds at first.
LEMMA InitInv == InitialTags \in Graphs /\ Init => Inv
BY DEF Init, Inv, ServiceTypeOK, PublishedForEver

\* Every step of the service keeps it.
LEMMA StepInv == Inv /\ [Next]_serviceVars => Inv'
BY TypeStep, PublishedStep DEF Inv

\* It holds in every state, whatever the tags are that the service begins with.
THEOREM Invariance ==
    ASSUME InitialTags \in Graphs
    PROVE  Spec => []Inv
BY InitInv, StepInv, PTL DEF Spec

\* No request, answer or tag leaves its type.
THEOREM TypeCorrect ==
    ASSUME InitialTags \in Graphs
    PROVE  Spec => []ServiceTypeOK
<1>1. Inv => ServiceTypeOK
  BY DEF Inv
<1> QED BY <1>1, Invariance, PTL

\* Who is told of a release may rely on it, and on the notes that its tag binds.
THEOREM AnswersStand ==
    ASSUME InitialTags \in Graphs
    PROVE  Spec => []PublishedForEver
<1>1. Inv => PublishedForEver
  BY DEF Inv
<1> QED BY <1>1, Invariance, PTL

\* Two new releases on one graph would each stand right above it, so they are one.
LEMMA OnePublished == Inv => OneTagPerGraph
<1> SUFFICES ASSUME Inv, NEW c \in Callers, NEW d \in Callers,
                    call[c] = "published", call[d] = "published",
                    plan[c].graph = plan[d].graph,
                    plan[c].tag \notin Tagged(plan[c].graph),
                    plan[d].tag \notin Tagged(plan[d].graph)
             PROVE  plan[c].tag = plan[d].tag /\ plan[c].commit = plan[d].commit
                      /\ plan[c].meta = plan[d].meta
  BY DEF OneTagPerGraph
<1>1. /\ Published(c) /\ Published(d)
      /\ plan[c].tag \in Versions /\ plan[d].tag \in Versions
  BY DEF Inv, PublishedForEver, ServiceTypeOK, Plans
<1>2. ~(plan[c].tag < plan[d].tag)
  BY <1>1 DEF Published, Tagged
<1>3. ~(plan[d].tag < plan[c].tag)
  BY <1>1 DEF Published, Tagged
<1>4. \A v, w \in Versions : v < w \/ w < v \/ v = w
  BY VersionsAssumption
<1>5. plan[c].tag = plan[d].tag
  BY <1>1, <1>2, <1>3, <1>4
<1> QED BY <1>1, <1>5 DEF Published

\* Of the callers that plan on one graph, at most one gets a new release of its own.
THEOREM OnePublishedPerGraph ==
    ASSUME InitialTags \in Graphs
    PROVE  Spec => []OneTagPerGraph
BY OnePublished, Invariance, PTL

\* A service that keeps its promise to its callers keeps the registry's to all readers.
THEOREM RegistryRefinement ==
    ASSUME InitialTags \in Graphs
    PROVE  Spec => Registry!Spec
<1>1. Init => Registry!Init
  BY DEF Init, Registry!Init
<1>2. Inv /\ [Next]_serviceVars => [Registry!Append]_tags
  <2> SUFFICES ASSUME Inv, Next, tags' # tags PROVE Registry!Append
    BY DEF serviceVars
  <2>1. PICK c \in Callers : Create(c)
    BY DEF Next, Ask, Again, Publish, Close, Forget
  <2>2. plan[c].tag \in Versions /\ tags'[plan[c].tag] \in Objects
    BY <2>1, CreatedAbove DEF Inv
  <2>3. /\ Registry!MayAppend(plan[c].tag, tags'[plan[c].tag])
        /\ tags' = WithTag(tags, plan[c].tag, tags'[plan[c].tag])
    BY <2>1 DEF Create
  <2> QED BY <2>2, <2>3 DEF Registry!Append, Registry!WithTag, WithTag,
             Registry!Objects, Objects, Registry!Annotations, Annotations
<1> QED BY <1>1, <1>2, Invariance, PTL DEF Spec, Registry!Spec
=============================================================================
