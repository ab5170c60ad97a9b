------------------------ MODULE ReleasePlannerProofs ------------------------
(***************************************************************************)
(* The semantic-versioning promise for every contract, history and number  *)
(* of releases.  The argument: the required bump obeys a triangle          *)
(* inequality, so no change hides in a chain of two; the difference of     *)
(* versions obeys an ultrametric one; and each release satisfies the       *)
(* promise against the release before it.  And the meaning of commit       *)
(* messages of any length: the paragraph that the pattern takes for the    *)
(* last one is the one a reader sees, by the least line where they differ. *)
(***************************************************************************)
EXTENDS ReleasePlanner, CommitMessage, WellFoundedInduction, TLAPS

-----------------------------------------------------------------------------
(* What a chain of two contract changes may hide: nothing *)

Inputs == InputContracts \cup {None}
Outputs == OutputContracts \cup {None}

\* A breaking change of an input is breaking in one of the two steps it is made in.
LEMMA InputBreaksSplits ==
    ASSUME NEW a \in Inputs, NEW b \in Inputs, NEW c \in Inputs, InputBreaks(a, c)
    PROVE  InputBreaks(a, b) \/ InputBreaks(b, c)
BY AbsenceAssumption, NoneAssumption DEF InputBreaks, Inputs, InputContracts

\* An extension of an input is an extension, or a break, in one of the two steps.
LEMMA InputExtendsSplits ==
    ASSUME NEW a \in Inputs, NEW b \in Inputs, NEW c \in Inputs, InputExtends(a, c)
    PROVE  \/ InputBreaks(a, b) \/ InputBreaks(b, c)
           \/ InputExtends(a, b) \/ InputExtends(b, c)
BY AbsenceAssumption, NoneAssumption DEF InputExtends, InputBreaks, Inputs, InputContracts

\* The same for a change of its deprecation message.
LEMMA InputAmendsSplits ==
    ASSUME NEW a \in Inputs, NEW b \in Inputs, NEW c \in Inputs, InputAmends(a, c)
    PROVE  \/ InputBreaks(a, b) \/ InputBreaks(b, c)
           \/ InputAmends(a, b) \/ InputAmends(b, c)
BY AbsenceAssumption, NoneAssumption DEF InputAmends, InputBreaks, Inputs, InputContracts

\* Every comparison yields a bump.
LEMMA BumpTypes ==
    ASSUME NEW a, NEW b
    PROVE  /\ ActionBump(a, b) \in Bumps
           /\ ManifestBump(a, b) \in Bumps
           /\ RequiredBump(a, b) \in Bumps
BY DEF ActionBump, ManifestBump, RequiredBump, Higher, Bumps, Skip, Patch, Minor, Major

\* What a contract says of one name.
LEMMA ContractParts ==
    ASSUME NEW a \in Contracts, NEW n \in Names
    PROVE  a.inputs[n] \in Inputs /\ a.outputs[n] \in Outputs
BY DEF Contracts, Inputs, Outputs

\* The bump two versions of action.yml require is required by one of the two halves of
\* the change: an input that breaks over two releases breaks in one of them.
LEMMA ActionTriangle ==
    ASSUME NEW a \in Contracts, NEW b \in Contracts, NEW c \in Contracts
    PROVE  ActionBump(a, c) <= Higher(ActionBump(a, b), ActionBump(b, c))
<1> USE DEF Skip, Patch, Minor, Major
<1>1. Breaks(a, c) => Breaks(a, b) \/ Breaks(b, c)
  <2>1. ASSUME NEW n \in Names, InputBreaks(a.inputs[n], c.inputs[n])
        PROVE  InputBreaks(a.inputs[n], b.inputs[n]) \/ InputBreaks(b.inputs[n], c.inputs[n])
    BY <2>1, ContractParts, InputBreaksSplits
  <2>2. ASSUME NEW n \in Names, OutputBreaks(a.outputs[n], c.outputs[n])
        PROVE  \/ OutputBreaks(a.outputs[n], b.outputs[n])
               \/ OutputBreaks(b.outputs[n], c.outputs[n])
    BY <2>2 DEF OutputBreaks
  <2> QED BY <2>1, <2>2 DEF Breaks
<1>2. Extends(a, c) => Breaks(a, b) \/ Breaks(b, c) \/ Extends(a, b) \/ Extends(b, c)
  <2>1. ASSUME NEW n \in Names, InputExtends(a.inputs[n], c.inputs[n])
        PROVE  \/ InputBreaks(a.inputs[n], b.inputs[n])
               \/ InputBreaks(b.inputs[n], c.inputs[n])
               \/ InputExtends(a.inputs[n], b.inputs[n])
               \/ InputExtends(b.inputs[n], c.inputs[n])
    BY <2>1, ContractParts, InputExtendsSplits
  <2>2. ASSUME NEW n \in Names, OutputExtends(a.outputs[n], c.outputs[n])
        PROVE  \/ OutputExtends(a.outputs[n], b.outputs[n])
               \/ OutputExtends(b.outputs[n], c.outputs[n])
    BY <2>2 DEF OutputExtends
  <2> QED BY <2>1, <2>2 DEF Breaks, Extends
<1>3. Amends(a, c) => Breaks(a, b) \/ Breaks(b, c) \/ Amends(a, b) \/ Amends(b, c)
  <2>1. ASSUME NEW n \in Names, InputAmends(a.inputs[n], c.inputs[n])
        PROVE  \/ InputBreaks(a.inputs[n], b.inputs[n])
               \/ InputBreaks(b.inputs[n], c.inputs[n])
               \/ InputAmends(a.inputs[n], b.inputs[n])
               \/ InputAmends(b.inputs[n], c.inputs[n])
    BY <2>1, ContractParts, InputAmendsSplits
  <2> QED BY <2>1 DEF Breaks, Amends
<1> QED BY <1>1, <1>2, <1>3 DEF ActionBump, Higher

\* The same for action-compatibility.json, once a manifest is there to stay.
LEMMA ManifestTriangle ==
    ASSUME NEW a \in Manifests \cup {None}, NEW b \in Manifests, NEW c \in Manifests
    PROVE  ManifestBump(a, c) <= Higher(ManifestBump(a, b), ManifestBump(b, c))
BY AbsenceAssumption DEF ManifestBump, Higher, Manifests, Skip, Patch, Minor, Major

\* No change hides in two releases: what the whole change requires, one of its two
\* halves requires already.
THEOREM RequiredBumpTriangle ==
    ASSUME NEW a \in Contracts, NEW b \in Contracts, NEW c \in Contracts,
           b.manifest # None, c.manifest # None
    PROVE  RequiredBump(a, c) <= Higher(RequiredBump(a, b), RequiredBump(b, c))
<1>1. /\ a.manifest \in Manifests \cup {None}
      /\ b.manifest \in Manifests
      /\ c.manifest \in Manifests
  BY DEF Contracts
<1>2. ManifestBump(a.manifest, c.manifest)
        <= Higher(ManifestBump(a.manifest, b.manifest), ManifestBump(b.manifest, c.manifest))
  BY <1>1, ManifestTriangle
<1>3. ActionBump(a, c) <= Higher(ActionBump(a, b), ActionBump(b, c))
  BY ActionTriangle
<1>4. /\ ActionBump(a, b) \in Int /\ ActionBump(b, c) \in Int /\ ActionBump(a, c) \in Int
      /\ ManifestBump(a.manifest, b.manifest) \in Int
      /\ ManifestBump(b.manifest, c.manifest) \in Int
      /\ ManifestBump(a.manifest, c.manifest) \in Int
  BY DEF ActionBump, ManifestBump, Skip, Patch, Minor, Major
<1> QED BY <1>2, <1>3, <1>4 DEF RequiredBump, Higher

-----------------------------------------------------------------------------
(* Versions *)

\* Versions without the limit on their components.
SemanticVersions == [major : Nat, minor : Nat, patch : Nat]

\* Precedence is transitive.
LEMMA BelowTransitive ==
    ASSUME NEW u \in SemanticVersions, NEW v \in SemanticVersions, NEW w \in SemanticVersions,
           Below(u, v), Below(v, w)
    PROVE  Below(u, w)
BY DEF SemanticVersions, Below

\* The components that differ between two versions differ between all that enclose them.
LEMMA DifferenceGrows ==
    ASSUME NEW u \in SemanticVersions, NEW v \in SemanticVersions, NEW w \in SemanticVersions,
           Below(u, v), Below(v, w)
    PROVE  Difference(u, v) <= Difference(u, w) /\ Difference(v, w) <= Difference(u, w)
BY DEF SemanticVersions, Below, Difference, Skip, Patch, Minor, Major

\* A version at or above the bumped one is above, and differs by at least the bump.
LEMMA BumpShows ==
    ASSUME NEW v \in SemanticVersions, NEW w \in SemanticVersions, NEW bump \in Bumps,
           bump = Skip => Below(v, w), bump # Skip => ~Below(w, Bumped(v, bump))
    PROVE  Below(v, w) /\ bump <= Difference(v, w)
<1> USE DEF SemanticVersions, Below, Difference, Bumped, Bumps, Skip, Patch, Minor, Major
<1>1. CASE bump = Skip BY <1>1
<1>2. CASE bump = Patch BY <1>2
<1>3. CASE bump = Minor BY <1>3
<1>4. CASE bump = Major BY <1>4
<1> QED BY <1>1, <1>2, <1>3, <1>4

\* No version is below itself.
LEMMA BelowIrreflexive ==
    ASSUME NEW v \in SemanticVersions
    PROVE  ~Below(v, v)
BY DEF SemanticVersions, Below

\* Difference is a bump, so it can be compared.
LEMMA DifferenceType ==
    ASSUME NEW v, NEW w
    PROVE  Difference(v, w) \in Bumps
BY DEF Difference, Bumps, Skip, Patch, Minor, Major

\* The limit only leaves versions out.
LEMMA VersionsAreSemantic == Versions \subseteq SemanticVersions
BY PlannerAssumption DEF Versions, Components, SemanticVersions

-----------------------------------------------------------------------------
(* The promise, of any sequence of releases.  Every release but the first  *)
(* has a manifest, so that the triangle inequality applies at each release *)
(* in between.                                                             *)

AnyReleases == [version : SemanticVersions, contract : Contracts, asked : Bumps]

Promise(s) ==
    /\ \A i \in 2..Len(s) : s[i].contract.manifest # None
    /\ \A i, j \in 1..Len(s) : i < j => Below(s[i].version, s[j].version)
    /\ \A i, j \in 1..Len(s) :
          i < j => RequiredBump(s[i].contract, s[j].contract)
                      <= Difference(s[i].version, s[j].version)
    /\ \A i, j, k \in 1..Len(s) :
          i < k /\ k <= j => s[k].asked <= Difference(s[i].version, s[j].version)

\* A release that is above the last one by at least what is required of it, and asked for,
\* keeps the promise: against an older release, both the requirement and the difference
\* go through the last one.
LEMMA AppendKeepsPromise ==
    ASSUME NEW s \in Seq(AnyReleases), Len(s) > 0, Promise(s),
           NEW new \in AnyReleases, new.contract.manifest # None,
           Below(s[Len(s)].version, new.version),
           RequiredBump(s[Len(s)].contract, new.contract)
               <= Difference(s[Len(s)].version, new.version),
           new.asked <= Difference(s[Len(s)].version, new.version)
    PROVE  Promise(Append(s, new))
<1> DEFINE n == Len(s)
           t == Append(s, new)
           last == s[n]
           v == new.version
<1>1. /\ n \in Nat /\ n >= 1
      /\ Len(t) = n + 1 /\ t[n + 1] = new
      /\ \A i \in 1..n : t[i] = s[i] /\ s[i] \in AnyReleases
  OBVIOUS
<1>2. /\ \A i \in 1..n : /\ s[i].version \in SemanticVersions /\ s[i].contract \in Contracts
                         /\ s[i].asked \in Bumps
      /\ v \in SemanticVersions /\ new.contract \in Contracts /\ new.asked \in Bumps
  BY <1>1 DEF AnyReleases
<1> HIDE DEF n, t
<1>3. ASSUME NEW i \in 1..n
      PROVE  /\ Below(s[i].version, v)
             /\ Difference(last.version, v) <= Difference(s[i].version, v)
             /\ Difference(s[i].version, last.version) <= Difference(s[i].version, v) \/ i = n
  <2>1. CASE i = n
    BY <2>1, DifferenceType DEF Bumps, Skip, Patch, Minor, Major, n
  <2>2. CASE i < n
    <3>1. Below(s[i].version, last.version)
      BY <1>1, <2>2 DEF Promise, n
    <3> QED BY <1>1, <1>2, <3>1, BelowTransitive, DifferenceGrows DEF n
  <2> QED BY <1>1, <2>1, <2>2
<1>4. \A i \in 2..n + 1 : t[i].contract.manifest # None
  BY <1>1 DEF Promise, n
<1>5. ASSUME NEW i \in 1..n + 1, NEW j \in 1..n + 1, i < j
      PROVE  Below(t[i].version, t[j].version)
  <2>1. CASE j = n + 1 BY <1>1, <1>3, <1>5, <2>1
  <2>2. CASE j \in 1..n BY <1>1, <1>5, <2>2 DEF Promise, n
  <2> QED BY <1>1, <2>1, <2>2
<1>6. ASSUME NEW i \in 1..n + 1, NEW j \in 1..n + 1, i < j
      PROVE  RequiredBump(t[i].contract, t[j].contract)
                <= Difference(t[i].version, t[j].version)
  <2>1. CASE j \in 1..n BY <1>1, <1>6, <2>1 DEF Promise, n
  <2>2. CASE i = n /\ j = n + 1
    BY <1>1, <2>2 DEF n
  <2>3. CASE i < n /\ j = n + 1
    <3> DEFINE a == s[i].contract
               b == last.contract
               c == new.contract
    <3>1. i \in 1..n /\ n \in 2..n /\ n \in 1..n
      BY <1>1, <2>3
    <3>2. a \in Contracts /\ b \in Contracts /\ c \in Contracts /\ b.manifest # None
      BY <1>2, <3>1 DEF Promise, n
    <3>3. RequiredBump(a, c) <= Higher(RequiredBump(a, b), RequiredBump(b, c))
      BY <3>2, RequiredBumpTriangle
    <3>4. RequiredBump(a, b) <= Difference(s[i].version, last.version)
      BY <2>3, <3>1 DEF Promise, n
    <3>5. RequiredBump(a, b) <= Difference(s[i].version, v)
      BY <1>3, <2>3, <3>1, <3>4, BumpTypes, DifferenceType DEF Bumps, Skip, Patch, Minor, Major
    <3>6. RequiredBump(b, c) <= Difference(s[i].version, v)
      BY <1>3, <3>1, BumpTypes, DifferenceType DEF Bumps, Skip, Patch, Minor, Major, n
    <3>7. RequiredBump(a, c) <= Difference(s[i].version, v)
      BY <3>3, <3>5, <3>6, BumpTypes, DifferenceType
         DEF Higher, Bumps, Skip, Patch, Minor, Major
    <3> QED BY <1>1, <2>3, <3>1, <3>7
  <2> QED BY <1>1, <1>6, <2>1, <2>2, <2>3
<1>7. ASSUME NEW i \in 1..n + 1, NEW j \in 1..n + 1, NEW k \in 1..n + 1, i < k, k <= j
      PROVE  t[k].asked <= Difference(t[i].version, t[j].version)
  <2>1. CASE j \in 1..n BY <1>1, <1>7, <2>1 DEF Promise, n
  <2>2. CASE k = n + 1 /\ j = n + 1
    <3>1. i \in 1..n
      BY <1>1, <1>7, <2>2
    <3>2. new.asked <= Difference(s[i].version, v)
      BY <1>2, <1>3, <3>1, DifferenceType DEF Bumps, Skip, Patch, Minor, Major, n
    <3> QED BY <1>1, <2>2, <3>1, <3>2
  <2>3. CASE k \in 1..n /\ j = n + 1
    <3>1. i \in 1..n /\ i # n /\ n \in 1..n
      BY <1>1, <1>7, <2>3
    <3>2. s[k].asked <= Difference(s[i].version, last.version)
      BY <1>1, <1>7, <2>3, <3>1 DEF Promise, n
    <3>3. s[k].asked <= Difference(s[i].version, v)
      BY <1>2, <1>3, <2>3, <3>1, <3>2, DifferenceType DEF Bumps, Skip, Patch, Minor, Major
    <3> QED BY <1>1, <2>3, <3>1, <3>3
  <2> QED BY <1>1, <1>7, <2>1, <2>2, <2>3
<1> QED BY <1>1, <1>4, <1>5, <1>6, <1>7 DEF Promise, t

-----------------------------------------------------------------------------
(* The inductive invariant *)

Inv == TypeOK /\ Promise(releases)

\* A release above the latest by at least its requirement keeps the invariant.
LEMMA PublishKeeps ==
    ASSUME Inv, MayRelease, NEW v \in Versions,
           Below(Latest.version, v), Requirement <= Difference(Latest.version, v),
           Publish(v, Requirement)
    PROVE  Inv'
<1> DEFINE new == [version |-> v, contract |-> contract, asked |-> Requirement]
<1>1. /\ releases \in Seq(Releases) /\ Len(releases) > 0
      /\ contract \in Contracts /\ contract.manifest # None
  BY DEF Inv, TypeOK, MayRelease
<1>2. Latest = releases[Len(releases)]
  BY DEF Latest
<1>3. /\ Requirement \in Bumps
      /\ RequiredBump(Latest.contract, contract) <= Requirement
  BY BumpTypes DEF Requirement, Higher, Inv, TypeOK, Bumps, Skip, Patch, Minor, Major
<1>4. Releases \subseteq AnyReleases
  BY VersionsAreSemantic DEF Releases, AnyReleases
<1>5. /\ releases \in Seq(AnyReleases) /\ new \in Releases /\ new \in AnyReleases
      /\ new.contract.manifest # None
  <2>1. new \in Releases /\ new.contract.manifest # None
    BY <1>1, <1>3 DEF Releases
  <2>2. releases \in Seq(AnyReleases)
    BY <1>1, <1>4
  <2> QED BY <1>4, <2>1, <2>2
<1>6. RequiredBump(Latest.contract, contract) <= Difference(Latest.version, v)
  BY <1>3, BumpTypes, DifferenceType DEF Bumps, Skip, Patch, Minor, Major
<1>7. Promise(Append(releases, new))
  BY <1>1, <1>2, <1>5, <1>6, AppendKeepsPromise DEF Inv
<1>8. TypeOK'
  BY <1>1, <1>5 DEF Publish, TypeOK, Bumps
<1> QED BY <1>7, <1>8 DEF Inv, Publish

\* The inductive invariant holds in every history, of any length.
THEOREM Invariance == Spec => []Inv
<1>1. Init => Inv
  BY PlannerAssumption
     DEF Init, Inv, TypeOK, Bumps, Promise
<1>2. Inv /\ [Next]_vars => Inv'
  <2> SUFFICES ASSUME Inv, [Next]_vars PROVE Inv'
    OBVIOUS
  <2>1. CASE Commit
    <3>1. TypeOK'
      BY <2>1, PlannerAssumption
         DEF Commit, Inv, TypeOK, Higher, Bumps, Skip, Patch, Minor, Major
    <3> QED BY <2>1, <3>1 DEF Commit, Inv
  <2>2. CASE FirstRelease
    <3> PICK v \in Versions : Publish(v, Skip)
      BY <2>2 DEF FirstRelease
    <3> DEFINE first == [version |-> v, contract |-> contract, asked |-> Skip]
    <3>1. first \in Releases
      BY DEF Inv, TypeOK, Releases, Bumps
    <3>2. releases' = <<first>> /\ Len(releases') = 1
      BY <2>2 DEF FirstRelease, Publish
    <3>3. TypeOK'
      BY <3>1, <3>2 DEF Publish, Inv, TypeOK, Bumps
    <3> QED BY <3>2, <3>3 DEF Inv, Promise
  <2>3. ASSUME MayRelease
        PROVE  Latest.version \in Versions /\ Requirement \in Bumps
    <3>1. Latest \in Releases
      BY <2>3 DEF MayRelease, Latest, Inv, TypeOK
    <3> QED BY <3>1, BumpTypes DEF Releases, Requirement, Higher, Inv, TypeOK
  <2>4. CASE ReleaseNext
    <3> DEFINE v == Bumped(Latest.version, Requirement)
    <3>1. MayRelease /\ v \in Versions /\ Requirement # Skip /\ Publish(v, Requirement)
      BY <2>4 DEF ReleaseNext
    <3>2. Latest.version \in SemanticVersions /\ v \in SemanticVersions
      BY <2>3, <3>1, VersionsAreSemantic
    <3>3. ~Below(v, v)
      BY <3>2, BelowIrreflexive
    <3>4. Below(Latest.version, v) /\ Requirement <= Difference(Latest.version, v)
      BY <2>3, <3>1, <3>2, <3>3, BumpShows
    <3> QED BY <3>1, <3>4, PublishKeeps
  <2>5. CASE ReleaseManual
    <3> PICK v \in Versions : HighEnough(v) /\ Publish(v, Requirement)
      BY <2>5 DEF ReleaseManual
    <3>1. MayRelease
      BY <2>5 DEF ReleaseManual
    <3>2. Requirement <= Difference(Latest.version, v)
      BY <2>3, <3>1, BumpShows, VersionsAreSemantic DEF HighEnough
    <3> QED BY <3>1, <3>2, PublishKeeps DEF HighEnough
  <2>6. CASE UNCHANGED vars
    BY <2>6 DEF vars, Inv, TypeOK
  <2> QED BY <2>1, <2>2, <2>4, <2>5, <2>6 DEF Next
<1> QED BY <1>1, <1>2, PTL DEF Spec

\* No bump and no explicit version leaves the bounds of a component.
THEOREM TypeCorrect == Spec => []TypeOK
BY Invariance, PTL DEF Inv

\* Published versions only grow.
THEOREM VersionsGrow == Spec => []VersionsIncrease
<1>1. Inv => VersionsIncrease BY DEF Inv, Promise, VersionsIncrease
<1> QED BY <1>1, Invariance, PTL

\* Between any two releases, the versions tell a consumer how far the contracts differ.
THEOREM SemVerHolds == Spec => []SemVerKept
<1>1. Inv => SemVerKept BY DEF Inv, Promise, SemVerKept
<1> QED BY <1>1, Invariance, PTL

\* And what the commit messages of the releases in between asked for.
THEOREM MessagesHold == Spec => []MessagesKept
<1>1. Inv => MessagesKept BY DEF Inv, Promise, MessagesKept
<1> QED BY <1>1, Invariance, PTL

\* The three together, as the guard relies on them.
THEOREM PromiseHolds == Spec => []PromiseKept
BY VersionsGrow, SemVerHolds, MessagesHold, PTL DEF PromiseKept
-----------------------------------------------------------------------------
(* What a commit message asks for.  The paragraphs are defined by recursion  *)
(* over the lines; the proofs about them go by the least counterexample.     *)

\* Every nonempty set of numbers has a least one.
LEMMA LeastNumber ==
    ASSUME NEW S \in SUBSET Nat, S # {}
    PROVE  \E n \in S : \A k \in S : n <= k
<1>1. IsWellFoundedOn(OpToRel(<, Nat), Nat)
  BY NatLessThanWellFounded, Zenon
<1>2. PICK n \in S : \A k \in S : ~(<<k, n>> \in OpToRel(<, Nat))
  BY <1>1, WFMin, Zenon
<1>3. \A k \in S : ~(k < n)
  BY <1>2 DEF OpToRel
<1> QED BY <1>3

\* What Splits computes, line by line.
LEMMA SplitsDefined ==
    ASSUME NEW m, Len(m) \in Nat
    PROVE  /\ Splits(m) \in [1..Len(m) -> BOOLEAN]
           /\ \A i \in 1..Len(m) :
                 Splits(m)[i] <=> m[i] = "blank" /\ i > 1 /\ ~Splits(m)[i - 1]
<1> DEFINE Solves(f, n) == f = [i \in 1..n |-> m[i] = "blank" /\ i > 1 /\ ~f[i - 1]]
           Unsolved == {n \in Nat : ~\E f : Solves(f, n)}
<1>1. ASSUME NEW n \in Nat, NEW f, Solves(f, n)
      PROVE  \E g : Solves(g, n + 1)
  <2> DEFINE g == [i \in 1..(n + 1) |-> m[i] = "blank" /\ i > 1 /\ ~f[i - 1]]
  <2>1. \A i \in 1..n : f[i] = (m[i] = "blank" /\ i > 1 /\ ~f[i - 1])
    BY <1>1
  <2>2. \A i \in 1..n : g[i] = (m[i] = "blank" /\ i > 1 /\ ~f[i - 1])
    OBVIOUS
  <2>3. \A i \in 1..n : g[i] = f[i]
    BY <2>1, <2>2
  <2>4. \A i \in 1..(n + 1) : i > 1 => i - 1 \in 1..n
    OBVIOUS
  <2>5. \A i \in 1..(n + 1) : i > 1 => g[i - 1] = f[i - 1]
    <3> HIDE DEF g
    <3> QED BY <2>3, <2>4, Zenon
  <2>6. \A i \in 1..(n + 1) : (m[i] = "blank" /\ i > 1 /\ ~f[i - 1])
                                = (m[i] = "blank" /\ i > 1 /\ ~g[i - 1])
    <3> HIDE DEF g
    <3> QED BY <2>5
  <2>7. g = [i \in 1..(n + 1) |-> m[i] = "blank" /\ i > 1 /\ ~g[i - 1]]
    BY <2>6, Zenon
  <2> QED BY <2>7
<1>2. \E f : Solves(f, 0)
  <2>1. Solves([i \in 1..0 |-> FALSE], 0)
    OBVIOUS
  <2> QED BY <2>1
<1>3. Unsolved = {}
  <2> HIDE DEF Solves
  <2> SUFFICES ASSUME Unsolved # {} PROVE FALSE
    OBVIOUS
  <2>1. PICK n \in Unsolved : \A k \in Unsolved : n <= k
    <3>1. Unsolved \in SUBSET Nat
      OBVIOUS
    <3> HIDE DEF Unsolved
    <3> QED BY <3>1, LeastNumber
  <2>2. n \in Nat /\ n # 0
    BY <1>2
  <2>3. n - 1 \in Nat /\ n - 1 \notin Unsolved
    <3> HIDE DEF Unsolved
    <3> QED BY <2>1, <2>2
  <2>4. PICK f : Solves(f, n - 1)
    BY <2>3
  <2>5. \E g : Solves(g, (n - 1) + 1)
    BY <1>1, <2>3, <2>4
  <2>6. (n - 1) + 1 = n
    BY <2>2
  <2>7. \E g : Solves(g, n)
    BY <2>5, <2>6, Zenon
  <2> QED BY <2>7
<1>4. \E f : Solves(f, Len(m))
  <2> HIDE DEF Solves
  <2> QED BY <1>3
<1>5. Solves(Splits(m), Len(m))
  <2>1. Splits(m) = CHOOSE f : Solves(f, Len(m))
    BY DEF Splits
  <2> HIDE DEF Solves
  <2> QED BY <1>4, <2>1
<1>6. Splits(m) = [i \in 1..Len(m) |-> m[i] = "blank" /\ i > 1 /\ ~Splits(m)[i - 1]]
  BY <1>5
<1>7. ASSUME NEW f, f = [i \in 1..Len(m) |-> m[i] = "blank" /\ i > 1 /\ ~f[i - 1]]
      PROVE  /\ f \in [1..Len(m) -> BOOLEAN]
             /\ \A i \in 1..Len(m) : f[i] <=> m[i] = "blank" /\ i > 1 /\ ~f[i - 1]
  <2>1. \A i \in 1..Len(m) : (m[i] = "blank" /\ i > 1 /\ ~f[i - 1]) \in BOOLEAN
    OBVIOUS
  <2> QED BY <1>7, <2>1, Zenon
<1> QED BY <1>6, <1>7, Zenon

\* Lines written below leave the lines above as they were split.
LEMMA SplitsStay ==
    ASSUME NEW m, NEW n, Len(m) \in Nat, Len(n) \in Nat, Len(m) <= Len(n),
           \A i \in 1..Len(m) : n[i] = m[i]
    PROVE  \A i \in 1..Len(m) : Splits(n)[i] <=> Splits(m)[i]
<1> DEFINE Differ == {i \in 1..Len(m) : ~(Splits(n)[i] <=> Splits(m)[i])}
<1> SUFFICES ASSUME Differ # {} PROVE FALSE
  OBVIOUS
<1>1. PICK i \in Differ : \A k \in Differ : i <= k
  <2>1. Differ \in SUBSET Nat
    OBVIOUS
  <2> HIDE DEF Differ
  <2> QED BY <2>1, LeastNumber
<1>2. i \in 1..Len(m) /\ i \in 1..Len(n) /\ n[i] = m[i]
  OBVIOUS
<1>3. Splits(m)[i] <=> m[i] = "blank" /\ i > 1 /\ ~Splits(m)[i - 1]
  BY <1>2, SplitsDefined
<1>4. Splits(n)[i] <=> m[i] = "blank" /\ i > 1 /\ ~Splits(n)[i - 1]
  BY <1>2, SplitsDefined
<1>5. i > 1 => i - 1 \in 1..Len(m) /\ i - 1 \notin Differ
  <2>1. i > 1 => i - 1 \in 1..Len(m) /\ ~(i <= i - 1)
    BY <1>2
  <2> HIDE DEF Differ
  <2> QED BY <1>1, <2>1
<1>6. i > 1 => (Splits(n)[i - 1] <=> Splits(m)[i - 1])
  BY <1>5
<1> QED BY <1>3, <1>4, <1>6

\* The last paragraph exists, and nothing else is it.
LEMMA LastParagraphIs ==
    ASSUME NEW m, Len(m) \in Nat, Len(m) # 0, m[Len(m)] # "blank"
    PROVE  /\ LastParagraph(m) \in 1..Len(m)
           /\ LastParagraph(m) = 1 \/ Splits(m)[LastParagraph(m) - 1]
           /\ \A j \in LastParagraph(m)..Len(m) : ~Splits(m)[j]
           /\ \A i \in 1..Len(m) :
                 (i = 1 \/ Splits(m)[i - 1]) /\ (\A j \in i..Len(m) : ~Splits(m)[j])
                    => i = LastParagraph(m)
<1> DEFINE Starts(i) == /\ i = 1 \/ Splits(m)[i - 1]
                        /\ \A j \in i..Len(m) : ~Splits(m)[j]
           Unsplit == {i \in 1..Len(m) : \A j \in i..Len(m) : ~Splits(m)[j]}
<1>1. Len(m) \in Unsplit
  <2>1. ~Splits(m)[Len(m)]
    BY SplitsDefined
  <2>2. \A j \in Len(m)..Len(m) : j = Len(m)
    OBVIOUS
  <2> QED BY <2>1, <2>2
<1>2. PICK i \in Unsplit : \A k \in Unsplit : i <= k
  <2>1. Unsplit \in SUBSET Nat
    OBVIOUS
  <2> HIDE DEF Unsplit
  <2> QED BY <1>1, <2>1, LeastNumber
<1>3. Starts(i)
  <2> SUFFICES ASSUME i # 1 PROVE Splits(m)[i - 1]
    BY <1>2
  <2>1. i - 1 \in 1..Len(m) /\ i - 1 \notin Unsplit
    BY <1>2
  <2>2. PICK j \in (i - 1)..Len(m) : Splits(m)[j]
    BY <2>1
  <2>3. j = i - 1
    BY <1>2, <2>2
  <2> QED BY <2>2, <2>3
<1>4. LastParagraph(m) \in 1..Len(m) /\ Starts(LastParagraph(m))
  <2>1. LastParagraph(m) = CHOOSE k \in 1..Len(m) : Starts(k)
    BY DEF LastParagraph
  <2> HIDE DEF Starts
  <2> QED BY <1>2, <1>3, <2>1
<1>5. ASSUME NEW k \in 1..Len(m), NEW l \in 1..Len(m), Starts(k), Starts(l)
      PROVE  ~(k < l)
  BY <1>5
<1> QED BY <1>4, <1>5

\* What an author writes: the first line is not blank.
DraftInv == draft \in Seq(Lines) /\ (draft # <<>> => draft[1] # "blank")

\* A line appended to a draft.
LEMMA DraftGrows ==
    ASSUME DraftInv, NEW line \in Lines, draft' = Append(draft, line)
    PROVE  /\ Len(draft') = Len(draft) + 1
           /\ \A i \in 1..Len(draft) : draft'[i] = draft[i]
           /\ draft'[Len(draft) + 1] = line
BY DEF DraftInv

\* It holds of every draft.
LEMMA DraftInvariance == DraftSpec => []DraftInv
<1>1. DraftInit => DraftInv
  BY DEF DraftInit, DraftInv
<1>2. ASSUME DraftInv, [DraftNext]_draft PROVE DraftInv'
  <2>1. ASSUME NEW line \in Lines, WriteLine(line) PROVE DraftInv'
    <3>1. draft' \in Seq(Lines) /\ draft'[Len(draft) + 1] = line
      BY <1>2, <2>1, DraftGrows DEF WriteLine, DraftInv
    <3>2. CASE draft = <<>>
      BY <2>1, <3>1, <3>2 DEF WriteLine, DraftInv
    <3>3. CASE draft # <<>>
      <4>1. 1 \in 1..Len(draft) /\ draft[1] # "blank"
        BY <1>2, <3>3 DEF DraftInv
      <4> QED BY <1>2, <2>1, <3>1, <4>1, DraftGrows DEF WriteLine, DraftInv
    <3> QED BY <3>2, <3>3
  <2> QED BY <1>2, <2>1 DEF DraftNext, DraftInv
<1> QED BY <1>1, <1>2, PTL DEF DraftSpec

\* When no two blank lines are together each of them separates paragraphs.
LEMMA CleanSplits ==
    ASSUME NEW m \in Seq(Lines), m # <<>>, m[1] # "blank",
           \A i \in 2..Len(m) : m[i] = "blank" => m[i - 1] # "blank",
           NEW i \in 1..Len(m)
    PROVE  Splits(m)[i] <=> m[i] = "blank"
<1>1. Splits(m)[i] <=> m[i] = "blank" /\ i > 1 /\ ~Splits(m)[i - 1]
  BY SplitsDefined
<1>2. i > 1 /\ m[i] = "blank" => ~Splits(m)[i - 1]
  <2> SUFFICES ASSUME i > 1, m[i] = "blank" PROVE ~Splits(m)[i - 1]
    OBVIOUS
  <2>1. i - 1 \in 1..Len(m) /\ m[i - 1] # "blank" /\ Len(m) \in Nat
    OBVIOUS
  <2> QED BY <2>1, SplitsDefined
<1> QED BY <1>1, <1>2

\* Messages that git's cleanup has gone over mean what the table of the documentation says,
\* however many lines they have.
THEOREM CleanMessagesMeanTheTable == DraftSpec => []CleanMessagesAsDocumented
<1>1. ASSUME NEW m \in Seq(Lines), m # <<>>, m[1] # "blank", m[Len(m)] # "blank",
             \A i \in 2..Len(m) : m[i] = "blank" => m[i - 1] # "blank"
      PROVE  Classified(m) = Documented(m)
  <2> DEFINE start == LastParagraph(m)
             paragraph == {i \in 1..Len(m) : \A j \in i..Len(m) : m[j] # "blank"}
             footer == /\ 1 \notin paragraph
                       /\ \E i \in paragraph : i - 1 \notin paragraph /\ m[i] \in FooterEntries
                       /\ \E i \in paragraph : m[i] = "breaking"
  <2>1. /\ start \in 1..Len(m)
        /\ start = 1 \/ Splits(m)[start - 1]
        /\ \A j \in start..Len(m) : ~Splits(m)[j]
    BY <1>1, LastParagraphIs
  <2>2. \A i \in 1..Len(m) : Splits(m)[i] <=> m[i] = "blank"
    BY <1>1, CleanSplits
  <2>3. paragraph = start..Len(m)
    <3>1. ASSUME NEW i \in start..Len(m) PROVE i \in paragraph
      BY <2>1, <2>2
    <3>2. ASSUME NEW i \in paragraph PROVE i \in start..Len(m)
      BY <2>1, <2>2
    <3> QED BY <3>1, <3>2
  <2> HIDE DEF start, paragraph
  <2>4. "breaking" \in Footer(m) <=> footer
    <3>1. footer <=> /\ start > 1 /\ m[start] \in FooterEntries
                     /\ \E i \in start..Len(m) : m[i] = "breaking"
      BY <2>1, <2>3
    <3>2. "breaking" \in Footer(m) <=> /\ start > 1 /\ m[start] \in FooterEntries
                                       /\ \E i \in start..Len(m) : m[i] = "breaking"
      BY DEF Footer, start
    <3> QED BY <3>1, <3>2
  <2>5. (\E i \in 1..Len(m) : m[i] = "marker") <=> "marker" \in {m[i] : i \in 1..Len(m)}
    OBVIOUS
  <2> HIDE DEF footer
  <2>6. Documented(m) =
            CASE "marker" \in {m[i] : i \in 1..Len(m)} -> Skip
              [] m[1] = "bang" \/ footer -> Major
              [] m[1] \in {"feat", "scoped"} -> Minor
              [] m[1] \in {"fix", "revert"} -> Patch
              [] OTHER -> Skip
    BY DEF Documented, footer, paragraph
  <2> QED BY <2>4, <2>5, <2>6 DEF Classified
<1>2. DraftInv => CleanMessagesAsDocumented
  BY <1>1 DEF DraftInv, CleanMessagesAsDocumented, Written
<1> QED BY <1>2, DraftInvariance, PTL

\* A trailer or prose right below the last line changes nothing, for messages of any length.
THEOREM TrailersAreNeutral == DraftSpec => TrailersAddNothing
<1> DEFINE Neutral == Written /\ draft'[Len(draft')] \in {"trailer", "text"}
                        => Classified(draft') = Classified(draft)
<1>1. ASSUME DraftInv, NEW line \in {"trailer", "text"}, Written,
             draft' = Append(draft, line)
      PROVE  Classified(draft') = Classified(draft)
  <2> DEFINE start == LastParagraph(draft)
  <2>1. /\ Len(draft) \in Nat /\ Len(draft) > 0 /\ draft[Len(draft)] # "blank"
        /\ Len(draft') = Len(draft) + 1
        /\ \A i \in 1..Len(draft) : draft'[i] = draft[i]
        /\ draft'[Len(draft')] = line
    BY <1>1, DraftGrows DEF DraftInv, Written, Lines
  <2>2. /\ start \in 1..Len(draft)
        /\ start = 1 \/ Splits(draft)[start - 1]
        /\ \A j \in start..Len(draft) : ~Splits(draft)[j]
    BY <2>1, LastParagraphIs
  <2>3. \A i \in 1..Len(draft) : Splits(draft')[i] <=> Splits(draft)[i]
    BY <2>1, SplitsStay
  <2>4. ~Splits(draft')[Len(draft')]
    <3>1. Len(draft') \in 1..Len(draft') /\ draft'[Len(draft')] # "blank"
      BY <1>1, <2>1
    <3>2. Len(draft') \in Nat
      BY <2>1
    <3> QED BY <3>1, <3>2, SplitsDefined
  <2>5. LastParagraph(draft') = start
    <3>1. start = 1 \/ Splits(draft')[start - 1]
      BY <2>1, <2>2, <2>3
    <3>2. \A j \in start..Len(draft') : ~Splits(draft')[j]
      BY <2>1, <2>2, <2>3, <2>4
    <3>3. start \in 1..Len(draft') /\ draft'[Len(draft')] # "blank"
      BY <2>1, <2>2
    <3> HIDE DEF start
    <3> QED BY <2>1, <3>1, <3>2, <3>3, LastParagraphIs
  <2> HIDE DEF start
  <2>6. "breaking" \in Footer(draft') <=> "breaking" \in Footer(draft)
    <3>1. draft'[start] = draft[start]
      BY <2>1, <2>2
    <3>2. (\E i \in start..Len(draft') : draft'[i] = "breaking")
             <=> (\E i \in start..Len(draft) : draft[i] = "breaking")
      BY <2>1, <2>2
    <3> QED BY <2>5, <3>1, <3>2 DEF Footer, start
  <2>7. (\E i \in 1..Len(draft') : draft'[i] = "marker")
            <=> (\E i \in 1..Len(draft) : draft[i] = "marker")
    BY <2>1
  <2>8. draft'[1] = draft[1]
    BY <2>1
  <2> QED BY <2>6, <2>7, <2>8 DEF Classified
<1>2. DraftInv /\ [DraftNext]_draft => [Neutral]_draft
  <2> SUFFICES ASSUME DraftInv, NEW line \in Lines, WriteLine(line) PROVE Neutral
    BY DEF DraftNext
  <2>1. draft'[Len(draft')] = line
    BY DraftGrows DEF WriteLine, DraftInv
  <2> QED BY <1>1, <2>1 DEF WriteLine
<1> QED BY <1>2, DraftInvariance, PTL DEF DraftSpec, TrailersAddNothing
=============================================================================
