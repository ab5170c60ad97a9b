------------------------- MODULE ContractGuardProofs -------------------------
(***************************************************************************)
(* ContractGuard for any contracts, commits, tags, CI runs and release     *)
(* runs.  What a CI run found out about a commit and a tag stays true:     *)
(* main and the tags only grow.  Across a newer tag, a refusal stays right *)
(* by the triangle inequality of the required bump.                        *)
(***************************************************************************)
EXTENDS MCReleasePlanner, ReleasePlannerProofs

-----------------------------------------------------------------------------
(* The bump of a range of messages *)

\* Is the bump the highest of the messages after one commit, up to another?
IsHighest(m, from, to, bump) ==
    /\ bump = Skip \/ \E c \in from + 1..to : m[c].message = bump
    /\ \A c \in from + 1..to : m[c].message <= bump

Highest(m, from, to) == CHOOSE bump \in Bumps : IsHighest(m, from, to, bump)

\* Every range has a highest bump.
LEMMA HighestIs ==
    ASSUME NEW m, NEW from \in Nat, NEW to \in Nat,
           \A c \in from + 1..to : m[c].message \in Bumps
    PROVE  Highest(m, from, to) \in Bumps /\ IsHighest(m, from, to, Highest(m, from, to))
<1> DEFINE asked(bump) == \E c \in from + 1..to : m[c].message = bump
<1> USE DEF Bumps, Skip, Patch, Minor, Major
<1>1. \E bump \in Bumps : IsHighest(m, from, to, bump)
  <2>1. CASE asked(Major) BY <2>1 DEF IsHighest
  <2>2. CASE ~asked(Major) /\ asked(Minor) BY <2>2 DEF IsHighest
  <2>3. CASE ~asked(Major) /\ ~asked(Minor) /\ asked(Patch) BY <2>3 DEF IsHighest
  <2>4. CASE ~asked(Major) /\ ~asked(Minor) /\ ~asked(Patch) BY <2>4 DEF IsHighest
  <2> QED BY <2>1, <2>2, <2>3, <2>4
<1> QED BY <1>1 DEF Highest

\* A part of a range asks for no more than the range.
LEMMA HighestGrows ==
    ASSUME NEW m, NEW a \in Nat, NEW b \in Nat, NEW c \in Nat, NEW d \in Nat, a <= b, c <= d,
           \A i \in a + 1..d : m[i].message \in Bumps
    PROVE  Highest(m, b, c) <= Highest(m, a, d)
<1>1. \A i \in b + 1..c : m[i].message \in Bumps /\ i \in a + 1..d OBVIOUS
<1>2. IsHighest(m, b, c, Highest(m, b, c)) /\ Highest(m, b, c) \in Bumps
  BY <1>1, HighestIs
<1>3. IsHighest(m, a, d, Highest(m, a, d)) /\ Highest(m, a, d) \in Bumps
  BY HighestIs
<1> QED BY <1>1, <1>2, <1>3 DEF IsHighest, Bumps, Skip, Patch, Minor, Major

\* The bump of a range depends on the range only.
LEMMA HighestAgrees ==
    ASSUME NEW m, NEW n, NEW from \in Nat, NEW to \in Nat,
           \A c \in from + 1..to : m[c] = n[c] /\ m[c].message \in Bumps
    PROVE  Highest(m, from, to) = Highest(n, from, to)
<1>1. IsHighest(m, from, to, Highest(m, from, to)) /\ Highest(m, from, to) \in Bumps
  BY HighestIs
<1>2. IsHighest(n, from, to, Highest(n, from, to)) /\ Highest(n, from, to) \in Bumps
  BY HighestIs
<1> QED BY <1>1, <1>2 DEF IsHighest, Bumps, Skip, Patch, Minor, Major

\* Explained, of any commits and tags.
Explains(m, ts, i, c) ==
    RequiredBump(m[ts[i].commit].contract, m[c].contract) <= Highest(m, ts[i].commit, c)

\* Explained speaks of main and the tags, before and after a step.
LEMMA ExplainedIs ==
    /\ \A i, c : Explained(i, c) <=> Explains(main, tags, i, c)
    /\ \A i, c : Explained(i, c)' <=> Explains(main', tags', i, c)
BY DEF Explained, Explains, ContractBump, HistoryBump, Highest, IsHighest

\* The same of the guard.
LEMMA GuardIs ==
    ASSUME NEW c
    PROVE  /\ Guard(c) <=> \/ tags = <<>>
                          \/ /\ tags[Len(tags)].commit <= c
                             /\ main[c].contract.manifest # None
                             /\ Explains(main, tags, Len(tags), c)
           /\ Guard(c)' <=> \/ tags' = <<>>
                           \/ /\ tags'[Len(tags')].commit <= c
                              /\ main'[c].contract.manifest # None
                              /\ Explains(main', tags', Len(tags'), c)
BY DEF Guard, Explained, Explains, ContractBump, HistoryBump, Highest, IsHighest

-----------------------------------------------------------------------------
(* The inductive invariant *)

MainInv == Len(main) \in 1..MaxCommits

\* A plan is for a commit above the tags it saw, with a manifest once there are any.
PlansFit ==
    \A r \in Runs : runs[r] # None =>
        /\ runs[r].commit <= Len(main)
        /\ runs[r].seen <= Len(tags)
        /\ runs[r].seen > 0 => /\ tags[runs[r].seen].commit < runs[r].commit
                               /\ main[runs[r].commit].contract.manifest # None

TagsAscend ==
    \A i \in 1..Len(tags), j \in 1..Len(tags) : i < j =>
        /\ tags[i].commit < tags[j].commit
        /\ main[tags[j].commit].contract.manifest # None

\* A success accounts for the commit, from the tag that was seen.
SuccessAccounts ==
    \A e \in checks : e.passed /\ e.seen > 0 => Explained(e.seen, e.commit)

\* RefusalsStayRight, from the moment of the refusal on.
Refused(e) ==
    ~e.passed /\ (\A j \in e.seen + 1..Len(tags) : Explained(j - 1, tags[j].commit))
        => ~Guard(e.commit)

RefusalsHold ==
    \A e \in checks : (~e.passed => e.seen > 0) /\ Refused(e)

IInv ==
    /\ GuardTypeOK /\ MainInv /\ PlansFit /\ TagsAscend
    /\ SuccessAccounts /\ RefusalsHold /\ AccountedSomewhere

\* Elements of main and of the tags.
LEMMA Elements ==
    ASSUME GuardTypeOK
    PROVE  /\ \A c \in 1..Len(main) : main[c].contract \in Contracts /\ main[c].message \in Bumps
           /\ \A i \in 1..Len(tags) : tags[i].commit \in 1..Len(main)
           /\ Len(main) \in Nat /\ Len(tags) \in Nat
<1>1. main \in Seq(Commits) /\ tags \in Seq(Tags)
  BY DEF GuardTypeOK
<1>2. /\ \A c \in 1..Len(main) : main[c] \in Commits
      /\ \A i \in 1..Len(tags) : tags[i] \in Tags
  BY <1>1
<1> QED BY <1>1, <1>2 DEF Commits, Tags

\* main and the tags only grow.
Grown ==
    /\ Len(main) <= Len(main') /\ Len(tags) <= Len(tags')
    /\ Len(main') \in Nat /\ Len(tags') \in Nat
    /\ \A c \in 1..Len(main) : main'[c] = main[c]
    /\ \A i \in 1..Len(tags) : tags'[i] = tags[i]

\* What was said of a tag and a commit stays true.
LEMMA ExplainsStays ==
    ASSUME GuardTypeOK, Grown, NEW i \in 1..Len(tags), NEW c \in 1..Len(main)
    PROVE  Explains(main', tags', i, c) <=> Explains(main, tags, i, c)
<1>1. /\ tags'[i] = tags[i] /\ main'[c] = main[c]
      /\ tags[i].commit \in 1..Len(main)
      /\ main'[tags[i].commit] = main[tags[i].commit]
  BY Elements DEF Grown
<1>2. \A d \in tags[i].commit + 1..c : main[d] = main'[d] /\ main[d].message \in Bumps
  BY <1>1, Elements DEF Grown
<1>3. Highest(main, tags[i].commit, c) = Highest(main', tags[i].commit, c)
  <2>1. tags[i].commit \in Nat /\ c \in Nat BY <1>1, Elements
  <2> QED BY <1>2, <2>1, HighestAgrees
<1> QED BY <1>1, <1>3 DEF Explains

\* The verdict about a commit depends on the tags only.
LEMMA GuardStays ==
    ASSUME GuardTypeOK, Grown, tags' = tags, NEW c \in 1..Len(main)
    PROVE  Guard(c)' <=> Guard(c)
<1>1. main'[c] = main[c] BY DEF Grown
<1>2. CASE tags = <<>> BY <1>2, GuardIs
<1>3. CASE tags # <<>>
  <2>1. Len(tags) \in 1..Len(tags) BY <1>3 DEF GuardTypeOK
  <2>2. Explains(main', tags', Len(tags), c) <=> Explains(main, tags, Len(tags), c)
    BY <2>1, ExplainsStays
  <2> QED BY <1>1, <2>2, GuardIs
<1> QED BY <1>2, <1>3

-----------------------------------------------------------------------------
(* The steps *)

\* Checks are of commits of main and of tags that there are.
LEMMA CheckTypes ==
    ASSUME GuardTypeOK, NEW e \in checks
    PROVE  /\ e.commit \in 1..Len(main) /\ e.seen \in 0..Len(tags)
           /\ e = [commit |-> e.commit, seen |-> e.seen, passed |-> e.passed]
BY DEF GuardTypeOK

\* Steps that create no tag keep what was found out.
LEMMA VerdictsKept ==
    ASSUME IInv, Grown, checks' = checks, tags' = tags
    PROVE  SuccessAccounts' /\ RefusalsHold' /\ AccountedSomewhere'
<1>1. GuardTypeOK BY DEF IInv
<1>2. SuccessAccounts'
  BY <1>1, ExplainsStays, ExplainedIs, CheckTypes DEF IInv, SuccessAccounts
<1>3. \A j \in 1..Len(tags) : tags[j].commit \in 1..Len(main)
  BY <1>1, Elements
<1>4. RefusalsHold'
  <2> SUFFICES ASSUME NEW e \in checks PROVE (~e.passed => e.seen > 0) /\ Refused(e)'
    BY DEF RefusalsHold
  <2>1. (~e.passed => e.seen > 0) /\ Refused(e) BY DEF IInv, RefusalsHold
  <2>2. Guard(e.commit)' <=> Guard(e.commit) BY <1>1, CheckTypes, GuardStays
  <2>3. ASSUME ~e.passed, NEW j \in e.seen + 1..Len(tags), Explained(j - 1, tags[j].commit)'
        PROVE  Explained(j - 1, tags[j].commit)
    <3>1. j - 1 \in 1..Len(tags) /\ j \in 1..Len(tags)
      BY <1>1, <2>1, <2>3, CheckTypes, Elements
    <3>2. Explains(main', tags', j - 1, tags[j].commit)
      BY <2>3 DEF Explained, Explains, ContractBump, HistoryBump, Highest, IsHighest
    <3> QED BY <1>1, <1>3, <3>1, <3>2, ExplainsStays, ExplainedIs
  <2> QED BY <2>1, <2>2, <2>3 DEF Refused
<1>5. AccountedSomewhere'
  <2> SUFFICES ASSUME NEW j \in 2..Len(tags)
               PROVE  \/ \E e \in checks : e.commit = tags[j].commit /\ e.seen = 0
                      \/ \E i \in 1..j - 1 : Explains(main', tags', i, tags'[j].commit)
    BY DEF AccountedSomewhere, Explained, Explains, ContractBump, HistoryBump, Highest, IsHighest
  <2>1. \/ \E e \in checks : e.commit = tags[j].commit /\ e.seen = 0
        \/ \E i \in 1..j - 1 : Explains(main, tags, i, tags[j].commit)
    BY ExplainedIs DEF IInv, AccountedSomewhere
  <2> QED BY <1>1, <1>3, <2>1, ExplainsStays, Elements
<1> QED BY <1>2, <1>4, <1>5

\* A push.
LEMMA PushKept == ASSUME IInv, Push PROVE IInv'
<1> PICK c \in Revisions, bump \in Messages :
        main' = Append(main, [contract |-> c, message |-> bump])
  BY DEF Push
<1>1. main \in Seq(Commits) /\ [contract |-> c, message |-> bump] \in Commits
  BY GuardAssumption DEF IInv, GuardTypeOK, Commits
<1>2. main' \in Seq(Commits) /\ Len(main') = Len(main) + 1 /\ Len(main) < MaxCommits
  BY <1>1 DEF Push
<1>3. Grown /\ checks' = checks /\ tags' = tags /\ runs' = runs
  BY <1>1, <1>2 DEF Push, Grown, IInv, GuardTypeOK
<1>4. GuardTypeOK'
  <2>1. Tags \subseteq Tags' BY <1>1, <1>2 DEF Tags
  <2>2. tags' \in Seq(Tags') BY <1>3, <2>1 DEF IInv, GuardTypeOK
  <2>3. checks' \subseteq [commit : 1..Len(main'), seen : 0..Len(tags'), passed : BOOLEAN]
    BY <1>1, <1>2, <1>3 DEF IInv, GuardTypeOK
  <2> QED BY <1>2, <1>3, <2>2, <2>3 DEF IInv, GuardTypeOK, Plans
<1>5. MainInv' BY <1>1, <1>2, GuardAssumption DEF MainInv, IInv
<1>6. \A i \in 1..Len(tags) : tags[i].commit \in 1..Len(main)
  BY Elements DEF IInv
<1>7. PlansFit'
  <2>1. \A r \in Runs : runs[r] # None => runs[r].commit \in Nat /\ runs[r].commit >= 1
    BY DEF IInv, GuardTypeOK, Plans
  <2> QED BY <1>1, <1>2, <1>3, <2>1 DEF IInv, PlansFit, Grown
<1>8. TagsAscend' BY <1>3, <1>6 DEF IInv, TagsAscend, Grown
<1> QED BY <1>3, <1>4, <1>5, <1>7, <1>8, VerdictsKept DEF IInv

\* A run of CI.
LEMMA CheckKept == ASSUME IInv, NEW c \in 1..Len(main), CiRuns(c) PROVE IInv'
<1> DEFINE check == [commit |-> c, seen |-> Len(tags), passed |-> Guard(c)]
<1>1. checks' = checks \cup {check} /\ main' = main /\ tags' = tags /\ runs' = runs
  BY DEF CiRuns
<1>2. Len(tags) \in Nat BY Elements DEF IInv
<1>3. GuardTypeOK'
  <2>1. Guard(c) \in BOOLEAN BY DEF Guard
  <2>2. check \in [commit : 1..Len(main), seen : 0..Len(tags), passed : BOOLEAN]
    BY <1>2, <2>1
  <2> HIDE DEF check
  <2> QED BY <1>1, <2>2 DEF IInv, GuardTypeOK, Tags, Plans
<1>4. MainInv' /\ PlansFit' /\ TagsAscend' BY <1>1 DEF IInv, MainInv, PlansFit, TagsAscend
<1>5. Explained(Len(tags), c)' <=> Explained(Len(tags), c)
  BY <1>1, ExplainedIs
<1>6. \A i, d : Explained(i, d)' <=> Explained(i, d) BY <1>1, ExplainedIs
<1>7. \A d : Guard(d)' <=> Guard(d) BY <1>1, GuardIs
<1>8. SuccessAccounts'
  <2>1. Guard(c) /\ Len(tags) > 0 => Explained(Len(tags), c) BY DEF Guard
  <2> QED BY <1>1, <1>6, <2>1 DEF IInv, SuccessAccounts
<1>9. RefusalsHold'
  <2>1. ~Guard(c) => Len(tags) > 0 BY <1>2 DEF Guard, IInv, GuardTypeOK
  <2> SUFFICES ASSUME NEW e \in checks' PROVE (~e.passed => e.seen > 0) /\ Refused(e)'
    BY DEF RefusalsHold
  <2>2. CASE e \in checks BY <1>1, <1>6, <1>7, <2>2 DEF IInv, RefusalsHold, Refused
  <2>3. CASE e = check
    <3>1. e.commit = c /\ e.passed = Guard(c) /\ e.seen = Len(tags) BY <2>3
    <3> QED BY <1>7, <2>1, <3>1 DEF Refused
  <2> QED BY <1>1, <2>2, <2>3
<1>10. AccountedSomewhere' BY <1>1, <1>6 DEF IInv, AccountedSomewhere
<1> QED BY <1>3, <1>4, <1>8, <1>9, <1>10 DEF IInv

\* What the planner asks for is a bump, and what it takes is a version.
LEMMA PlanTypes ==
    ASSUME GuardTypeOK, tags # <<>>, NEW c \in 1..Len(main)
    PROVE  /\ RequirementAt(c) \in Bumps
           /\ Candidates(c) \subseteq Planner!Versions
<1>1. Len(tags) \in 1..Len(tags) BY DEF GuardTypeOK
<1>2. tags[Len(tags)].commit \in Nat /\ c \in Nat BY <1>1, Elements
<1>3. HistoryBump(tags[Len(tags)].commit, c) \in Bumps
  <2>1. \A d \in tags[Len(tags)].commit + 1..c : main[d].message \in Bumps
    BY <1>2, Elements
  <2>2. Highest(main, tags[Len(tags)].commit, c) \in Bumps BY <1>2, <2>1, HighestIs
  <2> QED BY <2>2 DEF HistoryBump, Highest, IsHighest
<1>4. ContractBump(Len(tags), c) \in Bumps BY BumpTypes DEF ContractBump
<1>5. RequirementAt(c) \in Bumps BY <1>3, <1>4 DEF RequirementAt, Higher
<1>6. ManualVersions \subseteq Planner!Versions
  BY GuardAssumption DEF Planner!Versions, Planner!Components
<1> QED BY <1>5, <1>6 DEF Candidates

\* A plan.
LEMMA PlanKept == ASSUME IInv, NEW r \in Runs, Plan(r) PROVE IInv'
<1> DEFINE asked == IF tags = <<>> THEN Skip ELSE RequirementAt(Len(main))
           plan(v) == [stage |-> "running", commit |-> Len(main), seen |-> Len(tags),
                       version |-> v, asked |-> asked]
<1>1. PICK v \in IF tags = <<>> THEN ManualVersions ELSE Candidates(Len(main)) :
          runs' = [runs EXCEPT ![r] = plan(v)]
  BY DEF Plan
<1>2. main' = main /\ tags' = tags /\ checks' = checks /\ Len(tags) < MaxTags
  BY DEF Plan
<1>3. Len(main) \in 1..Len(main) /\ Len(main) \in 1..MaxCommits /\ Len(tags) \in Nat
  BY Elements DEF IInv, MainInv
<1>4. v \in Planner!Versions /\ asked \in Bumps
  <2>1. CASE tags = <<>>
    BY <1>1, <2>1, GuardAssumption DEF Planner!Versions, Planner!Components, Bumps
  <2>2. CASE tags # <<>> BY <1>1, <1>3, <2>2, PlanTypes DEF IInv
  <2> QED BY <2>1, <2>2
<1>5. plan(v) \in Plans
  BY <1>2, <1>3, <1>4, GuardAssumption DEF Plans
<1>6. GuardTypeOK'
  <2>1. runs' \in [Runs -> Plans \cup {None}] BY <1>1, <1>5 DEF IInv, GuardTypeOK
  <2> QED BY <1>2, <2>1 DEF IInv, GuardTypeOK, Tags, Plans
<1>7. PlansFit'
  <2>1. Len(tags) > 0 => /\ tags[Len(tags)].commit < Len(main)
                         /\ main[Len(main)].contract.manifest # None
    <3>1. Len(tags) > 0 => tags # <<>> /\ Len(tags) \in 1..Len(tags) BY <1>3
    <3> QED BY <1>1, <1>3, <3>1, Elements DEF Candidates, IInv
  <2>2. plan(v).commit = Len(main) /\ plan(v).seen = Len(tags) OBVIOUS
  <2> HIDE DEF plan
  <2>3. runs'[r] = plan(v) /\ \A s \in Runs \ {r} : runs'[s] = runs[s]
    BY <1>1 DEF IInv, GuardTypeOK
  <2> QED BY <1>2, <1>3, <2>1, <2>2, <2>3 DEF IInv, PlansFit
<1>8. MainInv' /\ TagsAscend' BY <1>2 DEF IInv, MainInv, TagsAscend
<1>9. Grown BY <1>2, <1>3 DEF Grown
<1> QED BY <1>2, <1>6, <1>7, <1>8, <1>9, VerdictsKept DEF IInv

\* A run fails or is run again.
LEMMA RunKept == ASSUME IInv, NEW r \in Runs, RunFails(r) \/ RerunFailed(r) PROVE IInv'
<1>1. PICK stage \in {"running", "failed"} : runs' = [runs EXCEPT ![r].stage = stage]
  BY DEF RunFails, RerunFailed
<1>2. runs[r] # None BY DEF RunFails, RerunFailed, At
<1>3. main' = main /\ tags' = tags /\ checks' = checks BY DEF RunFails, RerunFailed
<1>4. GuardTypeOK'
  <2>1. runs' \in [Runs -> Plans \cup {None}] BY <1>1, <1>2 DEF IInv, GuardTypeOK, Plans
  <2> QED BY <1>3, <2>1 DEF IInv, GuardTypeOK, Tags, Plans
<1>5. PlansFit' BY <1>1, <1>2, <1>3 DEF IInv, PlansFit, GuardTypeOK, Plans
<1>6. MainInv' /\ TagsAscend' BY <1>3 DEF IInv, MainInv, TagsAscend
<1>7. Grown BY <1>3, Elements DEF Grown, IInv
<1> QED BY <1>3, <1>4, <1>5, <1>6, <1>7, VerdictsKept DEF IInv

\* A release that gets its tag.  A refusal that the new tag accounts for stays right:
\* otherwise the commit's change would be explained from the tag before, over the new one.
LEMMA PublishKept == ASSUME IInv, NEW r \in Runs, PublishTag(r) PROVE IInv'
<1> DEFINE n == Len(tags)
           d == runs[r].commit
           new == [version |-> runs[r].version, commit |-> d, asked |-> runs[r].asked]
<1>1. /\ runs[r] \in Plans /\ runs[r] # None /\ runs[r].seen = n
      /\ tags' = Append(tags, new) /\ runs' = [runs EXCEPT ![r].stage = "done"]
      /\ main' = main /\ checks' = checks
  BY DEF PublishTag, Tag, At, IInv, GuardTypeOK
<1>2. PICK e \in checks : e.commit = d /\ e.passed
  BY DEF PublishTag
<1>3. /\ d \in 1..Len(main) /\ n \in Nat /\ Len(main) \in Nat
      /\ n > 0 => tags[n].commit < d /\ main[d].contract.manifest # None
  BY <1>1, Elements DEF IInv, PlansFit, Plans
<1>4. new \in Tags BY <1>1, <1>3 DEF Plans, Tags
<1>5. /\ tags \in Seq(Tags) /\ Len(tags') = n + 1 /\ tags'[n + 1] = new
      /\ \A i \in 1..n : tags'[i] = tags[i]
      /\ tags' \in Seq(Tags)
  BY <1>1, <1>4 DEF IInv, GuardTypeOK
<1>6. Grown BY <1>1, <1>3, <1>5 DEF Grown
<1>7. \A i \in 1..n : tags[i].commit \in 1..Len(main) BY Elements DEF IInv
<1>8. \A i \in 1..n, c \in 1..Len(main) :
          Explains(main', tags', i, c) <=> Explains(main, tags, i, c)
  BY <1>6, ExplainsStays DEF IInv
<1>9. new.commit = d OBVIOUS
<1> HIDE DEF new, d
<1>10. GuardTypeOK'
  <2>1. checks' \subseteq [commit : 1..Len(main'), seen : 0..Len(tags'), passed : BOOLEAN]
    BY <1>1, <1>3, <1>5 DEF IInv, GuardTypeOK
  <2>2. runs' \in [Runs -> Plans \cup {None}] BY <1>1 DEF IInv, GuardTypeOK, Plans
  <2>3. tags' \in Seq(Tags') BY <1>1, <1>5 DEF Tags
  <2> QED BY <1>1, <2>1, <2>2, <2>3 DEF IInv, GuardTypeOK, Plans
<1>11. MainInv' BY <1>1 DEF IInv, MainInv
<1>12. PlansFit'
  <2> SUFFICES ASSUME NEW s \in Runs, runs'[s] # None
               PROVE  /\ runs'[s].commit <= Len(main)
                      /\ runs'[s].seen <= n + 1
                      /\ runs'[s].seen > 0 =>
                            /\ tags'[runs'[s].seen].commit < runs'[s].commit
                            /\ main[runs'[s].commit].contract.manifest # None
    BY <1>1, <1>5 DEF PlansFit
  <2>1. runs[s] # None /\ runs'[s].commit = runs[s].commit /\ runs'[s].seen = runs[s].seen
    BY <1>1 DEF IInv, GuardTypeOK, Plans
  <2>2. runs[s].seen \in Nat BY <2>1 DEF IInv, GuardTypeOK, Plans
  <2>3. runs[s].seen > 0 => runs[s].seen \in 1..n BY <1>3, <2>1, <2>2 DEF IInv, PlansFit
  <2> QED BY <1>3, <1>5, <2>1, <2>2, <2>3 DEF IInv, PlansFit
<1>13. TagsAscend'
  <2> SUFFICES ASSUME NEW i \in 1..n + 1, NEW j \in 1..n + 1, i < j
               PROVE  /\ tags'[i].commit < tags'[j].commit
                      /\ main[tags'[j].commit].contract.manifest # None
    BY <1>1, <1>5 DEF TagsAscend
  <2>1. CASE j \in 1..n BY <1>5, <2>1 DEF IInv, TagsAscend
  <2>2. CASE j = n + 1
    <3>1. i \in 1..n /\ n \in 1..n BY <1>3, <2>2
    <3>2. tags[i].commit <= tags[n].commit BY <1>7, <3>1 DEF IInv, TagsAscend
    <3> QED BY <1>3, <1>5, <1>7, <1>9, <2>2, <3>1, <3>2
  <2> QED BY <1>3, <2>1, <2>2
<1>14. SuccessAccounts'
  BY <1>1, <1>8, ExplainedIs, CheckTypes DEF IInv, SuccessAccounts
<1>15. RefusalsHold'
  <2> SUFFICES ASSUME NEW f \in checks,
                      ~f.passed,
                      \A j \in f.seen + 1..n + 1 : Explained(j - 1, tags[j].commit)',
                      Guard(f.commit)'
               PROVE  FALSE
    BY <1>1, <1>5 DEF IInv, RefusalsHold, Refused
  <2> DEFINE c == f.commit
  <2>1. f.seen \in 1..n /\ c \in 1..Len(main) BY <1>1, CheckTypes DEF IInv, RefusalsHold
  <2>2. \A j \in f.seen + 1..n + 1 : Explains(main, tags', j - 1, tags'[j].commit)
    <3> SUFFICES ASSUME NEW j \in f.seen + 1..n + 1
                 PROVE  Explains(main', tags', j - 1, tags'[j].commit)
      BY <1>1
    <3>1. Explained(j - 1, tags[j].commit)' OBVIOUS
    <3> QED BY <3>1 DEF Explained, Explains, ContractBump, HistoryBump, Highest, IsHighest
  <2>3. \A j \in f.seen + 1..n : Explained(j - 1, tags[j].commit)
    <3> SUFFICES ASSUME NEW j \in f.seen + 1..n PROVE Explains(main, tags, j - 1, tags[j].commit)
      BY ExplainedIs
    <3>1. j \in 1..n /\ j - 1 \in 1..n BY <1>3, <2>1
    <3>2. Explains(main, tags', j - 1, tags[j].commit) BY <1>3, <1>5, <2>2, <3>1
    <3> QED BY <1>1, <1>7, <1>8, <3>1, <3>2
  <2>4. ~Guard(c) BY <2>3 DEF IInv, RefusalsHold, Refused
  <2>5. d <= c /\ main[c].contract.manifest # None /\ Explains(main, tags', n + 1, c)
    <3>1. Len(tags') = n + 1 /\ tags' # <<>> BY <1>3, <1>5
    <3>2. Guard(c)' BY <1>1
    <3> QED BY <1>1, <1>5, <1>9, <3>1, <3>2, GuardIs
  <2>6. tags[n].commit < d /\ main[d].contract.manifest # None /\ n \in 1..n
    BY <1>3, <2>1
  <2>7. ~Explains(main, tags, n, c)
    BY <1>3, <1>7, <2>1, <2>4, <2>5, <2>6, GuardIs
  <2>8. Explains(main, tags, n, d)
    <3>1. Explains(main, tags', n, d) BY <1>3, <1>5, <1>9, <2>1, <2>2
    <3> QED BY <1>1, <1>3, <1>8, <2>6, <3>1
  <2> DEFINE t == tags[n].commit
             bump(a, b) == RequiredBump(main[a].contract, main[b].contract)
  <2>9. t \in 1..Len(main) /\ t \in Nat /\ d \in Nat /\ c \in Nat BY <1>3, <1>7, <2>1, <2>6
  <2>10. bump(t, d) <= Highest(main, t, d) BY <2>8 DEF Explains
  <2>11. bump(d, c) <= Highest(main, d, c) BY <1>5, <1>9, <2>5 DEF Explains
  <2>12. bump(t, c) <= Higher(bump(t, d), bump(d, c))
    <3>1. /\ main[t].contract \in Contracts /\ main[d].contract \in Contracts
          /\ main[c].contract \in Contracts
      BY <1>3, <2>1, <2>9, Elements DEF IInv
    <3> QED BY <2>5, <2>6, <3>1, RequiredBumpTriangle
  <2>13. \A i \in t + 1..c : main[i].message \in Bumps
    BY <2>1, <2>9, Elements DEF IInv
  <2>14. Highest(main, t, d) <= Highest(main, t, c) /\ Highest(main, d, c) <= Highest(main, t, c)
    <3>1. t <= t /\ d <= c /\ t <= d /\ c <= c BY <2>5, <2>6, <2>9
    <3> HIDE DEF t, c
    <3>2. Highest(main, t, d) <= Highest(main, t, c) BY <2>9, <2>13, <3>1, HighestGrows
    <3>3. Highest(main, d, c) <= Highest(main, t, c) BY <2>9, <2>13, <3>1, HighestGrows
    <3> QED BY <3>2, <3>3
  <2>15. /\ Highest(main, t, d) \in Bumps /\ Highest(main, d, c) \in Bumps
         /\ Highest(main, t, c) \in Bumps
    <3>1. \A i \in t + 1..d : main[i].message \in Bumps BY <2>5, <2>9, <2>13
    <3>2. \A i \in d + 1..c : main[i].message \in Bumps BY <2>6, <2>9, <2>13
    <3> QED BY <2>9, <2>13, <3>1, <3>2, HighestIs
  <2>16. bump(t, d) \in Bumps /\ bump(d, c) \in Bumps /\ bump(t, c) \in Bumps BY BumpTypes
  <2> HIDE DEF bump
  <2>17. bump(t, c) <= Highest(main, t, c)
    BY <2>10, <2>11, <2>12, <2>14, <2>15, <2>16 DEF Higher, Bumps, Skip, Patch, Minor, Major
  <2> QED BY <2>7, <2>17 DEF Explains, bump
<1>16. AccountedSomewhere'
  <2> SUFFICES ASSUME NEW j \in 2..n + 1
               PROVE  \/ \E f \in checks : f.commit = tags'[j].commit /\ f.seen = 0
                      \/ \E i \in 1..j - 1 : Explains(main', tags', i, tags'[j].commit)
    BY <1>1, <1>5
       DEF AccountedSomewhere, Explained, Explains, ContractBump, HistoryBump, Highest, IsHighest
  <2>1. CASE j \in 2..n
    <3>1. \/ \E f \in checks : f.commit = tags[j].commit /\ f.seen = 0
          \/ \E i \in 1..j - 1 : Explains(main, tags, i, tags[j].commit)
      BY <2>1, ExplainedIs DEF IInv, AccountedSomewhere
    <3>2. j \in 1..n /\ tags'[j] = tags[j] /\ tags[j].commit \in 1..Len(main)
      BY <1>3, <1>5, <1>7, <2>1
    <3>3. ASSUME NEW i \in 1..j - 1, Explains(main, tags, i, tags[j].commit)
          PROVE  Explains(main', tags', i, tags'[j].commit)
      <4>1. i \in 1..n BY <1>3, <3>2
      <4> QED BY <1>8, <3>2, <3>3, <4>1
    <3> QED BY <3>1, <3>2, <3>3
  <2>2. CASE j = n + 1
    <3>1. e.seen \in 0..n BY CheckTypes DEF IInv
    <3>2. e.seen > 0 => Explains(main, tags, e.seen, d)
      BY <1>2, ExplainedIs DEF IInv, SuccessAccounts
    <3> QED BY <1>2, <1>3, <1>5, <1>8, <1>9, <2>2, <3>1, <3>2
  <2> QED BY <1>3, <2>1, <2>2
<1> QED BY <1>10, <1>11, <1>12, <1>13, <1>14, <1>15, <1>16 DEF IInv

\* The repository starts without tags, checks and runs.
LEMMA InvStarts == GuardInit => IInv
<1> SUFFICES ASSUME GuardInit PROVE IInv OBVIOUS
<1> PICK c \in Revisions : main = <<[contract |-> c, message |-> Skip]>> BY DEF GuardInit
<1>1. [contract |-> c, message |-> Skip] \in Commits
  BY GuardAssumption DEF Commits, Bumps
<1>2. main \in Seq(Commits) /\ Len(main) = 1 BY <1>1
<1>3. tags = <<>> /\ Len(tags) = 0 /\ checks = {} /\ runs = [r \in Runs |-> None] BY DEF GuardInit
<1>4. GuardTypeOK BY <1>2, <1>3 DEF GuardTypeOK
<1>5. MainInv BY <1>2, GuardAssumption DEF MainInv
<1> QED
  BY <1>3, <1>4, <1>5
     DEF IInv, PlansFit, TagsAscend, SuccessAccounts, RefusalsHold, AccountedSomewhere

\* Every step keeps the invariant.
LEMMA InvKept == IInv /\ [GuardNext]_guardVars => IInv'
<1> SUFFICES ASSUME IInv, [GuardNext]_guardVars PROVE IInv' OBVIOUS
<1>1. CASE GuardNext
  BY <1>1, PushKept, CheckKept, PlanKept, PublishKept, RunKept DEF GuardNext
<1>2. CASE UNCHANGED guardVars
  <2>1. main' = main /\ tags' = tags /\ checks' = checks /\ runs' = runs BY <1>2 DEF guardVars
  <2>2. GuardTypeOK' /\ MainInv' /\ PlansFit' /\ TagsAscend'
    BY <2>1 DEF IInv, GuardTypeOK, Tags, Plans, MainInv, PlansFit, TagsAscend
  <2>3. Grown BY <2>1, Elements DEF Grown, IInv
  <2> QED BY <2>1, <2>2, <2>3, VerdictsKept DEF IInv
<1> QED BY <1>1, <1>2

\* The inductive invariant.
THEOREM GuardInvariance == GuardSpec => []IInv
BY InvStarts, InvKept, PTL DEF GuardSpec

\* Plans, tags and verdicts are what their declarations say, versions in bounds.
THEOREM GuardTypeCorrect == GuardSpec => []GuardTypeOK
<1>1. IInv => GuardTypeOK BY DEF IInv
<1> QED BY <1>1, GuardInvariance, PTL

\* A released commit's contract change was accounted for by its messages, since one of
\* the earlier tags, unless its CI ran before there was any.
THEOREM ReleasesAreAccounted == GuardSpec => []AccountedSomewhere
<1>1. IInv => AccountedSomewhere BY DEF IInv
<1> QED BY <1>1, GuardInvariance, PTL

\* No newer tag, however many, turns a right refusal into a success.
THEOREM RefusalsStand == GuardSpec => []RefusalsStayRight
<1>1. IInv => RefusalsStayRight BY DEF IInv, RefusalsHold, Refused, RefusalsStayRight
<1> QED BY <1>1, GuardInvariance, PTL

-----------------------------------------------------------------------------
(* The promise of the version numbers                                       *)

\* The releases as the planner sees them.
Released ==
    [i \in 1..Len(tags) |->
        [version |-> tags[i].version, asked |-> tags[i].asked,
         contract |-> main[tags[i].commit].contract]]

\* A plan, however old, keeps the promise against the highest tag it saw; the tag step
\* lets it through only while that tag still is the highest one.
PlansPromise ==
    \A r \in Runs : runs[r] # None /\ runs[r].seen > 0 =>
        LET last == tags[runs[r].seen]
        IN  /\ Below(last.version, runs[r].version)
            /\ RequiredBump(main[last.commit].contract, main[runs[r].commit].contract)
                  <= Difference(last.version, runs[r].version)
            /\ runs[r].asked <= Difference(last.version, runs[r].version)

PromiseInv == Promise(Released) /\ PlansPromise

\* The planner's operators, as the guard uses them.
LEMMA PlannerVersions ==
    /\ Planner!Versions \subseteq SemanticVersions
    /\ \A v, w : Planner!Below(v, w) <=> Below(v, w)
    /\ \A v, bump : Planner!Bumped(v, bump) = Bumped(v, bump)
    /\ \A v, w : Planner!Difference(v, w) = Difference(v, w)
    /\ \A a, b : Planner!RequiredBump(a, b) = RequiredBump(a, b)
<1>1. Planner!Versions \subseteq SemanticVersions
  BY GuardAssumption DEF Planner!Versions, Planner!Components, SemanticVersions
<1>2. \A v, w : Planner!Below(v, w) <=> Below(v, w)
  BY DEF Planner!Below, Below
<1>3. \A v, bump : Planner!Bumped(v, bump) = Bumped(v, bump)
  BY DEF Planner!Bumped, Bumped, Planner!Major, Planner!Minor, Major, Minor
<1>4. \A v, w : Planner!Difference(v, w) = Difference(v, w)
  BY DEF Planner!Difference, Difference, Planner!Major, Planner!Minor, Planner!Patch, Planner!Skip,
         Major, Minor, Patch, Skip
<1>5. \A a, b : Planner!ManifestBump(a, b) = ManifestBump(a, b)
  BY DEF Planner!ManifestBump, ManifestBump, Planner!Major, Planner!Minor, Planner!Patch,
         Planner!Skip, Major, Minor, Patch, Skip
<1>6. \A a, b : /\ Planner!InputBreaks(a, b) <=> InputBreaks(a, b)
                /\ Planner!InputExtends(a, b) <=> InputExtends(a, b)
                /\ Planner!InputAmends(a, b) <=> InputAmends(a, b)
                /\ Planner!OutputBreaks(a, b) <=> OutputBreaks(a, b)
                /\ Planner!OutputExtends(a, b) <=> OutputExtends(a, b)
  BY DEF Planner!InputBreaks, InputBreaks, Planner!InputExtends, InputExtends,
         Planner!InputAmends, InputAmends, Planner!OutputBreaks, OutputBreaks,
         Planner!OutputExtends, OutputExtends
<1>7. \A a, b : Planner!ActionBump(a, b) = ActionBump(a, b)
  BY <1>6 DEF Planner!ActionBump, ActionBump, Planner!Breaks, Breaks, Planner!Extends, Extends,
         Planner!Amends, Amends, Planner!Major, Planner!Minor, Planner!Patch, Planner!Skip,
         Major, Minor, Patch, Skip
<1>8. \A a, b : Planner!RequiredBump(a, b) = RequiredBump(a, b)
  BY <1>5, <1>7 DEF Planner!RequiredBump, RequiredBump, Planner!Higher, Higher
<1> QED BY <1>1, <1>2, <1>3, <1>4, <1>8

\* Released is a sequence of releases.
LEMMA ReleasedType ==
    ASSUME GuardTypeOK
    PROVE  Released \in Seq(AnyReleases) /\ Len(Released) = Len(tags)
<1>1. Len(tags) \in Nat
  BY Elements
<1>2. ASSUME NEW i \in 1..Len(tags)
      PROVE  Released[i] \in AnyReleases
  <2>1. tags[i] \in Tags /\ main[tags[i].commit].contract \in Contracts
    BY Elements, <1>2 DEF GuardTypeOK
  <2>2. tags[i].version \in SemanticVersions /\ tags[i].asked \in Bumps
    BY <2>1, PlannerVersions DEF Tags
  <2> QED BY <1>2, <2>1, <2>2 DEF Released, AnyReleases
<1>3. Released = [i \in 1..Len(tags) |-> Released[i]]
  BY DEF Released
<1> QED BY <1>1, <1>2, <1>3

\* The promise is the planner's.
LEMMA PromiseIs ==
    ASSUME GuardTypeOK, Promise(Released)
    PROVE  PromiseSurvivesStaleChecks
<1>1. Len(Released) = Len(tags)
  BY ReleasedType
<1>2. Planner!VersionsIncrease
  BY <1>1, PlannerVersions DEF Promise, Planner!VersionsIncrease, Released
<1>3. Planner!SemVerKept
  BY <1>1, PlannerVersions DEF Promise, Planner!SemVerKept, Released
<1>4. Planner!MessagesKept
  BY <1>1, PlannerVersions DEF Promise, Planner!MessagesKept, Released
<1> QED BY <1>2, <1>3, <1>4 DEF PromiseSurvivesStaleChecks, Planner!PromiseKept

\* A candidate shows what is required, by messages and contracts, since the last tag.
LEMMA CandidateShows ==
    ASSUME GuardTypeOK, tags # <<>>, NEW c \in 1..Len(main), NEW v \in Candidates(c)
    PROVE  LET last == tags[Len(tags)]
           IN  /\ Below(last.version, v)
               /\ RequiredBump(main[last.commit].contract, main[c].contract)
                     <= Difference(last.version, v)
               /\ RequirementAt(c) <= Difference(last.version, v)
<1> DEFINE last == tags[Len(tags)]
           next == Bumped(last.version, RequirementAt(c))
<1>1. RequirementAt(c) \in Bumps /\ v \in Planner!Versions
  BY PlanTypes
<1>2. last \in Tags
  BY Elements DEF GuardTypeOK
<1>3. last.version \in SemanticVersions /\ v \in SemanticVersions
  BY <1>1, <1>2, PlannerVersions DEF Tags
<1>4. ContractBump(Len(tags), c) = RequiredBump(main[last.commit].contract, main[c].contract)
  BY DEF ContractBump
<1>5. last.commit \in Nat /\ c \in Nat
  BY Elements
<1>6. HistoryBump(last.commit, c) \in Bumps
  <2>1. \A d \in last.commit + 1..c : main[d].message \in Bumps
    BY <1>5, Elements
  <2>2. HistoryBump(last.commit, c) = Highest(main, last.commit, c)
    BY DEF HistoryBump, Highest, IsHighest
  <2> QED BY <1>5, <2>1, <2>2, HighestIs
<1>7. RequiredBump(main[last.commit].contract, main[c].contract) <= RequirementAt(c)
  BY <1>4, <1>6, BumpTypes DEF RequirementAt, Higher, Bumps, Skip, Patch, Minor, Major
<1>8. IF RequirementAt(c) = Skip
      THEN Below(last.version, v)
      ELSE v \in ManualVersions \cup {next} /\ ~Below(v, next)
  BY PlannerVersions DEF Candidates
<1>9. Below(last.version, v) /\ RequirementAt(c) <= Difference(last.version, v)
  BY <1>1, <1>3, <1>8, BumpShows
<1>10. RequiredBump(main[last.commit].contract, main[c].contract) <= Difference(last.version, v)
  BY <1>1, <1>7, <1>9, BumpTypes, DifferenceType DEF Bumps, Skip, Patch, Minor, Major
<1> QED BY <1>9, <1>10

\* Without a new tag, the releases stay.
LEMMA ReleasedStays ==
    ASSUME GuardTypeOK, Grown, tags' = tags
    PROVE  Released' = Released
<1>1. \A i \in 1..Len(tags) : tags[i].commit \in 1..Len(main)
  BY Elements
<1>2. \A i \in 1..Len(tags) : main'[tags[i].commit] = main[tags[i].commit]
  BY <1>1 DEF Grown
<1> QED BY <1>2 DEF Released

\* And with them the promise of the plans that are kept.
LEMMA KeptPlans ==
    ASSUME IInv, PromiseInv, Grown, NEW r \in Runs, runs[r] # None,
           NEW plan, plan.seen = runs[r].seen, plan.commit = runs[r].commit,
           plan.version = runs[r].version, plan.asked = runs[r].asked, plan.seen > 0
    PROVE  LET last == tags'[plan.seen]
           IN  /\ Below(last.version, plan.version)
               /\ RequiredBump(main'[last.commit].contract, main'[plan.commit].contract)
                     <= Difference(last.version, plan.version)
               /\ plan.asked <= Difference(last.version, plan.version)
<1>1. /\ runs[r].seen \in 1..Len(tags) /\ runs[r].commit \in 1..Len(main)
  BY Elements DEF IInv, PlansFit, GuardTypeOK, Plans
<1>2. tags'[plan.seen] = tags[plan.seen] /\ tags[plan.seen].commit \in 1..Len(main)
  BY <1>1, Elements DEF Grown, IInv
<1>3. /\ main'[plan.commit] = main[plan.commit]
      /\ main'[tags[plan.seen].commit] = main[tags[plan.seen].commit]
  BY <1>1, <1>2 DEF Grown
<1> QED BY <1>2, <1>3 DEF PromiseInv, PlansPromise

\* Pushes and CI runs change no plan.
LEMMA PromiseRests ==
    ASSUME IInv, PromiseInv, Grown, tags' = tags, runs' = runs
    PROVE  PromiseInv'
<1>1. Promise(Released)'
  BY ReleasedStays DEF IInv, PromiseInv
<1>2. PlansPromise'
  BY KeptPlans DEF PlansPromise
<1> QED BY <1>1, <1>2 DEF PromiseInv

\* A new plan is made from the tags of the moment.
LEMMA PromisePlanned ==
    ASSUME IInv, PromiseInv, NEW r \in Runs, Plan(r)
    PROVE  PromiseInv'
<1>1. main' = main /\ tags' = tags /\ Grown
  BY Elements DEF Plan, Grown, IInv
<1>2. Promise(Released)'
  BY <1>1, ReleasedStays DEF IInv, PromiseInv
<1> PICK v \in IF tags = <<>> THEN ManualVersions ELSE Candidates(Len(main)) :
        runs' = [runs EXCEPT ![r] =
            [stage |-> "running", commit |-> Len(main), seen |-> Len(tags), version |-> v,
             asked |-> IF tags = <<>> THEN Skip ELSE RequirementAt(Len(main))]]
  BY DEF Plan
<1>3. /\ runs'[r].commit = Len(main) /\ runs'[r].seen = Len(tags) /\ runs'[r].version = v
      /\ tags # <<>> => runs'[r].asked = RequirementAt(Len(main))
      /\ \A s \in Runs \ {r} : runs'[s] = runs[s]
  BY DEF IInv, GuardTypeOK
<1>4. Len(main) \in 1..Len(main)
  BY DEF IInv, MainInv
<1>5. Len(tags) > 0 => tags # <<>>
  OBVIOUS
<1>6. PlansPromise'
  <2> SUFFICES ASSUME NEW s \in Runs, runs'[s] # None, runs'[s].seen > 0
               PROVE  LET last == tags'[runs'[s].seen]
                      IN  /\ Below(last.version, runs'[s].version)
                          /\ RequiredBump(main'[last.commit].contract,
                                          main'[runs'[s].commit].contract)
                                <= Difference(last.version, runs'[s].version)
                          /\ runs'[s].asked <= Difference(last.version, runs'[s].version)
    BY DEF PlansPromise
  <2>1. CASE s = r
    <3>1. tags # <<>> /\ v \in Candidates(Len(main))
      BY <1>3, <1>5, <2>1
    <3> QED BY <1>1, <1>3, <1>4, <2>1, <3>1, CandidateShows DEF IInv
  <2>2. CASE s # r
    BY <1>1, <1>3, <2>2, KeptPlans
  <2> QED BY <2>1, <2>2
<1> QED BY <1>2, <1>6 DEF PromiseInv

\* The plan of a run that fails, or is run again, stays as it is.
LEMMA PromiseRerun ==
    ASSUME IInv, PromiseInv, NEW r \in Runs, RunFails(r) \/ RerunFailed(r)
    PROVE  PromiseInv'
<1>1. main' = main /\ tags' = tags /\ Grown
  BY Elements DEF RunFails, RerunFailed, Grown, IInv
<1>2. Promise(Released)'
  BY <1>1, ReleasedStays DEF IInv, PromiseInv
<1>3. PICK stage \in {"running", "failed"} : runs' = [runs EXCEPT ![r].stage = stage]
  BY DEF RunFails, RerunFailed
<1>4. \A s \in Runs : runs'[s] # None =>
          /\ runs[s] # None
          /\ runs'[s].commit = runs[s].commit /\ runs'[s].seen = runs[s].seen
          /\ runs'[s].version = runs[s].version /\ runs'[s].asked = runs[s].asked
  BY <1>3 DEF IInv, GuardTypeOK, Plans, RunFails, RerunFailed, At
<1>5. PlansPromise'
  BY <1>1, <1>4, KeptPlans DEF PlansPromise
<1> QED BY <1>2, <1>5 DEF PromiseInv

\* A tag is created on the graph its plan was made from: the plan's last tag is the last
\* one, and what it promises against that one it promises against all.
LEMMA PromisePublished ==
    ASSUME IInv, PromiseInv, IInv', NEW r \in Runs, PublishTag(r)
    PROVE  PromiseInv'
<1> DEFINE n == Len(tags)
           p == runs[r]
           new == [version |-> p.version, commit |-> p.commit, asked |-> p.asked]
           release == [version |-> p.version, asked |-> p.asked,
                       contract |-> main[p.commit].contract]
<1>1. /\ p \in Plans /\ p # None /\ p.seen = n
      /\ tags' = Append(tags, new) /\ runs' = [runs EXCEPT ![r].stage = "done"]
      /\ main' = main
  BY DEF PublishTag, Tag, At, IInv, GuardTypeOK
<1>2. /\ n \in Nat /\ p.commit \in 1..Len(main) /\ tags \in Seq(Tags)
      /\ n > 0 => main[p.commit].contract.manifest # None
  BY <1>1, Elements DEF IInv, PlansFit, Plans, GuardTypeOK
<1>3. /\ Len(tags') = n + 1 /\ tags'[n + 1] = new
      /\ \A i \in 1..n : tags'[i] = tags[i]
  <2>1. new \in Tags BY <1>1, <1>2 DEF Plans, Tags
  <2> HIDE DEF new
  <2> QED BY <1>1, <1>2, <2>1
<1>4. Grown
  BY <1>1, <1>2, <1>3, Elements DEF Grown, IInv
<1>5. release \in AnyReleases
  <2>1. p.version \in SemanticVersions /\ p.asked \in Bumps
    BY <1>1, PlannerVersions DEF Plans
  <2>2. main[p.commit].contract \in Contracts
    BY <1>2, Elements DEF IInv
  <2> QED BY <2>1, <2>2 DEF AnyReleases
<1>6. Released \in Seq(AnyReleases) /\ Len(Released) = n
  BY ReleasedType DEF IInv
<1>7. Released' = Append(Released, release)
  <2>1. Released' \in Seq(AnyReleases) /\ Len(Released') = n + 1
    <3>1. GuardTypeOK' BY DEF IInv
    <3>2. Released' = [i \in 1..n + 1 |->
              [version |-> tags'[i].version, asked |-> tags'[i].asked,
               contract |-> main'[tags'[i].commit].contract]]
      BY <1>3 DEF Released
    <3>3. ASSUME NEW i \in 1..n + 1
          PROVE  [version |-> tags'[i].version, asked |-> tags'[i].asked,
                  contract |-> main'[tags'[i].commit].contract] \in AnyReleases
      <4>1. CASE i = n + 1
        BY <1>1, <1>3, <1>5, <4>1
      <4>2. CASE i \in 1..n
        <5>1. Released[i] \in AnyReleases BY <1>6, <4>2
        <5> QED BY <1>1, <1>3, <4>2, <5>1 DEF Released
      <4> QED BY <1>2, <4>1, <4>2
    <3> QED BY <1>2, <3>2, <3>3
  <2>2. ASSUME NEW i \in 1..n + 1
        PROVE  Released'[i] = Append(Released, release)[i]
    <3>1. CASE i = n + 1
      <4>1. Released'[i] = release BY <1>1, <1>2, <1>3, <3>1 DEF Released
      <4> HIDE DEF release
      <4> QED BY <1>5, <1>6, <3>1, <4>1
    <3>2. CASE i \in 1..n
      <4>1. Released'[i] = Released[i] BY <1>1, <1>2, <1>3, <3>2 DEF Released
      <4> HIDE DEF release
      <4> QED BY <1>5, <1>6, <3>2, <4>1
    <3>3. i = n + 1 \/ i \in 1..n BY <1>2
    <3> QED BY ONLY <3>1, <3>2, <3>3
  <2> HIDE DEF release
  <2>3. Append(Released, release) \in Seq(AnyReleases) /\ Len(Append(Released, release)) = n + 1
    BY <1>5, <1>6
  <2> QED BY <2>1, <2>2, <2>3
<1>8. Promise(Released)'
  <2>1. CASE n = 0
    BY <1>6, <1>7, <2>1 DEF Promise
  <2>2. CASE n > 0
    <3>1. n \in 1..n /\ Released[n].version = tags[n].version
          /\ Released[n].contract = main[tags[n].commit].contract
      BY <1>2, <2>2 DEF Released
    <3>2. /\ Below(tags[n].version, p.version)
          /\ RequiredBump(main[tags[n].commit].contract, main[p.commit].contract)
                <= Difference(tags[n].version, p.version)
          /\ p.asked <= Difference(tags[n].version, p.version)
      BY <1>1, <2>2 DEF PromiseInv, PlansPromise
    <3>3. Promise(Append(Released, release))
      <4>1. /\ release.contract = main[p.commit].contract /\ release.asked = p.asked
            /\ release.version = p.version
        OBVIOUS
      <4> HIDE DEF release
      <4> QED BY <1>2, <1>5, <1>6, <2>2, <3>1, <3>2, <4>1, AppendKeepsPromise DEF PromiseInv
    <3> QED BY <1>7, <3>3
  <2> QED BY <1>2, <2>1, <2>2
<1>9. \A s \in Runs : runs'[s] # None =>
          /\ runs[s] # None
          /\ runs'[s].commit = runs[s].commit /\ runs'[s].seen = runs[s].seen
          /\ runs'[s].version = runs[s].version /\ runs'[s].asked = runs[s].asked
  BY <1>1 DEF IInv, GuardTypeOK, Plans
<1>10. PlansPromise'
  BY <1>4, <1>9, KeptPlans DEF PlansPromise
<1> QED BY <1>8, <1>10 DEF PromiseInv

\* The promise survives CI verdicts and plans made from other tags than the ones a release
\* is finally put on, in any history with any number of runs.
THEOREM PromiseStands == GuardSpec => []PromiseSurvivesStaleChecks
<1>1. GuardInit => PromiseInv
  BY DEF GuardInit, PromiseInv, PlansPromise, Promise, Released
<1>2. IInv /\ IInv' /\ PromiseInv /\ [GuardNext]_guardVars => PromiseInv'
  <2> SUFFICES ASSUME IInv, IInv', PromiseInv, [GuardNext]_guardVars PROVE PromiseInv'
    OBVIOUS
  <2>1. CASE Push
    <3>1. main \in Seq(Commits)
      BY DEF IInv, GuardTypeOK
    <3>2. Grown /\ tags' = tags /\ runs' = runs
      <4> PICK c \in Revisions, bump \in Messages :
              main' = Append(main, [contract |-> c, message |-> bump])
        BY <2>1 DEF Push
      <4>1. [contract |-> c, message |-> bump] \in Commits
        BY GuardAssumption DEF Commits
      <4> QED BY <2>1, <3>1, <4>1, Elements DEF Push, Grown, IInv
    <3> QED BY <3>2, PromiseRests
  <2>2. CASE (\E c \in 1..Len(main) : CiRuns(c)) \/ UNCHANGED guardVars
    <3>1. main' = main /\ tags' = tags /\ runs' = runs
      BY <2>2 DEF CiRuns, guardVars
    <3>2. Grown
      BY <3>1, Elements DEF Grown, IInv
    <3> QED BY <3>1, <3>2, PromiseRests
  <2>3. CASE \E r \in Runs : Plan(r) \/ PublishTag(r) \/ RunFails(r) \/ RerunFailed(r)
    BY <2>3, PromisePlanned, PromisePublished, PromiseRerun
  <2> QED BY <2>1, <2>2, <2>3 DEF GuardNext
<1>3. IInv /\ PromiseInv => PromiseSurvivesStaleChecks
  BY PromiseIs DEF IInv, PromiseInv
<1> QED BY <1>1, <1>2, <1>3, GuardInvariance, PTL DEF GuardSpec

-----------------------------------------------------------------------------
(* Planner, guard and commit message side by side *)

\* Put beside the others, the planner and the guard do what they do alone: their steps
\* are their own or leave them at rest.
LEMMA PartsAreWhole == MCSpec => Spec /\ GuardSpec
<1>1. MCInit => Init /\ GuardInit
  BY DEF MCInit
<1>2. [MCNext]_<<part, vars, guardVars, draft>> => [Next]_vars /\ [GuardNext]_guardVars
  BY DEF MCNext
<1> QED BY <1>1, <1>2, PTL DEF MCSpec, Spec, GuardSpec

\* Every planned version and every recorded verdict has its type, in whatever order the
\* parts take their steps.
THEOREM PlannerPartsTypeCorrect == MCSpec => []PlannerPartsTypeOK
BY PartsAreWhole, TypeCorrect, GuardTypeCorrect, PTL DEF PlannerPartsTypeOK
=============================================================================
