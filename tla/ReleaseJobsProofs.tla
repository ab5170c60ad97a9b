-------------------------- MODULE ReleaseJobsProofs --------------------------
(***************************************************************************)
(* The gate for any number of jobs and edits.  The argument: a ruleset     *)
(* that still has a recorded revision is as it was when it was recorded,   *)
(* so an attested revision stands for a ruleset that protects the tags,    *)
(* and the second ruleset read already was so when the first was read.     *)
(* The job behind the gate builds on it: its steps are the gate's or leave *)
(* the gate alone, and while an attestation with live revisions vouches    *)
(* for the rulesets, outsiders cannot reach a tag that exists.  Then the   *)
(* notes the jobs hand on, for any notes and any number of attempts.       *)
(***************************************************************************)
EXTENDS MCReleaseJobs, TLAPS

\* While the ruleset has the document's revision, it is what the document says.
Current(document, k) ==
    /\ document.revision <= live[k].revision
    /\ document.revision = live[k].revision =>
          document.strict = live[k].strict /\ document.narrow = live[k].narrow

\* While the rulesets have the attested revisions, they protect the tags.
Vouches(policy) ==
    \A k \in Kinds :
        /\ policy[k].revision <= live[k].revision
        /\ policy[k].revision = live[k].revision => Protects(live[k])

\* What the job knows of the moment of its first read: the second ruleset counts with
\* its live revision until it is read, and with the one that was read from then on.
GateInv(gate) ==
    /\ gate.stage = "waiting" => gate.seen = NothingRead
    /\ gate.seen["creation"] # None => gate.seen["immutable"] # None
    /\ gate.policy # None => Vouches(gate.policy)
    /\ /\ gate.policy # None
       /\ gate.seen["immutable"] # None
       /\ gate.seen["immutable"].revision = gate.policy["immutable"].revision
       /\ \/ live["creation"].revision = gate.policy["creation"].revision
          \/ /\ gate.seen["creation"] # None
             /\ gate.seen["creation"].revision = gate.policy["creation"].revision
       => gate.held
    /\ gate.stage = "passed" => gate.held

Inv ==
    /\ TypeOK
    /\ \A k \in Kinds : live[k].revision <= clock
    /\ owner["creation"] # None => owner["immutable"] # None
    /\ \A k \in Kinds : owner[k] # None => Current(owner[k], k)
    /\ attestation # None => Vouches(attestation)
    /\ \A g \in Gates : GateInv(gates[g])

\* Types.
LEMMA TypeInvariance ==
    ASSUME Inv, [Next]_vars
    PROVE  TypeOK'
<1> USE AbsenceAssumption DEF Inv, TypeOK, Rulesets, Documents, Evidence, GateStates
<1>1. ASSUME NEW k \in Kinds, Edit(k) PROVE TypeOK'
  BY <1>1 DEF Edit
<1>2. ASSUME NEW k \in Kinds, OwnerReads(k) PROVE TypeOK'
  BY <1>2 DEF OwnerReads, Document
<1>3. CASE Attest
  <2>1. \A k \in Kinds : owner[k] \in Documents
    BY <1>3 DEF Attest, Kinds
  <2>2. attestation' \in [Kinds -> Evidence] \cup {None}
    BY <1>3, <2>1 DEF Attest
  <2> QED BY <1>3, <2>2 DEF Attest, NothingRead
<1>4. ASSUME NEW g \in Gates, NEW gate \in GateStates, gates' = [gates EXCEPT ![g] = gate],
             UNCHANGED <<clock, live, owner, attestation>>
      PROVE  TypeOK'
  BY <1>4
<1>5. ASSUME NEW g \in Gates, StartGate(g) PROVE TypeOK'
  <2> DEFINE gate == [gates[g] EXCEPT !.stage = "started", !.policy = attestation]
  <2>1. gate \in GateStates
    OBVIOUS
  <2>2. gates' = [gates EXCEPT ![g] = gate]
    BY <1>5 DEF StartGate
  <2> QED BY <1>4, <1>5, <2>1, <2>2 DEF StartGate
<1>6. ASSUME NEW g \in Gates, NEW k \in Kinds, GateReads(g, k) PROVE TypeOK'
  <2> PICK zone \in Zones :
          gates' = [gates EXCEPT ![g].seen[k] = Document(k, zone),
                                 ![g].held = IF k = "immutable" THEN Protected ELSE @]
    BY <1>6 DEF GateReads
  <2> PICK held \in BOOLEAN : held = IF k = "immutable" THEN Protected ELSE gates[g].held
    <3>1. (IF k = "immutable" THEN Protected ELSE gates[g].held) \in BOOLEAN
      BY DEF Protected
    <3> QED BY <3>1, Zenon
  <2> PICK seen \in [Kinds -> Documents \cup {None}] :
          seen = [gates[g].seen EXCEPT ![k] = Document(k, zone)]
    BY DEF Document
  <2> DEFINE gate == [gates[g] EXCEPT !.seen = seen, !.held = held]
  <2>1. gate \in GateStates
    <3> PICK old \in GateStates : old = gates[g]
      OBVIOUS
    <3>1. [old EXCEPT !.seen = seen] \in GateStates
      OBVIOUS
    <3>2. \A any \in GateStates : [any EXCEPT !.held = held] \in GateStates
      OBVIOUS
    <3>3. gate = [[old EXCEPT !.seen = seen] EXCEPT !.held = held]
      OBVIOUS
    <3> QED BY <3>1, <3>2, <3>3, Zenon
  <2>2. gates' = [gates EXCEPT ![g] = gate]
    OBVIOUS
  <2> QED BY <1>4, <1>6, <2>1, <2>2 DEF GateReads
<1>7. ASSUME NEW g \in Gates, Verify(g) PROVE TypeOK'
  BY <1>4, <1>7 DEF Verify
<1>8. ASSUME NEW g \in Gates, GateFails(g) PROVE TypeOK'
  BY <1>4, <1>8 DEF GateFails
<1>9. ASSUME NEW g \in Gates, Rerun(g) PROVE TypeOK'
  BY <1>4, <1>9 DEF Rerun, NothingRead
<1>10. CASE UNCHANGED vars
  BY <1>10 DEF vars
<1> QED BY <1>1, <1>2, <1>3, <1>5, <1>6, <1>7, <1>8, <1>9, <1>10 DEF Next

\* A job that checks, while the rulesets stay as they are.
LEMMA GateKeeps ==
    ASSUME Inv, [Next]_vars, UNCHANGED <<clock, live, owner, attestation>>,
           NEW g \in Gates, NEW gate, gates' = [gates EXCEPT ![g] = gate], GateInv(gate)'
    PROVE  Inv'
<1>1. TypeOK'
  BY TypeInvariance
<1>2. ASSUME NEW h \in Gates
      PROVE  GateInv(gates[h])'
  <2>1. CASE h = g
    BY <2>1 DEF Inv, TypeOK
  <2>2. CASE h # g
    BY <2>2 DEF Inv, TypeOK, GateInv, Vouches, Protects
  <2> QED BY <2>1, <2>2
<1> QED BY <1>1, <1>2 DEF Inv, Current, Vouches, Protects

\* An edit moves the ruleset past every recorded revision.
LEMMA EditKeeps ==
    ASSUME Inv, [Next]_vars, NEW k \in Kinds, Edit(k)
    PROVE  Inv'
<1>1. TypeOK'
  BY TypeInvariance
<1>2. /\ clock \in Nat /\ clock' = clock + 1
      /\ live'[k].revision = clock + 1
      /\ \A j \in Kinds \ {k} : live'[j] = live[j]
      /\ \A j \in Kinds : live[j].revision \in Nat /\ live[j].revision <= clock
      /\ UNCHANGED <<owner, attestation, gates>>
  BY DEF Edit, Inv, TypeOK, Rulesets
<1>3. \A j \in Kinds : live'[j].revision <= clock'
  BY <1>2
<1>4. ASSUME NEW j \in Kinds, owner[j] # None
      PROVE  Current(owner[j], j)'
  <2>1. owner[j].revision \in Nat /\ Current(owner[j], j)
    BY <1>4 DEF Inv, TypeOK, Documents
  <2> QED BY <1>2, <2>1 DEF Current
<1>5. ASSUME NEW policy \in [Kinds -> Evidence], Vouches(policy)
      PROVE  /\ policy[k].revision < live'[k].revision
             /\ \A j \in Kinds :
                    /\ policy[j].revision <= live'[j].revision
                    /\ policy[j].revision = live'[j].revision => Protects(live'[j])
  <2>1. \A j \in Kinds : policy[j].revision \in Nat
    BY DEF Evidence
  <2> QED BY <1>2, <1>5, <2>1 DEF Vouches
<1>6. attestation # None => Vouches(attestation)'
  BY <1>2, <1>5 DEF Inv, TypeOK, Vouches
<1>7. ASSUME NEW g \in Gates
      PROVE  GateInv(gates[g])'
  <2> PICK gate : gate = gates[g]
    OBVIOUS
  <2>1. GateInv(gate) /\ gate.policy \in [Kinds -> Evidence] \cup {None} /\ gates[g]' = gate
    BY <1>2 DEF Inv, TypeOK, GateStates
  <2>2. ASSUME gate.policy = None PROVE GateInv(gate)'
    BY <2>1, <2>2 DEF GateInv
  <2>3. ASSUME gate.policy # None PROVE GateInv(gate)'
    <3>1. gate.policy \in [Kinds -> Evidence] /\ Vouches(gate.policy)
      BY <2>1, <2>3 DEF GateInv
    <3>2. Vouches(gate.policy)'
      BY <1>5, <2>1, <3>1 DEF Vouches
    <3>3. live'["creation"].revision = gate.policy["creation"].revision
             => live["creation"].revision = gate.policy["creation"].revision
      <4>1. CASE k = "creation"
        BY <1>2, <1>5, <3>1, <4>1 DEF Kinds, Evidence
      <4>2. CASE k # "creation"
        BY <1>2, <4>2 DEF Kinds
      <4> QED BY <4>1, <4>2
    <3> QED BY <2>1, <3>2, <3>3 DEF GateInv
  <2>4. GateInv(gate)'
    BY <2>2, <2>3
  <2> QED BY <2>1, <2>4 DEF GateInv
<1> QED BY <1>1, <1>2, <1>3, <1>4, <1>6, <1>7 DEF Inv

\* The invariant is inductive: rulesets, owner and jobs move.
LEMMA InvKept ==
    ASSUME Inv, [Next]_vars
    PROVE  Inv'
<1>0. TypeOK'
  BY TypeInvariance
<1>1. ASSUME NEW k \in Kinds, Edit(k) PROVE Inv'
  BY <1>1, EditKeeps
<1>2. ASSUME NEW k \in Kinds, OwnerReads(k) PROVE Inv'
  <2> PICK zone \in Zones : owner' = [owner EXCEPT ![k] = Document(k, zone)]
    BY <1>2 DEF OwnerReads
  <2>1. Current(Document(k, zone), k) /\ Document(k, zone) # None
    BY AbsenceAssumption DEF Current, Document, Inv, TypeOK, Rulesets, Documents
  <2>2. \A j \in Kinds : owner'[j] # None => Current(owner'[j], j)
    BY <2>1 DEF Inv, TypeOK
  <2>3. owner'["creation"] # None => owner'["immutable"] # None
    BY <1>2, <2>1 DEF OwnerReads, MayRead, Inv, TypeOK, Kinds
  <2> QED BY <1>0, <1>2, <2>2, <2>3 DEF OwnerReads, Inv, Current, GateInv, Vouches, Protects
<1>3. CASE Attest
  <2>1. attestation' # None => Vouches(attestation')
    <3>1. CASE \A k \in Kinds : Protects(owner[k])
      <4>1. \A k \in Kinds : owner[k] # None /\ Current(owner[k], k)
        BY <1>3 DEF Attest, Inv, Kinds
      <4>2. \A k \in Kinds : attestation'[k].revision = owner[k].revision
        BY <1>3, <3>1 DEF Attest
      <4> QED BY <3>1, <4>1, <4>2 DEF Vouches, Current, Protects
    <3>2. CASE ~(\A k \in Kinds : Protects(owner[k]))
      BY <1>3, <3>2 DEF Attest, Inv
    <3> QED BY <3>1, <3>2
  <2>2. owner' = NothingRead /\ UNCHANGED <<clock, live, gates>>
    BY <1>3 DEF Attest
  <2> QED BY <1>0, <2>1, <2>2
          DEF Inv, NothingRead, Kinds, Current, GateInv, Vouches, Protects
<1>4. ASSUME NEW g \in Gates, StartGate(g) PROVE Inv'
  <2> PICK gate : gate = [gates[g] EXCEPT !.stage = "started", !.policy = attestation]
    OBVIOUS
  <2>1. gates' = [gates EXCEPT ![g] = gate] /\ UNCHANGED <<clock, live, owner, attestation>>
    BY <1>4 DEF StartGate
  <2>2. GateInv(gates[g]) /\ gates[g].stage = "waiting" /\ gates[g] \in GateStates
    BY <1>4 DEF StartGate, Inv, TypeOK
  <2>3. /\ gate.stage = "started" /\ gate.policy = attestation
        /\ gate.seen = NothingRead
    BY <2>2 DEF GateStates, GateInv
  <2>4. GateInv(gate)'
    BY <2>1, <2>3 DEF GateInv, Inv, NothingRead, Kinds, Vouches, Protects
  <2> QED BY <2>1, <2>4, GateKeeps
<1>5. ASSUME NEW g \in Gates, NEW k \in Kinds, GateReads(g, k) PROVE Inv'
  <2> PICK zone \in Zones :
          gates' = [gates EXCEPT ![g].seen[k] = Document(k, zone),
                                 ![g].held = IF k = "immutable" THEN Protected ELSE @]
    BY <1>5 DEF GateReads
  <2> PICK doc : doc = Document(k, zone)
    OBVIOUS
  <2> PICK gate : gate = [gates[g] EXCEPT !.seen = [gates[g].seen EXCEPT ![k] = doc],
                              !.held = IF k = "immutable" THEN Protected ELSE gates[g].held]
    OBVIOUS
  <2>1. /\ gates' = [gates EXCEPT ![g] = gate]
        /\ UNCHANGED <<clock, live, owner, attestation>>
    BY <1>5 DEF GateReads, Inv, TypeOK
  <2>2. /\ GateInv(gates[g]) /\ gates[g].stage = "started" /\ gates[g] \in GateStates
        /\ MayRead(gates[g].seen, k)
    BY <1>5 DEF GateReads, Inv, TypeOK
  <2>3. doc # None /\ doc.revision = live[k].revision
    BY AbsenceAssumption DEF Document, Inv, TypeOK, Rulesets, Documents
  <2>4. /\ gate.stage = "started" /\ gate.policy = gates[g].policy
        /\ gate.seen = [gates[g].seen EXCEPT ![k] = doc]
        /\ gate.held = IF k = "immutable" THEN Protected ELSE gates[g].held
    BY <2>2 DEF GateStates
  <2>5. gates[g].seen \in [Kinds -> Documents \cup {None}]
    BY <2>2 DEF GateStates
  <2>6. GateInv(gate)
    <3>1. CASE k = "immutable"
      <4>1. /\ gate.seen["creation"] = None
            /\ gate.seen["immutable"] = doc
            /\ gate.held = Protected
        BY <2>2, <2>4, <2>5, <3>1 DEF GateInv, MayRead, Kinds
      <4> QED BY <2>2, <2>3, <2>4, <3>1, <4>1 DEF GateInv, Vouches, Protected, Kinds
    <3>2. CASE k = "creation"
      <4>1. /\ gate.seen["creation"] = doc
            /\ gate.seen["immutable"] = gates[g].seen["immutable"]
            /\ gate.held = gates[g].held
            /\ gates[g].seen["immutable"] # None
        BY <2>2, <2>4, <2>5, <3>2 DEF MayRead, Kinds
      <4> QED BY <2>2, <2>3, <2>4, <3>2, <4>1 DEF GateInv
    <3> QED BY <3>1, <3>2 DEF Kinds
  <2>7. GateInv(gate)'
    BY <2>1, <2>6 DEF GateInv, Vouches, Protects
  <2> QED BY <2>1, <2>7, GateKeeps
<1>6. ASSUME NEW g \in Gates, Verify(g) PROVE Inv'
  <2> PICK stage : stage = IF gates[g].policy # None /\ Accepts(gates[g].policy, gates[g].seen)
                           THEN "passed" ELSE "refused"
    OBVIOUS
  <2> PICK gate : gate = [gates[g] EXCEPT !.stage = stage]
    OBVIOUS
  <2>1. /\ gates' = [gates EXCEPT ![g] = gate]
        /\ UNCHANGED <<clock, live, owner, attestation>>
    BY <1>6 DEF Verify
  <2>2. /\ GateInv(gates[g]) /\ gates[g] \in GateStates
        /\ gates[g].seen["creation"] # None
    BY <1>6 DEF Verify, Inv, TypeOK
  <2>3. /\ gate.stage = stage /\ gate.policy = gates[g].policy
        /\ gate.seen = gates[g].seen /\ gate.held = gates[g].held
    BY <2>2 DEF GateStates
  <2>4. GateInv(gate)
    BY <2>2, <2>3 DEF GateInv, Accepts, SameRevision, Kinds
  <2>5. GateInv(gate)'
    BY <2>1, <2>4 DEF GateInv, Vouches, Protects
  <2> QED BY <2>1, <2>5, GateKeeps
<1>7. ASSUME NEW g \in Gates, GateFails(g) PROVE Inv'
  <2> PICK gate : gate = [gates[g] EXCEPT !.stage = "failed"]
    OBVIOUS
  <2>1. /\ gates' = [gates EXCEPT ![g] = gate]
        /\ UNCHANGED <<clock, live, owner, attestation>>
    BY <1>7 DEF GateFails
  <2>2. GateInv(gates[g]) /\ gates[g] \in GateStates
    BY DEF Inv, TypeOK
  <2>3. /\ gate.stage = "failed" /\ gate.policy = gates[g].policy
        /\ gate.seen = gates[g].seen /\ gate.held = gates[g].held
    BY <2>2 DEF GateStates
  <2>4. GateInv(gate)'
    BY <2>1, <2>2, <2>3 DEF GateInv, Vouches, Protects
  <2> QED BY <2>1, <2>4, GateKeeps
<1>8. ASSUME NEW g \in Gates, Rerun(g) PROVE Inv'
  <2> PICK gate : gate = [stage |-> "waiting", policy |-> None, seen |-> NothingRead,
                          held |-> FALSE]
    OBVIOUS
  <2>1. /\ gates' = [gates EXCEPT ![g] = gate]
        /\ UNCHANGED <<clock, live, owner, attestation>>
    BY <1>8 DEF Rerun
  <2>2. GateInv(gate)'
    BY DEF GateInv, NothingRead, Kinds
  <2> QED BY <2>1, <2>2, GateKeeps
<1>9. CASE UNCHANGED vars
  BY <1>0, <1>9 DEF vars, Inv, Current, GateInv, Vouches, Protects
<1> QED BY <1>1, <1>2, <1>3, <1>4, <1>5, <1>6, <1>7, <1>8, <1>9 DEF Next

\* It holds in the beginning.
LEMMA InvStarts ==
    ASSUME Init
    PROVE  Inv
BY PolicyAssumption, AbsenceAssumption
   DEF Init, Inv, TypeOK, Rulesets, GateStates, NothingRead, Kinds, GateInv

\* The inductive invariant holds whenever rulesets, owner and jobs move.
THEOREM Invariance == Spec => []Inv
BY InvStarts, InvKept, PTL DEF Spec

\* Rulesets, documents, evidence and gates are what their declarations say.
THEOREM TypeCorrect == Spec => []TypeOK
<1>1. Inv => TypeOK
  BY DEF Inv
<1> QED BY <1>1, Invariance, PTL

\* A job that passed the gate did so on rulesets that protected the release tags
\* together, at one moment of its checks.
THEOREM GateIsSound == Spec => []PassedWhileProtected
<1>1. Inv => PassedWhileProtected
  BY DEF Inv, GateInv, PassedWhileProtected
<1> QED BY <1>1, Invariance, PTL

-----------------------------------------------------------------------------
(* Rulesets that nobody edits are accepted. *)

\* What the job has read is not older than its policy and still true of a ruleset with
\* that revision; a refusal under a policy has an edit behind it.
ReadingInv(gate) ==
    /\ \A k \in Kinds : gate.seen[k] # None => Current(gate.seen[k], k)
    /\ gate.policy # None =>
          \A k \in Kinds :
              /\ gate.policy[k].narrow
              /\ gate.seen[k] # None => gate.policy[k].revision <= gate.seen[k].revision
    /\ gate.stage = "refused" /\ gate.policy # None =>
          \E k \in Kinds : live[k].revision # gate.policy[k].revision

AttestedInv ==
    /\ attestation # None => \A k \in Kinds : attestation[k].narrow
    /\ \A g \in Gates : ReadingInv(gates[g])

\* A ruleset stays as it is or gets a later revision.
LEMMA RevisionsRise ==
    ASSUME Inv, [Next]_vars, NEW k \in Kinds
    PROVE  /\ live[k].revision \in Nat /\ live'[k].revision \in Nat
           /\ live'[k] = live[k] \/ live[k].revision < live'[k].revision
<1>1. live[k].revision \in Nat /\ live[k].revision <= clock /\ clock \in Nat
  BY DEF Inv, TypeOK, Rulesets
<1>2. ASSUME NEW j \in Kinds, Edit(j)
      PROVE  live'[k] = live[k] \/ live'[k].revision = clock + 1
  BY <1>2 DEF Edit, Inv, TypeOK
<1>3. live' = live \/ \E j \in Kinds : Edit(j)
  BY DEF Next, vars, OwnerReads, Attest, StartGate, GateReads, Verify, GateFails, Rerun
<1> QED BY <1>1, <1>2, <1>3

\* Edits leave what a job has read true.
LEMMA ReadingKeeps ==
    ASSUME Inv, [Next]_vars, NEW gate \in GateStates, GateInv(gate), ReadingInv(gate)
    PROVE  ReadingInv(gate)'
<1>1. ASSUME NEW k \in Kinds, gate.seen[k] # None PROVE Current(gate.seen[k], k)'
  <2>1. gate.seen[k].revision \in Nat /\ Current(gate.seen[k], k)
    BY <1>1 DEF ReadingInv, GateStates, Documents
  <2> QED BY <2>1, RevisionsRise DEF Current
<1>2. ASSUME gate.policy # None, NEW k \in Kinds,
             live[k].revision # gate.policy[k].revision
      PROVE  live'[k].revision # gate.policy[k].revision
  <2>1. gate.policy[k].revision \in Nat /\ gate.policy[k].revision <= live[k].revision
    BY <1>2 DEF GateInv, Vouches, GateStates, Evidence
  <2> QED BY <1>2, <2>1, RevisionsRise
<1> QED BY <1>1, <1>2 DEF ReadingInv

\* A job that checks, while the rulesets stay as they are.
LEMMA ReadingMoves ==
    ASSUME Inv, [Next]_vars, AttestedInv, UNCHANGED <<clock, live, owner, attestation>>,
           NEW g \in Gates, NEW gate, gates' = [gates EXCEPT ![g] = gate], ReadingInv(gate)'
    PROVE  AttestedInv'
<1>1. ASSUME NEW h \in Gates
      PROVE  ReadingInv(gates[h])'
  <2>1. CASE h = g
    BY <2>1 DEF Inv, TypeOK
  <2>2. CASE h # g
    BY <2>2 DEF Inv, TypeOK, AttestedInv, ReadingInv, Current
  <2> QED BY <2>1, <2>2
<1> QED BY <1>1 DEF AttestedInv

\* Everybody but the jobs.
LEMMA ReadingStays ==
    ASSUME Inv, [Next]_vars, AttestedInv, UNCHANGED gates,
           attestation' # None => \A k \in Kinds : attestation'[k].narrow
    PROVE  AttestedInv'
<1>1. ASSUME NEW g \in Gates PROVE ReadingInv(gates[g])'
  <2>1. gates[g] \in GateStates /\ GateInv(gates[g]) /\ ReadingInv(gates[g])
    BY DEF Inv, TypeOK, AttestedInv
  <2> PICK gate \in GateStates : gate = gates[g]
    BY <2>1
  <2>2. ReadingInv(gate)'
    BY <2>1, ReadingKeeps
  <2> QED BY <2>2 DEF ReadingInv, Current
<1> QED BY <1>1 DEF AttestedInv

\* Rulesets with the attested revisions pass.
LEMMA UneditedPasses ==
    ASSUME Inv, AttestedInv, NEW g \in Gates, gates[g].seen["creation"] # None,
           gates[g].policy # None,
           \A k \in Kinds : live[k].revision = gates[g].policy[k].revision
    PROVE  Accepts(gates[g].policy, gates[g].seen)
<1> SUFFICES ASSUME NEW k \in Kinds
             PROVE  /\ SameRevision(gates[g].seen[k], gates[g].policy[k])
                    /\ gates[g].seen[k].strict
                    /\ gates[g].policy[k].narrow
  BY DEF Accepts
<1>1. GateInv(gates[g]) /\ ReadingInv(gates[g]) /\ gates[g] \in GateStates
  BY DEF Inv, TypeOK, AttestedInv
<1>2. gates[g].seen[k] # None
  BY <1>1 DEF GateInv, Kinds
<1>3. gates[g].seen[k].revision \in Nat /\ gates[g].policy[k].revision \in Nat
  BY <1>1, <1>2 DEF GateStates, Documents, Evidence
<1>4. /\ gates[g].policy[k].revision <= gates[g].seen[k].revision
      /\ gates[g].policy[k].narrow
      /\ Current(gates[g].seen[k], k)
  BY <1>1, <1>2 DEF ReadingInv
<1>5. gates[g].seen[k].revision = live[k].revision
  BY <1>3, <1>4 DEF Current
<1>6. Protects(live[k])
  BY <1>1 DEF GateInv, Vouches
<1> QED BY <1>4, <1>5, <1>6 DEF SameRevision, Current, Protects

\* The invariant is inductive, one case per action.
LEMMA AttestedKept ==
    ASSUME Inv, AttestedInv, [Next]_vars
    PROVE  AttestedInv'
<1>1. CASE UNCHANGED vars \/ \E k \in Kinds : Edit(k) \/ OwnerReads(k)
  BY <1>1, ReadingStays DEF vars, Edit, OwnerReads, AttestedInv
<1>2. CASE Attest
  <2>1. attestation' # None => \A k \in Kinds : attestation'[k].narrow
    BY <1>2 DEF Attest, Protects, AttestedInv
  <2> QED BY <1>2, <2>1, ReadingStays DEF Attest
<1>3. ASSUME NEW g \in Gates, StartGate(g) PROVE AttestedInv'
  <2> PICK gate : gate = [gates[g] EXCEPT !.stage = "started", !.policy = attestation]
    OBVIOUS
  <2>1. /\ gates' = [gates EXCEPT ![g] = gate]
        /\ UNCHANGED <<clock, live, owner, attestation>>
    BY <1>3 DEF StartGate
  <2>2. /\ gate.stage = "started" /\ gate.policy = attestation
        /\ gate.seen = NothingRead
    BY <1>3 DEF StartGate, Inv, TypeOK, GateStates, GateInv
  <2>3. ReadingInv(gate)'
    BY <2>1, <2>2 DEF ReadingInv, NothingRead, AttestedInv
  <2> QED BY <2>1, <2>3, ReadingMoves
<1>4. ASSUME NEW g \in Gates, NEW k \in Kinds, GateReads(g, k) PROVE AttestedInv'
  <2> PICK zone \in Zones :
          gates' = [gates EXCEPT ![g].seen[k] = Document(k, zone),
                                 ![g].held = IF k = "immutable" THEN Protected ELSE @]
    BY <1>4 DEF GateReads
  <2> PICK doc : doc = Document(k, zone)
    OBVIOUS
  <2> PICK gate : gate = [gates[g] EXCEPT !.seen = [gates[g].seen EXCEPT ![k] = doc],
                              !.held = IF k = "immutable" THEN Protected ELSE gates[g].held]
    OBVIOUS
  <2>1. /\ gates' = [gates EXCEPT ![g] = gate]
        /\ UNCHANGED <<clock, live, owner, attestation>>
    BY <1>4 DEF GateReads, Inv, TypeOK
  <2>2. /\ GateInv(gates[g]) /\ ReadingInv(gates[g]) /\ gates[g].stage = "started"
        /\ gates[g] \in GateStates
    BY <1>4 DEF GateReads, Inv, TypeOK, AttestedInv
  <2>3. /\ gate.stage = "started" /\ gate.policy = gates[g].policy
        /\ gate.seen = [gates[g].seen EXCEPT ![k] = doc]
        /\ gates[g].seen \in [Kinds -> Documents \cup {None}]
    BY <2>2 DEF GateStates
  <2>4. Current(doc, k) /\ doc.revision = live[k].revision
    BY DEF Current, Document, Inv, TypeOK, Rulesets
  <2>5. gate.policy # None => gate.policy[k].revision <= doc.revision
    BY <2>2, <2>3, <2>4 DEF GateInv, Vouches
  <2>6. ReadingInv(gate)
    BY <2>2, <2>3, <2>4, <2>5 DEF ReadingInv
  <2>7. ReadingInv(gate)'
    BY <2>1, <2>6 DEF ReadingInv, Current
  <2> QED BY <2>1, <2>7, ReadingMoves
<1>5. ASSUME NEW g \in Gates, Verify(g) PROVE AttestedInv'
  <2> PICK stage : stage = IF gates[g].policy # None /\ Accepts(gates[g].policy, gates[g].seen)
                           THEN "passed" ELSE "refused"
    OBVIOUS
  <2> PICK gate : gate = [gates[g] EXCEPT !.stage = stage]
    OBVIOUS
  <2>1. /\ gates' = [gates EXCEPT ![g] = gate]
        /\ UNCHANGED <<clock, live, owner, attestation>>
    BY <1>5 DEF Verify
  <2>2. /\ ReadingInv(gates[g]) /\ gates[g] \in GateStates
        /\ gates[g].seen["creation"] # None
    BY <1>5 DEF Verify, Inv, TypeOK, AttestedInv
  <2>3. gate.stage = stage /\ gate.policy = gates[g].policy /\ gate.seen = gates[g].seen
    BY <2>2 DEF GateStates
  <2>4. ReadingInv(gate)
    BY <2>2, <2>3, UneditedPasses DEF ReadingInv
  <2>5. ReadingInv(gate)'
    BY <2>1, <2>4 DEF ReadingInv, Current
  <2> QED BY <2>1, <2>5, ReadingMoves
<1>6. ASSUME NEW g \in Gates, GateFails(g) PROVE AttestedInv'
  <2> PICK gate : gate = [gates[g] EXCEPT !.stage = "failed"]
    OBVIOUS
  <2>1. /\ gates' = [gates EXCEPT ![g] = gate]
        /\ UNCHANGED <<clock, live, owner, attestation>>
    BY <1>6 DEF GateFails
  <2>2. ReadingInv(gates[g]) /\ gates[g] \in GateStates
    BY DEF Inv, TypeOK, AttestedInv
  <2>3. gate.stage = "failed" /\ gate.policy = gates[g].policy /\ gate.seen = gates[g].seen
    BY <2>2 DEF GateStates
  <2>4. ReadingInv(gate)'
    BY <2>1, <2>2, <2>3 DEF ReadingInv, Current
  <2> QED BY <2>1, <2>4, ReadingMoves
<1>7. ASSUME NEW g \in Gates, Rerun(g) PROVE AttestedInv'
  <2> PICK gate : gate = [stage |-> "waiting", policy |-> None, seen |-> NothingRead,
                          held |-> FALSE]
    OBVIOUS
  <2>1. /\ gates' = [gates EXCEPT ![g] = gate]
        /\ UNCHANGED <<clock, live, owner, attestation>>
    BY <1>7 DEF Rerun
  <2>2. ReadingInv(gate)'
    BY DEF ReadingInv, NothingRead
  <2> QED BY <2>1, <2>2, ReadingMoves
<1> QED BY <1>1, <1>2, <1>3, <1>4, <1>5, <1>6, <1>7 DEF Next

\* A job is refused for want of an attestation or for an edit, never for how the API
\* spells a revision or for when the job read the rulesets.
THEOREM UneditedPassesGate == Spec => []UneditedIsAccepted
<1>1. Init => AttestedInv
  BY AbsenceAssumption DEF Init, AttestedInv, ReadingInv, NothingRead
<1>2. Inv /\ AttestedInv /\ [Next]_vars => AttestedInv'
  BY AttestedKept
<1>3. AttestedInv => UneditedIsAccepted
  BY DEF AttestedInv, ReadingInv, UneditedIsAccepted
<1> QED BY <1>1, <1>2, <1>3, Invariance, PTL DEF Spec

-----------------------------------------------------------------------------
(* ProtectedTag *)

\* An immutable Release has its tag; what a job reported goes through its gate.
RemoteInv ==
    /\ release = "immutable" => tag # "none"
    /\ \A g \in Gates :
          /\ jobs[g] # "gate" => gates[g].stage = "passed"
          /\ gates[g].stage = "passed" => gates[g].policy # None
          /\ jobs[g] = "done" => release = "immutable"

ProtectedInv == ProtectedTypeOK /\ Inv /\ RemoteInv /\ UneditedTagIsOurs

\* Every step is one of the gate's.
LEMMA StepsOfPolicy ==
    ASSUME [ProtectedNext]_protectedVars
    PROVE  [Next]_vars
BY DEF ProtectedNext, protectedVars, GateStep, ReconcileTag, CreateRelease, JobFails,
       RerunJob, OwnerSwitches, OutsiderCreates, OutsiderChanges, Next

\* Rulesets that have the attested revisions protect the tags.
LEMMA UneditedProtects ==
    ASSUME Inv, NEW g \in Gates, gates[g].policy # None, Unedited(g), NEW k \in Kinds
    PROVE  Protects(live[k])
BY DEF Inv, GateInv, Vouches, Unedited
\* Only an edit or a new attempt changes what a job that passed relies on.
LEMMA PassedStays ==
    ASSUME ProtectedInv, GateStep, NEW g \in Gates, gates'[g].stage = "passed"
    PROVE  /\ gates'[g].policy # None
           /\ gates[g].stage = "passed" => gates'[g] = gates[g]
<1> USE DEF ProtectedInv, ProtectedTypeOK, RemoteInv
<1>1. gates[g].stage = "passed" => gates'[g] = gates[g]
  BY DEF GateStep
<1>2. ASSUME gates[g].stage # "passed" PROVE gates'[g].policy # None
  <2>1. PICK h \in Gates : Verify(h)
    <3>1. ASSUME NEW h \in Gates, NEW gate \in GateStates,
                 gates' = [gates EXCEPT ![h] = gate], gate.stage # "passed"
          PROVE  FALSE
      BY <1>2, <3>1 DEF TypeOK
    <3>2. \A h \in Gates : gates[h] \in GateStates
      BY DEF TypeOK
    <3>3. ASSUME NEW h \in Gates, StartGate(h) PROVE FALSE
      BY <1>2, <3>3 DEF StartGate, TypeOK, GateStates
    <3>4. ASSUME NEW h \in Gates, NEW k \in Kinds, GateReads(h, k) PROVE FALSE
      BY <1>2, <3>4 DEF GateReads, TypeOK, GateStates
    <3>5. ASSUME NEW h \in Gates, GateFails(h) \/ Rerun(h) PROVE FALSE
      BY <1>2, <3>5 DEF GateFails, Rerun, TypeOK, GateStates
    <3>6. ASSUME UNCHANGED gates PROVE FALSE
      BY <1>2, <3>6
    <3> QED BY <3>3, <3>4, <3>5, <3>6 DEF GateStep, Next, Edit, OwnerReads, Attest
  <2>2. gates[h].policy # None /\ gates' = [gates EXCEPT ![h].stage = "passed"]
    BY <1>2, <2>1 DEF Verify, TypeOK, GateStates
  <2> QED BY <1>2, <2>2 DEF TypeOK, GateStates
<1>3. gates[g].stage = "passed" => gates[g].policy # None
  OBVIOUS
<1> QED BY <1>1, <1>2, <1>3

\* An edit is seen: revisions only move forward, past every attested one.
LEMMA EditsShow ==
    ASSUME ProtectedInv, GateStep, NEW g \in Gates, gates[g].stage = "passed",
           Unedited(g)'
    PROVE  Unedited(g)
<1>1. /\ gates'[g] = gates[g] /\ gates[g].policy # None
      /\ gates[g].policy \in [Kinds -> Evidence]
      /\ Vouches(gates[g].policy)
  BY DEF ProtectedInv, ProtectedTypeOK, RemoteInv, TypeOK, GateStates, GateStep, Inv, GateInv
<1>2. CASE UNCHANGED live
  BY <1>1, <1>2 DEF Unedited
<1>3. ASSUME NEW k \in Kinds, Edit(k) PROVE FALSE
  <2>1. /\ live'[k].revision = clock + 1 /\ clock \in Nat
        /\ live[k].revision \in Nat /\ live[k].revision <= clock
        /\ gates[g].policy[k].revision \in Nat
    BY <1>1, <1>3 DEF Edit, ProtectedInv, Inv, TypeOK, Rulesets, Evidence
  <2>2. gates[g].policy[k].revision <= live[k].revision
    BY <1>1 DEF Vouches
  <2> QED BY <1>1, <2>1, <2>2 DEF Unedited
<1>4. UNCHANGED live \/ \E k \in Kinds : Edit(k)
  BY DEF GateStep, Next, OwnerReads, Attest, StartGate, GateReads, Verify, GateFails, Rerun
<1> QED BY <1>2, <1>3, <1>4

\* The invariant is inductive: an outsider only reaches a tag whose rulesets changed.
LEMMA ProtectedKept ==
    ASSUME ProtectedInv, [ProtectedNext]_protectedVars
    PROVE  ProtectedInv'
<1> USE DEF ProtectedInv
<1>1. [Next]_vars /\ Inv' /\ TypeOK'
  <2>1. [Next]_vars
    BY StepsOfPolicy
  <2>2. Inv'
    BY <2>1, InvKept
  <2> QED BY <2>1, <2>2 DEF Inv
<1>2. CASE GateStep
  <2>1. UNCHANGED <<remote, jobs>>
    BY <1>2 DEF GateStep
  <2>2. ProtectedTypeOK'
    BY <1>1, <2>1 DEF ProtectedTypeOK, remote
  <2>3. RemoteInv'
    <3>1. ASSUME NEW g \in Gates
          PROVE  /\ gates[g].stage = "passed" => gates'[g] = gates[g]
                 /\ gates'[g].stage = "passed" => gates'[g].policy # None
      BY <1>2, PassedStays DEF GateStep
    <3> QED BY <2>1, <3>1 DEF RemoteInv, remote
  <2>4. ASSUME NEW g \in Gates, (Behind(g, "tagged") \/ Behind(g, "done"))', Unedited(g)'
        PROVE  tag' = "ours"
    <3>1. jobs[g] # "gate"
      BY <2>1, <2>4 DEF Behind
    <3>2. gates[g].stage = "passed"
      BY <3>1 DEF RemoteInv
    <3>3. Behind(g, "tagged") \/ Behind(g, "done")
      BY <2>1, <2>4, <3>2 DEF Behind
    <3>4. Unedited(g)
      BY <1>2, <2>4, <3>2, EditsShow
    <3> QED BY <2>1, <3>3, <3>4 DEF UneditedTagIsOurs, remote
  <2> QED BY <1>1, <2>2, <2>3, <2>4 DEF UneditedTagIsOurs
<1>3. ASSUME NEW g \in Gates, ReconcileTag(g) PROVE ProtectedInv'
  BY <1>1, <1>3 DEF ReconcileTag, ProtectedTypeOK, RemoteInv, UneditedTagIsOurs, Behind,
                    Unedited, vars
<1>4. ASSUME NEW g \in Gates, CreateRelease(g) PROVE ProtectedInv'
  BY <1>1, <1>4 DEF CreateRelease, Created, ProtectedTypeOK, RemoteInv, UneditedTagIsOurs,
                    Behind, Unedited, vars
<1>5. ASSUME NEW g \in Gates, JobFails(g) PROVE ProtectedInv'
  BY <1>1, <1>5 DEF JobFails, ProtectedTypeOK, RemoteInv, UneditedTagIsOurs, Behind,
                    Unedited, vars, remote
<1>6. ASSUME NEW g \in Gates, RerunJob(g) PROVE ProtectedInv'
  <2>1. /\ gates' = [gates EXCEPT ![g] = gates'[g]]
        /\ gates'[g].stage = "waiting"
    BY <1>6 DEF RerunJob, Rerun, ProtectedTypeOK, TypeOK
  <2>2. \A h \in Gates \ {g} : gates'[h] = gates[h] /\ jobs'[h] = jobs[h]
    BY <1>6, <2>1 DEF RerunJob, ProtectedTypeOK, TypeOK
  <2>3. jobs' \in [Gates -> {"gate", "tagged", "failed", "done"}] /\ jobs'[g] = "gate"
    BY <1>6 DEF RerunJob, ProtectedTypeOK
  <2>4. UNCHANGED <<remote, live>>
    BY <1>6 DEF RerunJob, Rerun
  <2> QED BY <1>1, <2>1, <2>2, <2>3, <2>4
          DEF ProtectedTypeOK, RemoteInv, UneditedTagIsOurs, Behind, Unedited, remote
<1>7. CASE OwnerSwitches
  BY <1>1, <1>7 DEF OwnerSwitches, ProtectedTypeOK, RemoteInv, UneditedTagIsOurs, Behind,
                    Unedited, vars
<1>8. CASE OutsiderCreates
  BY <1>1, <1>8 DEF OutsiderCreates, ProtectedTypeOK, RemoteInv, UneditedTagIsOurs, Behind,
                    Unedited, vars
<1>9. CASE OutsiderChanges
  <2>1. \A g \in Gates : Behind(g, "tagged") \/ Behind(g, "done") => ~Unedited(g)
    BY <1>9, UneditedProtects DEF OutsiderChanges, RemoteInv, Behind, Kinds
  <2> QED BY <1>1, <1>9, <2>1 DEF OutsiderChanges, ProtectedTypeOK, RemoteInv,
                    UneditedTagIsOurs, Behind, Unedited, vars
<1>10. CASE UNCHANGED protectedVars
  BY <1>1, <1>10 DEF protectedVars, remote, ProtectedTypeOK, RemoteInv, UneditedTagIsOurs,
                     Behind, Unedited, vars
<1> QED BY <1>2, <1>3, <1>4, <1>5, <1>6, <1>7, <1>8, <1>9, <1>10 DEF ProtectedNext

\* The invariant of the whole job.
THEOREM ProtectedInvariance == ProtectedSpec => []ProtectedInv
<1>1. ProtectedInit => ProtectedInv
  <2> SUFFICES ASSUME ProtectedInit PROVE ProtectedInv
    OBVIOUS
  <2>1. Inv /\ TypeOK
    BY InvStarts DEF ProtectedInit, Inv
  <2>2. \A g \in Gates : gates[g].stage = "waiting" /\ jobs[g] = "gate"
    BY DEF ProtectedInit, Init
  <2>3. ProtectedTypeOK
    BY <2>1 DEF ProtectedInit, ProtectedTypeOK
  <2> QED BY <2>1, <2>2, <2>3
          DEF ProtectedInit, ProtectedInv, RemoteInv, UneditedTagIsOurs, Behind
<1> QED BY <1>1, ProtectedKept, PTL DEF ProtectedSpec

\* Types of the job's and the remote's state.
THEOREM ProtectedTypeCorrect == ProtectedSpec => []ProtectedTypeOK
<1>1. ProtectedInv => ProtectedTypeOK
  BY DEF ProtectedInv
<1> QED BY <1>1, ProtectedInvariance, PTL

\* While nobody edits a ruleset the owner attested, the tag of a job that reported it
\* stays what was planned.
THEOREM UneditedTagStays == ProtectedSpec => []UneditedTagIsOurs
<1>1. ProtectedInv => UneditedTagIsOurs
  BY DEF ProtectedInv
<1> QED BY <1>1, ProtectedInvariance, PTL

\* A green job's tag exists and never changes again, whatever anybody edits.
THEOREM GreenStays == ProtectedSpec => GreenIsForever
<1>1. ASSUME ProtectedInv, [ProtectedNext]_protectedVars, NEW g \in Gates, Behind(g, "done")
      PROVE  tag' = tag /\ tag # "none"
  <2>1. release = "immutable" /\ tag # "none" /\ tag \in {"none", "ours", "foreign"}
    BY <1>1 DEF ProtectedInv, ProtectedTypeOK, RemoteInv, Behind
  <2> QED BY <1>1, <2>1 DEF ProtectedNext, protectedVars, remote, GateStep, ReconcileTag,
             CreateRelease, JobFails, RerunJob, OwnerSwitches, OutsiderCreates, OutsiderChanges
<1>2. ProtectedInv /\ [ProtectedNext]_protectedVars
        => [\A g \in Gates : Behind(g, "done") => tag' = tag /\ tag # "none"]_protectedVars
  BY <1>1
<1> QED BY <1>2, ProtectedInvariance, PTL DEF ProtectedSpec, GreenIsForever

-----------------------------------------------------------------------------
(* NotesPipeline *)

Producers == {"generate", "scan"}

\* A job has outputs while it counts as successful.
OutputsOfSuccess ==
    \A job \in Producers : outputs[job] # NoNotes <=> result[job] = "success"

\* The artifact behind an output is of its job, and intact or expired.
OutputsAreStored ==
    \A job \in Producers : outputs[job] # NoNotes =>
        /\ outputs[job].name[1] = job
        /\ \/ artifacts[outputs[job].name] = outputs[job].digest
           \/ artifacts[outputs[job].name] = NoNotes /\ outputs[job].name \in expired

\* What the scan job hands on is what it was given, and was scanned.
ScanHandsOn ==
    outputs["scan"] # NoNotes =>
        /\ outputs["generate"] # NoNotes
        /\ outputs["scan"].digest = outputs["generate"].digest
        /\ outputs["generate"].digest \in scanned

\* A job that misses its artifact was told of one.
MissingWasPromised ==
    /\ result["scan"] = "missing" => outputs["generate"] # NoNotes
    /\ result["publish"] = "missing" => outputs["scan"] # NoNotes

\* A tag never changes once a run expects it.
ExpectedIsTag == expected \in {NoNotes, bound}

PipelineInv ==
    /\ PipelineTypeOK /\ OutputsOfSuccess /\ OutputsAreStored /\ ScanHandsOn
    /\ MissingWasPromised /\ ExpectedIsTag
    /\ TagBindsScannedNotes /\ ReleaseShowsBoundNotes
    /\ MissedMeansExpired /\ RecoveredNotesAreBound

\* The invariant when the run starts.
LEMMA PipelineStarts == PipelineInit => PipelineInv
<1> SUFFICES ASSUME PipelineInit PROVE PipelineInv
    OBVIOUS
<1> USE DEF PipelineInit
<1>1. PipelineTypeOK
  <2>1. result \in [Jobs -> Results] BY DEF Results
  <2>2. attempt \in 1..MaxAttempts BY PipelineAssumption
  <2>3. outputs \in [{"generate", "scan"} -> [name : Names, digest : Notes] \cup {NoNotes}]
    OBVIOUS
  <2>4. artifacts \in [Names -> Notes \cup {NoNotes}] OBVIOUS
  <2>5. QED BY <2>1, <2>2, <2>3, <2>4 DEF PipelineTypeOK
<1>2. OutputsOfSuccess /\ OutputsAreStored /\ ScanHandsOn /\ MissingWasPromised /\ ExpectedIsTag
  BY DEF OutputsOfSuccess, OutputsAreStored, ScanHandsOn, MissingWasPromised, ExpectedIsTag,
         Producers, Jobs
<1>3. TagBindsScannedNotes /\ ReleaseShowsBoundNotes /\ MissedMeansExpired /\ RecoveredNotesAreBound
  BY DEF TagBindsScannedNotes, ReleaseShowsBoundNotes, MissedMeansExpired, RecoveredNotesAreBound,
         Jobs
<1>4. QED BY <1>1, <1>2, <1>3 DEF PipelineInv

\* The renderer's job.
LEMMA GenerateKept == ASSUME PipelineInv, Generate PROVE PipelineInv'
<1> USE DEF PipelineInv, Generate, Ready, Uploads, Ends
<1>1. <<"generate", attempt>> \in Names BY DEF PipelineTypeOK, Names
<1>2. outputs["generate"] = NoNotes /\ outputs["scan"] = NoNotes
  BY DEF OutputsOfSuccess, ScanHandsOn, Producers
<1>3. PipelineTypeOK' BY <1>1 DEF PipelineTypeOK, Jobs, Results
<1>4. [name |-> <<"generate", attempt>>, digest |-> rendered] # NoNotes
  BY <1>1, PipelineAssumption DEF PipelineTypeOK, Names
<1>5. OutputsOfSuccess' BY <1>4 DEF OutputsOfSuccess, PipelineTypeOK, Jobs, Producers
<1>6. OutputsAreStored' BY <1>1, <1>2 DEF OutputsAreStored, PipelineTypeOK, Producers
<1>7. ScanHandsOn' BY <1>2 DEF ScanHandsOn, PipelineTypeOK
<1>8. MissingWasPromised' BY <1>2 DEF MissingWasPromised, PipelineTypeOK, Jobs
<1>9. ExpectedIsTag' /\ TagBindsScannedNotes' /\ ReleaseShowsBoundNotes'
  BY DEF ExpectedIsTag, TagBindsScannedNotes, ReleaseShowsBoundNotes, PipelineTypeOK, Jobs
<1>10. MissedMeansExpired' BY <1>2 DEF MissedMeansExpired, MissingWasPromised, PipelineTypeOK, Jobs
<1>11. RecoveredNotesAreBound'
  BY <1>2 DEF RecoveredNotesAreBound, ExpectedIsTag, OutputsOfSuccess, PipelineTypeOK, Jobs, Producers
<1> QED BY <1>3, <1>5, <1>6, <1>7, <1>8, <1>9, <1>10, <1>11

\* The scanner's job.
LEMMA ScanKept == ASSUME PipelineInv, Scan PROVE PipelineInv'
<1> USE DEF PipelineInv, Scan, Ready, Uploads, Ends
<1> DEFINE digest == outputs["generate"].digest
<1>1. <<"scan", attempt>> \in Names BY DEF PipelineTypeOK, Names
<1>2. outputs["generate"] # NoNotes /\ outputs["scan"] = NoNotes
  BY DEF OutputsOfSuccess, Producers
<1>3. digest \in Notes BY <1>2 DEF PipelineTypeOK
<1>4. [name |-> <<"scan", attempt>>, digest |-> digest] # NoNotes
  BY <1>1, <1>3, PipelineAssumption DEF Names
<1>5. /\ scanned' = scanned \cup {digest}
      /\ artifacts' = [artifacts EXCEPT ![<<"scan", attempt>>] = digest]
      /\ \/ /\ result' = [result EXCEPT !["scan"] = "success"]
            /\ outputs' = [outputs EXCEPT
                              !["scan"] = [name |-> <<"scan", attempt>>, digest |-> digest]]
         \/ result' = [result EXCEPT !["scan"] = "failed"] /\ UNCHANGED outputs
      /\ UNCHANGED <<attempt, rendered, expected, expired, bound, shown, edited>>
  OBVIOUS
<1> HIDE DEF Scan, Uploads, Ends, digest
<1>6. PipelineTypeOK'
  <2>1. digest \in Bytes BY <1>3 DEF Bytes
  <2> QED BY <1>1, <1>3, <1>5, <2>1 DEF PipelineTypeOK, Jobs, Results
<1>7. OutputsOfSuccess' BY <1>2, <1>4, <1>5 DEF OutputsOfSuccess, PipelineTypeOK, Jobs, Producers
<1>8. OutputsAreStored' BY <1>1, <1>2, <1>5 DEF OutputsAreStored, PipelineTypeOK, Producers
<1>9. ScanHandsOn' BY <1>2, <1>5 DEF ScanHandsOn, PipelineTypeOK, digest
<1>10. MissingWasPromised' BY <1>2, <1>5 DEF MissingWasPromised, PipelineTypeOK, Jobs
<1>11. ExpectedIsTag' /\ TagBindsScannedNotes' /\ ReleaseShowsBoundNotes'
  BY <1>5 DEF ExpectedIsTag, TagBindsScannedNotes, ReleaseShowsBoundNotes, PipelineTypeOK, Jobs
<1>12. MissedMeansExpired'
  BY <1>2, <1>5 DEF MissedMeansExpired, MissingWasPromised, PipelineTypeOK, Jobs
<1>13. RecoveredNotesAreBound'
  BY <1>2, <1>5 DEF RecoveredNotesAreBound, OutputsOfSuccess, PipelineTypeOK, Jobs, Producers, digest
<1> QED BY <1>6, <1>7, <1>8, <1>9, <1>10, <1>11, <1>12, <1>13

\* The publisher's job.
LEMMA PublishKept == ASSUME PipelineInv, Publish PROVE PipelineInv'
<1> USE DEF PipelineInv, Publish, Ready, Ends
<1> DEFINE digest == outputs["generate"].digest
<1>1. outputs["generate"] # NoNotes /\ outputs["scan"] # NoNotes
  BY DEF OutputsOfSuccess, ScanHandsOn, Producers
<1>2. digest \in Notes /\ digest # NoNotes BY <1>1, PipelineAssumption DEF PipelineTypeOK
<1>3. digest \in scanned BY <1>1 DEF ScanHandsOn
<1>4. PipelineTypeOK' BY <1>2 DEF PipelineTypeOK, Verified, Bytes, Jobs, Results
<1>5. OutputsOfSuccess' BY DEF OutputsOfSuccess, PipelineTypeOK, Jobs, Producers
<1>6. OutputsAreStored' /\ ScanHandsOn' BY DEF OutputsAreStored, ScanHandsOn
<1>7. MissingWasPromised' BY DEF MissingWasPromised, PipelineTypeOK, Jobs
<1>8. ExpectedIsTag' BY DEF ExpectedIsTag
<1>9. TagBindsScannedNotes' BY <1>3 DEF TagBindsScannedNotes
<1>10. ReleaseShowsBoundNotes'
  BY <1>2 DEF ReleaseShowsBoundNotes, Verified, PipelineTypeOK, Jobs
<1>11. MissedMeansExpired' BY DEF MissedMeansExpired, PipelineTypeOK, Jobs
<1>12. RecoveredNotesAreBound'
  BY DEF RecoveredNotesAreBound, ExpectedIsTag, PipelineTypeOK, Jobs, Producers
<1> QED BY <1>4, <1>5, <1>6, <1>7, <1>8, <1>9, <1>10, <1>11, <1>12

\* A job that fails.
LEMMA FailsKept == ASSUME PipelineInv, NEW job \in Jobs, Fails(job) PROVE PipelineInv'
<1> USE DEF PipelineInv, Fails, Ready, Ends
<1>1. PipelineTypeOK' BY DEF PipelineTypeOK, Jobs, Results
<1>2. OutputsOfSuccess' BY DEF OutputsOfSuccess, PipelineTypeOK, Jobs, Producers
<1>3. OutputsAreStored' /\ ScanHandsOn' BY DEF OutputsAreStored, ScanHandsOn
<1>4. MissingWasPromised' BY DEF MissingWasPromised, PipelineTypeOK, Jobs
<1>5. ExpectedIsTag' /\ TagBindsScannedNotes' /\ ReleaseShowsBoundNotes'
  BY DEF ExpectedIsTag, TagBindsScannedNotes, ReleaseShowsBoundNotes, PipelineTypeOK, Jobs
<1>6. MissedMeansExpired' BY DEF MissedMeansExpired, PipelineTypeOK, Jobs
<1>7. RecoveredNotesAreBound' BY DEF RecoveredNotesAreBound, PipelineTypeOK, Jobs, Producers
<1> QED BY <1>1, <1>2, <1>3, <1>4, <1>5, <1>6, <1>7

\* A job that misses its artifact: it was promised one, so it has expired.
LEMMA MissesKept == ASSUME PipelineInv, NEW job \in {"scan", "publish"}, Misses(job) PROVE PipelineInv'
<1> USE DEF PipelineInv, Misses, Ready, Ends
<1> DEFINE producer == IF job = "scan" THEN "generate" ELSE "scan"
<1>1. outputs[producer] # NoNotes BY DEF OutputsOfSuccess, Producers
<1>2. outputs[producer].name \in expired
  <2>1. outputs[producer].digest \in Notes BY <1>1 DEF PipelineTypeOK
  <2>2. artifacts[outputs[producer].name] = NoNotes BY DEF Stored, Consumed
  <2> QED BY <1>1, <2>1, <2>2, PipelineAssumption DEF OutputsAreStored, Producers
<1>3. PipelineTypeOK' BY DEF PipelineTypeOK, Jobs, Results
<1>4. OutputsOfSuccess' BY DEF OutputsOfSuccess, PipelineTypeOK, Jobs, Producers
<1>5. OutputsAreStored' /\ ScanHandsOn' BY DEF OutputsAreStored, ScanHandsOn
<1>6. MissingWasPromised' BY <1>1 DEF MissingWasPromised, PipelineTypeOK, Jobs
<1>7. ExpectedIsTag' /\ TagBindsScannedNotes' /\ ReleaseShowsBoundNotes'
  BY DEF ExpectedIsTag, TagBindsScannedNotes, ReleaseShowsBoundNotes, PipelineTypeOK, Jobs
<1>8. MissedMeansExpired' BY <1>2 DEF MissedMeansExpired, PipelineTypeOK, Jobs
<1>9. RecoveredNotesAreBound' BY DEF RecoveredNotesAreBound, PipelineTypeOK, Jobs, Producers
<1> QED BY <1>3, <1>4, <1>5, <1>6, <1>7, <1>8, <1>9

\* An artifact expires.
LEMMA ExpireKept == ASSUME PipelineInv, NEW name \in Names, Expire(name) PROVE PipelineInv'
<1> USE DEF PipelineInv, Expire
<1>1. PipelineTypeOK' BY DEF PipelineTypeOK
<1>2. OutputsAreStored' BY DEF OutputsAreStored, PipelineTypeOK, Producers
<1>3. OutputsOfSuccess' /\ ScanHandsOn' /\ MissingWasPromised' /\ ExpectedIsTag'
  BY DEF OutputsOfSuccess, ScanHandsOn, MissingWasPromised, ExpectedIsTag
<1>4. TagBindsScannedNotes' /\ ReleaseShowsBoundNotes' /\ RecoveredNotesAreBound'
  BY DEF TagBindsScannedNotes, ReleaseShowsBoundNotes, RecoveredNotesAreBound
<1>5. MissedMeansExpired' BY DEF MissedMeansExpired
<1> QED BY <1>1, <1>2, <1>3, <1>4, <1>5

\* Somebody edits the Release.
LEMMA EditKept == ASSUME PipelineInv, EditRelease PROVE PipelineInv'
<1> USE DEF PipelineInv, EditRelease
<1>1. shown' # NoNotes BY PipelineAssumption DEF Bytes
<1>2. PipelineTypeOK' BY DEF PipelineTypeOK
<1>3. OutputsOfSuccess' /\ OutputsAreStored' /\ ScanHandsOn'
  BY DEF OutputsOfSuccess, OutputsAreStored, ScanHandsOn
<1>4. MissingWasPromised' /\ MissedMeansExpired' /\ RecoveredNotesAreBound'
  BY DEF MissingWasPromised, MissedMeansExpired, RecoveredNotesAreBound
<1>5. ExpectedIsTag' /\ TagBindsScannedNotes' /\ ReleaseShowsBoundNotes'
  BY <1>1 DEF ExpectedIsTag, TagBindsScannedNotes, ReleaseShowsBoundNotes
<1> QED BY <1>2, <1>3, <1>4, <1>5

\* A re-run of what failed keeps the outputs of what succeeded.
LEMMA RerunFailedKept == ASSUME PipelineInv, RerunFailed PROVE PipelineInv'
<1> USE DEF PipelineInv, RerunFailed, Over
<1>1. PipelineTypeOK' BY PipelineAssumption DEF PipelineTypeOK, Jobs, Results
<1>2. OutputsOfSuccess' BY DEF OutputsOfSuccess, PipelineTypeOK, Jobs, Producers
<1>3. OutputsAreStored' /\ ScanHandsOn' BY DEF OutputsAreStored, ScanHandsOn
<1>4. MissingWasPromised' /\ MissedMeansExpired'
  BY DEF MissingWasPromised, MissedMeansExpired, PipelineTypeOK, Jobs
<1>5. ExpectedIsTag' /\ TagBindsScannedNotes' /\ ReleaseShowsBoundNotes'
  BY DEF ExpectedIsTag, TagBindsScannedNotes, ReleaseShowsBoundNotes, PipelineTypeOK, Jobs
<1>6. RecoveredNotesAreBound' BY DEF RecoveredNotesAreBound, PipelineTypeOK, Jobs, Producers
<1> QED BY <1>1, <1>2, <1>3, <1>4, <1>5, <1>6

\* A re-run of everything starts without outputs, on the tag that exists by then.
LEMMA RerunAllKept == ASSUME PipelineInv, RerunAll PROVE PipelineInv'
<1> USE DEF PipelineInv, RerunAll
<1>1. PipelineTypeOK' BY PipelineAssumption DEF PipelineTypeOK, Jobs, Results
<1>2. OutputsOfSuccess' /\ OutputsAreStored' /\ ScanHandsOn'
  BY DEF OutputsOfSuccess, OutputsAreStored, ScanHandsOn, Jobs, Producers
<1>3. MissingWasPromised' /\ MissedMeansExpired' /\ RecoveredNotesAreBound'
  BY DEF MissingWasPromised, MissedMeansExpired, RecoveredNotesAreBound, Jobs
<1>4. ExpectedIsTag' /\ TagBindsScannedNotes' /\ ReleaseShowsBoundNotes'
  BY DEF ExpectedIsTag, TagBindsScannedNotes, ReleaseShowsBoundNotes, PipelineTypeOK, Jobs
<1> QED BY <1>1, <1>2, <1>3, <1>4

\* Every step of the run and of GitHub keeps the invariant.
LEMMA PipelineKept == PipelineInv /\ [PipelineNext]_pipelineVars => PipelineInv'
<1> SUFFICES ASSUME PipelineInv, [PipelineNext]_pipelineVars PROVE PipelineInv' OBVIOUS
<1>1. CASE UNCHANGED pipelineVars
  BY <1>1 DEF pipelineVars, PipelineInv, PipelineTypeOK, OutputsOfSuccess, OutputsAreStored, ScanHandsOn,
      MissingWasPromised, ExpectedIsTag, TagBindsScannedNotes, ReleaseShowsBoundNotes,
      MissedMeansExpired, RecoveredNotesAreBound
<1>2. CASE PipelineNext
  BY <1>2, GenerateKept, ScanKept, PublishKept, FailsKept, MissesKept, ExpireKept, EditKept,
     RerunFailedKept, RerunAllKept DEF PipelineNext
<1> QED BY <1>1, <1>2

\* The inductive invariant.
THEOREM PipelineInvariance == PipelineSpec => []PipelineInv
BY PipelineStarts, PipelineKept, PTL DEF PipelineSpec

\* Whatever two runners and their downloads do, stored and bound notes are rendered ones.
THEOREM PipelineTypeCorrect == PipelineSpec => []PipelineTypeOK
<1>1. PipelineInv => PipelineTypeOK BY DEF PipelineInv
<1> QED BY <1>1, PipelineInvariance, PTL

\* No tag binds notes that were not scanned.
THEOREM TagIsScanned == PipelineSpec => []TagBindsScannedNotes
<1>1. PipelineInv => TagBindsScannedNotes BY DEF PipelineInv
<1> QED BY <1>1, PipelineInvariance, PTL

\* What the jobs make of the Release, and turn green on, is what the tag binds, among
\* people who edit it at any moment.
THEOREM ReleaseIsBound == PipelineSpec => []ReleaseShowsBoundNotes
<1>1. PipelineInv => ReleaseShowsBoundNotes BY DEF PipelineInv
<1> QED BY <1>1, PipelineInvariance, PTL

\* Only expired artifacts are missed, in any mixture of attempts.
THEOREM OnlyExpiredIsMissed == PipelineSpec => []MissedMeansExpired
<1>1. PipelineInv => MissedMeansExpired BY DEF PipelineInv
<1> QED BY <1>1, PipelineInvariance, PTL

\* After the tag exists, a full re-run passes its bytes on and no others.
THEOREM RecoveryIsBound == PipelineSpec => []RecoveredNotesAreBound
<1>1. PipelineInv => RecoveredNotesAreBound BY DEF PipelineInv
<1> QED BY <1>1, PipelineInvariance, PTL

\* From the renderer to the Release and back, in any attempt, and around any edits.
THEOREM NotesStayBound == PipelineSpec => []NotesAreBound
BY TagIsScanned, ReleaseIsBound, RecoveryIsBound, PTL DEF NotesAreBound

-----------------------------------------------------------------------------
(* The jobs side by side *)

\* The behaviour is about the job behind the gate.
AboutPublish == part = "publish"

\* Put beside the others, the gate and the notes do what they do alone: their steps are
\* their own or leave them at rest.  The steps behind the gate are part of the gate's
\* specification, and the job as a whole does what it does alone when it is the part.
LEMMA PartsAreWhole ==
    MCSpec => Spec /\ PipelineSpec /\ (AboutPublish => ProtectedSpec)
<1>1. MCInit => Init /\ ProtectedInit /\ PipelineInit
  BY DEF MCInit, ProtectedInit
<1>2. [MCNext]_<<part, protectedVars, pipelineVars, subjects>> => [Next]_vars
  <2>1. [ProtectedNext]_protectedVars => [Next]_vars
    BY StepsOfPolicy
  <2> QED BY <2>1 DEF MCNext, protectedVars
<1>3. [MCNext]_<<part, protectedVars, pipelineVars, subjects>> =>
          [PipelineNext]_pipelineVars
  BY DEF MCNext
<1>4. [MCNext]_<<part, protectedVars, pipelineVars, subjects>> =>
          (AboutPublish => AboutPublish' /\ [ProtectedNext]_protectedVars)
  BY DEF MCNext, AboutPublish
<1> QED BY <1>1, <1>2, <1>3, <1>4, PTL DEF MCSpec, Spec, ProtectedSpec, PipelineSpec

\* The remote and the jobs behind the gate keep their types in each part.
LEMMA RemoteTypeKept ==
    ASSUME ProtectedTypeOK, TypeOK',
           [MCNext]_<<part, protectedVars, pipelineVars, subjects>>
    PROVE  ProtectedTypeOK'
<1> USE DEF ProtectedTypeOK, remote
<1>1. CASE UNCHANGED <<remote, jobs>>
  BY <1>1
<1>2. CASE ProtectedNext
  BY <1>2 DEF ProtectedNext, GateStep, ReconcileTag, CreateRelease, Created, JobFails,
              RerunJob, OwnerSwitches, OutsiderCreates, OutsiderChanges
<1> QED BY <1>1, <1>2 DEF MCNext, protectedVars

\* What the jobs of a run hand on keeps its type, whichever job takes the next step.
THEOREM JobPartsTypeCorrect == MCSpec => []JobPartsTypeOK
<1>1. MCInit => (TypeOK => ProtectedTypeOK)
  BY DEF MCInit, ProtectedInit, ProtectedTypeOK
<1> QED BY <1>1, PartsAreWhole, TypeCorrect, PipelineTypeCorrect, RemoteTypeKept, PTL
        DEF MCSpec, JobPartsTypeOK
=============================================================================
