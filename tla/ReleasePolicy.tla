---------------------------- MODULE ReleasePolicy ----------------------------
(***************************************************************************)
(* The gate in front of every tag: two rulesets must make release tags     *)
(* append-only.  The publishing token cannot see who may bypass a ruleset, *)
(* so an owner attests that beforehand (create_policy_attestation), and    *)
(* the workflow accepts the attestation while both rulesets still have the *)
(* attested revision (verify_attested_release_rulesets).  Rulesets are     *)
(* read one by one while administrators edit them.                         *)
(***************************************************************************)
EXTENDS Integers

CONSTANTS
    Gates,     \* jobs that pass the gate
    MaxEdits,  \* bound of the instance
    None

ASSUME PolicyAssumption == MaxEdits \in Nat

Kinds == {"immutable", "creation"}

\* How the API spells one instant: with Z or with a numeric offset.
Zones == {"Z", "offset"}

\* strict: active, on release tags only, and with the rules of its kind.
\* narrow: nobody bypasses it, or for creation the automation App alone.
Rulesets == [revision : Nat, strict : BOOLEAN, narrow : BOOLEAN]

\* A ruleset as the API returns it.
Documents == [revision : Nat, zone : Zones, strict : BOOLEAN, narrow : BOOLEAN]

\* What the attestation keeps of a ruleset.
Evidence == [revision : Nat, zone : Zones, narrow : BOOLEAN]

ASSUME AbsenceAssumption ==
    None \notin Documents /\ None \notin [Kinds -> Evidence]

VARIABLES
    clock,        \* of the last edit
    live,         \* the rulesets
    owner,        \* documents the owner has read in the preflight
    attestation,  \* RELEASE_POLICY_ATTESTATION
    gates         \* the jobs

vars == <<clock, live, owner, attestation, gates>>

\* policy is the attestation the job started with; held is a history variable, whether
\* both rulesets protected the tags when the job read the first one.
GateStates ==
    [stage : {"waiting", "started", "passed", "refused", "failed"},
     policy : [Kinds -> Evidence] \cup {None},
     seen : [Kinds -> Documents \cup {None}],
     held : BOOLEAN]

TypeOK ==
    /\ clock \in Nat
    /\ live \in [Kinds -> Rulesets]
    /\ owner \in [Kinds -> Documents \cup {None}]
    /\ attestation \in [Kinds -> Evidence] \cup {None}
    /\ gates \in [Gates -> GateStates]

NothingRead == [k \in Kinds |-> None]

Init ==
    /\ clock = 0
    /\ live \in [Kinds -> [revision : {0}, strict : BOOLEAN, narrow : BOOLEAN]]
    /\ owner = NothingRead
    /\ attestation = None
    /\ gates = [g \in Gates |->
                    [stage |-> "waiting", policy |-> None, seen |-> NothingRead, held |-> FALSE]]

Protects(ruleset) == ruleset.strict /\ ruleset.narrow

Protected == \A k \in Kinds : Protects(live[k])

Document(k, zone) ==
    [revision |-> live[k].revision, zone |-> zone,
     strict |-> live[k].strict, narrow |-> live[k].narrow]

\* An administrator changes a ruleset or recreates it; GitHub stamps it anew.
Edit(k) ==
    /\ clock < MaxEdits
    /\ clock' = clock + 1
    /\ \E strict, narrow \in BOOLEAN :
          live' = [live EXCEPT ![k] =
                      [revision |-> clock + 1, strict |-> strict, narrow |-> narrow]]
    /\ UNCHANGED <<owner, attestation, gates>>

-----------------------------------------------------------------------------
(* The owner's preflight *)

MayRead(seen, k) == seen[k] = None /\ (k = "creation" => seen["immutable"] # None)

OwnerReads(k) ==
    /\ MayRead(owner, k)
    /\ \E zone \in Zones : owner' = [owner EXCEPT ![k] = Document(k, zone)]
    /\ UNCHANGED <<clock, live, attestation, gates>>

\* create_policy_attestation, or the refusal of verify_release_rulesets.
Attest ==
    /\ owner["creation"] # None
    /\ attestation' = IF \A k \in Kinds : Protects(owner[k])
                      THEN [k \in Kinds |-> [revision |-> owner[k].revision,
                                             zone |-> owner[k].zone,
                                             narrow |-> owner[k].narrow]]
                      ELSE attestation
    /\ owner' = NothingRead
    /\ UNCHANGED <<clock, live, gates>>

-----------------------------------------------------------------------------
(* The workflow's gate *)

\* The job's variables are fixed when it starts.
StartGate(g) ==
    /\ gates[g].stage = "waiting"
    /\ gates' = [gates EXCEPT ![g].stage = "started", ![g].policy = attestation]
    /\ UNCHANGED <<clock, live, owner, attestation>>

GateReads(g, k) ==
    /\ gates[g].stage = "started"
    /\ MayRead(gates[g].seen, k)
    /\ \E zone \in Zones :
          gates' = [gates EXCEPT ![g].seen[k] = Document(k, zone),
                                 ![g].held = IF k = "immutable" THEN Protected ELSE @]
    /\ UNCHANGED <<clock, live, owner, attestation>>

MutSameRevision(document, evidence) ==
    document.revision = evidence.revision /\ document.zone = evidence.zone

MutAnyRevision(document, evidence) == TRUE

\* ruleset_revision of both: the instants, not their spelling.
SameRevision(document, evidence) == document.revision = evidence.revision

\* The live ruleset under the attested bypass actors.
Accepts(policy, seen) ==
    \A k \in Kinds :
        /\ SameRevision(seen[k], policy[k])
        /\ seen[k].strict
        /\ policy[k].narrow

Verify(g) ==
    /\ gates[g].stage = "started"
    /\ gates[g].seen["creation"] # None
    /\ gates' = [gates EXCEPT ![g].stage =
                    IF gates[g].policy # None /\ Accepts(gates[g].policy, gates[g].seen)
                    THEN "passed" ELSE "refused"]
    /\ UNCHANGED <<clock, live, owner, attestation>>

\* The API fails or a ruleset is missing.
GateFails(g) ==
    /\ gates[g].stage = "started"
    /\ gates' = [gates EXCEPT ![g].stage = "failed"]
    /\ UNCHANGED <<clock, live, owner, attestation>>

\* The job has failed, here or behind the gate, and is re-run.
Rerun(g) ==
    /\ gates[g].stage \in {"passed", "refused", "failed"}
    /\ gates' = [gates EXCEPT ![g] =
                    [stage |-> "waiting", policy |-> None, seen |-> NothingRead, held |-> FALSE]]
    /\ UNCHANGED <<clock, live, owner, attestation>>

Next ==
    \/ \E k \in Kinds : Edit(k) \/ OwnerReads(k)
    \/ Attest
    \/ \E g \in Gates :
          \/ StartGate(g)
          \/ \E k \in Kinds : GateReads(g, k)
          \/ Verify(g) \/ GateFails(g) \/ Rerun(g)

Spec == Init /\ [][Next]_vars

-----------------------------------------------------------------------------
(* Properties *)

\* The job never sees who may bypass the rulesets, and it reads them at different
\* times; still, when it passes there was one moment during its checks, the read of
\* the first ruleset, at which both protected the release tags.
PassedWhileProtected ==
    \A g \in Gates : gates[g].stage = "passed" => gates[g].held

\* Rulesets that nobody edited since the owner attested them are never refused,
\* however the API spells their revisions.
UneditedIsAccepted ==
    \A g \in Gates :
        gates[g].stage = "refused" =>
            \/ gates[g].policy = None
            \/ \E k \in Kinds : live[k].revision # gates[g].policy[k].revision
=============================================================================
