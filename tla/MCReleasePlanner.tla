-------------------------- MODULE MCReleasePlanner --------------------------
(* Instances of ReleasePlanner, ContractGuard and CommitMessage for TLC.  They share  *)
(* definitions and no state, so a behaviour is about one part and the others rest.    *)
EXTENDS ReleasePlanner, ContractGuard, CommitMessage, TLC

VARIABLE part

Input(required, default, deprecation) ==
    [required |-> required, default |-> default, deprecation |-> deprecation]

Base ==
    [using |-> "composite", inputs |-> [n \in Names |-> None],
     outputs |-> [n \in Names |-> None],
     manifest |-> [python |-> {"3.13"}, package |-> "0.1"]]

WithInput(input) == [Base EXCEPT !.inputs = [n \in Names |-> input]]

WithOutput == [Base EXCEPT !.outputs = [n \in Names |-> [value |-> "a"]]]

\* Contracts that differ by an input, an output, a deprecation or the manifest.
MCHistory ==
    {Base,
     WithOutput,
     [Base EXCEPT !.manifest = None],
     [Base EXCEPT !.manifest.python = {"3.13", "3.14"}],
     WithInput(Input(FALSE, None, None)),
     WithInput(Input(TRUE, None, None)),
     WithInput(Input(FALSE, None, "a"))}

\* For the guard: an output that comes and goes.
MCRevisions == {Base, WithOutput}

MCMessages == {Patch, Major}

MCVersions == {[major |-> 0, minor |-> 0, patch |-> 0], [major |-> 2, minor |-> 0, patch |-> 1]}

MCSymmetry == Permutations(Runs)

MCInit ==
    /\ Init /\ GuardInit /\ DraftInit
    /\ part \in {"planner", "guard", "message"}
    /\ part # "planner" => contract = Base
    /\ part # "guard" => main[1].contract = Base

MCNext ==
    /\ UNCHANGED part
    /\ \/ part = "planner" /\ Next /\ UNCHANGED <<guardVars, draft>>
       \/ part = "guard" /\ GuardNext /\ UNCHANGED <<vars, draft>>
       \/ part = "message" /\ DraftNext /\ UNCHANGED <<vars, guardVars>>

MCSpec == MCInit /\ [][MCNext]_<<part, vars, guardVars, draft>>

\* The type invariants of the parts.
PlannerPartsTypeOK == TypeOK /\ GuardTypeOK
=============================================================================
