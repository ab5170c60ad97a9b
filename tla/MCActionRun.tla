----------------------------- MODULE MCActionRun -----------------------------
(* Instances of ActionRun, ExecutionReport and PackageArtifact for TLC: the step, the  *)
(* report it publishes, and the package that CI runs it with.  They share no state     *)
(* here, so a behaviour is about one part and the others rest.                         *)
EXTENDS ActionRun, ExecutionReport, PackageArtifact, TLC

VARIABLE part

\* Every argument list of up to three words, and the longer ones with a leading "--".
MCArgLists ==
    UNION {[1..n -> Tokens] : n \in 0..3} \cup
        {<<"--", "generate">> \o tail : tail \in [1..2 -> Tokens]}

MCDelimiters == {<<"token", 1>>, <<"token", 2>>}

MCSymmetry == Permutations(Pythons) \cup Permutations(Tests) \cup Permutations(Wheels)

MCInit ==
    /\ Init /\ ReportInit /\ PackageInit
    /\ part \in {"step", "report", "package"}
    /\ part # "step" => args = <<>> /\ target /\ contract = "older"
    /\ part # "report" => compact
    /\ part # "package" => In({"absent"}) = Wheels

MCNext ==
    /\ UNCHANGED part
    /\ \/ part = "step" /\ Next /\ UNCHANGED <<reportVars, packageVars>>
       \/ part = "report" /\ ReportNext /\ UNCHANGED <<vars, packageVars>>
       \/ part = "package" /\ PackageNext /\ UNCHANGED <<vars, reportVars>>

MCSpec == MCInit /\ [][MCNext]_<<part, vars, reportVars, packageVars>>

\* The type invariants of the parts.
StepPartsTypeOK == TypeOK /\ PackageTypeOK
=============================================================================
