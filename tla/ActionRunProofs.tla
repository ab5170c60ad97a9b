--------------------------- MODULE ActionRunProofs ---------------------------
(***************************************************************************)
(* What a run of the action publishes, for every size of its records and   *)
(* every argument list; and what the tests of its package run, for any     *)
(* Pythons, test jobs, wheels and number of attempts.                      *)
(***************************************************************************)
EXTENDS MCActionRun, TLAPS

Publishing == {"open", "write", "rollback"}

\* The records are written in the write stage only, and that stage is reached only
\* by a validated report of a managed command that succeeded.
Inv ==
    /\ output \in 0..Total
    /\ pc \in Stages \cup {"exited", "abandoned"}
    /\ pc \in {"start", "install", "probe", "managed", "plain", "validate", "open"} => output = 0
    /\ pc = "write" => output < Total
    /\ exit \in {"none", "zero", "nonzero"}
    /\ pc \in Stages => exit = "none"
    /\ pc = "abandoned" => exit # "zero"
    /\ pc \in {"start", "install", "probe", "managed", "plain"} => command = None
    /\ pc = "plain" => CommandIndex = 0 \/ contract = "older" \/ AsksForHelp
    /\ AllOrNothing
    /\ pc \in {"probe", "managed", "validate"} \cup Publishing => CommandIndex > 0
    /\ pc \in {"managed", "validate"} \cup Publishing => contract = "schema1" /\ ~AsksForHelp
    /\ pc \in {"validate"} \cup Publishing => command = ManagedArgs /\ cli = "ok"
    /\ pc \in Publishing => report = "valid" /\ target
    /\ PublishedIsEarned
    /\ output > 0 => ~AsksForHelp
    /\ SuccessPublishes
    /\ OthersUntouched
    /\ args \in Seq(Tokens)
    /\ command \notin {None, args} => command = ManagedArgs /\ CommandIndex > 0

\* The inductive invariant holds in every run.
THEOREM Invariance == Spec => []Inv
<1> USE RunAssumption
<1>1. Init => Inv
  BY DEF Init, Inv, AllOrNothing, PublishedIsEarned, SuccessPublishes, OthersUntouched,
         Stages, Publishing
<1>2. Inv /\ [Next]_vars => Inv'
  <2> SUFFICES ASSUME Inv, [Next]_vars PROVE Inv'
    OBVIOUS
  <2> USE DEF Inv, AllOrNothing, PublishedIsEarned, SuccessPublishes, OthersUntouched,
              Stages, Publishing, Exit, Goto
  <2>0. ASSUME UNCHANGED <<args, command, contract>>
        PROVE  /\ CommandIndex' = CommandIndex
               /\ AsksForHelp' = AsksForHelp
               /\ ManagedArgs' = ManagedArgs
    BY <2>0 DEF CommandIndex, AsksForHelp, ManagedArgs, Operands
  <2>1. CASE RefuseInputs BY <2>0, <2>1 DEF RefuseInputs
  <2>2. CASE AcceptInputs BY <2>0, <2>2 DEF AcceptInputs
  <2>3. CASE InstallFails BY <2>0, <2>3 DEF InstallFails
  <2>4. CASE Install
    <3>1. CommandIndex # 0 => CommandIndex > 0
      BY DEF CommandIndex
    <3> QED BY <2>0, <2>4, <3>1 DEF Install
  <2>5. CASE Probe BY <2>0, <2>5 DEF Probe
  <2>6. CASE RunPlain
    <3>1. CommandIndex' = CommandIndex /\ AsksForHelp' = AsksForHelp
      BY <2>6 DEF RunPlain, CommandIndex, AsksForHelp, Operands
    <3>2. output' = 0 /\ pc' = "exited"
      BY <2>6 DEF RunPlain
    <3> QED BY <2>6, <3>1, <3>2 DEF RunPlain
  <2>7. CASE RunManaged
    <3>1. /\ CommandIndex' = CommandIndex
          /\ AsksForHelp' = AsksForHelp
          /\ ManagedArgs' = ManagedArgs
      BY <2>7 DEF RunManaged, CommandIndex, AsksForHelp, ManagedArgs, Operands
    <3>2. output' = 0 /\ pc' \in {"validate", "exited"}
      BY <2>7 DEF RunManaged
    <3> QED BY <2>7, <3>1, <3>2 DEF RunManaged
  <2>8. CASE Validate BY <2>0, <2>8 DEF Validate
  <2>9. CASE Open BY <2>0, <2>9 DEF Open
  <2>10. CASE Write BY <2>0, <2>10 DEF Write
  <2>11. CASE WriteFails BY <2>0, <2>11 DEF WriteFails
  <2>12. CASE Rollback BY <2>0, <2>12 DEF Rollback
  <2>13. CASE RollbackFails BY <2>0, <2>13 DEF RollbackFails
  <2>14. CASE Killed BY <2>0, <2>14 DEF Killed
  <2>15. CASE NoReportPath BY <2>0, <2>15 DEF NoReportPath
  <2>16. CASE UNCHANGED vars BY <2>0, <2>16 DEF vars
  <2> QED
    BY <2>1, <2>2, <2>3, <2>4, <2>5, <2>6, <2>7, <2>8, <2>9, <2>10, <2>11, <2>12, <2>13,
       <2>14, <2>15, <2>16 DEF Next
<1> QED BY <1>1, <1>2, PTL DEF Spec

\* A publisher that comes to its end leaves all its records in GITHUB_OUTPUT or none,
\* for records of any size and writes that split them anywhere.
THEOREM AllOrNothingHolds == Spec => []AllOrNothing
<1>1. Inv => AllOrNothing
  BY DEF Inv
<1> QED BY <1>1, Invariance, PTL

\* Outputs appear only after a managed generate command succeeded and its report was
\* validated, even in a step that is killed.
THEOREM OutputsAreEarned == Spec => []PublishedIsEarned
<1>1. Inv => PublishedIsEarned
  BY DEF Inv
<1> QED BY <1>1, Invariance, PTL

\* A green step has published every record of a managed command.
THEOREM SuccessIsPublished == Spec => []SuccessPublishes
<1>1. Inv => SuccessPublishes
  BY DEF Inv
<1> QED BY <1>1, Invariance, PTL

\* Other commands run with the caller's own arguments and set no output.
THEOREM OthersStayUntouched == Spec => []OthersUntouched
<1>1. Inv => OthersUntouched
  BY DEF Inv
<1> QED BY <1>1, Invariance, PTL

\* The type and the length of a concatenation.
LEMMA ConcatType ==
    ASSUME NEW S, NEW s \in Seq(S), NEW t \in Seq(S)
    PROVE  s \o t \in Seq(S) /\ Len(s \o t) = Len(s) + Len(t)
OBVIOUS

\* An index into the first of two concatenated sequences.
LEMMA ConcatLeft ==
    ASSUME NEW S, NEW s \in Seq(S), NEW t \in Seq(S), NEW i \in 1..Len(s)
    PROVE  (s \o t)[i] = s[i]
OBVIOUS

\* An index into the second.
LEMMA ConcatRight ==
    ASSUME NEW S, NEW s \in Seq(S), NEW t \in Seq(S), NEW i \in 1..Len(t),
           NEW k \in Int, k = Len(s) + i
    PROVE  (s \o t)[k] = t[i]
OBVIOUS

\* An index into the rest of a sequence.
LEMMA TailAt ==
    ASSUME NEW S, NEW s \in Seq(S), NEW c \in 0..Len(s), NEW i \in (c + 1)..Len(s),
           NEW k \in Int, k = i - c
    PROVE  SubSeq(s, c + 1, Len(s))[k] = s[i]
OBVIOUS

\* A pair inserted after the first c elements starts at c + 1.
LEMMA InsertedAt ==
    ASSUME NEW S, NEW s \in Seq(S), NEW c \in 1..Len(s), NEW x \in S, NEW y \in S,
           NEW k \in Int, k = c + 1
    PROVE  (SubSeq(s, 1, c) \o <<x, y>> \o SubSeq(s, c + 1, Len(s)))[k] = x
OBVIOUS

\* The managed arguments are the caller's, with the option inserted after the command.
LEMMA ManagedArgsShape ==
    ASSUME args \in Seq(Tokens), CommandIndex > 0
    PROVE  /\ ManagedArgs[CommandIndex] = "generate"
           /\ ManagedArgs[CommandIndex + 1] = "--execution-report"
           /\ \A i \in Operands : ManagedArgs[i + 2] = args[i]
<1> DEFINE c == CommandIndex
           option == <<"--execution-report", "other">>
           before == SubSeq(args, 1, c)
           after == SubSeq(args, c + 1, Len(args))
           head == before \o option
<1>1. c \in 1..Len(args) /\ Len(args) \in Nat /\ args[c] = "generate"
  BY DEF CommandIndex
<1>2. option \in Seq(Tokens) /\ Len(option) = 2 /\ option[1] = "--execution-report"
  BY DEF Tokens
<1>3. before \in Seq(Tokens) /\ Len(before) = c /\ before[c] = "generate"
  BY <1>1
<1>4. after \in Seq(Tokens) /\ Len(after) = Len(args) - c
  BY <1>1
<1>5. ASSUME NEW i \in Operands
      PROVE  i - c \in 1..Len(after) /\ after[i - c] = args[i]
  <2>1. i \in (c + 1)..Len(args) /\ i - c \in 1..Len(after)
    BY <1>1, <1>4 DEF Operands
  <2> QED BY <1>1, <2>1, TailAt
<1>6. ManagedArgs[c + 1] = "--execution-report"
  <2>1. "other" \in Tokens /\ "--execution-report" \in Tokens /\ c + 1 \in Int
    BY <1>1 DEF Tokens
  <2> HIDE DEF c
  <2> QED BY <1>1, <2>1, InsertedAt DEF ManagedArgs, c
<1>7. ManagedArgs = head \o after
  BY DEF ManagedArgs
<1> HIDE DEF c, option, before, after
<1>8. head \in Seq(Tokens) /\ Len(head) = c + 2
  <2>1. head \in Seq(Tokens) /\ Len(head) = Len(before) + Len(option)
    BY <1>2, <1>3, ConcatType, Zenon
  <2> QED BY <1>2, <1>3, <2>1
<1>9. head[c] = "generate"
  <2>1. c \in 1..Len(before)
    BY <1>1, <1>3
  <2> QED BY <1>2, <1>3, <2>1, ConcatLeft, Zenon
<1> HIDE DEF head
<1>10. ManagedArgs[c] = "generate"
  BY <1>1, <1>4, <1>7, <1>8, <1>9, ConcatLeft
<1>11. ASSUME NEW i \in Operands
       PROVE  ManagedArgs[i + 2] = args[i]
  <2>1. i + 2 = Len(head) + (i - c) /\ i + 2 \in Int
    BY <1>1, <1>8 DEF Operands
  <2> QED BY <1>4, <1>5, <1>7, <1>8, <2>1, ConcatRight
<1> QED BY <1>10, <1>11, <1>6 DEF c

\* The action's option is the first thing generate parses, for arguments of any length.
THEOREM OptionIsFirst == Spec => []OptionComesFirst
<1>1. Inv => OptionComesFirst
  BY ManagedArgsShape DEF Inv, OptionComesFirst
<1> QED BY <1>1, Invariance, PTL

\* The managed arguments are arguments.
LEMMA ManagedArgsType ==
    ASSUME args \in Seq(Tokens), CommandIndex > 0
    PROVE  ManagedArgs \in Seq(Tokens)
<1> DEFINE c == CommandIndex
           option == <<"--execution-report", "other">>
           before == SubSeq(args, 1, c)
           after == SubSeq(args, c + 1, Len(args))
<1>1. c \in 1..Len(args)
  BY DEF CommandIndex
<1>2. option \in Seq(Tokens)
  BY DEF Tokens
<1>3. before \in Seq(Tokens) /\ after \in Seq(Tokens)
  BY <1>1
<1>4. ManagedArgs = (before \o option) \o after
  BY DEF ManagedArgs
<1> HIDE DEF option, before, after
<1> QED BY <1>2, <1>3, <1>4, ConcatType, Zenon

\* Every variable keeps its type, for argument lists and records of any size.
THEOREM TypeCorrect == Spec => []TypeOK
<1> USE RunAssumption
<1>1. Init => TypeOK
  BY DEF Init, TypeOK, Stages, Contracts, Files
<1>2. TypeOK /\ Inv /\ [Next]_vars => TypeOK'
  <2> SUFFICES ASSUME TypeOK, Inv, [Next]_vars PROVE TypeOK'
    OBVIOUS
  <2> USE DEF TypeOK, Stages, Exit, Goto
  <2>1. CASE RefuseInputs BY <2>1 DEF RefuseInputs
  <2>2. CASE AcceptInputs BY <2>2 DEF AcceptInputs
  <2>3. CASE InstallFails BY <2>3 DEF InstallFails
  <2>4. CASE Install BY <2>4 DEF Install
  <2>5. CASE Probe BY <2>5 DEF Probe
  <2>6. CASE NoReportPath BY <2>6 DEF NoReportPath
  <2>7. CASE RunPlain BY <2>7 DEF RunPlain
  <2>8. CASE RunManaged
    <3>1. command' \in Seq(Tokens)
      BY <2>8, ManagedArgsType DEF RunManaged, Inv
    <3> QED BY <2>8, <3>1 DEF RunManaged
  <2>9. CASE Validate BY <2>9 DEF Validate
  <2>10. CASE Open BY <2>10 DEF Open
  <2>11. CASE Write BY <2>11 DEF Write
  <2>12. CASE WriteFails BY <2>12 DEF WriteFails
  <2>13. CASE Rollback BY <2>13 DEF Rollback
  <2>14. CASE RollbackFails BY <2>14 DEF RollbackFails
  <2>15. CASE Killed BY <2>15 DEF Killed
  <2>16. CASE UNCHANGED vars BY <2>16 DEF vars
  <2> QED
    BY <2>1, <2>2, <2>3, <2>4, <2>5, <2>6, <2>7, <2>8, <2>9, <2>10, <2>11, <2>12, <2>13,
       <2>14, <2>15, <2>16 DEF Next
<1> QED BY <1>1, <1>2, Invariance, PTL DEF Spec

\* Outputs and success of a managed command go together.
THEOREM OutputsIffEarned == Spec => []PublishedIffEarned
BY OutputsAreEarned, SuccessIsPublished, PTL DEF PublishedIffEarned

\* For argument lists of any length, the caller's words reach the CLI.
THEOREM WordsStay == Spec => []CallersWordsKept
BY OthersStayUntouched, OptionIsFirst, PTL DEF CallersWordsKept

-----------------------------------------------------------------------------
(* The tested package *)

\* From pip's choice to PyPI's answer the history misses no wheel on offer.
Watched ==
    \A p \in Pythons : verify[p] = "selected" =>
        /\ selected[p] \in Wheels
        /\ In({"offered"}) \subseteq offered[p]

\* A verified wheel was on offer.
VerifiedWasOffered ==
    \A p \in Pythons : verify[p] \in {"verified", "success"} => selected[p] \in offered[p]

\* What is stored for a verified Python is its verified wheel.
StoredIsSelected ==
    \A p \in Pythons : verify[p] = "success" => artifact[p] \in {NoWheel, selected[p]}

\* A green test ran the verified wheel, and its verification still stands.
GreenRanSelected ==
    \A t \in TestJobs : tests[t] = "success" =>
        verify[t[1]] = "success" /\ tested[t] = selected[t[1]]

IInv == PackageTypeOK /\ Watched /\ VerifiedWasOffered /\ StoredIsSelected /\ GreenRanSelected

\* A test job belongs to one of the Pythons.
LEMMA TestPython == ASSUME NEW t \in TestJobs PROVE t[1] \in Pythons
BY DEF TestJobs

\* The invariant holds before anything has run.
LEMMA InvStarts == PackageInit => IInv
BY PackageAssumption DEF PackageInit, IInv, PackageTypeOK, Watched, VerifiedWasOffered,
                         StoredIsSelected, GreenRanSelected, In

\* The steps of the verify job of one Python.
LEMMA VerifyKept ==
    ASSUME IInv, NEW p \in Pythons, Select(p) \/ Verify(p) \/ Download(p) \/ VerifyFails(p)
    PROVE  IInv'
<1> USE DEF IInv, Reaches
<1>1. \A t \in TestJobs : tests[t] = "success" => t[1] # p \/ verify[p] = "success"
  BY DEF GreenRanSelected
<1>2. CASE Select(p)
  <2> USE <1>2 DEF Select
  <2>1. Candidates \subseteq Wheels BY DEF Candidates, In
  <2>2. In({"offered"}) \subseteq Wheels BY DEF In
  <2>3. PackageTypeOK' BY <2>1, <2>2 DEF PackageTypeOK
  <2>4. Watched' BY <2>1 DEF Watched, PackageTypeOK, In
  <2>5. VerifiedWasOffered' BY DEF VerifiedWasOffered, PackageTypeOK
  <2>6. StoredIsSelected' BY DEF StoredIsSelected, PackageTypeOK
  <2>7. GreenRanSelected' BY <1>1, TestPython DEF GreenRanSelected, PackageTypeOK
  <2> QED BY <2>3, <2>4, <2>5, <2>6, <2>7
<1>3. CASE Verify(p)
  <2> USE <1>3 DEF Verify
  <2>1. selected[p] \in offered[p] BY DEF Watched, Listed, In, PackageTypeOK
  <2>2. PackageTypeOK' BY DEF PackageTypeOK
  <2>3. Watched' BY DEF Watched, PackageTypeOK, In
  <2>4. VerifiedWasOffered' BY <2>1 DEF VerifiedWasOffered, PackageTypeOK
  <2>5. StoredIsSelected' BY DEF StoredIsSelected, PackageTypeOK
  <2>6. GreenRanSelected' BY <1>1, TestPython DEF GreenRanSelected, PackageTypeOK
  <2> QED BY <2>2, <2>3, <2>4, <2>5, <2>6
<1>4. CASE Download(p)
  <2> USE <1>4 DEF Download
  <2>1. artifact' = [artifact EXCEPT ![p] = selected[p]] BY DEF Matches
  <2>2. PackageTypeOK' BY <2>1 DEF PackageTypeOK
  <2>3. Watched' BY DEF Watched, PackageTypeOK, In
  <2>4. VerifiedWasOffered' BY DEF VerifiedWasOffered, PackageTypeOK
  <2>5. StoredIsSelected' BY <2>1 DEF StoredIsSelected, PackageTypeOK
  <2>6. GreenRanSelected' BY <1>1, TestPython DEF GreenRanSelected, PackageTypeOK
  <2> QED BY <2>2, <2>3, <2>4, <2>5, <2>6
<1>5. CASE VerifyFails(p)
  <2> USE <1>5 DEF VerifyFails
  <2>1. PackageTypeOK' BY DEF PackageTypeOK
  <2>2. Watched' BY DEF Watched, PackageTypeOK, In
  <2>3. VerifiedWasOffered' BY DEF VerifiedWasOffered, PackageTypeOK
  <2>4. StoredIsSelected' BY DEF StoredIsSelected, PackageTypeOK
  <2>5. GreenRanSelected' BY <1>1, TestPython DEF GreenRanSelected, PackageTypeOK
  <2> QED BY <2>1, <2>2, <2>3, <2>4, <2>5
<1> QED BY <1>2, <1>3, <1>4, <1>5

\* A test job runs what is stored.
LEMMA TestKept == ASSUME IInv, NEW t \in TestJobs, Test(t) PROVE IInv'
<1> USE DEF IInv, Test
<1>1. t[1] \in Pythons BY TestPython
<1>2. \A w \in Installed(t[1]) : w = selected[t[1]] /\ w \in Wheels
  BY <1>1 DEF Installed, StoredIsSelected, PackageTypeOK
<1>3. PackageTypeOK' BY <1>2 DEF PackageTypeOK
<1>4. Watched' BY DEF Watched, In
<1>5. VerifiedWasOffered' /\ StoredIsSelected' BY DEF VerifiedWasOffered, StoredIsSelected
<1>6. GreenRanSelected' BY <1>1, <1>2 DEF GreenRanSelected, PackageTypeOK
<1> QED BY <1>3, <1>4, <1>5, <1>6

\* The maintainers' changes: the histories of the jobs that wait for PyPI's answer grow.
LEMMA MaintainKept == ASSUME IInv, NEW w \in Wheels, Maintain(w) PROVE IInv'
<1> USE DEF IInv, Maintain
<1>1. PackageTypeOK' BY DEF PackageTypeOK, Changes
<1>2. Watched' BY DEF Watched, In, PackageTypeOK
<1>3. VerifiedWasOffered' BY DEF VerifiedWasOffered, PackageTypeOK
<1>4. StoredIsSelected' /\ GreenRanSelected' BY DEF StoredIsSelected, GreenRanSelected
<1> QED BY <1>1, <1>2, <1>3, <1>4

\* An artifact expires.
LEMMA ExpireKept == ASSUME IInv, NEW p \in Pythons, Expire(p) PROVE IInv'
<1> USE DEF IInv, Expire
<1>1. PackageTypeOK' BY DEF PackageTypeOK
<1>2. Watched' BY DEF Watched, In
<1>3. VerifiedWasOffered' /\ GreenRanSelected' BY DEF VerifiedWasOffered, GreenRanSelected
<1>4. StoredIsSelected' BY DEF StoredIsSelected, PackageTypeOK
<1> QED BY <1>1, <1>2, <1>3, <1>4

\* A re-run of verify jobs takes every test with it; a re-run of tests leaves the
\* verifications as they are.
LEMMA AgainKept ==
    ASSUME IInv, NEW ps \in SUBSET Pythons, NEW ts \in SUBSET TestJobs,
           ps = {} \/ ts = TestJobs, Again(ps, ts)
    PROVE  IInv'
<1> USE DEF IInv, Again
<1>1. PackageTypeOK' BY PackageAssumption DEF PackageTypeOK
<1>2. Watched' BY DEF Watched, In, PackageTypeOK
<1>3. VerifiedWasOffered' BY DEF VerifiedWasOffered, PackageTypeOK
<1>4. StoredIsSelected' BY DEF StoredIsSelected, PackageTypeOK
<1>5. GreenRanSelected' BY TestPython DEF GreenRanSelected, PackageTypeOK
<1> QED BY <1>1, <1>2, <1>3, <1>4, <1>5

\* Every step of the run, of PyPI and of GitHub keeps the invariant.
LEMMA InvKept == IInv /\ [PackageNext]_packageVars => IInv'
<1> SUFFICES ASSUME IInv, [PackageNext]_packageVars PROVE IInv' OBVIOUS
<1>1. ASSUME NEW p \in Pythons, Select(p) \/ Verify(p) \/ Download(p) \/ VerifyFails(p)
      PROVE  IInv'
  BY <1>1, VerifyKept
<1>2. ASSUME NEW p \in Pythons, Expire(p) PROVE IInv' BY <1>2, ExpireKept
<1>3. ASSUME NEW t \in TestJobs, Test(t) PROVE IInv' BY <1>3, TestKept
<1>4. ASSUME NEW w \in Wheels, Maintain(w) PROVE IInv' BY <1>4, MaintainKept
<1>5. CASE RerunFailed
  <2> DEFINE failed == {p \in Pythons : verify[p] = "failed"}
  <2>1. CASE failed = {} BY <1>5, <2>1, AgainKept DEF RerunFailed
  <2>2. CASE failed # {} BY <1>5, <2>2, AgainKept DEF RerunFailed
  <2> QED BY <2>1, <2>2
<1>6. CASE Rerun BY <1>6, AgainKept DEF Rerun
<1>7. CASE UNCHANGED packageVars
  BY <1>7 DEF packageVars, IInv, PackageTypeOK, Watched, VerifiedWasOffered,
              StoredIsSelected, GreenRanSelected, In
<1> QED BY <1>1, <1>2, <1>3, <1>4, <1>5, <1>6, <1>7 DEF PackageNext

\* The inductive invariant.
THEOREM PackageInvariance == PackageSpec => []IInv
BY InvStarts, InvKept, PTL DEF PackageSpec

\* Broken bytes are never stored for the tests.
THEOREM PackageTypeCorrect == PackageSpec => []PackageTypeOK
<1>1. IInv => PackageTypeOK BY DEF IInv
<1> QED BY <1>1, PackageInvariance, PTL

\* No green test ran a wheel that was withdrawn all the time its verification took.
THEOREM OnlyOfferedWheels == PackageSpec => []TestedWasOffered
<1>1. IInv => TestedWasOffered
  BY TestPython DEF IInv, TestedWasOffered, VerifiedWasOffered, GreenRanSelected
<1> QED BY <1>1, PackageInvariance, PTL

\* The green tests of one Python ran one wheel.
THEOREM OneWheel == PackageSpec => []OneWheelTested
<1>1. IInv => OneWheelTested BY DEF IInv, OneWheelTested, GreenRanSelected
<1> QED BY <1>1, PackageInvariance, PTL

\* Whatever maintainers and re-runs do, green tests are about one wheel that was on offer.
THEOREM OneOffered == PackageSpec => []OneOfferedWheel
BY OnlyOfferedWheels, OneWheel, PTL DEF OneOfferedWheel

-----------------------------------------------------------------------------
(* The three parts side by side *)

\* Put beside the others, a part does what it does alone: its steps are its own or
\* leave it at rest.
LEMMA PartsAreWhole == MCSpec => Spec /\ PackageSpec
<1>1. MCInit => Init /\ PackageInit BY DEF MCInit
<1>2. [MCNext]_<<part, vars, reportVars, packageVars>> =>
          [Next]_vars /\ [PackageNext]_packageVars
  BY DEF MCNext
<1> QED BY <1>1, <1>2, PTL DEF MCSpec, Spec, PackageSpec

\* The step and the package keep their types whatever the others do: no step of one
\* part spoils what another left behind.
THEOREM StepPartsTypeCorrect == MCSpec => []StepPartsTypeOK
BY PartsAreWhole, TypeCorrect, PackageTypeCorrect, PTL DEF StepPartsTypeOK
=============================================================================
