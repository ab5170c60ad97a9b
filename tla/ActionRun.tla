------------------------------ MODULE ActionRun ------------------------------
(***************************************************************************)
(* One run of the action's step: scripts/run-vexcalibur.sh, the probe      *)
(* check-execution-report-support.py, the installed CLI, and               *)
(* publish-execution-report.py appending the outputs to GITHUB_OUTPUT.     *)
(* The file is modelled by how many of its Total new bytes it holds; any   *)
(* call may fail, a signal may interrupt the publisher, and the runner may *)
(* kill the step at any moment.                                            *)
(***************************************************************************)
EXTENDS Integers, Sequences

CONSTANTS
    ArgLists,   \* the argument lists callers pass
    Total,      \* bytes of the encoded output records
    None

Tokens == {"generate", "--", "--help", "--execution-report", "other"}

ASSUME RunAssumption ==
    /\ ArgLists \subseteq Seq(Tokens)
    /\ Total \in Nat \ {0}
    /\ None \notin Seq(Tokens)

VARIABLES
    pc,
    args,      \* cli_args
    target,    \* whether the runner gives a GITHUB_OUTPUT
    contract,  \* what the installed package is: its schema marker
    command,   \* the arguments the CLI was started with, None before
    cli,       \* how the CLI ended
    report,    \* the file at the managed report path
    output,    \* how many bytes of the records GITHUB_OUTPUT holds
    exit       \* the step's exit status

vars == <<pc, args, target, contract, command, cli, report, output, exit>>

Contracts == {"older", "schema1", "unsupported"}
Files == {"missing", "special", "malformed", "valid"}
Stages == {"start", "install", "probe", "managed", "plain", "validate", "open", "write",
           "rollback"}

TypeOK ==
    /\ pc \in Stages \cup {"exited", "abandoned"}
    /\ args \in Seq(Tokens)
    /\ target \in BOOLEAN
    /\ contract \in Contracts
    /\ command \in Seq(Tokens) \cup {None}
    /\ cli \in {"none", "ok", "failed"}
    /\ report \in Files
    /\ output \in 0..Total
    /\ exit \in {"none", "zero", "nonzero"}

Init ==
    /\ pc = "start"
    /\ args \in ArgLists
    /\ target \in BOOLEAN
    /\ contract \in Contracts
    /\ command = None
    /\ cli = "none"
    /\ report = "missing"
    /\ output = 0
    /\ exit = "none"

Exit(status) == pc' = "exited" /\ exit' = status

Goto(stage) == pc' = stage /\ UNCHANGED exit

-----------------------------------------------------------------------------
(* run-vexcalibur.sh *)

\* The index of the last word of the generate command, 0 without one.
CommandIndex ==
    IF Len(args) >= 1 /\ args[1] = "generate" THEN 1
    ELSE IF Len(args) >= 2 /\ args[1] = "--" /\ args[2] = "generate" THEN 2
    ELSE 0

Operands == {i \in 1..Len(args) : i > CommandIndex}

\* validate_managed_report_args looks at every word, has_help_token only before "--".
SetsReport == \E i \in Operands : args[i] = "--execution-report"

AsksForHelp ==
    \E i \in Operands :
        args[i] = "--help" /\ \A j \in Operands : j < i => args[j] # "--"

\* package-spec, constraints-file, RUNNER_TEMP or the Python path is refused, or the
\* private directory cannot be made.
RefuseInputs ==
    /\ pc = "start"
    /\ Exit("nonzero")
    /\ UNCHANGED <<args, target, contract, command, cli, report, output>>

AcceptInputs ==
    /\ pc = "start"
    /\ Goto("install")
    /\ UNCHANGED <<args, target, contract, command, cli, report, output>>

\* venv or pip fails, or the package has no vexcalibur executable.
InstallFails ==
    /\ pc = "install"
    /\ Exit("nonzero")
    /\ UNCHANGED <<args, target, contract, command, cli, report, output>>

Install ==
    /\ pc = "install"
    /\ Goto(IF CommandIndex = 0 THEN "plain" ELSE "probe")
    /\ UNCHANGED <<args, target, contract, command, cli, report, output>>

\* supports_execution_report
Probe ==
    /\ pc = "probe"
    /\ \/ contract = "older" /\ Goto("plain")
       \/ contract = "unsupported" /\ Exit("nonzero")
       \/ contract = "schema1" /\ SetsReport /\ Exit("nonzero")
       \/ contract = "schema1" /\ ~SetsReport /\ AsksForHelp /\ Goto("plain")
       \/ contract = "schema1" /\ ~SetsReport /\ ~AsksForHelp /\ Goto("managed")
    /\ UNCHANGED <<args, target, contract, command, cli, report, output>>

\* create_execution_report_path
NoReportPath ==
    /\ pc = "managed"
    /\ Exit("nonzero")
    /\ UNCHANGED <<args, target, contract, command, cli, report, output>>

MutManagedArgs == args \o <<"--execution-report", "other">>

\* The option and its path go in right after the command.
ManagedArgs ==
    SubSeq(args, 1, CommandIndex) \o <<"--execution-report", "other">>
        \o SubSeq(args, CommandIndex + 1, Len(args))

\* The CLI as the caller asked for it: its status is the step's.
RunPlain ==
    /\ pc = "plain"
    /\ command' = args
    /\ \/ cli' = "ok" /\ Exit("zero")
       \/ cli' = "failed" /\ Exit("nonzero")
    /\ UNCHANGED <<args, target, contract, report, output>>

MutRunManaged ==
    /\ pc = "managed"
    /\ command' = ManagedArgs
    /\ report' \in Files
    /\ cli' \in {"ok", "failed"}
    /\ Goto("validate")
    /\ UNCHANGED <<args, target, contract, output>>

\* Whatever it leaves at the report path, a failed CLI ends the step.
RunManaged ==
    /\ pc = "managed"
    /\ command' = ManagedArgs
    /\ report' \in Files
    /\ \/ cli' = "ok" /\ Goto("validate")
       \/ cli' = "failed" /\ Exit("nonzero")
    /\ UNCHANGED <<args, target, contract, output>>

-----------------------------------------------------------------------------
(* publish-execution-report.py *)

\* _read_report and validate_report.  Without GITHUB_OUTPUT nothing is published.
Validate ==
    /\ pc = "validate"
    /\ \/ report = "valid" /\ target /\ Goto("open")
       \/ report = "valid" /\ ~target /\ Exit("zero")
       \/ report # "valid" /\ Exit("nonzero")
    /\ UNCHANGED <<args, target, contract, command, cli, report, output>>

Open ==
    /\ pc = "open"
    /\ Goto("write") \/ Exit("nonzero")
    /\ UNCHANGED <<args, target, contract, command, cli, report, output>>

MutWrite ==
    /\ pc = "write"
    /\ \E written \in 1..Total :
          /\ output' = output + written
          /\ IF output' >= Total THEN Exit("zero") ELSE Goto("write")
    /\ UNCHANGED <<args, target, contract, command, cli, report>>

\* os.write appends what it can.  An exception after the last byte, outside the
\* loop, fails the step and leaves the records.
Write ==
    /\ pc = "write"
    /\ \E written \in 1..(Total - output) :
          /\ output' = output + written
          /\ IF output' = Total THEN Exit("zero") \/ Exit("nonzero") ELSE Goto("write")
    /\ UNCHANGED <<args, target, contract, command, cli, report>>

MutWriteFails ==
    /\ pc = "write"
    /\ Exit("nonzero")
    /\ UNCHANGED <<args, target, contract, command, cli, report, output>>

\* It fails, returns nothing written, or an exception interrupts the loop: before
\* the bytes are written or after, but before the loop counts them.
WriteFails ==
    /\ pc = "write"
    /\ output' \in output..Total
    /\ Goto("rollback")
    /\ UNCHANGED <<args, target, contract, command, cli, report>>

\* _rollback_partial_append.  Its check that the file has grown by no more than the
\* records is left out: during the step nothing else writes GITHUB_OUTPUT, so it holds.
Rollback ==
    /\ pc = "rollback"
    /\ output' = 0
    /\ Exit("nonzero")
    /\ UNCHANGED <<args, target, contract, command, cli, report>>

\* fstat or ftruncate fails, and the error is swallowed.
RollbackFails ==
    /\ pc = "rollback"
    /\ pc' = "abandoned"
    /\ exit' = "nonzero"
    /\ UNCHANGED <<args, target, contract, command, cli, report, output>>

\* The runner cancels or loses the step.
Killed ==
    /\ pc \in Stages
    /\ pc' = "abandoned"
    /\ exit' = "nonzero"
    /\ UNCHANGED <<args, target, contract, command, cli, report, output>>

-----------------------------------------------------------------------------
Next ==
    \/ RefuseInputs \/ AcceptInputs
    \/ InstallFails \/ Install
    \/ Probe \/ NoReportPath
    \/ RunPlain \/ RunManaged
    \/ Validate \/ Open
    \/ Write \/ WriteFails \/ Rollback \/ RollbackFails
    \/ Killed

Spec == Init /\ [][Next]_vars

-----------------------------------------------------------------------------
(* Properties *)

\* However many writes the append takes and wherever it fails or is interrupted, a
\* publisher that comes to its end leaves all its records or none.
AllOrNothing == pc = "exited" => output \in {0, Total}

\* Outputs appear only for a generate command that succeeded, on a package with
\* schema 1, under the action's own report option, after its report was validated.
PublishedIsEarned ==
    output > 0 =>
        /\ CommandIndex > 0
        /\ contract = "schema1"
        /\ command = ManagedArgs
        /\ cli = "ok"
        /\ report = "valid"

\* A green step whose generate command the action manages has published everything.
SuccessPublishes ==
    exit = "zero" /\ target /\ CommandIndex > 0 /\ contract = "schema1" /\ ~AsksForHelp
        => output = Total

\* A managed command that succeeds sets the outputs, and nothing else does.
PublishedIffEarned == PublishedIsEarned /\ SuccessPublishes

\* Other commands, older packages and requests for help run with the caller's own
\* arguments and leave every output unset.
OthersUntouched ==
    CommandIndex = 0 \/ contract = "older" \/ AsksForHelp =>
        command \in {None, args} /\ output = 0

\* The option the action adds is the first thing generate parses: no terminator or
\* value of the caller can swallow it, and the caller's words keep their order.
OptionComesFirst ==
    command \notin {None, args} =>
        /\ command[CommandIndex] = "generate"
        /\ command[CommandIndex + 1] = "--execution-report"
        /\ \A i \in Operands : command[i + 2] = args[i]

\* The CLI runs with what the caller wrote, and with no more than the action's option.
CallersWordsKept == OthersUntouched /\ OptionComesFirst
=============================================================================
