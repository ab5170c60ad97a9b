--------------------------- MODULE ExecutionReport ---------------------------
(***************************************************************************)
(* What an execution report says: validate_report, report_outputs and the  *)
(* records of publish_outputs in scripts/publish-execution-report.py.  The *)
(* report is JSON of another program; here any program may write any       *)
(* members in any order, repeat them, and use any formatting.  Of the      *)
(* fields, the counts stand for all: finding_count, required, and those of *)
(* analysis_state_counts, each optional.                                   *)
(***************************************************************************)
EXTENDS Integers, Sequences, SequencesExt, FiniteSetsExt

CONSTANTS
    MaxCount,    \* MAX_EXECUTION_REPORT_COUNT
    MaxMembers,  \* bound of the instance
    Delimiters   \* what secrets.token_hex may give

ASSUME ReportAssumption == MaxCount \in Nat /\ MaxMembers \in Nat

VARIABLES
    members,  \* of the JSON text, in its order
    compact   \* is the text in json.dumps' own formatting, with one final newline?

reportVars == <<members, compact>>

\* ANALYSIS_STATES, shortened.
AnalysisStates == <<"resolved", "exploitable">>
States == {AnalysisStates[i] : i \in 1..Len(AnalysisStates)}

\* In the order of sort_keys: analysis_state_counts comes before finding_count.
Keys == <<"exploitable", "resolved", "finding_count">>

\* In Python True is an integer, equal to 1, and so is 1.0.
Values == {[type |-> "int", number |-> n] : n \in -1..MaxCount + 1}
          \cup {[type |-> t, number |-> 1] : t \in {"bool", "float"}}

ReportInit == members = <<>> /\ compact \in BOOLEAN

WriteMember(key, value) ==
    /\ Len(members) < MaxMembers
    /\ members' = Append(members, <<key, value>>)
    /\ UNCHANGED compact

ReportNext == \E key \in {Keys[i] : i \in 1..Len(Keys)}, value \in Values : WriteMember(key, value)

ReportSpec == ReportInit /\ [][ReportNext]_reportVars

-----------------------------------------------------------------------------
(* Validation *)

Named(text) == {text[i][1] : i \in 1..Len(text)}

\* json.loads with object_pairs_hook.  A repeated key has no place in the result.
Distinct(text) == IsInjective([i \in 1..Len(text) |-> text[i][1]])

Parsed(text) == [key \in Named(text) |-> text[SelectLastInSeq(text, LAMBDA m : m[1] = key)][2]]

\* _require_bounded_integer
Bounded(value) == value.type = "int" /\ value.number \in 0..MaxCount

\* _require_positive_integer
Positive(value) == Bounded(value) /\ value.number # 0

Counted(report) == States \cap DOMAIN report

StateTotal(report) == SumFunction([state \in Counted(report) |-> report[state].number])

\* The items of an order that are in a set: SelectSeq, as a recursive function.
InOrder(order, set) ==
    LET among[n \in 0..Len(order)] ==
            IF n = 0 THEN <<>>
            ELSE IF order[n] \in set THEN Append(among[n - 1], order[n]) ELSE among[n - 1]
    IN among[Len(order)]

\* _canonical_report_bytes: sorted members.
CanonicalMembers(report) ==
    LET present == InOrder(Keys, DOMAIN report)
    IN [i \in 1..Len(present) |-> <<present[i], report[present[i]]>>]

MutCanonical(text, neat) == neat

Canonical(text, neat) == neat /\ text = CanonicalMembers(Parsed(text))

\* validate_report
Valid(text, neat) ==
    LET report == Parsed(text) IN
    /\ Distinct(text)
    /\ "finding_count" \in DOMAIN report
    /\ Bounded(report["finding_count"])
    /\ \A state \in Counted(report) : Positive(report[state])
    /\ StateTotal(report) = report["finding_count"].number
    /\ Canonical(text, neat)

-----------------------------------------------------------------------------
(* Outputs; a value is a sequence of lines *)

\* str(): only an integer's is a numeral.
Str(value) == <<value.type, value.number>>

\* json.dumps of the counts, in the order of ANALYSIS_STATES.
StateCounts(report) ==
    LET present == InOrder(AnalysisStates, DOMAIN report)
    IN [i \in 1..Len(present) |-> <<present[i], report[present[i]]>>]

\* report_outputs, with the path of the report.
ReportOutputs(report, path) ==
    <<[name |-> "execution-report", value |-> <<<<"json", CanonicalMembers(report)>>>>],
      [name |-> "execution-report-path", value |-> path],
      [name |-> "finding-count", value |-> <<Str(report["finding_count"])>>],
      [name |-> "analysis-state-counts", value |-> <<<<"json", StateCounts(report)>>>>]>>

MutMayDelimit(delimiter, value) == TRUE

\* publish_outputs draws until the delimiter is not in the value.
MayDelimit(delimiter, value) == ~Contains(value, delimiter)

\* name<<delimiter, the value, delimiter
Record(output, delimiter) ==
    <<<<"open", output.name, delimiter>>>> \o output.value \o <<delimiter>>

\* The runner: from an opening line to the first later line that is its delimiter.
Ending(lines, i) == SelectInSubSeq(lines, i + 1, Len(lines), LAMBDA line : line = lines[i][3])

Outputs(lines) ==
    LET read[i \in 1..Len(lines) + 1] ==
            IF i > Len(lines) THEN <<>>
            ELSE IF lines[i][1] # "open" \/ Ending(lines, i) = 0
            THEN <<[name |-> "invalid", value |-> <<>>]>>
            ELSE <<[name |-> lines[i][2], value |-> SubSeq(lines, i + 1, Ending(lines, i) - 1)]>>
                 \o read[Ending(lines, i) + 1]
    IN read[1]

-----------------------------------------------------------------------------
(* Properties *)

Accepted == Valid(members, compact)

\* Readers of the file at execution-report-path and readers of the execution-report output
\* get the same text: no JSON reader, whichever of two equal keys it keeps, sees other
\* counts than the ones that were validated.
FileIsTheOutput ==
    Accepted => compact /\ ReportOutputs(Parsed(members), <<>>)[1].value = <<<<"json", members>>>>

\* A workflow may do arithmetic on the outputs: the counts are numerals, never "True" or
\* "1.0", none in analysis-state-counts is zero, and they sum to finding-count.
CountsAddUp ==
    Accepted =>
        LET outputs == ReportOutputs(Parsed(members), <<>>)
            counts == outputs[4].value[1][2]
        IN /\ outputs[3].value[1][1] = "int"
           /\ \A i \in 1..Len(counts) : counts[i][2].type = "int" /\ counts[i][2].number > 0
           /\ outputs[3].value[1][2] = SumFunction([i \in 1..Len(counts) |-> counts[i][2].number])

\* Outputs and file say what was validated.
OutputsAreTheReport == FileIsTheOutput /\ CountsAddUp

\* Whatever the path looks like, and whichever delimiters are drawn, the runner reads back
\* exactly the outputs.
RunnerReadsOutputs ==
    Accepted =>
        \A path \in {<<<<"dir">>>>} \cup {<<d, <<"dir">>>> : d \in Delimiters} :
            LET outputs == ReportOutputs(Parsed(members), path) IN
            \A drawn \in [1..Len(outputs) -> Delimiters] :
                (\A i \in 1..Len(outputs) : MayDelimit(drawn[i], outputs[i].value)) =>
                    Outputs(FlattenSeq([i \in 1..Len(outputs) |-> Record(outputs[i], drawn[i])]))
                        = outputs
=============================================================================
