---------------------------- MODULE ReleaseNotes ----------------------------
(***************************************************************************)
(* The text of release notes: render_release_notes_v1 and                  *)
(* parse_release_metadata in scripts/release_metadata.py.  Subjects of     *)
(* commits go into the notes as they are, between Markdown and a machine-  *)
(* readable block; readers must see them literally, and the parser must    *)
(* find its own block.  A text is a sequence of symbols: what Markdown     *)
(* and the parser tell apart.                                              *)
(***************************************************************************)
EXTENDS Integers, Sequences, SequencesExt

CONSTANT MaxSymbols  \* bound of the instance: in all subjects

ASSUME NotesAssumption == MaxSymbols \in Nat

VARIABLE subjects  \* of the commits in the release range

\* START is RELEASE_METADATA_START; "." stands for any other text.
Symbols == {"tick", " ", ".", "START"}

Size == FoldSeq(LAMBDA subject, size : Len(subject) + size, 0, subjects)

SubjectsInit == subjects = <<>>

NextCommit == Len(subjects) < 2 /\ subjects' = Append(subjects, <<>>)

WriteSymbol(symbol) ==
    /\ subjects # <<>> /\ Size < MaxSymbols
    /\ subjects' = [subjects EXCEPT ![Len(subjects)] = Append(@, symbol)]

SubjectsNext == NextCommit \/ \E symbol \in Symbols : WriteSymbol(symbol)

SubjectsSpec == SubjectsInit /\ [][SubjectsNext]_subjects

\* git's %s is trimmed.
Trimmed(text) == text # <<>> => text[1] # " " /\ text[Len(text)] # " "

Committed == \A i \in 1..Len(subjects) : Trimmed(subjects[i])

-----------------------------------------------------------------------------
(* Rendering *)

Ticks(n) == [i \in 1..n |-> "tick"]

\* The longest run of backticks.
LongestRun(text) ==
    LET runs(n) == {i \in 0..Len(text) - n : SubSeq(text, i + 1, i + n) = Ticks(n)}
    IN CHOOSE n \in 0..Len(text) : runs(n) # {} /\ runs(n + 1) = {}

MutInlineCode(text) == <<"tick", " ">> \o text \o <<" ", "tick">>

\* inline_code_v1
InlineCode(text) ==
    Ticks(LongestRun(text) + 1) \o <<" ">> \o text \o <<" ">> \o Ticks(LongestRun(text) + 1)

\* An item of the list of commits: the abbreviated hash and the subject.
CommitLine(text) == <<"- ", "tick", "sha", "tick", " ">> \o InlineCode(text)

Metadata == <<"tag=v1.0.0", "commit=sha", "notes_format=1", "compatibility_sha256=sha", "-->">>

\* render_release_notes_v1, a sequence of lines.
RenderedNotes(texts) ==
    <<<<"## Changes">>, <<>>>>
    \o (IF texts = <<>> THEN <<<<"No commits">>>>
        ELSE [i \in 1..Len(texts) |-> CommitLine(texts[i])])
    \o <<<<>>, <<"## Tested compatibility">>, <<>>, <<"START">>>>
    \o [i \in 1..Len(Metadata) |-> <<Metadata[i]>>]

-----------------------------------------------------------------------------
(* Reading *)

\* body.rfind(RELEASE_METADATA_START): everything from its last occurrence on.
Block(body) ==
    LET at == SelectLastInSeq(body, LAMBDA line : Contains(line, "START"))
        from == SelectLastInSeq(body[at], LAMBDA s : s = "START")
    IN <<SubSeq(body[at], from, Len(body[at]))>> \o SubSeq(body, at + 1, Len(body))

\* parse_release_metadata accepts a whole block to the end of the notes and nothing else.
ParsesBack(body) == Block(body)[1] = <<"START">> /\ Len(Block(body)) = Len(Metadata) + 1

\* CommonMark on one line: a run of backticks opens a code span that the next run of
\* exactly its length closes; one space inside either end is dropped.
RunLength(text, i) == CHOOSE n \in 1..Len(text) + 1 - i :
    /\ \A j \in i..i + n - 1 : text[j] = "tick"
    /\ i + n > Len(text) \/ text[i + n] # "tick"

Closers(text, i) ==
    {j \in i + RunLength(text, i) + 1..Len(text) :
        /\ text[j] = "tick" /\ text[j - 1] # "tick"
        /\ RunLength(text, j) = RunLength(text, i)}

Inner(text) ==
    IF text[1] = " " /\ text[Len(text)] = " " /\ \E i \in 1..Len(text) : text[i] # " "
    THEN SubSeq(text, 2, Len(text) - 1) ELSE text

Markdown(text) ==
    LET parse[i \in 1..Len(text) + 1] ==
            IF i > Len(text) THEN <<>>
            ELSE IF text[i] # "tick" THEN <<<<"text", text[i]>>>> \o parse[i + 1]
            ELSE IF Closers(text, i) = {}
            THEN <<<<"text", "tick">>>> \o parse[i + RunLength(text, i)]
            ELSE LET j == CHOOSE j \in Closers(text, i) : \A k \in Closers(text, i) : j <= k
                 IN <<<<"code">> \o Inner(SubSeq(text, i + RunLength(text, i), j - 1))>>
                    \o parse[j + RunLength(text, i)]
    IN parse[1]

-----------------------------------------------------------------------------
(* Properties *)

\* "Format 1 renders commit subjects as literal code": whatever backticks a subject has
\* and wherever it has them, Markdown shows exactly the subject, in one code span.
SubjectsAreLiteral ==
    Committed =>
        \A i \in 1..Len(subjects) : subjects[i] # <<>> =>
            Markdown(CommitLine(subjects[i])) =
                <<<<"text", "- ">>, <<"code", "sha">>, <<"text", " ">>, <<"code">> \o subjects[i]>>

\* render_release_notes never refuses its own notes, even when subjects quote the block.
NotesParseBack == Committed => ParsesBack(RenderedNotes(subjects))

\* What authors write is data, to the readers of the notes and to their parser.
SubjectsAreData == SubjectsAreLiteral /\ NotesParseBack
=============================================================================
