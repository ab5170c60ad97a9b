---------------------------- MODULE CommitMessage ----------------------------
(***************************************************************************)
(* What a commit message asks for: classify_commit and                     *)
(* final_footer_paragraph in scripts/release_state.py.  A message is a     *)
(* sequence of lines, a line is what the patterns tell apart; an author    *)
(* writes it line by line.  git strips blank lines at either end, so a     *)
(* message is classified as it is when its last line is not blank.         *)
(***************************************************************************)
EXTENDS BumpRanks, Sequences

CONSTANT MaxLines  \* bound of the instance

ASSUME MessageAssumption == MaxLines \in Nat

VARIABLE draft

\* bang: "fix(api)!: text";  feat, fix: "feat: text";  scoped: "feat(api): text";
\* revert: a scoped "fix(api): text" or git's own 'Revert "text"';
\* trailer: any other "token: text";  breaking: "BREAKING CHANGE: text";
\* marker: a line with [skip release];  blank: spaces and tabs at most.
Lines == {"bang", "feat", "fix", "scoped", "revert", "trailer", "breaking", "text", "marker",
          "blank"}

\* FOOTER_ENTRY_PATTERN; a conventional subject without a scope has the same form.
FooterEntries == {"breaking", "trailer", "feat", "fix"}

DraftInit == draft = <<>>

Written == draft # <<>> /\ draft[Len(draft)] # "blank"

WriteLine(line) ==
    /\ Len(draft) < MaxLines
    /\ draft = <<>> => line # "blank"
    /\ draft' = Append(draft, line)

DraftNext == \E line \in Lines : WriteLine(line)

DraftSpec == DraftInit /\ [][DraftNext]_draft

-----------------------------------------------------------------------------

\* re.split(r"\n[ \t]*\n"): a blank line separates two paragraphs together with the
\* line ends around it.  One match takes both, so the line below a separator
\* cannot be one.
Splits(m) ==
    LET splits[i \in 1..Len(m)] == m[i] = "blank" /\ i > 1 /\ ~splits[i - 1]
    IN splits

\* Where the last paragraph begins, 1 if it is the only one.
LastParagraph(m) ==
    CHOOSE i \in 1..Len(m) :
        /\ i = 1 \/ Splits(m)[i - 1]
        /\ \A j \in i..Len(m) : ~Splits(m)[j]

MutSubjectFooter(m) ==
    LET start == LastParagraph(m)
    IN IF m[start] \in FooterEntries THEN {m[i] : i \in start..Len(m)} ELSE {}

MutPureFooter(m) ==
    LET start == LastParagraph(m)
    IN IF start > 1 /\ \A i \in start..Len(m) : m[i] \in FooterEntries
       THEN {m[i] : i \in start..Len(m)} ELSE {}

\* final_footer_paragraph: not the subject's own, and its first line is an entry.
Footer(m) ==
    LET start == LastParagraph(m)
    IN IF start > 1 /\ m[start] \in FooterEntries
       THEN {m[i] : i \in start..Len(m)} ELSE {}

\* classify_commit
Classified(m) ==
    CASE \E i \in 1..Len(m) : m[i] = "marker" -> Skip
      [] m[1] = "bang" \/ "breaking" \in Footer(m) -> Major
      [] m[1] \in {"feat", "scoped"} -> Minor
      [] m[1] \in {"fix", "revert"} -> Patch
      [] OTHER -> Skip

-----------------------------------------------------------------------------
(* Properties *)

\* The table of docs/how-to/release-action.md, read without the regular expressions:
\* paragraphs are what blank lines separate, and a footer counts in the last one only.
Documented(m) ==
    LET paragraph == {i \in 1..Len(m) : \A j \in i..Len(m) : m[j] # "blank"}
        footer == /\ 1 \notin paragraph
                  /\ \E i \in paragraph : i - 1 \notin paragraph /\ m[i] \in FooterEntries
                  /\ \E i \in paragraph : m[i] = "breaking"
    IN CASE "marker" \in {m[i] : i \in 1..Len(m)} -> Skip
         [] m[1] = "bang" \/ footer -> Major
         [] m[1] \in {"feat", "scoped"} -> Minor
         [] m[1] \in {"fix", "revert"} -> Patch
         [] OTHER -> Skip

\* Messages that git's own cleanup has gone over, which leaves no two blank lines
\* together, mean what the table says.
CleanMessagesAsDocumented ==
    /\ Written
    /\ \A i \in 2..Len(draft) : draft[i] = "blank" => draft[i - 1] # "blank"
    => Classified(draft) = Documented(draft)

\* Every message means what the table says.
MessagesAsDocumented == Written => Classified(draft) = Documented(draft)

\* A trailer or a line of prose directly below the last line, as tools append
\* Signed-off-by and Change-Id, never changes what a message asks for, even when
\* that line is a subject or a footer continues over it.
TrailersAddNothing ==
    [][/\ Written
       /\ draft'[Len(draft')] \in {"trailer", "text"}
       => Classified(draft') = Classified(draft)]_draft
=============================================================================
