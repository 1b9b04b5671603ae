---------------------------- MODULE PromptLoader ----------------------------
(***************************************************************************)
(* PromptLoader.load and PromptContract (services/prompt_loader.py): which *)
(* guides an agent may be built from, and what of a guide its system       *)
(* prompt holds.  A guide is its lines; a line is the section that it      *)
(* opens, if it is a header, and what it says, as a set of phrases.        *)
(***************************************************************************)
EXTENDS Naturals, Sequences

CONSTANTS
    MaxBytes,   \* _MAX_BYTES, in lines
    MaxBody     \* the longest body of a section, in lines

ASSUME LoaderAssumption == MaxBytes \in Nat /\ MaxBody \in Nat

AllowedSections == {"ROLE", "CONSTRAINTS", "OUTPUT_FORMAT"}

\* No header: what does not match _SECTION_HEADER is text, the title too.
Text == "text"

\* What the patterns of _INJECTION_SIGNATURES match.
Forbidden == "forbidden"

\* A header is a whole line of the file, and says nothing else.
Line ==
    [section : STRING, says : {{}}] \cup [section : {Text}, says : SUBSET STRING]

Guide == [exists : BOOLEAN, lines : Seq(Line)]

\* The guide that does not exist.
NoFile == [exists |-> FALSE, lines |-> <<>>]

-----------------------------------------------------------------------------
Headers(lines) == {i \in DOMAIN lines : lines[i].section # Text}

Section(lines, name) == {i \in Headers(lines) : lines[i].section = name}

\* Mutant: a section ends where the guide does.
BodyToEnd(lines, i) == {j \in DOMAIN lines : j > i /\ j \notin Headers(lines)}

\* The lines from a header to the next one.
Body(lines, i) ==
    {j \in DOMAIN lines : j > i /\ \A h \in Headers(lines) : h <= i \/ h > j}

\* What a set of lines says.
Says(lines, js) == UNION {lines[j].says : j \in js}

\* load raises for a guide that is missing, too large, or whose headers are
\* not the allowed ones, each once; the contract for a body that is empty, too
\* long, or matches one of the patterns.
Accepts(guide) ==
    LET lines == guide.lines IN
    /\ guide.exists
    /\ Len(lines) <= MaxBytes
    /\ {lines[i].section : i \in Headers(lines)} = AllowedSections
    /\ \A i, j \in Headers(lines) : lines[i].section = lines[j].section => i = j
    /\ \A i \in Headers(lines) :
          LET said == {j \in Body(lines, i) : lines[j].says # {}} IN
          /\ said # {}
          /\ \A j, l \in said : l - j < MaxBody
          /\ Forbidden \notin Says(lines, said)

\* The contract of an accepted guide: for each section what its body says.
Contract(guide) ==
    [name \in AllowedSections |->
        LET i == CHOOSE h \in Section(guide.lines, name) : TRUE
        IN Says(guide.lines, Body(guide.lines, i))]

\* The system prompt.
Render(contract) == UNION {contract[name] : name \in AllowedSections}
=============================================================================
