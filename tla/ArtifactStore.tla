---------------------------- MODULE ArtifactStore ----------------------------
(***************************************************************************)
(* What ArtifactWriter.write_section does to a project tree: path policy,  *)
(* manifest integrity, section composition, and the manifest entry.  The   *)
(* same writer serves the real project and the staging copy, so every      *)
(* operator takes the disk it works on.                                    *)
(*                                                                         *)
(* A file is its sequence of lines, a line is a marker or a piece of text. *)
(* A SHA-256 is modelled by the content it was computed from.              *)
(***************************************************************************)
EXTENDS Integers, Sequences

CONSTANTS
    PlatformFiles,  \* paths under my-harness-platform/src and /tests
    StorageFiles,   \* paths under storage/: writable, not copied to staging
    OutsideFiles,   \* relative paths outside every writable root
    EscapingFiles,  \* platform paths that leave the root through a symlink
    Sections,       \* section ids
    Default,        \* the section id "default", whose tokens carry no id
    Bodies          \* section bodies, one line each

Files == PlatformFiles \cup StorageFiles \cup OutsideFiles

-----------------------------------------------------------------------------
\* Lines and files

MarkerLine == [t |-> "marker", v |-> "@generated"]
BeginLine(s) == [t |-> "begin", v |-> s]
EndLine(s) == [t |-> "end", v |-> s]
TextLine(txt) == [t |-> "text", v |-> txt]

TokenLine == [t : {"marker"}, v : {"@generated"}]
                 \cup [t : {"begin", "end"}, v : Sections]

\* What a human writes into a file.
HumanLine == TextLine("human text")

Line == TokenLine \cup Bodies \cup {HumanLine}

\* Nothing keeps a body from being a token of a section, or the marker.
ASSUME StoreAssumption ==
    /\ EscapingFiles \subseteq PlatformFiles
    /\ PlatformFiles \cap StorageFiles = {}
    /\ (PlatformFiles \cup StorageFiles) \cap OutsideFiles = {}
    /\ Default \in Sections
    /\ "none" \notin Sections
    /\ \A b \in Bodies : b \in TokenLine \/ b = TextLine(b.v)

\* No body is one: what composition needs to find a section again.
PlainBodies == \A b \in Bodies : b.t = "text"

FileState == [exists : BOOLEAN, lines : Seq(Line)]
NoFile == [exists |-> FALSE, lines |-> <<>>]
FileWith(c) == [exists |-> TRUE, lines |-> c]

Patch == [sec : Sections, body : Bodies]
NoBody == [t |-> "none", v |-> "none"]
NoPatch == [sec |-> "none", body |-> NoBody]

-----------------------------------------------------------------------------
\* Composition of a section into a file

HasMarker(c) == \E i \in DOMAIN c : i <= 3 /\ c[i] = MarkerLine

\* The default tokens are prefixes of every section's tokens, so a search for
\* the default section finds the tokens of any section.
Matches(s, line) == s = Default \/ line.v = s
IsBegin(s, line) == line.t = "begin" /\ Matches(s, line)
IsEnd(s, line)   == line.t = "end" /\ Matches(s, line)

HasTokens(c, s) ==
    /\ \E i \in DOMAIN c : IsBegin(s, c[i])
    /\ \E j \in DOMAIN c : IsEnd(s, c[j])

\* Lines i to j are the leftmost, shortest match of the section pattern.
IsSpan(c, s, i, j) ==
    /\ i < j
    /\ IsBegin(s, c[i]) /\ \A k \in 1..(i-1) : ~IsBegin(s, c[k])
    /\ IsEnd(s, c[j])   /\ \A k \in (i+1)..(j-1) : ~IsEnd(s, c[k])

\* Mutants: what follows the section is lost; the end line is off by one.
ReplaceSpanToEnd(c, s, b, i, j) ==
    SubSeq(c, 1, i - 1) \o <<BeginLine(s), b, EndLine(c[j].v)>>
ReplaceSpanShifted(c, s, b, i, j) ==
    SubSeq(c, 1, i - 1)
      \o <<BeginLine(s), b, EndLine(c[j - 1].v)>>
      \o SubSeq(c, j + 1, Len(c))

\* The pattern stops inside the end line it found: a section suffix of that
\* line stays where it was, whatever section is being written.
ReplaceSpan(c, s, b, i, j) ==
    SubSeq(c, 1, i - 1)
      \o <<BeginLine(s), b, EndLine(c[j].v)>>
      \o SubSeq(c, j + 1, Len(c))

\* Mutant: without DOTALL the pattern never spans the lines of a section.
ReplaceWithinLine(c, s, b) == c

\* Both tokens present but the end before the begin: nothing is replaced.
ReplaceSection(c, s, b) ==
    IF \E ij \in (DOMAIN c) \X (DOMAIN c) : IsSpan(c, s, ij[1], ij[2])
    THEN LET ij == CHOOSE ij \in (DOMAIN c) \X (DOMAIN c) :
                       IsSpan(c, s, ij[1], ij[2])
         IN ReplaceSpan(c, s, b, ij[1], ij[2])
    ELSE c

NewSection(s, b) == <<BeginLine(s), b, EndLine(s)>>

Compose(f, p) ==
    IF ~f.exists THEN <<MarkerLine>> \o NewSection(p.sec, p.body)
    ELSE IF HasTokens(f.lines, p.sec)
         THEN ReplaceSection(f.lines, p.sec, p.body)
         ELSE f.lines \o NewSection(p.sec, p.body)

-----------------------------------------------------------------------------
\* Disks: a project tree and its .generated_manifest.json

Disk == [tree : [Files -> FileState], manifest : [Files -> FileState]]

EmptyDisk == [tree |-> [f \in Files |-> NoFile],
              manifest |-> [f \in Files |-> NoFile]]

\* _load_manifest takes a missing manifest, and one that is no JSON, for empty.
WithoutManifest(d) == [d EXCEPT !.manifest = EmptyDisk.manifest]

\* A file deleted from outside is tolerated, a changed one is not.
IntegrityOK(d) ==
    \A f \in Files : d.manifest[f].exists /\ d.tree[f].exists
                       => d.tree[f] = d.manifest[f]

StagingWritable == PlatformFiles \cup StorageFiles
ProjectWritable == StagingWritable \ EscapingFiles

\* Why write_section refuses to write file f, "none" if it does not.
WriteError(d, writable, f) ==
    IF f \notin writable THEN "traversal"
    ELSE IF \/ ~IntegrityOK(d)
            \/ d.tree[f].exists /\ ~HasMarker(d.tree[f].lines)
         THEN "overwrite"
         ELSE "none"

\* The new file, before its manifest entry is recorded.
WriteFile(d, f, p) ==
    [d EXCEPT !.tree[f] = FileWith(Compose(d.tree[f], p))]

\* The whole of write_section: the file, then its hash in the manifest.
WriteSection(d, f, p) ==
    LET w == WriteFile(d, f, p)
    IN [w EXCEPT !.manifest[f] = w.tree[f]]

\* Mutant: staging starts empty although the platform exists.
CopyNothing(d) == EmptyDisk

\* _prepare_staging copies my-harness-platform, the manifest included.
CopyPlatform(d) ==
    [d EXCEPT !.tree = [f \in Files |-> IF f \in PlatformFiles
                                        THEN d.tree[f] ELSE NoFile]]

\* File f carries body p.body as its section p.sec.
HasSection(f, p) ==
    /\ f.exists
    /\ \E i \in 1..(Len(f.lines) - 2) :
         /\ f.lines[i] = BeginLine(p.sec)
         /\ f.lines[i + 1] = p.body
         /\ IsEnd(p.sec, f.lines[i + 2])
=============================================================================
