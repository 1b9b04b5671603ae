---------------------------- MODULE SectionStore ----------------------------
(***************************************************************************)
(* What ArtifactWriter promises to the code that calls write_section and   *)
(* to the humans who share the project with it: a section write takes      *)
(* effect at once, on the file and on the manifest; a write that a crash   *)
(* cuts off has either not happened, or has happened on the file alone;    *)
(* and nothing else changes the project but a human.                       *)
(***************************************************************************)
EXTENDS ArtifactStore

CONSTANTS
    Requests,    \* the section writes that may be asked for
    StartDisks   \* the projects the store may start from

VARIABLE disk

PatchOf(r) == [sec |-> r.sec, body |-> r.body]

Init == disk \in StartDisks

Accepted(r) == WriteError(disk, ProjectWritable, r.file) = "none"

Write(r) == Accepted(r) /\ disk' = WriteSection(disk, r.file, PatchOf(r))
TornWrite(r) == Accepted(r) /\ disk' = WriteFile(disk, r.file, PatchOf(r))

\* A human appends to a file or removes it.
EditFile(d, f) ==
    [d EXCEPT !.tree[f] = FileWith(Append(d.tree[f].lines, HumanLine))]
RemoveFile(d, f) == [d EXCEPT !.tree[f] = NoFile]

Edit(f) ==
    f \in ProjectWritable /\ disk' \in {EditFile(disk, f), RemoveFile(disk, f)}

\* Someone removes the manifest, or damages it.
LoseManifest == disk' = WithoutManifest(disk)

Next ==
    \/ \E r \in Requests : Write(r) \/ TornWrite(r)
    \/ \E f \in Files : Edit(f)
    \/ LoseManifest

Spec == Init /\ [][Next]_disk
=============================================================================
