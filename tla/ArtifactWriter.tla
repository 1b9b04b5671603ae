--------------------------- MODULE ArtifactWriter ---------------------------
(***************************************************************************)
(* ArtifactWriter.write_section step by step: the path policy, the check   *)
(* of the manifest, the composition of the new text from the file it       *)
(* reads, the temporary file and os.replace, the hash it reads back, and   *)
(* the manifest entry.  Between any two steps the process may be killed    *)
(* (the next write is then made by a new process), an operation may fail,  *)
(* and a human may edit the project.                                       *)
(***************************************************************************)
EXTENDS ArtifactStore, FiniteSets

CONSTANTS
    Requests,     \* the section writes that may be asked for
    StartDisks,   \* the projects the writer may start from
    EditsAnytime, \* whether humans edit during a write, or only between two
    MaxWrites,    \* bound: writes asked for
    MaxEdits,     \* bound: human edits
    MaxCrashes    \* bound: processes killed

Request == [file : Files, sec : Sections, body : Bodies]

ASSUME WriterAssumption ==
    /\ Requests \subseteq Request
    /\ "none" \notin Files
    /\ StartDisks \subseteq Disk
    /\ EditsAnytime \in BOOLEAN
    /\ MaxWrites \in Nat /\ MaxEdits \in Nat /\ MaxCrashes \in Nat

VARIABLES
    pc,        \* the next step of write_section, or "idle"
    req,       \* the write in progress
    existing,  \* the file as _compose read it
    text,      \* body_to_write
    sha,       \* the hash read back: the file it was computed from
    temp,      \* whether a temporary file of the write in progress exists
    orphans,   \* temporary files that no process will remove
    disk,      \* the project tree and its manifest
    result,    \* how the last write ended
    unrecorded,\* observer: files a human changed from what the writer holds for
               \* its own, as long as the change is in the file
    raced,     \* observer: files changed while the write in progress did not
               \* look, between its check and its read, or its replace and hash
    writes, edits, crashes

vars == <<pc, req, existing, text, sha, temp, orphans, disk, result, unrecorded,
          raced, writes, edits, crashes>>
bounds == <<writes, edits, crashes>>

NoRequest == [file |-> "none", sec |-> "none", body |-> NoBody]
PatchOf(r) == [sec |-> r.sec, body |-> r.body]

Result == {"none", "ok", "traversal", "overwrite", "error", "killed"}

TypeOK ==
    /\ pc \in {"idle", "verify", "compose", "temp", "replace", "hash", "entry",
              "record"}
    /\ req \in Request \cup {NoRequest}
    /\ existing \in FileState /\ text \in FileState
    /\ sha \in FileState
    /\ temp \in BOOLEAN
    /\ orphans \in Nat
    /\ disk \in Disk
    /\ result \in Result
    /\ unrecorded \subseteq Files /\ raced \subseteq Files
    /\ writes \in 0..MaxWrites
    /\ edits \in 0..MaxEdits
    /\ crashes \in 0..MaxCrashes

Init ==
    /\ pc = "idle" /\ req = NoRequest
    /\ existing = NoFile /\ text = NoFile /\ sha = NoFile
    /\ temp = FALSE /\ orphans = 0 /\ result = "none"
    /\ unrecorded = {} /\ raced = {}
    /\ disk \in StartDisks
    /\ writes = 0 /\ edits = 0 /\ crashes = 0

-----------------------------------------------------------------------------
\* write_section

\* The write leaves; of the human edits those stay on no record that the
\* manifest does not match.
Leave(how) ==
    /\ pc' = "idle" /\ req' = NoRequest /\ temp' = FALSE /\ result' = how
    /\ existing' = NoFile /\ text' = NoFile /\ sha' = NoFile
    /\ unrecorded' = {f \in unrecorded : /\ disk'.manifest[f].exists
                                         /\ disk'.manifest[f] # disk'.tree[f]}
    /\ raced' = {}

Begin(r) ==
    /\ pc = "idle"
    /\ writes < MaxWrites
    /\ writes' = writes + 1
    /\ UNCHANGED <<orphans, disk, edits, crashes>>
    /\ \/ /\ r.file \in ProjectWritable
          /\ pc' = "verify" /\ req' = r
          /\ UNCHANGED <<existing, text, sha, temp, result, unrecorded, raced>>
       \/ /\ r.file \notin ProjectWritable
          /\ Leave("traversal")

VerifyManifest ==
    /\ pc = "verify"
    /\ UNCHANGED <<orphans, disk, bounds>>
    /\ \/ /\ IntegrityOK(disk)
          /\ pc' = "compose"
          /\ UNCHANGED <<req, existing, text, sha, temp, result, unrecorded,
                         raced>>
       \/ /\ ~IntegrityOK(disk)
          /\ Leave("overwrite")

ComposeText ==
    /\ pc = "compose"
    /\ UNCHANGED <<orphans, disk, bounds>>
    /\ LET found == disk.tree[req.file]
       IN \/ /\ found.exists => HasMarker(found.lines)
             /\ existing' = found
             /\ text' = FileWith(Compose(found, PatchOf(req)))
             /\ pc' = "temp"
             /\ UNCHANGED <<req, sha, temp, result, unrecorded, raced>>
          \/ /\ found.exists /\ ~HasMarker(found.lines)
             /\ Leave("overwrite")

WriteTemp ==
    /\ pc = "temp"
    /\ temp' = TRUE
    /\ pc' = "replace"
    /\ UNCHANGED <<req, existing, text, sha, orphans, disk, result, unrecorded,
                   raced, bounds>>

\* Mutant: the temporary file is copied, not renamed.
ReplaceByCopy ==
    /\ pc = "replace"
    /\ disk' = [disk EXCEPT !.tree[req.file] = text]
    /\ unrecorded' = IF disk.tree[req.file] = existing THEN unrecorded
                     ELSE unrecorded \ {req.file}
    /\ temp' = FALSE /\ orphans' = orphans + 1
    /\ pc' = "hash"
    /\ UNCHANGED <<req, existing, text, sha, result, raced, bounds>>

\* An edit made since the file was read is overwritten.
Replace ==
    /\ pc = "replace"
    /\ disk' = [disk EXCEPT !.tree[req.file] = text]
    /\ unrecorded' = IF disk.tree[req.file] = existing THEN unrecorded
                     ELSE unrecorded \ {req.file}
    /\ temp' = FALSE
    /\ pc' = "hash"
    /\ UNCHANGED <<req, existing, text, sha, orphans, result, raced, bounds>>

\* Mutants: the hash is that of the file as it was read; the write is verified
\* again and never recorded.
ReadHashStale ==
    /\ pc = "hash"
    /\ disk.tree[req.file].exists
    /\ sha' = existing
    /\ pc' = "entry"
    /\ UNCHANGED <<req, existing, text, temp, orphans, disk, result, unrecorded,
                   raced, bounds>>
ReadHashAgain ==
    /\ pc = "hash"
    /\ pc' = "verify"
    /\ UNCHANGED <<req, existing, text, sha, temp, orphans, disk, result,
                   unrecorded, raced, bounds>>

\* The hash is not of the text written but of the file as it is read back.
ReadHash ==
    /\ pc = "hash"
    /\ disk.tree[req.file].exists
    /\ sha' = disk.tree[req.file]
    /\ pc' = "entry"
    /\ UNCHANGED <<req, existing, text, temp, orphans, disk, result, unrecorded,
                   raced, bounds>>

\* _record loads the manifest again and writes it, all entries in one file, to
\* a temporary file of its own, then replaces it.
WriteEntry ==
    /\ pc = "entry"
    /\ temp' = TRUE
    /\ pc' = "record"
    /\ UNCHANGED <<req, existing, text, sha, orphans, disk, result, unrecorded,
                   raced, bounds>>

\* Mutant: the hash is computed again when the entry is made.
RecordAgain ==
    /\ pc = "record"
    /\ disk' = [disk EXCEPT !.manifest[req.file] = disk.tree[req.file]]
    /\ Leave("ok")
    /\ UNCHANGED <<orphans, bounds>>

Record ==
    /\ pc = "record"
    /\ disk' = [disk EXCEPT !.manifest[req.file] = sha]
    /\ Leave("ok")
    /\ UNCHANGED <<orphans, bounds>>

\* A temporary file of the write in progress may exist.
MayHaveTemp == temp \/ pc \in {"temp", "entry"}

\* A file operation fails: the temporary file is unlinked, unless that fails as
\* well, which is swallowed, and the error raised.
Fail ==
    /\ pc # "idle"
    /\ \/ UNCHANGED orphans
       \/ MayHaveTemp /\ orphans' = orphans + 1
    /\ UNCHANGED <<disk, bounds>>
    /\ Leave("error")

-----------------------------------------------------------------------------
\* The environment

\* The process is killed, or stopped by Ctrl-C, which the clause that unlinks
\* does not catch.
Crash ==
    /\ pc # "idle"
    /\ crashes < MaxCrashes
    /\ crashes' = crashes + 1
    /\ \/ ~temp /\ UNCHANGED orphans
       \/ MayHaveTemp /\ orphans' = orphans + 1
    /\ UNCHANGED <<disk, writes, edits>>
    /\ Leave("killed")

\* A human appends to a file or removes it.
EditFile(d, f) ==
    [d EXCEPT !.tree[f] = FileWith(Append(d.tree[f].lines, HumanLine))]
RemoveFile(d, f) == [d EXCEPT !.tree[f] = NoFile]

\* What the writer holds, or is about to, for its own text of a file.
Held(f) ==
    CASE f = req.file /\ pc = "hash" -> text
      [] f = req.file /\ pc \in {"entry", "record"} -> sha
      [] OTHER -> disk.manifest[f]

HumanEdit(f) ==
    /\ edits < MaxEdits
    /\ EditsAnytime \/ pc = "idle"
    /\ f \in ProjectWritable
    /\ \/ /\ disk' = EditFile(disk, f)
          /\ unrecorded' = IF Held(f).exists /\ Held(f) # disk'.tree[f]
                           THEN unrecorded \cup {f} ELSE unrecorded \ {f}
          /\ raced' = IF f = req.file /\ pc \in {"compose", "hash"}
                      THEN raced \cup {f} ELSE raced
       \/ /\ disk' = RemoveFile(disk, f)
          /\ unrecorded' = unrecorded \ {f}
          /\ UNCHANGED raced
    /\ edits' = edits + 1
    /\ UNCHANGED <<pc, req, existing, text, sha, temp, orphans, result, writes,
                   crashes>>

\* The manifest is removed, or damaged: a text that is no JSON is read as an
\* empty manifest.  Edits made before it was lost can no longer be detected.
LoseManifest ==
    /\ edits < MaxEdits
    /\ EditsAnytime \/ pc = "idle"
    /\ disk' = WithoutManifest(disk)
    /\ unrecorded' = {}
    /\ edits' = edits + 1
    /\ UNCHANGED <<pc, req, existing, text, sha, temp, orphans, result, raced,
                   writes, crashes>>

-----------------------------------------------------------------------------
\* Specification

Step ==
    \/ VerifyManifest
    \/ ComposeText
    \/ WriteTemp
    \/ Replace
    \/ ReadHash
    \/ WriteEntry
    \/ Record

Next ==
    \/ \E r \in Requests : Begin(r)
    \/ Step
    \/ Fail
    \/ Crash
    \/ \E f \in Files : HumanEdit(f)
    \/ LoseManifest
    \/ pc = "idle" /\ UNCHANGED vars    \* nothing is asked for

Spec == Init /\ [][Next]_vars

\* A write in progress goes on: write_section waits for nothing.
FairSpec == Spec /\ WF_vars(Step)

-----------------------------------------------------------------------------
\* Properties

\* The lines of a file that a human wrote.
HumanLines(c) == {i \in DOMAIN c : c[i] = HumanLine}
HumanCount(f) == Cardinality(HumanLines(disk.tree[f].lines))

\* No step of the writer takes away a line a human wrote: a section write only
\* touches what stands between its tokens (artifact_writer.py, rule 2).  Bodies
\* that hold tokens break it, and so do edits during a write.
HumanTextKept ==
    [][edits' = edits => \A f \in Files : HumanCount(f)' >= HumanCount(f)]_vars

\* Whenever humans edit, the manifest does not vouch for their edit of a
\* generated file, so that the next write detects it as long as there is a
\* manifest (artifact_writer.py, OverwriteError).  The exception is an edit of
\* the very file being written, made between the check and the read of the
\* file or between os.replace and the read of the hash.
NoEditVouchedFor ==
    [][\A f \in unrecorded \ raced : disk'.manifest[f] # disk.manifest[f]
           => disk'.manifest[f] # disk.tree[f]]_vars

\* Although a write makes two temporary files, and may be killed or fail, its
\* clean-up included, at any step, it leaves at most one of them in the project,
\* and none if it ended well or was refused.
OrphansBounded ==
    /\ orphans + (IF temp THEN 1 ELSE 0) <= writes
    /\ result \in {"ok", "traversal", "overwrite"} => orphans < writes

\* The steps implement the atomic store, in which a write is torn at most
\* between the file and its manifest entry, even if the process is killed or an
\* operation fails.  The abstract write happens when the concrete one records
\* its entry or is cut off after Replace: until then the file is as it was.
InFlight == pc \in {"hash", "entry", "record"}
Store == INSTANCE SectionStore WITH
    disk <- IF InFlight THEN [disk EXCEPT !.tree[req.file] = existing]
                        ELSE disk
ImplementsStore == Store!Spec

\* Every write that was begun comes to an end.
WritesEnd == (pc # "idle") ~> (pc = "idle")
=============================================================================
