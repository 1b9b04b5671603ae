---------------------------- MODULE WriterProofs ----------------------------
(***************************************************************************)
(* Proofs about the artifact writer, for all files, sections, projects and *)
(* bounds.                                                                 *)
(***************************************************************************)
EXTENDS ArtifactWriter, StoreLemmas, FiniteSetTheorems

-----------------------------------------------------------------------------
\* The abstract store's copies of the operators of ArtifactStore

LEMMA SamePlaces ==
    /\ Store!Files = Files /\ Store!ProjectWritable = ProjectWritable
    /\ Store!NoFile = NoFile /\ Store!EmptyDisk = EmptyDisk
BY DEF Files, Store!Files, ProjectWritable, Store!ProjectWritable,
       StagingWritable, Store!StagingWritable, NoFile, Store!NoFile, EmptyDisk,
       Store!EmptyDisk

LEMMA SameReplace ==
    ASSUME NEW c, NEW s, NEW b
    PROVE  Store!ReplaceSection(c, s, b) = ReplaceSection(c, s, b)
BY DEF ReplaceSection, Store!ReplaceSection, IsSpan, Store!IsSpan, IsBegin,
       Store!IsBegin, IsEnd, Store!IsEnd, Matches, Store!Matches, ReplaceSpan,
       Store!ReplaceSpan, BeginLine, Store!BeginLine, EndLine, Store!EndLine,
       TextLine, Store!TextLine

LEMMA SameCompose ==
    ASSUME NEW f, NEW p
    PROVE  Store!Compose(f, p) = Compose(f, p)
BY SameReplace
DEF Compose, Store!Compose, HasTokens, Store!HasTokens, IsBegin, Store!IsBegin,
    IsEnd, Store!IsEnd, Matches, Store!Matches, BeginLine, Store!BeginLine,
    EndLine, Store!EndLine, TextLine, Store!TextLine, NewSection,
    Store!NewSection, MarkerLine, Store!MarkerLine

LEMMA SameWrites ==
    ASSUME NEW d, NEW f, NEW p
    PROVE  /\ Store!WriteFile(d, f, p) = WriteFile(d, f, p)
           /\ Store!WriteSection(d, f, p) = WriteSection(d, f, p)
           /\ Store!PatchOf(p) = PatchOf(p)
BY SameCompose
DEF WriteFile, Store!WriteFile, WriteSection, Store!WriteSection, FileWith,
    Store!FileWith, PatchOf, Store!PatchOf

LEMMA SameErrors ==
    ASSUME NEW d, NEW w, NEW f
    PROVE  Store!WriteError(d, w, f) = WriteError(d, w, f)
BY SamePlaces
DEF WriteError, Store!WriteError, IntegrityOK, Store!IntegrityOK, HasMarker,
    Store!HasMarker, MarkerLine, Store!MarkerLine

LEMMA SameEdits ==
    ASSUME NEW d, NEW f
    PROVE  /\ Store!EditFile(d, f) = EditFile(d, f)
           /\ Store!RemoveFile(d, f) = RemoveFile(d, f)
           /\ Store!WithoutManifest(d) = WithoutManifest(d)
BY SamePlaces
DEF EditFile, Store!EditFile, RemoveFile, Store!RemoveFile, WithoutManifest,
    Store!WithoutManifest, FileWith, Store!FileWith, TextLine, Store!TextLine,
    HumanLine, Store!HumanLine

-----------------------------------------------------------------------------
\* Type correctness

\* A write in progress was asked for and accepted by the path policy.
RequestInv ==
    /\ pc = "idle" => req = NoRequest
    /\ pc # "idle" => req \in Requests /\ req.file \in ProjectWritable

TypeInv == TypeOK /\ RequestInv

LEMMA RequestFact ==
    ASSUME NEW r \in Requests
    PROVE  r \in Request /\ r.file \in Files /\ PatchOf(r) \in Patch
BY WriterAssumption DEF Request, PatchOf, Patch

LEMMA NoFileType == NoFile \in FileState
BY DEF NoFile, FileState

\* What a human does leaves a project.
LEMMA EditTypes ==
    ASSUME NEW d \in Disk, NEW f \in Files
    PROVE  /\ EditFile(d, f) \in Disk /\ RemoveFile(d, f) \in Disk
           /\ WithoutManifest(d) \in Disk
<1>1. d.tree[f] \in FileState /\ HumanLine \in Line
    BY EndLineFact DEF Disk
<1>2. Append(d.tree[f].lines, HumanLine) \in Seq(Line)
    BY <1>1, AppendProperties DEF FileState
<1>3. FileWith(Append(d.tree[f].lines, HumanLine)) \in FileState
    BY <1>2 DEF FileWith, FileState
<1>4. EditFile(d, f) \in Disk
    BY <1>3 DEF EditFile, Disk
<1>5. RemoveFile(d, f) \in Disk
    BY NoFileType DEF RemoveFile, Disk
<1>6. EmptyDisk.manifest \in [Files -> FileState]
    BY EmptyDiskType DEF Disk
<1>7. WithoutManifest(d) \in Disk
    BY <1>6 DEF WithoutManifest, Disk
<1> QED  BY <1>4, <1>5, <1>7

\* The text that ComposeText keeps.
LEMMA TextType ==
    ASSUME NEW d \in Disk, NEW r \in Requests
    PROVE  /\ d.tree[r.file] \in FileState
           /\ FileWith(Compose(d.tree[r.file], PatchOf(r))) \in FileState
<1>1. d.tree[r.file] \in FileState
    BY RequestFact DEF Disk
<1>2. Compose(d.tree[r.file], PatchOf(r)) \in Seq(Line)
    BY <1>1, RequestFact, ComposeType
<1> QED  BY <1>1, <1>2 DEF FileWith, FileState

\* The program only writes to a file what is a file.
LEMMA PutTypes ==
    ASSUME NEW d \in Disk, NEW f, NEW c \in FileState
    PROVE  /\ [d EXCEPT !.tree[f] = c] \in Disk
           /\ [d EXCEPT !.manifest[f] = c] \in Disk
BY DEF Disk

\* The actions in three groups, by what they may disturb.
LEMMA StepCases ==
    ASSUME [Next]_vars
    PROVE  \/ \E r \in Requests : Begin(r)
           \/ VerifyManifest \/ ComposeText \/ WriteTemp \/ Replace
           \/ ReadHash \/ WriteEntry \/ Record
           \/ Fail \/ Crash
           \/ \E f \in Files : HumanEdit(f)
           \/ LoseManifest
           \/ UNCHANGED vars
BY DEF Next, Step

\* A write that is over leaves the writer idle and its variables typed.
LEMMA LeaveTypes ==
    ASSUME NEW how \in Result, Leave(how)
    PROVE  /\ pc' = "idle" /\ req' = NoRequest /\ temp' = FALSE
           /\ result' \in Result
           /\ existing' \in FileState /\ text' \in FileState
           /\ sha' \in FileState
           /\ unrecorded' \subseteq unrecorded /\ raced' = {}
BY NoFileType DEF Leave

LEMMA TypeInit == Init => TypeInv
<1> SUFFICES ASSUME Init PROVE TypeInv
    OBVIOUS
<1>1. disk \in Disk
    BY WriterAssumption DEF Init
<1>2. /\ writes \in 0..MaxWrites /\ edits \in 0..MaxEdits
      /\ crashes \in 0..MaxCrashes
    BY WriterAssumption DEF Init
<1> QED  BY <1>1, <1>2, NoFileType DEF Init, TypeInv, TypeOK, RequestInv, Result

LEMMA TypeNext == TypeInv /\ [Next]_vars => TypeInv'
<1> SUFFICES ASSUME TypeInv, [Next]_vars PROVE TypeInv'
    OBVIOUS
<1>a. /\ TypeOK /\ RequestInv /\ disk \in Disk
      /\ writes \in 0..MaxWrites /\ edits \in 0..MaxEdits
      /\ crashes \in 0..MaxCrashes
      /\ MaxWrites \in Nat /\ MaxEdits \in Nat /\ MaxCrashes \in Nat
    BY WriterAssumption DEF TypeInv, TypeOK
<1>1. CASE \E r \in Requests : Begin(r)
    <2>1. PICK r \in Requests : Begin(r)
        BY <1>1
    <2>2. writes' \in 0..MaxWrites
        BY <1>a, <2>1 DEF Begin
    <2>3. r \in Request /\ "traversal" \in Result
        BY RequestFact DEF Result
    <2> QED  BY <1>a, <2>1, <2>2, <2>3, LeaveTypes
             DEF Begin, TypeInv, TypeOK, RequestInv
<1>2. CASE VerifyManifest \/ WriteTemp \/ WriteEntry
    BY <1>a, <1>2, LeaveTypes
    DEF VerifyManifest, WriteTemp, WriteEntry, TypeInv, TypeOK, RequestInv,
        Result, bounds
<1>3. CASE ComposeText
    BY <1>a, <1>3, TextType, LeaveTypes
    DEF ComposeText, TypeInv, TypeOK, RequestInv, Result, bounds
<1>4. CASE Replace
    BY <1>a, <1>4, PutTypes DEF Replace, TypeInv, TypeOK, RequestInv, bounds
<1>5. CASE ReadHash
    BY <1>a, <1>5, TextType DEF ReadHash, TypeInv, TypeOK, RequestInv, bounds
<1>6. CASE Record
    BY <1>a, <1>6, PutTypes, LeaveTypes
    DEF Record, TypeInv, TypeOK, RequestInv, Result, bounds
<1>7. CASE Fail \/ Crash
    <2>1. crashes' \in 0..MaxCrashes /\ orphans' \in Nat
        <3>1. orphans \in Nat /\ (orphans' = orphans \/ orphans' = orphans + 1)
            BY <1>a, <1>7 DEF Fail, Crash, TypeOK
        <3>2. crashes' \in 0..MaxCrashes
            BY <1>a, <1>7 DEF Fail, Crash, bounds
        <3> QED  BY <3>1, <3>2
    <2> QED  BY <1>a, <1>7, <2>1, LeaveTypes
             DEF Fail, Crash, TypeInv, TypeOK, RequestInv, Result, bounds
<1>8. CASE (\E f \in Files : HumanEdit(f)) \/ LoseManifest
    <2>1. edits' \in 0..MaxEdits
        BY <1>a, <1>8 DEF HumanEdit, LoseManifest
    <2>2. disk' \in Disk
        <3>1. CASE \E f \in Files : HumanEdit(f)
            BY <1>a, <3>1, EditTypes DEF HumanEdit
        <3>2. CASE LoseManifest
            <4>1. EmptyDisk.manifest \in [Files -> FileState]
                BY EmptyDiskType DEF Disk
            <4> QED  BY <1>a, <3>2, <4>1 DEF LoseManifest, WithoutManifest, Disk
        <3> QED  BY <1>8, <3>1, <3>2
    <2>3. unrecorded' \subseteq Files /\ raced' \subseteq Files
        BY <1>a, <1>8 DEF HumanEdit, LoseManifest, TypeOK
    <2> QED  BY <1>a, <1>8, <2>1, <2>2, <2>3
             DEF HumanEdit, LoseManifest, TypeInv, TypeOK, RequestInv
<1>9. CASE UNCHANGED vars
    BY <1>a, <1>9 DEF vars, TypeInv, TypeOK, RequestInv
<1> QED
    BY StepCases, <1>1, <1>2, <1>3, <1>4, <1>5, <1>6, <1>7, <1>8, <1>9

\* Every state of the writer has its type.
THEOREM TypeCorrect == Spec => []TypeOK
<1>1. TypeInv => TypeOK
    BY DEF TypeInv
<1> QED  BY <1>1, TypeInit, TypeNext, PTL DEF Spec

-----------------------------------------------------------------------------
\* Temporary files

\* A write in progress has left nothing behind yet, nor has one that ended well.
OrphanInv ==
    /\ orphans + (IF pc = "idle" THEN 0 ELSE 1) <= writes
    /\ result \in {"ok", "traversal", "overwrite"} => orphans < writes

TempInv == temp => pc # "idle"

LEMMA OrphanNext == TypeInv /\ OrphanInv /\ [Next]_vars => OrphanInv'
<1> SUFFICES ASSUME TypeInv, OrphanInv, [Next]_vars PROVE OrphanInv'
    OBVIOUS
<1>0. /\ orphans \in Nat /\ writes \in 0..MaxWrites /\ MaxWrites \in Nat
      /\ writes \in Int
    BY WriterAssumption DEF TypeInv, TypeOK
<1>1. CASE \E r \in Requests : Begin(r)
    <2>1. pc = "idle" /\ orphans' = orphans /\ writes' = writes + 1
        BY <1>1 DEF Begin
    <2> QED  BY <1>0, <2>1 DEF OrphanInv
<1>2. CASE Fail \/ Crash
    <2>1. /\ pc # "idle" /\ pc' = "idle" /\ writes' = writes
          /\ orphans' = orphans \/ orphans' = orphans + 1
          /\ result' \in {"error", "killed"}
        BY <1>2 DEF Fail, Crash, Leave, bounds
    <2> QED  BY <1>0, <2>1 DEF OrphanInv
<1>3. CASE UNCHANGED <<orphans, writes>> /\ pc # "idle"
    BY <1>0, <1>3 DEF OrphanInv
<1>4. CASE UNCHANGED <<orphans, writes, pc, result>>
    BY <1>4 DEF OrphanInv
<1> QED
    BY <1>1, <1>2, <1>3, <1>4, StepCases
    DEF VerifyManifest, ComposeText, WriteTemp, Replace, ReadHash, WriteEntry,
        Record, HumanEdit, LoseManifest, bounds, vars

\* Whether it fails, its clean-up included, or is killed, a write leaves at most
\* one of its two temporary files behind; one that ends well or is refused, none.
THEOREM OrphansAreBounded == Spec => []OrphansBounded
<1>1. Init => OrphanInv
    BY WriterAssumption DEF Init, OrphanInv
<1>2. Init => TempInv
    BY DEF Init, TempInv
<1>3. TempInv /\ [Next]_vars => TempInv'
    BY StepCases
    DEF TempInv, Begin, VerifyManifest, ComposeText, WriteTemp, Replace, ReadHash,
        WriteEntry, Record, Fail, Crash, HumanEdit, LoseManifest, Leave, vars
<1>4. TypeInv /\ OrphanInv /\ TempInv => OrphansBounded
    <2> SUFFICES ASSUME TypeInv, OrphanInv, TempInv
                 PROVE  OrphansBounded
        OBVIOUS
    <2>1. orphans \in Int /\ writes \in Int /\ temp \in BOOLEAN
        BY WriterAssumption DEF TypeInv, TypeOK
    <2> QED  BY <2>1 DEF OrphanInv, TempInv, OrphansBounded
<1> QED  BY <1>1, <1>2, <1>3, <1>4, TypeInit, TypeNext, OrphanNext, PTL DEF Spec

-----------------------------------------------------------------------------
\* Human edits and the manifest

\* The check of the manifest finds nothing to refuse.
Agree(x, y) == x = y \/ ~x.exists \/ ~y.exists

\* Before a write is checked, and for the files it does not write, an edit on no
\* record is there to be found.  Once it is checked, the file it found is that
\* of the manifest, an edit it did not look at apart; an edit made after the
\* hash was read differs from the hash.
UnrecordedInv ==
    /\ \A f \in unrecorded :
          /\ disk.tree[f].exists
          /\ \/ f = req.file /\ pc \in {"hash", "entry", "record"}
             \/ disk.manifest[f].exists /\ disk.manifest[f] # disk.tree[f]
    /\ pc \in {"idle", "verify"} => raced = {}
    /\ pc = "compose" /\ req.file \notin raced =>
          Agree(disk.tree[req.file], disk.manifest[req.file])
    /\ pc \in {"temp", "replace"} /\ req.file \notin raced =>
          Agree(existing, disk.manifest[req.file])
    /\ pc \in {"temp", "replace"} => text.exists
    /\ pc \in {"hash", "entry", "record"} /\ req.file \in unrecorded \ raced =>
          pc # "hash" /\ sha # disk.tree[req.file]

LEMMA UnrecordedInit == Init => UnrecordedInv
BY DEF Init, UnrecordedInv

\* A write that leaves keeps on the list what the manifest does not match.
LEMMA LeaveUnrecorded ==
    ASSUME UnrecordedInv, TypeInv, NEW how, Leave(how), disk'.tree = disk.tree
    PROVE  UnrecordedInv'
<1>1. \A f \in unrecorded' : /\ disk'.tree[f].exists
                             /\ disk'.manifest[f].exists
                             /\ disk'.manifest[f] # disk'.tree[f]
    BY DEF Leave, UnrecordedInv
<1>2. pc' = "idle" /\ raced' = {}
    BY DEF Leave
<1> QED  BY <1>1, <1>2 DEF UnrecordedInv

\* Humans edit at any time.
LEMMA EditUnrecorded ==
    ASSUME TypeInv, UnrecordedInv, NEW f \in Files, HumanEdit(f)
    PROVE  UnrecordedInv'
<1>a. disk \in Disk /\ unrecorded \subseteq Files
    BY DEF TypeInv, TypeOK
<1>b. /\ pc' = pc /\ req' = req /\ existing' = existing /\ sha' = sha
      /\ text' = text
      /\ disk'.manifest = disk.manifest
      /\ \A g \in Files \ {f} : disk'.tree[g] = disk.tree[g]
    BY <1>a DEF HumanEdit, EditFile, RemoveFile, Disk
<1>1. CASE /\ disk' = EditFile(disk, f)
           /\ unrecorded' = IF Held(f).exists /\ Held(f) # disk'.tree[f]
                            THEN unrecorded \cup {f} ELSE unrecorded \ {f}
           /\ raced' = IF f = req.file /\ pc \in {"compose", "hash"}
                       THEN raced \cup {f} ELSE raced
    <2>1. disk'.tree[f].exists
        BY <1>1, <1>a DEF EditFile, FileWith, Disk
    <2>2. ASSUME f \in unrecorded'
          PROVE  \/ f = req.file /\ pc \in {"hash", "entry", "record"}
                 \/ disk.manifest[f].exists /\ disk.manifest[f] # disk'.tree[f]
        BY <1>1, <2>2 DEF Held
    <2>3. ASSUME f \in unrecorded', f = req.file, pc \in {"entry", "record"}
          PROVE  sha # disk'.tree[f]
        BY <1>1, <2>3 DEF Held
    <2>4. \A g \in unrecorded' : g \in unrecorded \/ g = f
        BY <1>1
    <2>5. /\ pc \in {"idle", "verify"} => raced' = raced
          /\ raced \subseteq raced'
          /\ f = req.file /\ pc \in {"compose", "hash"} => f \in raced'
        BY <1>1
    <2>6. \A g \in unrecorded' :
              /\ disk'.tree[g].exists
              /\ \/ g = req.file /\ pc \in {"hash", "entry", "record"}
                 \/ disk'.manifest[g].exists /\ disk'.manifest[g] # disk'.tree[g]
        BY <1>a, <1>b, <2>1, <2>2, <2>4 DEF UnrecordedInv
    <2>7. pc \in {"hash", "entry", "record"} /\ req.file \in unrecorded' \ raced' =>
              pc # "hash" /\ sha # disk'.tree[req.file]
        <3>1. CASE req.file = f
            BY <2>3, <2>5, <3>1
        <3>2. CASE req.file # f
            BY <1>a, <1>b, <2>4, <2>5, <3>2 DEF UnrecordedInv
        <3> QED  BY <3>1, <3>2
    <2>8. pc = "compose" /\ req.file \notin raced' =>
              Agree(disk'.tree[req.file], disk'.manifest[req.file])
        <3>1. CASE req.file = f
            BY <2>5, <3>1
        <3>2. CASE req.file # f
            <4>1. pc = "compose" => req.file \in Files
                BY RequestFact DEF TypeInv, RequestInv
            <4> QED  BY <1>b, <2>5, <3>2, <4>1 DEF UnrecordedInv
        <3> QED  BY <3>1, <3>2
    <2>9. pc \in {"temp", "replace"} /\ req.file \notin raced' =>
              Agree(existing, disk'.manifest[req.file])
        BY <1>b, <2>5 DEF UnrecordedInv
    <2>10. pc \in {"idle", "verify"} => raced' = {}
        BY <2>5 DEF UnrecordedInv
    <2> QED  BY <1>b, <2>6, <2>7, <2>8, <2>9, <2>10 DEF UnrecordedInv
<1>2. CASE /\ disk' = RemoveFile(disk, f)
           /\ unrecorded' = unrecorded \ {f}
           /\ UNCHANGED raced
    <2>1. ~disk'.tree[f].exists
        BY <1>2, <1>a DEF RemoveFile, NoFile, Disk
    <2>2. \A g \in unrecorded' : g \in unrecorded /\ g \in Files \ {f}
        BY <1>2, <1>a
    <2>3. \A g \in unrecorded' :
              /\ disk'.tree[g].exists
              /\ \/ g = req.file /\ pc \in {"hash", "entry", "record"}
                 \/ disk'.manifest[g].exists /\ disk'.manifest[g] # disk'.tree[g]
        BY <1>b, <2>2 DEF UnrecordedInv
    <2>4. pc \in {"hash", "entry", "record"} /\ req.file \in unrecorded' \ raced' =>
              pc # "hash" /\ sha # disk'.tree[req.file]
        BY <1>2, <1>b, <2>2 DEF UnrecordedInv
    <2>5. pc = "compose" /\ req.file \notin raced' =>
              Agree(disk'.tree[req.file], disk'.manifest[req.file])
        <3>1. CASE req.file = f
            BY <2>1, <3>1 DEF Agree
        <3>2. CASE req.file # f
            <4>1. pc = "compose" => req.file \in Files
                BY RequestFact DEF TypeInv, RequestInv
            <4> QED  BY <1>2, <1>b, <3>2, <4>1 DEF UnrecordedInv
        <3> QED  BY <3>1, <3>2
    <2> QED  BY <1>2, <1>b, <2>3, <2>4, <2>5 DEF UnrecordedInv
<1> QED  BY <1>1, <1>2 DEF HumanEdit

LEMMA UnrecordedNext == TypeInv /\ UnrecordedInv /\ [Next]_vars => UnrecordedInv'
<1> SUFFICES ASSUME TypeInv, UnrecordedInv, [Next]_vars PROVE UnrecordedInv'
    OBVIOUS
<1>a. disk \in Disk /\ unrecorded \subseteq Files
    BY DEF TypeInv, TypeOK
<1>b. pc # "idle" => req.file \in Files
    BY RequestFact DEF TypeInv, RequestInv
<1>c. \A how : Leave(how) /\ disk'.tree = disk.tree => UnrecordedInv'
    BY LeaveUnrecorded
<1>1. CASE \E r \in Requests : Begin(r)
    <2>1. CASE \E how : Leave(how)
        BY <1>1, <1>c, <2>1 DEF Begin
    <2>2. CASE /\ pc = "idle" /\ pc' = "verify"
               /\ UNCHANGED <<disk, unrecorded, raced>>
        BY <2>2 DEF UnrecordedInv
    <2> QED  BY <1>1, <2>1, <2>2 DEF Begin
<1>2. CASE VerifyManifest
    <2>1. CASE \E how : Leave(how)
        BY <1>2, <1>c, <2>1 DEF VerifyManifest
    <2>2. CASE /\ IntegrityOK(disk) /\ pc' = "compose"
               /\ UNCHANGED <<disk, unrecorded, raced, req>>
        <3>1. unrecorded = {}
            BY <1>2, <1>a, <2>2 DEF IntegrityOK, UnrecordedInv, VerifyManifest
        <3>2. Agree(disk.tree[req.file], disk.manifest[req.file])
            BY <1>2, <1>b, <2>2 DEF IntegrityOK, Agree, VerifyManifest
        <3> QED  BY <2>2, <3>1, <3>2 DEF UnrecordedInv
    <2> QED  BY <1>2, <2>1, <2>2 DEF VerifyManifest
<1>3. CASE ComposeText
    <2>1. CASE \E how : Leave(how)
        BY <1>3, <1>c, <2>1 DEF ComposeText
    <2>2. CASE /\ existing' = disk.tree[req.file] /\ pc' = "temp"
               /\ text' = FileWith(Compose(disk.tree[req.file], PatchOf(req)))
               /\ UNCHANGED <<disk, unrecorded, raced, req>>
        <3>1. text'.exists
            BY <2>2 DEF FileWith
        <3> QED  BY <1>3, <2>2, <3>1 DEF ComposeText, UnrecordedInv
    <2> QED  BY <1>3, <2>1, <2>2 DEF ComposeText
<1>4. CASE WriteTemp \/ WriteEntry
    BY <1>4 DEF WriteTemp, WriteEntry, UnrecordedInv
<1>5. CASE Replace
    <2>0. /\ pc = "replace" /\ pc' = "hash" /\ req' = req /\ raced' = raced
          /\ disk'.manifest = disk.manifest
          /\ disk'.tree[req.file] = text
          /\ \A g \in Files \ {req.file} : disk'.tree[g] = disk.tree[g]
          /\ unrecorded' \subseteq unrecorded
        BY <1>5, <1>a, <1>b DEF Replace, Disk
    <2>1. ASSUME req.file \in unrecorded'
          PROVE  req.file \in raced
        <3>1. /\ req.file \in unrecorded
              /\ disk.tree[req.file] = existing
            BY <1>5, <2>1 DEF Replace
        <3>2. /\ disk.tree[req.file].exists
              /\ disk.manifest[req.file].exists
              /\ disk.manifest[req.file] # disk.tree[req.file]
            BY <2>0, <3>1 DEF UnrecordedInv
        <3>3. req.file \notin raced => Agree(existing, disk.manifest[req.file])
            BY <2>0 DEF UnrecordedInv
        <3> QED  BY <3>1, <3>2, <3>3 DEF Agree
    <2>2. ASSUME NEW g \in unrecorded'
          PROVE  /\ disk'.tree[g].exists
                 /\ \/ g = req.file /\ pc' \in {"hash", "entry", "record"}
                    \/ disk'.manifest[g].exists /\ disk'.manifest[g] # disk'.tree[g]
        <3>1. CASE g = req.file
            <4>1. text.exists
                BY <2>0 DEF UnrecordedInv
            <4> QED  BY <2>0, <3>1, <4>1
        <3>2. CASE g # req.file
            <4>1. g \in unrecorded /\ g \in Files \ {req.file}
                BY <1>a, <2>0, <2>2, <3>2
            <4> QED  BY <2>0, <3>2, <4>1 DEF UnrecordedInv
        <3> QED  BY <3>1, <3>2
    <2> QED  BY <2>0, <2>1, <2>2 DEF UnrecordedInv
<1>6. CASE ReadHash
    BY <1>6 DEF ReadHash, UnrecordedInv
<1>7. CASE Record
    <2>1. disk'.tree = disk.tree
        BY <1>7, <1>a DEF Record, Disk
    <2> QED  BY <1>7, <1>c, <2>1 DEF Record
<1>8. CASE Fail \/ Crash
    BY <1>8, <1>c DEF Fail, Crash
<1>9. CASE \E f \in Files : HumanEdit(f)
    BY <1>9, EditUnrecorded
<1>10. CASE LoseManifest
    <2>1. /\ disk'.tree = disk.tree /\ unrecorded' = {} /\ raced' = raced
          /\ pc' = pc /\ req' = req /\ existing' = existing /\ sha' = sha
          /\ text' = text
        BY <1>10, <1>a DEF LoseManifest, WithoutManifest, Disk
    <2>2. pc # "idle" => ~disk'.manifest[req.file].exists
        BY <1>10, <1>a, <1>b
        DEF LoseManifest, WithoutManifest, EmptyDisk, NoFile, Disk
    <2> QED  BY <2>1, <2>2 DEF UnrecordedInv, Agree
<1>11. CASE UNCHANGED vars
    BY <1>11 DEF vars, UnrecordedInv
<1> QED
    BY <1>1, <1>2, <1>3, <1>4, <1>5, <1>6, <1>7, <1>8, <1>9, <1>10, <1>11,
       StepCases

\* Whenever humans edit, an edit that a write records as its own was made to the
\* file it writes, between its check and its read or its replace and its hash:
\* any other edit of a generated file is left for the next write to detect.
THEOREM NoEditIsVouchedFor == Spec => NoEditVouchedFor
<1>1. ASSUME TypeInv, UnrecordedInv, [Next]_vars, NEW f \in unrecorded \ raced,
             disk'.manifest[f] # disk.manifest[f]
      PROVE  disk'.manifest[f] # disk.tree[f]
    <2>a. f \in Files /\ disk \in Disk
        BY <1>1 DEF TypeInv, TypeOK
    <2>1. CASE LoseManifest
        <3>1. disk.tree[f].exists
            BY <1>1 DEF UnrecordedInv
        <3>2. disk'.manifest[f] = NoFile
            BY <2>1, <2>a DEF LoseManifest, WithoutManifest, EmptyDisk, Disk
        <3> QED  BY <3>1, <3>2 DEF NoFile
    <2>2. CASE Record
        <3>1. f = req.file /\ disk'.manifest[f] = sha
            BY <1>1, <2>a, <2>2 DEF Record, Disk
        <3> QED  BY <1>1, <2>2, <3>1 DEF Record, UnrecordedInv
    <2>3. CASE disk'.manifest = disk.manifest
        BY <1>1, <2>3
    <2>4. CASE Replace \/ \E g \in Files : HumanEdit(g)
        <3>1. disk'.manifest = disk.manifest
            BY <2>4, <2>a DEF Replace, HumanEdit, EditFile, RemoveFile, Disk
        <3> QED  BY <1>1, <3>1
    <2> QED
        BY <1>1, <2>1, <2>2, <2>3, <2>4, StepCases
        DEF Begin, VerifyManifest, ComposeText, WriteTemp, ReadHash, WriteEntry,
            Fail, Crash, vars
<1>2. ASSUME TypeInv, UnrecordedInv, [Next]_vars
      PROVE  [\A f \in unrecorded \ raced : disk'.manifest[f] # disk.manifest[f]
                  => disk'.manifest[f] # disk.tree[f]]_vars
    BY <1>1, <1>2
<1> QED  BY <1>2, TypeInit, TypeNext, UnrecordedInit, UnrecordedNext, PTL
         DEF Spec, NoEditVouchedFor

-----------------------------------------------------------------------------
\* The steps implement the atomic store

\* The project as the store sees it: a write has not happened before it is
\* recorded or cut off.
StoreDisk ==
    IF InFlight THEN [disk EXCEPT !.tree[req.file] = existing] ELSE disk

\* What the write in progress has found and made so far is still so: nobody
\* else changes the project during a write.
ComposedInv ==
    /\ pc \in {"compose", "temp", "replace"} \/ InFlight
           => IntegrityOK(StoreDisk)
    /\ pc \in {"temp", "replace"} \/ InFlight =>
           /\ existing = StoreDisk.tree[req.file]
           /\ existing.exists => HasMarker(existing.lines)
           /\ text = FileWith(Compose(existing, PatchOf(req)))
    /\ InFlight => disk.tree[req.file] = text
    /\ pc \in {"entry", "record"} => sha = text

LEMMA ComposedInit == Init => ComposedInv
BY DEF Init, ComposedInv, InFlight

LEMMA ComposedNext ==
    ASSUME ~EditsAnytime
    PROVE  TypeInv /\ ComposedInv /\ [Next]_vars => ComposedInv'
<1> SUFFICES ASSUME TypeInv, ComposedInv, [Next]_vars PROVE ComposedInv'
    OBVIOUS
<1>a. disk \in Disk
    BY DEF TypeInv, TypeOK
<1>1. CASE pc' \in {"idle", "verify"}
    BY <1>1 DEF ComposedInv, InFlight
<1>2. CASE VerifyManifest \/ ComposeText
    BY <1>1, <1>2
    DEF VerifyManifest, ComposeText, ComposedInv, StoreDisk, InFlight, Leave
<1>3. CASE WriteTemp \/ WriteEntry
    BY <1>3 DEF WriteTemp, WriteEntry, ComposedInv, StoreDisk, InFlight
<1>4. CASE Replace
    <2>1. req.file \in Files
        BY <1>4, RequestFact DEF Replace, TypeInv, RequestInv
    <2>2. disk.tree[req.file] = existing /\ IntegrityOK(disk)
        BY <1>4 DEF Replace, ComposedInv, StoreDisk, InFlight
    <2>3. disk'.tree[req.file] = text
        BY <1>a, <1>4, <2>1 DEF Replace, Disk
    <2>4. StoreDisk' = disk
        BY <1>a, <1>4, <2>1, <2>2 DEF Replace, StoreDisk, InFlight, Disk
    <2> QED  BY <1>4, <2>2, <2>3, <2>4 DEF Replace, ComposedInv, InFlight
<1>5. CASE ReadHash
    BY <1>5 DEF ReadHash, ComposedInv, StoreDisk, InFlight
<1>6. CASE UNCHANGED vars
    BY <1>6 DEF vars, ComposedInv, StoreDisk, InFlight
<1> QED
    BY <1>1, <1>2, <1>3, <1>4, <1>5, <1>6, StepCases
    DEF Begin, Record, Fail, Crash, Leave, HumanEdit, LoseManifest

\* The step of the store that a step of write_section stands for, if any.
LEMMA StoreStep ==
    ASSUME ~EditsAnytime, TypeInv, ComposedInv, [Next]_vars
    PROVE  \/ UNCHANGED StoreDisk
           \/ \E r \in Requests : Store!Write(r) \/ Store!TornWrite(r)
           \/ \E f \in Files : Store!Edit(f)
           \/ Store!LoseManifest
<1>a. disk \in Disk
    BY DEF TypeInv, TypeOK
<1>b. ASSUME InFlight
      PROVE  /\ req \in Requests /\ req.file \in Files
             /\ StoreDisk = [disk EXCEPT !.tree[req.file] = existing]
             /\ StoreDisk.tree[req.file] = existing
             /\ Store!Accepted(req)
             /\ WriteFile(StoreDisk, req.file, PatchOf(req)) = disk
    <2>1. req \in Requests /\ req.file \in Files /\ req.file \in ProjectWritable
        BY <1>b, RequestFact DEF InFlight, TypeInv, RequestInv
    <2>2. StoreDisk = [disk EXCEPT !.tree[req.file] = existing]
        BY <1>b DEF StoreDisk
    <2>3. /\ existing = StoreDisk.tree[req.file] /\ IntegrityOK(StoreDisk)
          /\ existing.exists => HasMarker(existing.lines)
          /\ disk.tree[req.file] = FileWith(Compose(existing, PatchOf(req)))
        BY <1>b DEF ComposedInv
    <2>4. WriteError(StoreDisk, ProjectWritable, req.file) = "none"
        BY <2>1, <2>3 DEF WriteError
    <2>5. Store!Accepted(req)
        BY <2>4, SamePlaces, SameErrors DEF Store!Accepted, StoreDisk
    <2>6. WriteFile(StoreDisk, req.file, PatchOf(req)) = disk
        BY <1>a, <2>1, <2>2, <2>3 DEF WriteFile, Disk
    <2> QED  BY <2>1, <2>2, <2>3, <2>5, <2>6
<1>1. CASE \/ \E r \in Requests : Begin(r)
           \/ VerifyManifest \/ ComposeText \/ WriteTemp
    BY <1>1
    DEF Begin, VerifyManifest, ComposeText, WriteTemp, StoreDisk, InFlight,
        Leave
<1>2. CASE ReadHash \/ WriteEntry \/ UNCHANGED vars
    BY <1>2 DEF ReadHash, WriteEntry, vars, StoreDisk, InFlight
<1>3. CASE Replace
    <2>1. req.file \in Files
        BY <1>3, RequestFact DEF Replace, TypeInv, RequestInv
    <2>2. disk.tree[req.file] = existing
        BY <1>3 DEF Replace, ComposedInv, StoreDisk, InFlight
    <2>3. StoreDisk = disk /\ StoreDisk' = disk
        BY <1>a, <1>3, <2>1, <2>2 DEF Replace, StoreDisk, InFlight, Disk
    <2> QED  BY <2>3
<1>4. CASE Record
    <2>1. InFlight /\ StoreDisk' = disk' /\ sha = disk.tree[req.file]
        BY <1>4 DEF Record, InFlight, StoreDisk, ComposedInv, Leave
    <2>2. disk' = WriteSection(StoreDisk, req.file, PatchOf(req))
        BY <1>b, <1>4, <2>1 DEF Record, WriteSection
    <2>3. Store!Write(req)
        BY <1>b, <2>1, <2>2, SameWrites DEF Store!Write, StoreDisk
    <2> QED  BY <1>b, <2>1, <2>3
<1>5. CASE Fail \/ Crash
    <2>1. StoreDisk' = disk
        BY <1>5 DEF Fail, Crash, Leave, StoreDisk, InFlight
    <2>2. CASE ~InFlight
        BY <2>1, <2>2 DEF StoreDisk
    <2>3. CASE InFlight
        <3>1. Store!TornWrite(req)
            BY <1>b, <2>1, <2>3, SameWrites DEF Store!TornWrite, StoreDisk
        <3> QED  BY <1>b, <2>3, <3>1
    <2> QED  BY <2>2, <2>3
<1>6. CASE \E f \in Files : HumanEdit(f)
    <2>1. PICK f \in Files : HumanEdit(f)
        BY <1>6
    <2>2. StoreDisk = disk /\ StoreDisk' = disk'
        BY <2>1 DEF HumanEdit, StoreDisk, InFlight
    <2>3. Store!Edit(f)
        BY <2>1, <2>2, SamePlaces, SameEdits
        DEF HumanEdit, Store!Edit, StoreDisk
    <2> QED  BY <2>3
<1>7. CASE LoseManifest
    <2>1. StoreDisk = disk /\ StoreDisk' = disk'
        BY <1>7 DEF LoseManifest, StoreDisk, InFlight
    <2>2. Store!LoseManifest
        BY <1>7, <2>1, SameEdits
        DEF LoseManifest, Store!LoseManifest, StoreDisk
    <2> QED  BY <2>2
<1> QED  BY <1>1, <1>2, <1>3, <1>4, <1>5, <1>6, <1>7, StepCases

\* Killed or failing at any step, a write has taken effect on the file and the
\* manifest at once, on the file alone, or not at all, as long as humans edit
\* only between two writes.
THEOREM RefinesStore ==
    ASSUME ~EditsAnytime
    PROVE  Spec => ImplementsStore
<1>1. Init => Store!Init
    BY DEF Init, Store!Init, InFlight
<1>2. ASSUME TypeInv, ComposedInv, [Next]_vars
      PROVE  [Store!Next]_StoreDisk
    BY <1>2, StoreStep, SamePlaces DEF Store!Next
<1>3. ASSUME TypeInv, ComposedInv, [Next]_vars
      PROVE  [Store!Next]_(IF InFlight
                           THEN [disk EXCEPT !.tree[req.file] = existing]
                           ELSE disk)
    BY <1>2, <1>3 DEF StoreDisk
<1> QED  BY <1>1, <1>3, TypeInit, TypeNext, ComposedInit, ComposedNext, PTL
         DEF Spec, ImplementsStore, Store!Spec

-----------------------------------------------------------------------------
\* What humans wrote

\* Whole sections, in none of which a human wrote; a file that is not there
\* has no lines.
Tidy(c) ==
    /\ SectionsWhole(c)
    /\ \A i \in DOMAIN c : c[i].t = "begin" => c[i + 1] # HumanLine

TidyFile(x) == Tidy(x.lines) /\ (~x.exists => x.lines = <<>>)

TidyDisk(d) == \A f \in Files : TidyFile(d.tree[f])

\* A section at the end leaves every line where it was.
LEMMA AppendTidy ==
    ASSUME NEW c \in Seq(Line), Tidy(c), NEW s \in Sections, NEW b \in Bodies,
           PlainBodies, HumanLine \notin Bodies, NoBegin(c, s),
           NEW r, r = Appended(c, s, b)
    PROVE  Tidy(r) /\ HumanLines(c) \subseteq HumanLines(r)
<1>1. /\ r \in Seq(Line) /\ Len(r) = Len(c) + 3
      /\ \A k \in 1..Len(c) : r[k] = c[k]
      /\ r[Len(c) + 3] = EndLine(s)
      /\ r[Len(c) + 1] = BeginLine(s) /\ r[Len(c) + 2] = b
      /\ SectionsWhole(r)
    <2>1. SectionsWhole(c)
        BY DEF Tidy
    <2>2. /\ r \in Seq(Line) /\ Len(r) = Len(c) + 3
          /\ \A k \in 1..Len(c) : r[k] = c[k]
          /\ r[Len(c) + 3] = EndLine(s)
          /\ SectionAt(r, s, b, Len(c) + 1)
          /\ SectionsWhole(r)
        BY <2>1, AppendSection
    <2>3. /\ r[Len(c) + 1] = BeginLine(s)
          /\ r[Len(c) + 1 + 1] = b
        BY <2>2 DEF SectionAt
    <2>4. Len(c) + 1 + 1 = Len(c) + 2
        OBVIOUS
    <2> QED  BY <2>2, <2>3, <2>4
<1>2. /\ Len(c) \in Nat /\ DOMAIN c = 1..Len(c)
      /\ DOMAIN r = 1..(Len(c) + 3)
    BY <1>1
<1>3. ASSUME NEW k \in DOMAIN r, r[k].t = "begin"
      PROVE  r[k + 1] # HumanLine
    <2>1. CASE k \in 1..Len(c)
        <3>1. c[k].t = "begin" /\ k + 2 \in DOMAIN c
            BY <1>1, <1>2, <1>3, <2>1 DEF Tidy, SectionsWhole
        <3>2. k + 1 \in 1..Len(c)
            BY <1>2, <2>1, <3>1
        <3> QED  BY <1>1, <1>2, <2>1, <3>1, <3>2 DEF Tidy
    <2>2. CASE k = Len(c) + 1
        <3>1. k + 1 = Len(c) + 2
            BY <1>2, <2>2
        <3> QED  BY <1>1, <2>2, <3>1
    <2>3. CASE k = Len(c) + 2 \/ k = Len(c) + 3
        BY <1>1, <1>3, <2>3 DEF PlainBodies, EndLine
    <2> QED  BY <1>2, <1>3, <2>1, <2>2, <2>3
<1>4. HumanLines(c) \subseteq HumanLines(r)
    BY <1>1, <1>2 DEF HumanLines
<1> QED  BY <1>1, <1>3, <1>4 DEF Tidy

\* Replacing a section touches none of the lines that humans wrote.
LEMMA ReplaceTidy ==
    ASSUME NEW c \in Seq(Line), Tidy(c), NEW s \in Sections, NEW b \in Bodies,
           PlainBodies, HumanLine \notin Bodies, NEW i, IsFirstBegin(c, s, i),
           NEW r, r = ReplaceSection(c, s, b)
    PROVE  Tidy(r) /\ HumanLines(c) \subseteq HumanLines(r)
<1>1. /\ r \in Seq(Line) /\ Len(r) = Len(c) /\ SectionsWhole(r)
      /\ \A k \in 1..Len(c) : r[k] = IF k = i THEN BeginLine(s)
                                     ELSE IF k = i + 1 THEN b ELSE c[k]
    <2>1. SectionsWhole(c)
        BY DEF Tidy
    <2>2. SectionsWhole(r)
        BY <2>1, ReplaceWhole
    <2>3. /\ r \in Seq(Line) /\ Len(r) = Len(c)
          /\ \A k \in 1..Len(c) : r[k] = IF k = i THEN BeginLine(s)
                                     ELSE IF k = i + 1 THEN b ELSE c[k]
        BY <2>1, ReplaceFact
    <2> QED  BY <2>2, <2>3
<1>2. /\ Len(c) \in Nat /\ DOMAIN c = 1..Len(c) /\ DOMAIN r = 1..Len(c)
      /\ i \in DOMAIN c /\ c[i].t = "begin" /\ i + 2 \in DOMAIN c
    BY <1>1 DEF IsFirstBegin, IsBegin, Tidy, SectionsWhole
<1>3. b.t = "text" /\ b # HumanLine /\ HumanLine.t = "text"
    BY HumanIsText DEF PlainBodies
<1>4. ASSUME NEW k \in DOMAIN r, r[k].t = "begin"
      PROVE  r[k + 1] # HumanLine
    <2>1. CASE k = i
        <3>1. k + 1 \in 1..Len(c) /\ k + 1 # i
            BY <1>2, <2>1
        <3> QED  BY <1>1, <1>3, <2>1, <3>1
    <2>2. CASE k = i + 1
        BY <1>1, <1>2, <1>3, <1>4, <2>2
    <2>3. CASE k # i /\ k # i + 1
        <3>1. r[k] = c[k]
            BY <1>1, <1>2, <2>3
        <3>2. k + 2 \in DOMAIN c /\ c[k + 1] # HumanLine
            BY <1>2, <1>4, <3>1 DEF Tidy, SectionsWhole
        <3>3. k + 1 \in 1..Len(c) /\ k + 1 # i + 1
            BY <1>2, <2>3, <3>2
        <3>4. r[k + 1] = BeginLine(s) \/ r[k + 1] = c[k + 1]
            BY <1>1, <3>3
        <3> QED  BY <1>3, <3>2, <3>4 DEF BeginLine
    <2> QED  BY <2>1, <2>2, <2>3
<1>5. ASSUME NEW k \in HumanLines(c)
      PROVE  k \in HumanLines(r)
    <2>1. k \in 1..Len(c) /\ c[k] = HumanLine
        BY <1>2 DEF HumanLines
    <2>2. k # i /\ k # i + 1
        BY <1>2, <1>3, <2>1 DEF Tidy
    <2> QED  BY <1>1, <1>2, <2>1, <2>2 DEF HumanLines
<1> QED  BY <1>1, <1>4, <1>5 DEF Tidy

\* Composing a section into a tidy file keeps every human line in its place.
LEMMA ComposeTidy ==
    ASSUME NEW x \in FileState, TidyFile(x), NEW p \in Patch,
           PlainBodies, HumanLine \notin Bodies
    PROVE  /\ TidyFile(FileWith(Compose(x, p)))
           /\ HumanLines(x.lines) \subseteq HumanLines(Compose(x, p))
<1> DEFINE c == x.lines
           s == p.sec
           b == p.body
           r == Compose(x, p)
<1>0. /\ c \in Seq(Line) /\ Tidy(c) /\ s \in Sections /\ b \in Bodies
      /\ x.exists \in BOOLEAN
    BY DEF FileState, TidyFile, Patch
<1>1. CASE ~x.exists
    <2> DEFINE m == <<MarkerLine>>
    <2>1. m \in Seq(Line) /\ \A k \in DOMAIN m : m[k].t = "marker"
        BY EndLineFact DEF MarkerLine
    <2>2. Tidy(m) /\ NoBegin(m, s)
        BY <2>1 DEF SectionsWhole, IsBegin, NoBegin, Tidy
    <2>3. r = Appended(m, s, b)
        BY <1>1 DEF Compose, Appended
    <2>4. HumanLines(c) = {}
        BY <1>1 DEF TidyFile, HumanLines
    <2> HIDE DEF m, r, s, b
    <2>5. Tidy(r)
        BY <1>0, <2>1, <2>2, <2>3, AppendTidy
    <2> QED  BY <2>4, <2>5 DEF TidyFile, FileWith, r
<1>2. CASE x.exists /\ \E i \in DOMAIN c : IsBegin(s, c[i])
    <2>1. PICK i \in DOMAIN c : IsFirstBegin(c, s, i)
        BY <1>0, <1>2, FirstBegin
    <2>2. r = ReplaceSection(c, s, b)
        BY <1>0, <1>2, TokensFact DEF Compose, Tidy
    <2> HIDE DEF c, r, s, b
    <2> QED  BY <1>0, <2>1, <2>2, ReplaceTidy DEF TidyFile, FileWith, c, r
<1>3. CASE x.exists /\ NoBegin(c, s)
    <2>1. r = Appended(c, s, b)
        BY <1>0, <1>3, TokensFact DEF Compose, NoBegin, Appended, Tidy
    <2> HIDE DEF c, r, s, b
    <2> QED  BY <1>0, <1>3, <2>1, AppendTidy DEF TidyFile, FileWith, c, r
<1> QED  BY <1>0, <1>1, <1>2, <1>3 DEF NoBegin

TidyInv == TidyDisk(disk)

\* What each step does to the files of the project.
LEMMA TidyStep ==
    ASSUME ~EditsAnytime, PlainBodies, HumanLine \notin Bodies,
           TypeInv, ComposedInv, TidyInv, [Next]_vars
    PROVE  /\ TidyInv'
           /\ edits' = edits => \A f \in Files :
                  HumanLines(disk.tree[f].lines)
                      \subseteq HumanLines(disk'.tree[f].lines)
<1>a. disk \in Disk /\ disk' \in Disk
    BY TypeNext DEF TypeInv, TypeOK
<1>1. CASE Replace
    <2>1. req.file \in Files /\ PatchOf(req) \in Patch
        BY <1>1, RequestFact DEF Replace, TypeInv, RequestInv
    <2> DEFINE x == disk.tree[req.file]
    <2>2. text = FileWith(Compose(x, PatchOf(req)))
        BY <1>1 DEF Replace, ComposedInv, StoreDisk, InFlight
    <2>3. /\ disk'.tree[req.file] = text
          /\ \A g \in Files \ {req.file} : disk'.tree[g] = disk.tree[g]
        BY <1>a, <1>1, <2>1 DEF Replace, Disk
    <2>4. x \in FileState /\ TidyFile(x)
        BY <1>a, <2>1 DEF Disk, TidyInv, TidyDisk
    <2>5. /\ TidyFile(text)
          /\ HumanLines(x.lines) \subseteq HumanLines(text.lines)
        BY <2>1, <2>2, <2>4, ComposeTidy DEF FileWith
    <2> QED  BY <2>3, <2>5 DEF TidyInv, TidyDisk
<1>2. CASE Record
    <2>1. disk'.tree = disk.tree
        BY <1>a, <1>2 DEF Record, Disk
    <2> QED  BY <2>1 DEF TidyInv, TidyDisk
<1>3. CASE \E f \in Files : HumanEdit(f)
    <2>1. PICK f \in Files : HumanEdit(f)
        BY <1>3
    <2>2. edits' # edits
        BY <2>1 DEF HumanEdit, TypeInv, TypeOK
    <2> DEFINE c == disk.tree[f].lines
    <2>3. c \in Seq(Line) /\ Tidy(c)
        BY <1>a DEF Disk, FileState, TidyInv, TidyDisk, TidyFile
    <2>4. TidyFile(FileWith(Append(c, HumanLine)))
        <3> DEFINE a == Append(c, HumanLine)
        <3>1. SectionsWhole(a)
            BY <2>3, EndLineFact, HumanIsText, AppendText DEF Tidy
        <3>2. /\ DOMAIN c = 1..Len(c) /\ Len(c) \in Nat
              /\ DOMAIN a = 1..(Len(c) + 1)
              /\ \A k \in 1..Len(c) : a[k] = c[k]
              /\ a[Len(c) + 1].t = "text"
            BY <2>3, EndLineFact, HumanIsText
        <3> HIDE DEF a, c
        <3>3. ASSUME NEW k \in DOMAIN a, a[k].t = "begin"
              PROVE  a[k + 1] # HumanLine
            <4>1. k \in 1..Len(c) /\ c[k].t = "begin"
                BY <3>2, <3>3
            <4>2. k + 2 \in DOMAIN c /\ c[k + 1] # HumanLine
                BY <2>3, <3>2, <4>1 DEF Tidy, SectionsWhole
            <4>3. k + 1 \in 1..Len(c)
                BY <3>2, <4>1, <4>2
            <4> QED  BY <3>2, <4>2, <4>3
        <3> QED  BY <3>1, <3>3 DEF TidyFile, Tidy, FileWith, a
    <2>5. TidyFile(NoFile)
        BY DEF TidyFile, Tidy, SectionsWhole, NoFile
    <2>6. /\ TidyFile(disk'.tree[f])
          /\ \A g \in Files \ {f} : disk'.tree[g] = disk.tree[g]
        BY <1>a, <2>1, <2>4, <2>5 DEF HumanEdit, EditFile, RemoveFile, Disk
    <2> QED  BY <2>2, <2>6 DEF TidyInv, TidyDisk
<1>4. CASE LoseManifest
    <2>1. disk'.tree = disk.tree
        BY <1>a, <1>4 DEF LoseManifest, WithoutManifest, Disk
    <2> QED  BY <2>1 DEF TidyInv, TidyDisk
<1>5. CASE UNCHANGED disk
    BY <1>5 DEF TidyInv
<1> QED
    BY <1>1, <1>2, <1>3, <1>4, <1>5, StepCases
    DEF Begin, VerifyManifest, ComposeText, WriteTemp, ReadHash, WriteEntry,
        Fail, Crash, vars

\* As long as humans edit only between two writes, no step of a write, not even
\* one cut off by a kill or a failure, takes away a line that a human wrote
\* outside of the sections.
THEOREM HumanTextIsKept ==
    ASSUME ~EditsAnytime, PlainBodies, HumanLine \notin Bodies,
           \A d \in StartDisks : TidyDisk(d)
    PROVE  Spec => HumanTextKept
<1>1. Init => TidyInv
    BY DEF Init, TidyInv
<1>2. ASSUME TypeInv, ComposedInv, TidyInv, [Next]_vars
      PROVE  TidyInv'
    BY <1>2, TidyStep
<1>3. ASSUME TypeInv, ComposedInv, TidyInv, [Next]_vars
      PROVE  edits' = edits =>
                 \A f \in Files : HumanCount(f)' >= HumanCount(f)
    <2> SUFFICES ASSUME edits' = edits, NEW f \in Files
                 PROVE  HumanCount(f)' >= HumanCount(f)
        OBVIOUS
    <2> DEFINE old == HumanLines(disk.tree[f].lines)
               new == HumanLines(disk'.tree[f].lines)
    <2>1. old \subseteq new
        BY <1>3, TidyStep
    <2>2. IsFiniteSet(new)
        <3> DEFINE c == disk'.tree[f].lines
        <3>1. c \in Seq(Line)
            BY <1>3, TypeNext DEF TypeInv, TypeOK, Disk, FileState
        <3>2. Len(c) \in Int /\ 1 \in Int /\ DOMAIN c = 1..Len(c)
            BY <3>1
        <3>3. new \subseteq 1..Len(c)
            BY <3>2 DEF HumanLines
        <3> HIDE DEF new, c
        <3>4. IsFiniteSet(1..Len(c))
            BY <3>2, FS_Interval
        <3> QED  BY <3>3, <3>4, FS_Subset
    <2>3. Cardinality(old) <= Cardinality(new)
        <3> HIDE DEF old, new
        <3> QED  BY <2>1, <2>2, FS_Subset
    <2>4. Cardinality(old) \in Nat /\ Cardinality(new) \in Nat
        <3> HIDE DEF old, new
        <3> QED  BY <2>1, <2>2, FS_Subset, FS_CardinalityType
    <2> QED  BY <2>3, <2>4 DEF HumanCount
<1>4. ASSUME TypeInv, ComposedInv, TidyInv, [Next]_vars
      PROVE  [edits' = edits =>
                  \A f \in Files : HumanCount(f)' >= HumanCount(f)]_vars
    BY <1>3, <1>4
<1> QED  BY <1>1, <1>2, <1>4, TypeInit, TypeNext, ComposedInit, ComposedNext,
            PTL
         DEF Spec, HumanTextKept
=============================================================================
