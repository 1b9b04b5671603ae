---------------------------- MODULE DriftProofs ----------------------------
(***************************************************************************)
(* Proofs about the drift detector, for all source trees and               *)
(* specifications: its report is sound, and each line of it is about the   *)
(* tree that was verified.                                                 *)
(***************************************************************************)
EXTENDS DriftDetector, WellFoundedInduction, TLAPS

\* The files of a module that parse, and what one of them defines first under a
\* kind and a name.
Parsing(files) == {j \in DOMAIN files : files[j].parses}
FirstDef(files, j, kd, n) == FirstIn(files[j].defs, kd, n)

\* Definition d is the first of its kind and name in the files before k0 that
\* parse, or there is none.
IsFirstDef(d, files, k0, kd, n) ==
    \/ /\ d = NoDefinition
       /\ \A j \in Parsing(files) :
              j < k0 => FirstDef(files, j, kd, n) = NoDefinition
    \/ /\ d # NoDefinition
       /\ \E j \in Parsing(files) :
            /\ j < k0
            /\ d = FirstDef(files, j, kd, n)
            /\ \A l \in Parsing(files) :
                   l < j => FirstDef(files, l, kd, n) = NoDefinition

\* An index of what the files before k0 define and import.
IndexedUpTo(idx, files, k0) ==
    /\ ~idx.none
    /\ \A kd \in Kind, n \in Names :
           IsFirstDef(idx.defs[kd][n], files, k0, kd, n)
    /\ idx.imports =
           UNION {files[j].imports : j \in {l \in Parsing(files) : l < k0}}

WholeIndex(idx, files) == IndexedUpTo(idx, files, Len(files) + 1)

\* The definition that a contract on a module with these files is compared with.
Compared(files, c, d) == IsFirstDef(d, files, Len(files) + 1, c.kind, c.name)

Index == [defs : [Kind -> [Names -> Definition \cup {NoDefinition}]],
          imports : SUBSET Import, none : BOOLEAN]
Report == [missing : SUBSET Contract, mismatched : SUBSET Contract,
           forbidden : SUBSET (Modules \X Import), invariants : SUBSET STRING]

TypeInv ==
    /\ project \in Projects /\ spec \in Specs
    /\ pc \in {"contract", "index", "check", "done"}
    /\ i \in 1..(Len(spec.contracts) + 1) /\ k \in Nat \ {0}
    /\ index \in Index /\ indexes \in [Modules -> Index]
    /\ report \in Report
    /\ pc \in {"index", "check"} => i <= Len(spec.contracts)
    /\ pc = "done" => i = Len(spec.contracts) + 1

\* Each index is of the module it is kept for, and whole once it is kept.
IndexInv ==
    /\ \A m \in Modules : indexes[m].none \/ WholeIndex(indexes[m], project[m])
    /\ \A j \in 1..(i - 1) : ~indexes[spec.contracts[j].module].none
    /\ pc = "index" => /\ k <= Len(project[Current.module]) + 1
                       /\ IndexedUpTo(index, project[Current.module], k)
    /\ pc = "check" => /\ WholeIndex(index, project[Current.module])
                       /\ ~indexes[Current.module].none

ForbiddenImports ==
    UNION {{<<m, imp>> : imp \in {x \in indexes[m].imports : Forbidden(x)}} :
               m \in Modules}

\* Each contract checked so far is reported or honoured by what comes first.
HonouredIn(p, c) ==
    \E d \in Definition : Compared(p[c.module], c, d) /\ Honours(d, c)
DishonouredIn(p, c) ==
    \E d \in Definition : Compared(p[c.module], c, d) /\ ~Honours(d, c)
MissingIn(p, c) == Compared(p[c.module], c, NoDefinition)

ReportInv ==
    /\ \A c \in report.missing : MissingIn(project, c)
    /\ \A c \in report.mismatched : DishonouredIn(project, c)
    /\ \A j \in 1..(i - 1) :
           \/ spec.contracts[j] \in report.missing \cup report.mismatched
           \/ HonouredIn(project, spec.contracts[j])
    /\ pc = "done" => report.forbidden = ForbiddenImports

DriftInv == TypeInv /\ IndexInv /\ ReportInv
-----------------------------------------------------------------------------
\* Facts about the operators

\* A set of numbers that is not empty has a least element.
LEMMA LeastNumber ==
    ASSUME NEW K \in SUBSET Nat, NEW n \in K
    PROVE  \E m \in K : \A l \in K : m <= l
<1>1. PICK m \in K : \A l \in K : <<l, m>> \notin OpToRel(<, Nat)
    BY NatLessThanWellFounded, WFMin
<1>2. \A l \in K : <<l, m>> \notin {ss \in Nat \X Nat : ss[1] < ss[2]}
    BY <1>1, Zenon DEF OpToRel
<1>3. ASSUME NEW l \in K PROVE ~(l < m)
    BY <1>2
<1> QED  BY <1>3

LEMMA NoDefinitionFact == NoDefinition \notin Definition
BY DEF NoDefinition, Definition, Kind

\* A name that a file does not define under a kind has no first definition;
\* otherwise the first one is of that kind and name.
LEMMA FirstInFact ==
    ASSUME NEW defs \in Seq(Definition), NEW kd \in Kind, NEW n \in Names
    PROVE  \/ /\ FirstIn(defs, kd, n) = NoDefinition
              /\ \A j \in DOMAIN defs : ~(defs[j].kind = kd /\ defs[j].name = n)
           \/ \E j \in DOMAIN defs :
                  /\ FirstIn(defs, kd, n) = defs[j]
                  /\ defs[j] \in Definition
                  /\ defs[j].kind = kd /\ defs[j].name = n
<1> DEFINE found == {j \in DOMAIN defs : defs[j].kind = kd /\ defs[j].name = n}
<1>1. CASE found = {}
    BY <1>1 DEF FirstIn
<1>2. CASE found # {}
    <2>1. \E j \in found : \A l \in found : j <= l
        <3>1. found \in SUBSET Nat
            OBVIOUS
        <3> HIDE DEF found
        <3> QED  BY <1>2, <3>1, LeastNumber
    <2> DEFINE first == CHOOSE j \in found : \A l \in found : j <= l
    <2>2. first \in found
        BY <2>1
    <2>3. FirstIn(defs, kd, n) = defs[first]
        BY <1>2 DEF FirstIn
    <2> HIDE DEF first
    <2> QED  BY <2>2, <2>3
<1> QED  BY <1>1, <1>2

\* The types of a source tree and of a specification.
LEMMA TreeTypes ==
    ASSUME NEW p \in Projects, NEW m \in Modules
    PROVE  p[m] \in Seq(SourceFile)
BY DriftAssumption

LEMMA FileTypes ==
    ASSUME NEW files \in Seq(SourceFile)
    PROVE  /\ Len(files) \in Nat
           /\ Parsing(files) \subseteq 1..Len(files)
           /\ \A j \in DOMAIN files : files[j] \in SourceFile
BY DEF Parsing

LEMMA ContractTypes ==
    ASSUME spec \in Specs
    PROVE  /\ spec \in Specification
           /\ spec.contracts \in Seq(Contract)
           /\ Len(spec.contracts) \in Nat
           /\ \A j \in 1..Len(spec.contracts) : spec.contracts[j] \in Contract
BY DriftAssumption DEF Specification

LEMMA FirstDefFact ==
    ASSUME NEW files \in Seq(SourceFile), NEW j \in Parsing(files),
           NEW kd \in Kind, NEW n \in Names
    PROVE  \/ /\ FirstDef(files, j, kd, n) = NoDefinition
              /\ \A l \in DOMAIN files[j].defs :
                     ~(/\ files[j].defs[l].kind = kd
                       /\ files[j].defs[l].name = n)
           \/ \E l \in DOMAIN files[j].defs :
                  /\ FirstDef(files, j, kd, n) = files[j].defs[l]
                  /\ files[j].defs[l] \in Definition
                  /\ files[j].defs[l].kind = kd /\ files[j].defs[l].name = n
<1>1. j \in DOMAIN files
    BY DEF Parsing
<1>2. files[j] \in SourceFile
    BY <1>1, FileTypes
<1>3. files[j].defs \in Seq(Definition)
    BY <1>2 DEF SourceFile
<1> QED  BY <1>3, FirstInFact DEF FirstDef

\* Merging the next file keeps what is first.
LEMMA FirstDefStep ==
    ASSUME NEW files \in Seq(SourceFile), NEW k0 \in 1..Len(files),
           NEW kd \in Kind, NEW n \in Names,
           NEW d, IsFirstDef(d, files, k0, kd, n),
           NEW e, e = IF d # NoDefinition \/ ~files[k0].parses
                      THEN d ELSE FirstDef(files, k0, kd, n)
    PROVE  IsFirstDef(e, files, k0 + 1, kd, n)
<1>1. /\ Parsing(files) \subseteq Nat /\ k0 \in Nat
      /\ k0 \in Parsing(files) <=> files[k0].parses
    BY FileTypes DEF Parsing
<1>2. \A j \in Parsing(files) : j < k0 + 1 <=> j < k0 \/ j = k0
    BY <1>1
<1>3. CASE d # NoDefinition
    BY <1>2, <1>3 DEF IsFirstDef
<1>4. CASE d = NoDefinition /\ ~files[k0].parses
    BY <1>1, <1>2, <1>4 DEF IsFirstDef
<1>5. CASE d = NoDefinition /\ files[k0].parses
    BY <1>1, <1>2, <1>5 DEF IsFirstDef
<1> QED  BY <1>3, <1>4, <1>5

LEMMA CurrentFact ==
    ASSUME TypeInv, i <= Len(spec.contracts)
    PROVE  /\ Current \in Contract /\ Current = spec.contracts[i]
           /\ Current.module \in Modules /\ Current.kind \in Kind
           /\ Current.name \in Names
BY ContractTypes DEF TypeInv, Current, Contract

\* An empty index is the index of no file.
LEMMA EmptyIndexFact ==
    /\ EmptyIndex \in Index /\ NoIndex \in Index /\ NoIndex.none
    /\ \A files \in Seq(SourceFile) : IndexedUpTo(EmptyIndex, files, 1)
<1>1. EmptyIndex \in Index /\ NoIndex \in Index /\ NoIndex.none
    BY DEF EmptyIndex, NoIndex, Index
<1>2. ASSUME NEW files \in Seq(SourceFile)
      PROVE  IndexedUpTo(EmptyIndex, files, 1)
    <2>1. \A j \in Parsing(files) : ~(j < 1)
        BY FileTypes
    <2>2. \A kd \in Kind, n \in Names : EmptyIndex.defs[kd][n] = NoDefinition
        BY DEF EmptyIndex
    <2>3. EmptyIndex.imports = {} /\ ~EmptyIndex.none
        BY DEF EmptyIndex
    <2> QED  BY <2>1, <2>2, <2>3 DEF IndexedUpTo, IsFirstDef
<1> QED  BY <1>1, <1>2

\* The next file of a module is merged if it parses, and passed over if not.
LEMMA IndexedStep ==
    ASSUME NEW files \in Seq(SourceFile), NEW k0 \in 1..Len(files),
           NEW idx \in Index, IndexedUpTo(idx, files, k0),
           NEW nxt, nxt = IF files[k0].parses
                          THEN Indexed(idx, files[k0]) ELSE idx
    PROVE  nxt \in Index /\ IndexedUpTo(nxt, files, k0 + 1)
<1> DEFINE file == files[k0]
<1>1. /\ file \in SourceFile /\ k0 \in Nat
      /\ Parsing(files) \subseteq Nat
      /\ k0 \in Parsing(files) <=> file.parses
    BY FileTypes DEF Parsing
<1>2. ASSUME NEW kd \in Kind, NEW n \in Names
      PROVE  nxt.defs[kd][n] = IF idx.defs[kd][n] # NoDefinition \/ ~file.parses
                               THEN idx.defs[kd][n]
                               ELSE FirstDef(files, k0, kd, n)
    BY DEF Indexed, FirstDef, Index
<1>3. /\ nxt.none = idx.none
      /\ nxt.imports = IF file.parses THEN idx.imports \cup file.imports
                                      ELSE idx.imports
    BY DEF Indexed, Index
<1>4. nxt \in Index
    <2>1. CASE file.parses
        <3> DEFINE D == [kd \in Kind |-> [n \in Names |->
                            IF idx.defs[kd][n] # NoDefinition
                            THEN idx.defs[kd][n]
                            ELSE FirstIn(file.defs, kd, n)]]
        <3>1. ASSUME NEW kd \in Kind, NEW n \in Names
              PROVE  FirstIn(file.defs, kd, n) \in Definition \cup {NoDefinition}
            BY <1>1, <2>1, FirstDefFact DEF FirstDef
        <3>2. D \in [Kind -> [Names -> Definition \cup {NoDefinition}]]
            BY <3>1 DEF Index
        <3>3. file.imports \in SUBSET Import
            BY <1>1 DEF SourceFile
        <3>4. nxt = [idx EXCEPT !.defs = D, !.imports = @ \cup file.imports]
            BY <2>1 DEF Indexed
        <3> HIDE DEF file, D
        <3> QED  BY <3>2, <3>3, <3>4 DEF Index
    <2> QED  BY <2>1
<1>5. ASSUME NEW kd \in Kind, NEW n \in Names
      PROVE  IsFirstDef(nxt.defs[kd][n], files, k0 + 1, kd, n)
    <2>1. IsFirstDef(idx.defs[kd][n], files, k0, kd, n)
        BY DEF IndexedUpTo
    <2> QED  BY <1>2, <2>1, FirstDefStep
<1>6. nxt.imports =
          UNION {files[j].imports : j \in {l \in Parsing(files) : l < k0 + 1}}
    <2> DEFINE L == {l \in Parsing(files) : l < k0}
               M == {l \in Parsing(files) : l < k0 + 1}
    <2>1. idx.imports = UNION {files[j].imports : j \in L}
        BY DEF IndexedUpTo
    <2>2. M = IF file.parses THEN L \cup {k0} ELSE L
        BY <1>1
    <2> HIDE DEF L
    <2> QED  BY <1>3, <2>1, <2>2
<1> QED  BY <1>3, <1>4, <1>5, <1>6 DEF IndexedUpTo

-----------------------------------------------------------------------------
\* The inductive invariant

LEMMA TypeInit == Init => TypeInv
<1> SUFFICES ASSUME Init PROVE TypeInv
    OBVIOUS
<1>1. Len(spec.contracts) \in Nat
    BY ContractTypes DEF Init
<1>2. report \in Report
    BY DEF Init, Report
<1> QED  BY <1>1, <1>2, EmptyIndexFact DEF Init, TypeInv

LEMMA TypeNext == TypeInv /\ IndexInv /\ [Next]_vars => TypeInv'
<1> SUFFICES ASSUME TypeInv, IndexInv, [Next]_vars PROVE TypeInv'
    OBVIOUS
<1>a. /\ Len(spec.contracts) \in Nat /\ i \in Nat
      /\ project \in Projects /\ spec \in Specification
    BY ContractTypes DEF TypeInv
<1>1. CASE LookUp
    <2>1. indexes[Current.module] \in Index
        BY <1>1, CurrentFact DEF LookUp, TypeInv
    <2>2. index' \in Index
        BY <1>1, <2>1, EmptyIndexFact DEF LookUp
    <2>3. /\ pc = "contract" /\ i <= Len(spec.contracts)
          /\ pc' \in {"index", "check"} /\ k' = 1
          /\ UNCHANGED <<project, spec, i, indexes, report>>
        BY <1>1 DEF LookUp
    <2> QED  BY <2>2, <2>3 DEF TypeInv
<1>2. CASE IndexFile
    <2>1. Current.module \in Modules
        BY <1>2, CurrentFact DEF IndexFile, TypeInv
    <2>2. k \in 1..Len(project[Current.module]) /\ k \in Nat
        BY <1>a, <1>2, <2>1, TreeTypes, FileTypes DEF IndexFile, TypeInv
    <2>3. index' \in Index
        BY <1>a, <1>2, <2>1, <2>2, TreeTypes, IndexedStep
        DEF IndexFile, TypeInv, IndexInv
    <2> QED  BY <1>2, <2>2, <2>3 DEF IndexFile, TypeInv
<1>3. CASE KeepIndex
    BY <1>3, CurrentFact DEF KeepIndex, TypeInv
<1>4. CASE CheckContract
    <2>1. Current \in Contract /\ i \in 1..Len(spec.contracts)
        BY <1>a, <1>4, CurrentFact DEF CheckContract, TypeInv
    <2>2. report' \in {report,
                       [report EXCEPT !.missing = @ \cup {Current}],
                       [report EXCEPT !.mismatched = @ \cup {Current}]}
        BY <1>4 DEF CheckContract
    <2>3. report' \in Report
        BY <2>1, <2>2 DEF TypeInv, Report
    <2> QED  BY <1>a, <1>4, <2>1, <2>3 DEF CheckContract, TypeInv
<1>5. CASE Finish
    <2>1. ForbiddenImports \in SUBSET (Modules \X Import)
        BY DEF ForbiddenImports, TypeInv, Index
    <2>2. report' = [report EXCEPT !.forbidden = ForbiddenImports,
                                   !.invariants = spec.required \ spec.keys]
        BY <1>5 DEF Finish, ForbiddenImports
    <2>3. spec.required \ spec.keys \in SUBSET STRING
        BY <1>a DEF Specification
    <2>4. report' \in Report
        BY <2>1, <2>2, <2>3 DEF TypeInv, Report
    <2>5. i = Len(spec.contracts) + 1
        BY <1>a, <1>5 DEF Finish, TypeInv
    <2> QED  BY <1>5, <2>4, <2>5 DEF Finish, TypeInv
<1>6. CASE UNCHANGED vars
    BY <1>6 DEF vars, TypeInv
<1> QED  BY <1>1, <1>2, <1>3, <1>4, <1>5, <1>6 DEF Next, Done

LEMMA IndexInit == Init => IndexInv
BY EmptyIndexFact DEF Init, IndexInv

LEMMA IndexNext == TypeInv /\ IndexInv /\ [Next]_vars => IndexInv'
<1> SUFFICES ASSUME TypeInv, IndexInv, [Next]_vars PROVE IndexInv'
    OBVIOUS
<1>a. /\ Len(spec.contracts) \in Nat /\ i \in Nat /\ k \in Nat
      /\ project \in Projects /\ spec \in Specification
      /\ UNCHANGED <<project, spec>>
    BY ContractTypes
    DEF TypeInv, Next, LookUp, IndexFile, KeepIndex, CheckContract, Finish,
        Done, vars
<1>1. CASE LookUp
    <2>1. /\ Current \in Contract /\ Current.module \in Modules
          /\ project[Current.module] \in Seq(SourceFile)
        BY <1>a, <1>1, CurrentFact, TreeTypes DEF LookUp
    <2>2. /\ Current' = Current /\ UNCHANGED <<i, indexes>>
          /\ pc' \in {"index", "check"} /\ k' = 1
          /\ 1 <= Len(project[Current.module]) + 1
        BY <1>1, <2>1, FileTypes DEF LookUp, Current
    <2>3. CASE indexes[Current.module].none
        BY <1>1, <2>1, <2>2, <2>3, <1>a, EmptyIndexFact DEF LookUp, IndexInv
    <2>4. CASE ~indexes[Current.module].none
        BY <1>1, <2>1, <2>2, <2>4, <1>a DEF LookUp, IndexInv
    <2> QED  BY <2>3, <2>4
<1>2. CASE IndexFile
    <2>1. /\ Current.module \in Modules /\ Current' = Current
          /\ project[Current.module] \in Seq(SourceFile)
        BY <1>a, <1>2, CurrentFact, TreeTypes DEF IndexFile, TypeInv, Current
    <2>2. /\ k \in 1..Len(project[Current.module])
          /\ k + 1 <= Len(project[Current.module]) + 1
        BY <1>a, <1>2, <2>1, FileTypes DEF IndexFile, TypeInv
    <2>3. IndexedUpTo(index', project[Current.module], k + 1)
        BY <1>a, <1>2, <2>1, <2>2, IndexedStep DEF IndexFile, TypeInv, IndexInv
    <2> QED  BY <1>a, <1>2, <2>1, <2>2, <2>3 DEF IndexFile, IndexInv
<1>3. CASE KeepIndex
    <2>1. /\ Current.module \in Modules /\ Current' = Current
          /\ project[Current.module] \in Seq(SourceFile)
        BY <1>a, <1>3, CurrentFact, TreeTypes DEF KeepIndex, TypeInv, Current
    <2>2. k = Len(project[Current.module]) + 1
        BY <1>a, <1>3, <2>1, FileTypes DEF KeepIndex, IndexInv
    <2>3. WholeIndex(index, project[Current.module]) /\ ~index.none
        BY <1>3, <2>2 DEF KeepIndex, IndexInv, WholeIndex, IndexedUpTo
    <2>4. /\ indexes'[Current.module] = index
          /\ \A m \in Modules \ {Current.module} : indexes'[m] = indexes[m]
        BY <1>3, <2>1 DEF KeepIndex, TypeInv
    <2>5. \A m \in Modules : indexes'[m].none \/ WholeIndex(indexes'[m], project[m])
        BY <2>3, <2>4 DEF IndexInv
    <2>6. \A j \in 1..(i - 1) : spec.contracts[j].module \in Modules
        BY <1>a, ContractTypes DEF TypeInv, Contract
    <2>7. \A j \in 1..(i - 1) : ~indexes'[spec.contracts[j].module].none
        BY <2>3, <2>4, <2>6 DEF IndexInv
    <2> QED  BY <1>a, <1>3, <2>1, <2>3, <2>4, <2>5, <2>7 DEF KeepIndex, IndexInv
<1>4. CASE CheckContract
    <2>1. 1..(i' - 1) = 1..(i - 1) \cup {i} /\ Current = spec.contracts[i]
        BY <1>a, <1>4 DEF CheckContract, TypeInv, Current
    <2> QED  BY <1>a, <1>4, <2>1 DEF CheckContract, IndexInv
<1>5. CASE Finish
    BY <1>a, <1>5 DEF Finish, IndexInv
<1>6. CASE UNCHANGED vars
    BY <1>6 DEF vars, IndexInv, Current
<1> QED  BY <1>1, <1>2, <1>3, <1>4, <1>5, <1>6 DEF Next, Done

LEMMA ReportInit == Init => ReportInv
BY DEF Init, ReportInv

\* The definition a contract is compared with is there, or reported missing.
LEMMA ComparedType ==
    ASSUME NEW idx \in Index, NEW kd \in Kind, NEW n \in Names
    PROVE  idx.defs[kd][n] \in Definition \cup {NoDefinition}
BY DEF Index

LEMMA ReportNext == TypeInv /\ IndexInv /\ ReportInv /\ [Next]_vars => ReportInv'
<1> SUFFICES ASSUME TypeInv, IndexInv, ReportInv, [Next]_vars
             PROVE  ReportInv'
    OBVIOUS
<1>a. /\ Len(spec.contracts) \in Nat /\ i \in Nat
      /\ UNCHANGED <<project, spec>>
    BY ContractTypes
    DEF TypeInv, Next, LookUp, IndexFile, KeepIndex, CheckContract, Finish,
        Done, vars
<1>1. CASE UNCHANGED <<i, report>> /\ pc' # "done"
    BY <1>a, <1>1 DEF ReportInv
<1>2. CASE CheckContract
    <2>1. /\ Current \in Contract /\ Current = spec.contracts[i]
          /\ 1..(i' - 1) = 1..(i - 1) \cup {i}
          /\ pc' # "done"
        BY <1>a, <1>2, CurrentFact DEF CheckContract, TypeInv
    <2>2. /\ Target \in Definition \cup {NoDefinition}
          /\ Compared(project[Current.module], Current, Target)
        BY <1>2, <2>1, ComparedType
        DEF CheckContract, IndexInv, WholeIndex, IndexedUpTo, Compared, Target,
            TypeInv, Contract
    <2>3. report \in Report
        BY DEF TypeInv
    <2>4. CASE Target = NoDefinition
        <3>1. /\ report'.missing = report.missing \cup {Current}
              /\ report'.mismatched = report.mismatched
            BY <1>2, <2>3, <2>4 DEF CheckContract, Report
        <3>2. MissingIn(project, Current)
            BY <2>2, <2>4 DEF MissingIn
        <3> QED  BY <1>a, <2>1, <3>1, <3>2 DEF ReportInv
    <2>5. CASE Target # NoDefinition /\ ~Honours(Target, Current)
        <3>1. /\ report'.missing = report.missing
              /\ report'.mismatched = report.mismatched \cup {Current}
            BY <1>2, <2>3, <2>5 DEF CheckContract, Report
        <3>2. DishonouredIn(project, Current)
            BY <2>2, <2>5 DEF DishonouredIn
        <3> QED  BY <1>a, <2>1, <3>1, <3>2 DEF ReportInv
    <2>6. CASE Target # NoDefinition /\ Honours(Target, Current)
        <3>1. report' = report
            BY <1>2, <2>6 DEF CheckContract
        <3>2. HonouredIn(project, Current)
            BY <2>2, <2>6 DEF HonouredIn
        <3> QED  BY <1>a, <2>1, <3>1, <3>2 DEF ReportInv
    <2> QED  BY <2>4, <2>5, <2>6
<1>3. CASE Finish
    <2>1. report \in Report
        BY DEF TypeInv
    <2>2. /\ report'.missing = report.missing
          /\ report'.mismatched = report.mismatched
          /\ report'.forbidden = ForbiddenImports
        BY <1>3, <2>1 DEF Finish, Report, ForbiddenImports
    <2>3. ForbiddenImports' = ForbiddenImports
        BY <1>a, <1>3 DEF Finish, ForbiddenImports, Forbidden
    <2> QED  BY <1>a, <1>3, <2>2, <2>3 DEF Finish, ReportInv
<1>4. CASE UNCHANGED vars
    <2>1. ForbiddenImports' = ForbiddenImports
        BY <1>4 DEF vars, ForbiddenImports, Forbidden
    <2> QED  BY <1>4, <2>1 DEF vars, ReportInv
<1> QED  BY <1>1, <1>2, <1>3, <1>4
         DEF Next, Done, LookUp, IndexFile, KeepIndex

LEMMA DriftInvariant == Spec => []DriftInv
<1>1. Init => DriftInv
    BY TypeInit, IndexInit, ReportInit DEF DriftInv
<1>2. DriftInv /\ [Next]_vars => DriftInv'
    BY TypeNext, IndexNext, ReportNext DEF DriftInv
<1> QED  BY <1>1, <1>2, PTL DEF Spec

-----------------------------------------------------------------------------
\* The report and the tree

\* What an ended verification knows of a contract's module.
LEMMA EndFact ==
    ASSUME DriftInv, pc = "done", NEW c \in Contracts
    PROVE  /\ c \in Contract /\ c.module \in Modules
           /\ project[c.module] \in Seq(SourceFile)
           /\ WholeIndex(indexes[c.module], project[c.module])
           /\ \/ c \in report.missing \cup report.mismatched
              \/ HonouredIn(project, c)
           /\ Parsable(c.module) = Parsing(project[c.module])
<1>1. spec.contracts \in Seq(Contract) /\ i - 1 = Len(spec.contracts)
    BY ContractTypes DEF DriftInv, TypeInv
<1>2. PICK j \in 1..Len(spec.contracts) : c = spec.contracts[j]
    BY <1>1 DEF Contracts
<1>3. c \in Contract /\ c.module \in Modules
    <2>1. spec.contracts[j] \in Contract
        BY <1>1, <1>2
    <2> QED  BY <1>2, <2>1 DEF Contract
<1>4. j \in 1..(i - 1)
    BY <1>1, <1>2
<1> QED  BY <1>2, <1>3, <1>4, TreeTypes
         DEF DriftInv, TypeInv, IndexInv, ReportInv, Parsable, Parsing

LEMMA ForbiddenFact ==
    ASSUME NEW m \in Modules, NEW x \in indexes[m].imports
    PROVE  <<m, x>> \in ForbiddenImports <=> Forbidden(x)
BY DEF ForbiddenImports

\* A reader of the tree finds the definition a contract is compared with, and
\* none where there is none to compare with.
LEMMA ComparedIsDefined ==
    ASSUME NEW c \in Contract, project[c.module] \in Seq(SourceFile),
           NEW d, Compared(project[c.module], c, d)
    PROVE  /\ d # NoDefinition => d \in Defined(c)
           /\ d = NoDefinition => Defined(c) = {}
<1> DEFINE files == project[c.module]
<1>1. /\ Parsable(c.module) = Parsing(files) /\ c.kind \in Kind
      /\ c.name \in Names /\ Len(files) \in Nat
      /\ Parsing(files) \subseteq 1..Len(files)
    BY FileTypes DEF Parsable, Parsing, Contract
<1>2. ASSUME d # NoDefinition
      PROVE  d \in Defined(c)
    <2>1. PICK j \in Parsing(files) : d = FirstDef(files, j, c.kind, c.name)
        BY <1>2 DEF Compared, IsFirstDef
    <2>2. PICK l \in DOMAIN files[j].defs :
              /\ d = files[j].defs[l] /\ d.kind = c.kind /\ d.name = c.name
        BY <1>1, <1>2, <2>1, FirstDefFact
    <2> DEFINE S == {files[j].defs[x] : x \in DOMAIN files[j].defs}
    <2>3. d \in S
        BY <2>2
    <2>4. S \in {{project[c.module][y].defs[x] :
                      x \in DOMAIN project[c.module][y].defs} :
                          y \in Parsable(c.module)}
        BY <1>1, <2>1
    <2> HIDE DEF S
    <2> QED  BY <2>2, <2>3, <2>4 DEF Defined
<1>3. ASSUME d = NoDefinition, NEW e \in Defined(c)
      PROVE  FALSE
    <2>1. PICK j \in Parsing(files) : \E l \in DOMAIN files[j].defs :
              /\ e = files[j].defs[l] /\ e.kind = c.kind /\ e.name = c.name
        BY <1>1, <1>3 DEF Defined
    <2>2. FirstDef(files, j, c.kind, c.name) = NoDefinition
        BY <1>1, <1>3, <2>1 DEF Compared, IsFirstDef, NoDefinition
    <2>3. FirstDef(files, j, c.kind, c.name) \in Definition
        BY <1>1, <2>1, FirstDefFact
    <2> QED  BY <2>2, <2>3, NoDefinitionFact
<1> QED  BY <1>2, <1>3

\* "no-drift" is true: the first definition of each contract's name honours it,
\* and no module under contract imports what the specification forbids.
THEOREM CleanReportIsSound == Spec => []NoDriftIsSound
<1>1. ASSUME DriftInv, pc = "done", ~Drifted, NEW c \in Contracts
      PROVE  /\ \E d \in Defined(c) : Honours(d, c)
             /\ \A j \in Parsable(c.module) :
                    \A imp \in project[c.module][j].imports :
                        imp.root \notin spec.forbidden
    <2>1. /\ report.missing = {} /\ report.mismatched = {}
          /\ report.forbidden = {}
        BY <1>1 DEF Drifted, DriftInv, TypeInv, Report
    <2>2. PICK d \in Definition :
              Compared(project[c.module], c, d) /\ Honours(d, c)
        BY <1>1, <2>1, EndFact DEF HonouredIn
    <2>3. d \in Defined(c)
        BY <1>1, <2>2, EndFact, ComparedIsDefined, NoDefinitionFact
    <2>4. ASSUME NEW j \in Parsable(c.module),
                 NEW imp \in project[c.module][j].imports
          PROVE  imp.root \notin spec.forbidden
        <3>1. /\ j \in Parsing(project[c.module])
              /\ j < Len(project[c.module]) + 1
            BY <1>1, <2>4, EndFact, FileTypes
        <3>2. imp \in indexes[c.module].imports
            BY <1>1, <2>4, <3>1, EndFact DEF WholeIndex, IndexedUpTo
        <3>3. ForbiddenImports = {} /\ c.module \in Modules
            BY <1>1, <2>1, EndFact DEF DriftInv, ReportInv
        <3>4. ~Forbidden(imp)
            BY <3>2, <3>3, ForbiddenFact
        <3> QED  BY <3>4 DEF Forbidden
    <2> QED  BY <2>2, <2>3, <2>4
<1>2. DriftInv => NoDriftIsSound
    BY <1>1 DEF NoDriftIsSound, UnderContract
<1> QED  BY <1>2, DriftInvariant, PTL

\* What is reported missing is nowhere in the module, and what is reported to
\* mismatch is the definition that comes first.
THEOREM ReportsAreReal == Spec => []DriftIsReal
<1>1. ASSUME DriftInv, pc = "done", NEW c \in Contracts
      PROVE  c \in report.missing <=> Defined(c) = {}
    <2>1. ASSUME c \in report.missing PROVE Defined(c) = {}
        BY <1>1, <2>1, EndFact, ComparedIsDefined
        DEF DriftInv, ReportInv, MissingIn
    <2>2. ASSUME c \in report.mismatched \/ HonouredIn(project, c)
          PROVE  Defined(c) # {}
        <3>1. PICK d \in Definition : Compared(project[c.module], c, d)
            BY <1>1, <2>2 DEF DriftInv, ReportInv, DishonouredIn, HonouredIn
        <3> QED  BY <1>1, <3>1, EndFact, ComparedIsDefined, NoDefinitionFact
    <2> QED  BY <1>1, <2>1, <2>2, EndFact
<1>2. ASSUME DriftInv, pc = "done", NEW c \in report.mismatched
      PROVE  \E j \in Parsable(c.module) :
                /\ FirstIn(project[c.module][j].defs, c.kind, c.name)
                       # NoDefinition
                /\ ~Honours(FirstIn(project[c.module][j].defs, c.kind, c.name), c)
                /\ \A l \in Parsable(c.module) : l < j =>
                     FirstIn(project[c.module][l].defs, c.kind, c.name)
                         = NoDefinition
    <2>1. PICK d \in Definition :
              Compared(project[c.module], c, d) /\ ~Honours(d, c)
        BY <1>2 DEF DriftInv, ReportInv, DishonouredIn
    <2>2. d # NoDefinition /\ Parsable(c.module) = Parsing(project[c.module])
        BY NoDefinitionFact DEF Parsable, Parsing
    <2> QED  BY <2>1, <2>2 DEF Compared, IsFirstDef, FirstDef
<1>3. DriftInv => DriftIsReal
    BY <1>1, <1>2 DEF DriftIsReal
<1> QED  BY <1>3, DriftInvariant, PTL
=============================================================================
