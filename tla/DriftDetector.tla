--------------------------- MODULE DriftDetector ---------------------------
(***************************************************************************)
(* DriftDetector.verify (services/drift_detector.py): the contracts of the *)
(* domain specification one after the other, each against the index of its *)
(* module, which is built when the first contract names it and kept for    *)
(* the next; then the imports of every index, then the specification's own *)
(* keys.  One action for each turn of the two loops.                       *)
(***************************************************************************)
EXTENDS Naturals, Sequences

CONSTANTS
    Modules,    \* paths that contracts name
    Names,      \* names of functions and classes
    Projects,   \* source trees: for each module the files found below it
    Specs       \* domain specifications

\* A definition, in the order ast.walk meets them; an import, the first component
\* of its dotted name and the others; a file; a contract on a definition; a
\* specification.  The arguments are those of node.args.args.
Kind == {"function", "class"}
Definition ==
    [kind : Kind, name : Names, args : Seq(STRING), doc : BOOLEAN]
Import == [root : STRING, rest : STRING]
SourceFile ==
    [parses : BOOLEAN, defs : Seq(Definition), imports : SUBSET Import]
Contract ==
    [module : Modules, kind : Kind, name : Names, params : Seq(STRING),
     doc : BOOLEAN]
Specification ==
    [contracts : Seq(Contract), forbidden : SUBSET STRING,
     required : SUBSET STRING, keys : SUBSET STRING]

ASSUME DriftAssumption ==
    /\ Projects \subseteq [Modules -> Seq(SourceFile)]
    /\ Specs \subseteq Specification

VARIABLES
    project, spec,   \* what is verified; never change
    pc,              \* "contract", "index", "check", "done"
    i,               \* the contract in hand
    k,               \* the next file of its module to index
    index,           \* mod_index
    indexes,         \* the indexes kept, with NoIndex for no index
    report

vars == <<project, spec, pc, i, k, index, indexes, report>>

NoDefinition == [kind |-> "none"]
EmptyIndex == [defs |-> [kd \in Kind |-> [n \in Names |-> NoDefinition]],
               imports |-> {}, none |-> FALSE]
NoIndex == [EmptyIndex EXCEPT !.none = TRUE]

Init ==
    /\ project \in Projects /\ spec \in Specs
    /\ pc = "contract" /\ i = 1 /\ k = 1
    /\ index = NoIndex
    /\ indexes = [m \in Modules |-> NoIndex]
    /\ report = [missing |-> {}, mismatched |-> {}, forbidden |-> {},
                 invariants |-> {}]

-----------------------------------------------------------------------------
\* Helpers

Current == spec.contracts[i]

\* The definition of a name that setdefault keeps: the first of its kind.
FirstIn(defs, kind, name) ==
    LET found == {j \in DOMAIN defs : defs[j].kind = kind /\ defs[j].name = name}
    IN IF found = {} THEN NoDefinition
       ELSE defs[CHOOSE j \in found : \A l \in found : j <= l]

\* self and cls are left out.
ActualArgs(def) ==
    IF def.args # <<>> /\ Head(def.args) \in {"self", "cls"}
    THEN Tail(def.args) ELSE def.args

\* The arguments by number and name, and the docstring; a class has neither.
Honours(def, c) ==
    c.kind = "function" => /\ ActualArgs(def) = c.params
                           /\ c.doc => def.doc

-----------------------------------------------------------------------------
\* Steps

\* Mutant: any index at hand will do.
LookUpAny ==
    /\ pc = "contract"
    /\ i <= Len(spec.contracts)
    /\ index' = IF index.none THEN EmptyIndex ELSE index
    /\ pc' = IF index.none THEN "index" ELSE "check"
    /\ k' = 1
    /\ UNCHANGED <<project, spec, i, indexes, report>>

\* Look the index of the contract's module up, or begin to build it.
LookUp ==
    /\ pc = "contract"
    /\ i <= Len(spec.contracts)
    /\ index' = IF indexes[Current.module].none THEN EmptyIndex
                                               ELSE indexes[Current.module]
    /\ pc' = IF indexes[Current.module].none THEN "index" ELSE "check"
    /\ k' = 1
    /\ UNCHANGED <<project, spec, i, indexes, report>>

\* Mutant: a later file takes a name over.
IndexedLast(idx, file) ==
    [idx EXCEPT
       !.defs = [kd \in Kind |-> [n \in Names |->
                    IF FirstIn(file.defs, kd, n) # NoDefinition
                    THEN FirstIn(file.defs, kd, n) ELSE idx.defs[kd][n]]],
       !.imports = @ \cup file.imports]

\* One file merged into the index: what it defines anew, what it imports.
Indexed(idx, file) ==
    [idx EXCEPT
       !.defs = [kd \in Kind |-> [n \in Names |->
                    IF idx.defs[kd][n] # NoDefinition THEN idx.defs[kd][n]
                    ELSE FirstIn(file.defs, kd, n)]],
       !.imports = @ \cup file.imports]

\* A file that does not parse is passed over.
IndexFile ==
    /\ pc = "index"
    /\ k <= Len(project[Current.module])
    /\ index' = LET file == project[Current.module][k]
                IN IF file.parses THEN Indexed(index, file) ELSE index
    /\ k' = k + 1
    /\ UNCHANGED <<project, spec, pc, i, indexes, report>>

KeepIndex ==
    /\ pc = "index"
    /\ k > Len(project[Current.module])
    /\ indexes' = [indexes EXCEPT ![Current.module] = index]
    /\ pc' = "check"
    /\ UNCHANGED <<project, spec, i, k, index, report>>

Target == index.defs[Current.kind][Current.name]

CheckContract ==
    /\ pc = "check"
    /\ report' =
         CASE Target = NoDefinition ->
                 [report EXCEPT !.missing = @ \cup {Current}]
           [] Target # NoDefinition /\ ~Honours(Target, Current) ->
                 [report EXCEPT !.mismatched = @ \cup {Current}]
           [] OTHER -> report
    /\ i' = i + 1
    /\ pc' = "contract"
    /\ UNCHANGED <<project, spec, k, index, indexes>>

Forbidden(imp) == imp.root \in spec.forbidden

\* The imports of the indexed modules, and the keys the specification requires
\* of itself.
Finish ==
    /\ pc = "contract"
    /\ i > Len(spec.contracts)
    /\ report' =
         [report EXCEPT
            !.forbidden = UNION {{<<m, imp>> : imp \in
                              {x \in indexes[m].imports : Forbidden(x)}} :
                                  m \in Modules},
            !.invariants = spec.required \ spec.keys]
    /\ pc' = "done"
    /\ UNCHANGED <<project, spec, i, k, index, indexes>>

Drifted == \E part \in DOMAIN report : report[part] # {}

Done == pc = "done" /\ UNCHANGED vars

Next == LookUp \/ IndexFile \/ KeepIndex \/ CheckContract \/ Finish \/ Done

Spec == Init /\ [][Next]_vars

-----------------------------------------------------------------------------
\* Properties

\* What a reader of the tree sees: the definitions of a contract's name in the
\* files of its module that parse, and the modules that contracts name.
Parsable(m) == {j \in DOMAIN project[m] : project[m][j].parses}
Defined(c) ==
    {d \in UNION {{project[c.module][j].defs[l] :
                       l \in DOMAIN project[c.module][j].defs} :
                           j \in Parsable(c.module)} :
        d.kind = c.kind /\ d.name = c.name}
Contracts == {spec.contracts[j] : j \in DOMAIN spec.contracts}
UnderContract == {c.module : c \in Contracts}

\* "no-drift", on which the sandbox and the drop rely, is not the effect of an
\* index that was mixed up or left unbuilt: the tree has a definition that
\* honours each contract, and no forbidden import in any module under contract.
NoDriftIsSound ==
    pc = "done" /\ ~Drifted =>
        /\ \A c \in Contracts : \E d \in Defined(c) : Honours(d, c)
        /\ \A m \in UnderContract : \A j \in Parsable(m) :
               \A imp \in project[m][j].imports : imp.root \notin spec.forbidden

\* Each line of a report is about the tree: what is missing is nowhere, what
\* mismatches is there, and the definition that comes first does not honour it.
DriftIsReal ==
    pc = "done" =>
        /\ \A c \in Contracts : c \in report.missing <=> Defined(c) = {}
        /\ \A c \in report.mismatched :
             \E j \in Parsable(c.module) :
                /\ FirstIn(project[c.module][j].defs, c.kind, c.name)
                       # NoDefinition
                /\ ~Honours(FirstIn(project[c.module][j].defs, c.kind, c.name), c)
                /\ \A l \in Parsable(c.module) : l < j =>
                     FirstIn(project[c.module][l].defs, c.kind, c.name)
                         = NoDefinition
=============================================================================
