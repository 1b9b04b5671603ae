------------------------------ MODULE MCNodes -------------------------------
(***************************************************************************)
(* Values of the constants of the nodes for TLC, shared by the instances   *)
(* of both runners: project trees a run may start from, patch lists an     *)
(* engineer may answer with, exceptions a node may raise.                  *)
(***************************************************************************)
EXTENDS WorkflowNodes

\* Files: a source, a symlink out of the project, a report, and a document.
MCPlatform == {"src/a", "src/link"}
MCStorage  == {"storage/s"}
MCOutside  == {"docs/o"}
MCEscaping == {"src/link"}
MCSections == {"default", "x", "y"}
MCBodies   == {TextLine("v1"), TextLine("v2")}

P(f, s, b) == [file |-> f, sec |-> s, body |-> TextLine(b)]

\* Answers of the engineer: an unparsable one, one in the platform, one whose
\* file leaves the project through a symlink, one outside, and two files.
MCPayloads ==
    {<<>>, <<P("src/a", "x", "v2")>>,
     <<P("src/a", "x", "v1"), P("storage/s", "x", "v1")>>,
     <<P("src/link", "x", "v1")>>, <<P("docs/o", "x", "v1")>>}

MCFewPayloads ==
    {<<P("src/a", "x", "v2")>>, <<P("src/link", "x", "v1")>>,
     <<P("docs/o", "x", "v1")>>}

MCTwoSections == {<<P("src/a", "x", "v1")>>, <<P("src/a", "y", "v2")>>}

E(c, m) == [cls |-> c, multiline |-> m]
MCExceptions     == {E("Other", FALSE), E("TimeoutError", FALSE),
                     E("TypeError", TRUE)}
MCOneException   == {E("Other", FALSE)}
MCNoException    == {}

MCSetups  == [traces : TraceDirs, adapter : {"vendor"}]
                 \cup {[traces |-> "default", adapter |-> "stub"]}
MCDefault == {[traces |-> "default", adapter |-> "vendor"]}

MCSandboxFailures == {"TEST_ASSERTION", "INFRA_TIMEOUT"}
MCOneFailure      == {"TEST_ASSERTION"}

\* A new project, and one with a generated file that a human has written
\* below, before it was hashed, next to a handwritten one.
Generated(s, b) ==
    FileWith(<<MarkerLine>> \o NewSection(s, TextLine(b)) \o <<HumanLine>>)
Handwritten == FileWith(<<HumanLine>>)

MCNewProject == {EmptyDisk}
MCUsedProject ==
    {EmptyDisk,
     [EmptyDisk EXCEPT !.tree["src/a"] = Generated("x", "v1"),
                       !.manifest["src/a"] = Generated("x", "v1"),
                       !.tree["storage/s"] = Handwritten]}
=============================================================================
