-------------------------- MODULE MCArtifactWriter --------------------------
(***************************************************************************)
(* Instances of ArtifactWriter for TLC.                                    *)
(***************************************************************************)
EXTENDS ArtifactWriter

MCPlatform == {"src/a", "src/link"}
MCStorage  == {"storage/s"}
MCOutside  == {"docs/o"}
MCEscaping == {"src/link"}
MCSections == {"default", "x"}
MCBodies   == {TextLine("v1"), TextLine("v2")}

R(f, s, b) == [file |-> f, sec |-> s, body |-> TextLine(b)]

\* A new section and its update, the section whose tokens carry no id, a file
\* that leaves the project through a symlink, one that a human may own.
MCRequests == {R("src/a", "x", "v1"), R("src/a", "x", "v2"),
               R("src/a", "default", "v1"), R("src/link", "x", "v1"),
               R("storage/s", "x", "v1")}

\* A new project; a generated file a human wrote below; a handwritten file.
Edited ==
    FileWith(<<MarkerLine>> \o NewSection("x", TextLine("v1")) \o <<HumanLine>>)
MCStartDisks ==
    {EmptyDisk,
     [EmptyDisk EXCEPT !.tree["src/a"] = Edited, !.manifest["src/a"] = Edited],
     [EmptyDisk EXCEPT
        !.tree["storage/s"] = FileWith(<<HumanLine>>)]}

\* The same with a body that holds the begin token of another section.
MCTokenBodies   == MCBodies \cup {BeginLine("default")}
MCTokenRequests ==
    MCRequests \cup {[file |-> "src/a", sec |-> "x",
                      body |-> BeginLine("default")]}
=============================================================================
