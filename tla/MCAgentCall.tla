---------------------------- MODULE MCAgentCall ----------------------------
(***************************************************************************)
(* Instances of AgentCall for TLC.                                         *)
(***************************************************************************)
EXTENDS AgentCall

MCRoles    == {"planner", "engineer", "reviewer"}

H(name)    == [section |-> name, says |-> {}]
T(phrases) == [section |-> Text, says |-> phrases]
G(lines)   == [exists |-> TRUE, lines |-> lines]

\* The engineer's guide: a title, then the three sections.
Shipped == <<T({"Engineer Agent Guide"}), H("ROLE"), T({"who"}),
             H("CONSTRAINTS"), T({"how"}), H("OUTPUT_FORMAT"), T({"what"})>>

\* The guides one edit away from it: a line dropped,
\* replaced or appended, or two swapped; and some too long.
Lines == {H("ROLE"), H("EXAMPLES"), T({}), T({"how"}), T({Forbidden}),
          T({"Engineer Agent Guide"})}
Dropped(i) == [j \in 1..(Len(Shipped) - 1) |->
                  IF j < i THEN Shipped[j] ELSE Shipped[j + 1]]
Swapped(i, j) == [Shipped EXCEPT ![i] = Shipped[j], ![j] = Shipped[i]]
Blank(n) == [i \in 1..n |-> T({})]

MCGuides ==
    {NoFile, G(Shipped), G(Shipped \o Shipped)}
      \cup {G(Dropped(i)) : i \in DOMAIN Shipped}
      \cup {G([Shipped EXCEPT ![i] = line]) : i \in DOMAIN Shipped, line \in Lines}
      \cup {G(Swapped(i, j)) : i, j \in DOMAIN Shipped}
      \cup {G(Append(Shipped, line)) : line \in Lines}
      \cup {G(Shipped \o <<line, T({"how"})>>) : line \in Lines}
      \cup {G(Shipped \o Blank(4) \o <<T({"how"})>>), G(Shipped \o Blank(8))}
=============================================================================
