----------------------------- MODULE AgentCall -----------------------------
(***************************************************************************)
(* A call of an agent (agents/planner.py, engineer.py, reviewer.py) and    *)
(* what it leaves on disk: the event of its start in the timeline          *)
(* (services/telemetry.py), the question to the model that HybridAdapter   *)
(* picks, the snapshot of the exchange (services/replay_store.py), and the *)
(* event of its end.  Any of these may fail, and the process may be killed *)
(* at any of them; the next one appends to the same timeline.              *)
(***************************************************************************)
EXTENDS PromptLoader, FiniteSets

CONSTANTS
    Roles,      \* the agents looked at
    Guides,     \* what the guide file of the agent may hold
    MaxCalls    \* bound: calls of the agent, over all processes

ASSUME CallAssumption ==
    /\ Roles \subseteq {"planner", "engineer", "reviewer"}
    /\ Guides \subseteq Guide
    /\ MaxCalls \in Nat

VARIABLES
    role,       \* the agent; never changes
    guide,      \* the guide it was built from, NoFile if it was not
    pc,         \* the next step of the call, "idle" between calls, "down"
                \* while there is no agent
    sent,       \* the system prompt the model was sent
    model,      \* the adapter that was asked, "none" if none was
    output,     \* what the call returns
    calls,      \* the number of the last call
    timeline,   \* what was appended to the timeline file
    temps,      \* calls whose temporary file is there
    snapshots,  \* calls whose snapshot is there
    returned    \* history: the calls that returned

vars == <<role, guide, pc, sent, model, output, calls, timeline, temps,
          snapshots, returned>>
files == <<timeline, temps, snapshots>>
exchange == <<sent, model, output>>

Calls == 1..MaxCalls
Output == {"none", "parsed", "countless", "fallback", "rules"}
EventKind == {"enter", "exit", "early_exit"}

\* What one append leaves: its record, or the part of it that was written
\* before the disk was full or the process killed, without the line's end.
Chunk == [call : Calls, kind : EventKind, whole : BOOLEAN]

TypeOK ==
    /\ role \in Roles
    /\ guide \in Guides \cup {NoFile}
    /\ pc \in {"down", "idle", "enter", "decide", "temp", "replace", "exit"}
    /\ model \in {"none", "cheap", "smart"}
    /\ output \in Output
    /\ calls \in 0..MaxCalls
    /\ timeline \in Seq(Chunk)
    /\ temps \subseteq 1..calls /\ snapshots \subseteq 1..calls
    /\ returned \subseteq 1..calls

Init ==
    /\ role \in Roles
    /\ guide = NoFile /\ pc = "down"
    /\ sent = {} /\ model = "none" /\ output = "none"
    /\ calls = 0 /\ timeline = <<>>
    /\ temps = {} /\ snapshots = {} /\ returned = {}

-----------------------------------------------------------------------------
\* The workflow builds its agents from their guides, or is not built at all.
Start ==
    /\ pc = "down"
    /\ \E g \in Guides :
          /\ Accepts(g)
          /\ guide' = g
    /\ pc' = "idle"
    /\ UNCHANGED <<role, exchange, calls, files, returned>>

\* An exception leaves the call.
Raise == pc' = "idle"

\* Telemetry.event: the record and its line end in one append.
Record(kind, ok) ==
    timeline' = Append(timeline, [call |-> calls, kind |-> kind, whole |-> ok])

\* The event is appended and the call goes on, or the append fails, after a
\* part of the record or before all of it, and raises.
Event(kind, next) ==
    \/ Record(kind, TRUE) /\ pc' = next
    \/ Record(kind, FALSE) /\ Raise
    \/ UNCHANGED timeline /\ Raise

Call ==
    /\ pc = "idle" /\ calls < MaxCalls
    /\ calls' = calls + 1
    /\ sent' = {} /\ model' = "none" /\ output' = "none"
    /\ pc' = "enter"
    /\ UNCHANGED <<role, guide, files, returned>>

Enter ==
    /\ pc = "enter"
    /\ Event("enter", "decide")
    /\ UNCHANGED <<role, guide, exchange, calls, temps, snapshots, returned>>

\* HybridAdapter.complete tells the engineer by the title of its guide.
Route(prompt) == IF "Engineer Agent Guide" \in prompt THEN "smart" ELSE "cheap"

\* Mutant: an answer that is no JSON is an answer.
ParseAnything(answer) == answer

\* The parsers replace what is no JSON of the wanted form.  The planner accepts
\* an object whose steps are null, and cannot count them; the engineer does not
\* accept such patches and the reviewer counts nothing.
Parse(answer) ==
    CASE answer = "garbage" -> "fallback"
      [] answer = "nulls" /\ role = "planner" -> "countless"
      [] answer = "nulls" /\ role = "engineer" -> "fallback"
      [] OTHER -> "parsed"

AskModel ==
    /\ pc = "decide"
    /\ sent' = Render(Contract(guide))
    /\ model' = Route(Render(Contract(guide)))
    /\ \/ \E answer \in {"object", "nulls", "garbage"} :
              output' = Parse(answer) /\ pc' = "temp"
       \/ UNCHANGED output /\ Raise     \* the adapter raises
    /\ UNCHANGED <<role, guide, calls, files, returned>>

\* The reviewer fails a drift or a failed test run without asking; the planner
\* may fail to read the trace of the last failure, it and the engineer to write
\* the specifications down.
DoNotAsk ==
    /\ pc = "decide"
    /\ \/ role = "reviewer" /\ output' = "rules" /\ pc' = "temp"
       \/ role # "reviewer" /\ Raise /\ UNCHANGED output
    /\ UNCHANGED <<role, guide, sent, model, calls, files, returned>>

\* ReplayStore._atomic_write
WriteTemp ==
    /\ pc = "temp"
    /\ temps' = temps \cup {calls}
    /\ pc' = "replace"
    /\ UNCHANGED <<role, guide, exchange, calls, timeline, snapshots, returned>>

Replace ==
    /\ pc = "replace"
    /\ temps' = temps \ {calls} /\ snapshots' = snapshots \cup {calls}
    /\ pc' = "exit"
    /\ UNCHANGED <<role, guide, exchange, calls, timeline, returned>>

\* Mutant: the failure is swallowed with that of unlink.
SaveFailsSilently ==
    /\ pc \in {"temp", "replace"}
    /\ temps' \in {temps, temps \ {calls}}
    /\ pc' = "exit"
    /\ UNCHANGED <<role, guide, exchange, calls, timeline, snapshots, returned>>

\* The temporary file is unlinked, if that succeeds, and the failure raised.
SaveFails ==
    /\ pc \in {"temp", "replace"}
    /\ temps' \in {temps, temps \ {calls}}
    /\ Raise
    /\ UNCHANGED <<role, guide, exchange, calls, timeline, snapshots, returned>>

Exit ==
    /\ pc = "exit"
    /\ \/ /\ output # "countless"
          /\ Event(IF output = "rules" THEN "early_exit" ELSE "exit", "idle")
       \/ output = "countless" /\ UNCHANGED timeline /\ Raise
    /\ returned' = IF Len(timeline') > Len(timeline) /\ timeline'[Len(timeline')].whole
                   THEN returned \cup {calls} ELSE returned
    /\ UNCHANGED <<role, guide, exchange, calls, temps, snapshots>>

\* The process is killed, perhaps in the middle of an append.
Kill ==
    /\ pc # "down"
    /\ pc' = "down" /\ guide' = NoFile
    /\ sent' = {} /\ model' = "none" /\ output' = "none"
    /\ \/ UNCHANGED timeline
       \/ pc = "enter" /\ Record("enter", FALSE)
       \/ pc = "exit" /\ Record("exit", FALSE)
    /\ UNCHANGED <<role, calls, temps, snapshots, returned>>

Next ==
    \/ Start \/ Call \/ Enter \/ AskModel \/ DoNotAsk
    \/ WriteTemp \/ Replace \/ SaveFails \/ Exit \/ Kill

Spec == Init /\ [][Next]_vars

-----------------------------------------------------------------------------
\* Properties

\* A record can be read if it was written whole and the append before it was
\* too: otherwise both are on one line, which is no JSON.
Readable(i) ==
    /\ timeline[i].whole
    /\ i > 1 => timeline[i - 1].whole

Ends(c) ==
    {i \in DOMAIN timeline : timeline[i].call = c
                               /\ timeline[i].kind \in {"exit", "early_exit"}}

\* Whoever reads the timeline and the replays finds the truth: the snapshot of
\* every call that returned is there, complete; the timeline tells of its end,
\* unless the append before it was cut off; and no end that can be read in the
\* timeline is of a call that left no snapshot.
AuditTrail ==
    /\ returned \subseteq snapshots
    /\ temps \cap snapshots = {}
    /\ \A c \in returned : \E i \in Ends(c) :
          Readable(i) \/ (i > 1 /\ ~timeline[i - 1].whole)
    /\ \A c \in Calls : \A i \in Ends(c) : Readable(i) => c \in snapshots

\* The header that a line of a guide stands under, "none" before the first.
Above(lines, j) ==
    LET before == {h \in Headers(lines) : h < j}
    IN IF before = {} THEN "none"
       ELSE lines[CHOOSE h \in before : \A l \in before : l <= h].section

\* The model is sent what the guide says under the allowed headers, under each
\* of them something, and nothing else that the guide says; nothing of it is
\* forbidden (prompt_loader.py: only allowed sections reach the model).
SentIsContract ==
    model # "none" /\ guide # NoFile =>
        LET said(name) == Says(guide.lines, {j \in DOMAIN guide.lines :
                                    Above(guide.lines, j) = name})
        IN /\ \A name \in AllowedSections :
                 said(name) # {} /\ said(name) = Contract(guide)[name]
           /\ sent = UNION {said(name) : name \in AllowedSections}
           /\ Forbidden \notin sent
=============================================================================
