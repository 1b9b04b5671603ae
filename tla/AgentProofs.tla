----------------------------- MODULE AgentProofs -----------------------------
(***************************************************************************)
(* Proofs about a call of an agent, for all guides and any number of       *)
(* calls, failures and kills: its files tell the truth about it, and the   *)
(* model is sent the contract of its guide.                                *)
(***************************************************************************)
EXTENDS AgentCall, WellFoundedInduction, TLAPS

-----------------------------------------------------------------------------
\* The types

LEMMA ParseType ==
    ASSUME NEW answer
    PROVE  Parse(answer) \in Output
BY DEF Parse, Output

LEMMA RecordType ==
    ASSUME timeline \in Seq(Chunk), calls \in Calls, NEW kind \in EventKind,
           NEW ok \in BOOLEAN, Record(kind, ok)
    PROVE  timeline' \in Seq(Chunk)
BY DEF Record, Chunk

LEMMA EventType ==
    ASSUME timeline \in Seq(Chunk), calls \in Calls, NEW kind \in EventKind,
           NEW next, Event(kind, next)
    PROVE  timeline' \in Seq(Chunk) /\ pc' \in {next, "idle"}
BY RecordType DEF Event, Raise

\* A step of a call is taken while there is one.
InCall == pc \in {"enter", "decide", "temp", "replace", "exit"}

CallInv == TypeOK /\ (InCall => calls \in Calls)

LEMMA CallInvariant == Spec => []CallInv
<1>1. Init => CallInv
    BY CallAssumption
    DEF Init, CallInv, TypeOK, InCall, Output, files, exchange
<1>2. CallInv /\ [Next]_vars => CallInv'
    <2> SUFFICES ASSUME CallInv, [Next]_vars
                 PROVE  CallInv'
        OBVIOUS
    <2>0. TypeOK /\ 1..calls \subseteq Calls /\ MaxCalls \in Nat
        BY CallAssumption DEF CallInv, TypeOK, Calls
    <2>1. CASE Start
        BY <2>0, <2>1 DEF Start, CallInv, TypeOK, InCall, files, exchange
    <2>2. CASE Call
        <3>1. calls' \in Calls /\ 1..calls \subseteq 1..calls'
            BY <2>0, <2>2 DEF Call, TypeOK, Calls
        <3> QED
            BY <2>0, <2>2, <3>1
            DEF Call, CallInv, TypeOK, InCall, Calls, files, Output
    <2>3. CASE Enter
        <3>1. timeline' \in Seq(Chunk) /\ pc' \in {"decide", "idle"}
            BY <2>0, <2>3, EventType
            DEF Enter, CallInv, InCall, TypeOK, EventKind
        <3> QED
            BY <2>0, <2>3, <3>1
            DEF Enter, CallInv, TypeOK, InCall, exchange
    <2>4. CASE AskModel
        <3>1. model' \in {"cheap", "smart"} /\ output' \in Output
              /\ pc' \in {"idle", "temp"}
            BY <2>0, <2>4, ParseType DEF AskModel, Route, Raise, TypeOK
        <3> QED
            BY <2>0, <2>4, <3>1
            DEF AskModel, CallInv, TypeOK, InCall, files
    <2>5. CASE DoNotAsk
        BY <2>0, <2>5
        DEF DoNotAsk, CallInv, TypeOK, InCall, Raise, files, Output
    <2>6. CASE WriteTemp
        <3>1. calls \in 1..calls
            BY <2>0, <2>6 DEF WriteTemp, CallInv, InCall, Calls
        <3> QED
            BY <2>0, <2>6, <3>1
            DEF WriteTemp, CallInv, TypeOK, InCall, exchange
    <2>7. CASE Replace
        <3>1. calls \in 1..calls
            BY <2>0, <2>7 DEF Replace, CallInv, InCall, Calls
        <3> QED
            BY <2>0, <2>7, <3>1
            DEF Replace, CallInv, TypeOK, InCall, exchange
    <2>8. CASE SaveFails
        BY <2>0, <2>8 DEF SaveFails, CallInv, TypeOK, InCall, Raise, exchange
    <2>9. CASE Exit
        <3>1. calls \in 1..calls /\ calls \in Calls
            BY <2>0, <2>9 DEF Exit, CallInv, InCall, Calls
        <3>2. timeline' \in Seq(Chunk) /\ pc' = "idle"
            BY <2>0, <2>9, <3>1, EventType
            DEF Exit, TypeOK, EventKind, Raise
        <3>3. returned' \subseteq 1..calls
            BY <2>0, <2>9, <3>1 DEF Exit, TypeOK
        <3> QED
            BY <2>0, <2>9, <3>2, <3>3
            DEF Exit, CallInv, TypeOK, InCall, exchange
    <2>10. CASE Kill
        <3>1. timeline' \in Seq(Chunk)
            BY <2>0, <2>10, RecordType
            DEF Kill, CallInv, TypeOK, InCall, EventKind
        <3> QED
            BY <2>0, <2>10, <3>1
            DEF Kill, CallInv, TypeOK, InCall, Output
    <2>11. CASE UNCHANGED vars
        BY <2>0, <2>11
        DEF CallInv, TypeOK, InCall, vars, exchange, files
    <2> QED
        BY <2>1, <2>2, <2>3, <2>4, <2>5, <2>6, <2>7, <2>8, <2>9, <2>10,
           <2>11 DEF Next
<1> QED  BY <1>1, <1>2, PTL DEF Spec

\* What TypeOK says of a call and its files, whatever the guides are.
THEOREM TypeCorrect == Spec => []TypeOK
<1>1. CallInv => TypeOK
    BY DEF CallInv
<1> QED  BY <1>1, CallInvariant, PTL

-----------------------------------------------------------------------------
\* The audit trail

HasEnded(i) == timeline[i].kind \in {"exit", "early_exit"}

\* The snapshot is there before the end of the call is written, and only then.
AuditInv ==
    /\ pc \in {"enter", "decide", "temp", "replace"} => calls \notin snapshots
    /\ pc = "exit" => calls \in snapshots
    /\ temps \cap snapshots = {}
    /\ returned \subseteq snapshots
    /\ \A i \in DOMAIN timeline : HasEnded(i) => timeline[i].call \in snapshots
    /\ \A c \in returned : \E i \in DOMAIN timeline :
          /\ timeline[i].call = c /\ timeline[i].whole
          /\ HasEnded(i)

\* What an append changes of the invariant: the end of a call may be written
\* once its snapshot is there.
LEMMA AppendedTrail ==
    ASSUME AuditInv, timeline \in Seq(Chunk), NEW kind, NEW ok,
           Record(kind, ok), snapshots' = snapshots,
           kind \in {"exit", "early_exit"} => calls \in snapshots
    PROVE  /\ \A i \in DOMAIN timeline' :
                 HasEnded(i)' => timeline'[i].call \in snapshots'
           /\ \A c \in returned : \E i \in DOMAIN timeline' :
                 /\ timeline'[i].call = c /\ timeline'[i].whole
                 /\ HasEnded(i)'
           /\ Len(timeline') = Len(timeline) + 1
           /\ timeline'[Len(timeline')] =
                 [call |-> calls, kind |-> kind, whole |-> ok]
<1> DEFINE n == Len(timeline)
           last == [call |-> calls, kind |-> kind, whole |-> ok]
<1>1. n \in Nat /\ DOMAIN timeline = 1..n
    OBVIOUS
<1>2. /\ DOMAIN timeline' = 1..(n + 1) /\ Len(timeline') = n + 1
      /\ \A i \in 1..n : timeline'[i] = timeline[i]
      /\ timeline'[n + 1] = last
    BY DEF Record
<1>3. last.call = calls /\ last.kind = kind
    OBVIOUS
<1> HIDE DEF n, last
<1>4. ASSUME NEW i \in DOMAIN timeline', HasEnded(i)'
      PROVE  timeline'[i].call \in snapshots'
    <2>1. CASE i \in 1..n
        BY <1>1, <1>2, <1>4, <2>1 DEF AuditInv, HasEnded
    <2>2. CASE i = n + 1
        BY <1>2, <1>3, <1>4, <2>2 DEF HasEnded
    <2> QED  BY <1>1, <1>2, <1>4, <2>1, <2>2
<1>5. ASSUME NEW c \in returned
      PROVE  \E i \in DOMAIN timeline' :
                 /\ timeline'[i].call = c /\ timeline'[i].whole
                 /\ HasEnded(i)'
    <2>1. PICK i \in DOMAIN timeline :
              timeline[i].call = c /\ timeline[i].whole /\ HasEnded(i)
        BY <1>5 DEF AuditInv
    <2>2. i \in DOMAIN timeline' /\ timeline'[i] = timeline[i]
        BY <1>1, <1>2, <2>1
    <2> QED  BY <2>1, <2>2 DEF HasEnded
<1> QED  BY <1>2, <1>4, <1>5 DEF n, last

\* What an event changes of it.
LEMMA EventTrail ==
    ASSUME AuditInv, timeline \in Seq(Chunk), NEW kind, NEW next,
           Event(kind, next), snapshots' = snapshots,
           kind \in {"exit", "early_exit"} => calls \in snapshots
    PROVE  /\ \A i \in DOMAIN timeline' :
                 HasEnded(i)' => timeline'[i].call \in snapshots'
           /\ \A c \in returned : \E i \in DOMAIN timeline' :
                 /\ timeline'[i].call = c /\ timeline'[i].whole
                 /\ HasEnded(i)'
           /\ \/ Len(timeline') = Len(timeline)
              \/ /\ Len(timeline') = Len(timeline) + 1
                 /\ timeline'[Len(timeline')].call = calls
                 /\ timeline'[Len(timeline')].kind = kind
<1>1. CASE UNCHANGED timeline
    BY <1>1 DEF AuditInv, HasEnded
<1>2. ASSUME NEW ok, Record(kind, ok)
      PROVE  /\ \A i \in DOMAIN timeline' :
                   HasEnded(i)' => timeline'[i].call \in snapshots'
             /\ \A c \in returned : \E i \in DOMAIN timeline' :
                   /\ timeline'[i].call = c /\ timeline'[i].whole
                   /\ HasEnded(i)'
             /\ Len(timeline') = Len(timeline) + 1
             /\ timeline'[Len(timeline')].call = calls
             /\ timeline'[Len(timeline')].kind = kind
    <2> DEFINE last == [call |-> calls, kind |-> kind, whole |-> ok]
    <2>1. last.call = calls /\ last.kind = kind
        OBVIOUS
    <2>2. timeline'[Len(timeline')] = last
        BY <1>2, AppendedTrail, Zenon
    <2> HIDE DEF last
    <2>3. /\ \A i \in DOMAIN timeline' :
                HasEnded(i)' => timeline'[i].call \in snapshots'
          /\ \A c \in returned : \E i \in DOMAIN timeline' :
                /\ timeline'[i].call = c /\ timeline'[i].whole
                /\ HasEnded(i)'
          /\ Len(timeline') = Len(timeline) + 1
        BY <1>2, AppendedTrail, Zenon
    <2> QED  BY <2>1, <2>2, <2>3
<1>3. Record(kind, TRUE) \/ Record(kind, FALSE) \/ UNCHANGED timeline
    BY DEF Event
<1>4. CASE Record(kind, TRUE)
    BY <1>2, <1>4
<1>5. CASE Record(kind, FALSE)
    BY <1>2, <1>5
<1> QED  BY <1>1, <1>3, <1>4, <1>5

\* A step that leaves the timeline and the returned calls alone.
LEMMA SameTrail ==
    ASSUME AuditInv, UNCHANGED <<timeline, returned>>,
           snapshots \subseteq snapshots'
    PROVE  /\ returned' \subseteq snapshots'
           /\ \A i \in DOMAIN timeline' :
                 HasEnded(i)' => timeline'[i].call \in snapshots'
           /\ \A c \in returned' : \E i \in DOMAIN timeline' :
                 /\ timeline'[i].call = c /\ timeline'[i].whole
                 /\ HasEnded(i)'
BY DEF AuditInv, HasEnded

LEMMA AuditStep ==
    ASSUME CallInv, AuditInv, [Next]_vars
    PROVE  AuditInv'
<1>0. /\ timeline \in Seq(Chunk) /\ calls \in Nat
      /\ temps \subseteq 1..calls /\ snapshots \subseteq 1..calls
      /\ returned \subseteq 1..calls
    BY CallAssumption DEF CallInv, TypeOK
<1>1. CASE Start
    <2>1. /\ UNCHANGED <<timeline, temps, snapshots, returned>>
          /\ pc' = "idle"
        BY <1>1 DEF Start, files
    <2> QED  BY <2>1, SameTrail DEF AuditInv
<1>2. CASE Call
    <2>1. /\ UNCHANGED <<timeline, temps, snapshots, returned>>
          /\ pc' = "enter" /\ calls' = calls + 1
        BY <1>2 DEF Call, files
    <2> QED  BY <1>0, <2>1, SameTrail DEF AuditInv
<1>3. CASE Enter
    <2>1. /\ UNCHANGED <<calls, temps, snapshots, returned>>
          /\ pc = "enter" /\ pc' \in {"decide", "idle"} /\ Event("enter", "decide")
        BY <1>3 DEF Enter, Event, Raise
    <2> QED  BY <1>0, <2>1, EventTrail DEF AuditInv
<1>4. CASE AskModel \/ DoNotAsk
    <2>1. /\ UNCHANGED <<calls, timeline, temps, snapshots, returned>>
          /\ pc = "decide" /\ pc' \in {"temp", "idle"}
        BY <1>4 DEF AskModel, DoNotAsk, Raise, files
    <2> QED  BY <2>1, SameTrail DEF AuditInv
<1>5. CASE WriteTemp
    <2>1. /\ UNCHANGED <<calls, timeline, snapshots, returned>>
          /\ pc = "temp" /\ pc' = "replace" /\ temps' = temps \cup {calls}
        BY <1>5 DEF WriteTemp
    <2> QED  BY <2>1, SameTrail DEF AuditInv
<1>6. CASE Replace
    <2>1. /\ UNCHANGED <<calls, timeline, returned>>
          /\ pc = "replace" /\ pc' = "exit"
          /\ temps' = temps \ {calls} /\ snapshots' = snapshots \cup {calls}
        BY <1>6 DEF Replace
    <2> QED  BY <2>1, SameTrail DEF AuditInv
<1>7. CASE SaveFails
    <2>1. /\ UNCHANGED <<calls, timeline, snapshots, returned>>
          /\ pc' = "idle" /\ temps' \subseteq temps
        BY <1>7 DEF SaveFails, Raise
    <2> QED  BY <2>1, SameTrail DEF AuditInv
<1>8. CASE Exit
    <2> DEFINE kind == IF output = "rules" THEN "early_exit" ELSE "exit"
    <2>1. /\ UNCHANGED <<calls, temps, snapshots>>
          /\ pc' = "idle" /\ calls \in snapshots
          /\ kind \in {"exit", "early_exit"}
        BY <1>8 DEF Exit, Event, Raise, AuditInv
    <2>2. returned' \in {returned, returned \cup {calls}}
        BY <1>8 DEF Exit
    <2>3. CASE UNCHANGED timeline
        <3>1. returned' = returned
            BY <1>0, <1>8, <2>3 DEF Exit
        <3> QED  BY <2>1, <2>3, <3>1, SameTrail DEF AuditInv
    <2>4. CASE Event(kind, "idle")
        <3>1. /\ \A i \in DOMAIN timeline' :
                    HasEnded(i)' => timeline'[i].call \in snapshots'
              /\ \A c \in returned : \E i \in DOMAIN timeline' :
                    /\ timeline'[i].call = c /\ timeline'[i].whole
                    /\ HasEnded(i)'
              /\ \/ Len(timeline') = Len(timeline)
                 \/ /\ Len(timeline') = Len(timeline) + 1
                    /\ timeline'[Len(timeline')].call = calls
                    /\ timeline'[Len(timeline')].kind = kind
            <4> HIDE DEF kind
            <4> QED  BY <1>0, <2>1, <2>4, EventTrail
        <3>2. \A c \in returned' : \E i \in DOMAIN timeline' :
                  /\ timeline'[i].call = c /\ timeline'[i].whole
                  /\ HasEnded(i)'
            <4>1. CASE returned' = returned
                BY <3>1, <4>1
            <4>2. CASE Len(timeline') = Len(timeline) + 1
                       /\ timeline'[Len(timeline')].whole
                <5>1. /\ Len(timeline') \in DOMAIN timeline'
                      /\ timeline'[Len(timeline')].call = calls
                      /\ timeline'[Len(timeline')].kind = kind
                    <6>1. timeline' \in Seq(Chunk)
                        <7>1. calls \in Calls /\ kind \in EventKind
                            BY <1>8, <2>1 DEF EventKind, CallInv, InCall, Exit
                        <7> HIDE DEF kind
                        <7> QED  BY <1>0, <2>4, <7>1, EventType
                    <6>2. Len(timeline') \in DOMAIN timeline'
                        BY <1>0, <4>2, <6>1
                    <6>3. Len(timeline') # Len(timeline)
                        BY <1>0, <4>2
                    <6> HIDE DEF kind
                    <6> QED  BY <3>1, <6>2, <6>3
                <5> QED
                    BY <2>1, <2>2, <3>1, <4>2, <5>1 DEF HasEnded
            <4> QED
                BY <1>0, <1>8, <3>1, <4>1, <4>2 DEF Exit
        <3> QED  BY <2>1, <2>2, <3>1, <3>2 DEF AuditInv
    <2> QED  BY <1>8, <2>3, <2>4 DEF Exit
<1>9. CASE Kill
    <2>1. UNCHANGED <<calls, temps, snapshots, returned>> /\ pc' = "down"
        BY <1>9 DEF Kill
    <2>2. CASE UNCHANGED timeline
        BY <2>1, <2>2, SameTrail DEF AuditInv
    <2>3. CASE pc = "enter" /\ Record("enter", FALSE)
        BY <1>0, <2>1, <2>3, AppendedTrail DEF AuditInv
    <2>4. CASE pc = "exit" /\ Record("exit", FALSE)
        BY <1>0, <2>1, <2>4, AppendedTrail DEF AuditInv
    <2> QED  BY <1>9, <2>2, <2>3, <2>4 DEF Kill
<1>10. CASE UNCHANGED vars
    <2>1. UNCHANGED <<calls, timeline, temps, snapshots, returned, pc>>
        BY <1>10 DEF vars
    <2> QED  BY <2>1, SameTrail DEF AuditInv
<1> QED
    BY <1>1, <1>2, <1>3, <1>4, <1>5, <1>6, <1>7, <1>8, <1>9, <1>10 DEF Next

LEMMA AuditInvariant == Spec => [](CallInv /\ AuditInv)
<1>1. Init => AuditInv
    BY DEF Init, AuditInv
<1>2. CallInv /\ AuditInv /\ [Next]_vars => AuditInv'
    BY AuditStep
<1> QED  BY <1>1, <1>2, CallInvariant, PTL DEF Spec

\* However calls fail and processes are killed: who returned left a complete
\* snapshot and, unless the append before it was cut off, a readable end in
\* the timeline; and a readable end tells of a snapshot that is there.
THEOREM TheTrailIsTrue == Spec => []AuditTrail
<1>1. ASSUME CallInv, AuditInv
      PROVE  AuditTrail
    <2>1. timeline \in Seq(Chunk)
        BY <1>1 DEF CallInv, TypeOK
    <2>2. ASSUME NEW c \in returned
          PROVE  \E i \in Ends(c) :
                     Readable(i) \/ (i > 1 /\ ~timeline[i - 1].whole)
        <3>1. PICK i \in DOMAIN timeline :
                  /\ timeline[i].call = c /\ timeline[i].whole
                  /\ HasEnded(i)
            BY <1>1, <2>2 DEF AuditInv
        <3> QED  BY <3>1 DEF Ends, HasEnded, Readable
    <2>3. \A c \in Calls : \A i \in Ends(c) : c \in snapshots
        BY <1>1 DEF AuditInv, HasEnded, Ends
    <2> QED  BY <1>1, <2>2, <2>3 DEF AuditTrail, AuditInv
<1> QED  BY <1>1, AuditInvariant, PTL

-----------------------------------------------------------------------------
\* What the model is sent

\* A set of numbers with a bound has a greatest element.
LEMMA GreatestNumber ==
    ASSUME NEW K \in SUBSET Nat, NEW k \in K, NEW b \in Nat,
           \A n \in K : n <= b
    PROVE  \E m \in K : \A n \in K : n <= m
<1> DEFINE Bounds == {u \in Nat : \A n \in K : n <= u}
<1>1. PICK u \in Bounds : \A v \in Bounds : <<v, u>> \notin OpToRel(<, Nat)
    BY NatLessThanWellFounded, WFMin
<1>2. \A v \in Bounds :
          <<v, u>> \notin {ss \in Nat \X Nat : ss[1] < ss[2]}
    BY <1>1, Zenon DEF OpToRel
<1>3. ASSUME u \notin K
      PROVE  FALSE
    <2>1. \A n \in K : n < u
        BY <1>3
    <2>2. u - 1 \in Nat /\ \A n \in K : n <= u - 1
        BY <2>1
    <2>3. <<u - 1, u>> \notin {ss \in Nat \X Nat : ss[1] < ss[2]}
        BY <1>2, <2>2
    <2> QED  BY <2>2, <2>3
<1> QED  BY <1>3

LEMMA HeaderNumbers ==
    ASSUME NEW lines \in Seq(Line)
    PROVE  Headers(lines) \subseteq DOMAIN lines /\ DOMAIN lines \subseteq Nat
BY DEF Headers

\* Below a header and above the next one, Above is that header.
LEMMA AboveFact ==
    ASSUME NEW lines \in Seq(Line), NEW j \in DOMAIN lines,
           NEW i \in Headers(lines), i < j,
           \A h \in Headers(lines) : h < j => h <= i
    PROVE  Above(lines, j) = lines[i].section
<1> DEFINE before == {h \in Headers(lines) : h < j}
<1>1. before # {} /\ i \in before /\ \A l \in before : l <= i
    OBVIOUS
<1>2. \A h \in before : (\A l \in before : l <= h) => h = i
    BY <1>1, HeaderNumbers
<1>3. (CHOOSE h \in before : \A l \in before : l <= h) = i
    <2> HIDE DEF before
    <2> QED  BY <1>1, <1>2
<1> QED  BY <1>1, <1>3 DEF Above

\* What stands under the header of a section is its body: the two say the same.
LEMMA SaysBody ==
    ASSUME NEW lines \in Seq(Line), NEW i \in Headers(lines),
           NEW name \in AllowedSections,
           Section(lines, name) = {i}
    PROVE  Says(lines, {j \in DOMAIN lines : Above(lines, j) = name})
               = Says(lines, Body(lines, i))
<1> DEFINE under == {j \in DOMAIN lines : Above(lines, j) = name}
<1>0. lines[i].section = name
    BY DEF Section
<1>1. ASSUME NEW j \in Body(lines, i)
      PROVE  j \in under
    <2>1. j \in DOMAIN lines /\ i < j
        BY HeaderNumbers DEF Body
    <2>2. \A h \in Headers(lines) : h < j => h <= i
        BY <2>1, HeaderNumbers DEF Body
    <2> QED  BY <1>0, <2>1, <2>2, AboveFact
<1>2. ASSUME NEW j \in under, lines[j].says # {}
      PROVE  j \in Body(lines, i)
    <2> DEFINE before == {h \in Headers(lines) : h < j}
    <2>1. j \in DOMAIN lines /\ Above(lines, j) = name /\ name # "none"
        BY DEF AllowedSections
    <2>2. before # {} /\ before \subseteq Nat /\ j \in Nat
        BY <2>1, HeaderNumbers DEF Above
    <2>3. PICK m \in before : \A l \in before : l <= m
        <3>1. \A h \in before : h <= j
            BY <2>2
        <3> HIDE DEF before
        <3> QED  BY <2>2, <3>1, GreatestNumber
    <2>4. m < j /\ \A h \in Headers(lines) : h < j => h <= m
        BY <2>3
    <2>5. lines[m].section = name
        BY <2>1, <2>3, <2>4, AboveFact
    <2>6. m = i
        BY <2>3, <2>5 DEF Section
    <2>7. j \notin Headers(lines)
        BY <1>2, <2>1 DEF Headers, Line
    <2> QED  BY <2>1, <2>2, <2>4, <2>6, <2>7, HeaderNumbers DEF Body
<1>3. \A x : x \in Says(lines, under) <=> x \in Says(lines, Body(lines, i))
    <2> HIDE DEF under
    <2>1. \A x : x \in Says(lines, under) <=> \E j \in under : x \in lines[j].says
        BY DEF Says
    <2>2. \A x : x \in Says(lines, Body(lines, i))
                     <=> \E j \in Body(lines, i) : x \in lines[j].says
        BY DEF Says
    <2> QED  BY <1>1, <1>2, <2>1, <2>2
<1> QED  BY <1>3

\* Of a guide that is accepted, each section has one header, and the contract
\* what its body says: something, and nothing forbidden.
LEMMA ContractFact ==
    ASSUME NEW g \in Guide, Accepts(g), NEW name \in AllowedSections
    PROVE  LET said == Says(g.lines, {j \in DOMAIN g.lines :
                                          Above(g.lines, j) = name})
           IN said # {} /\ said = Contract(g)[name] /\ Forbidden \notin said
<1> DEFINE lines == g.lines
<1>0. lines \in Seq(Line)
    BY DEF Guide
<1>1. PICK i \in Headers(lines) : lines[i].section = name
    BY DEF Accepts
<1>2. Section(lines, name) = {i}
    BY <1>1 DEF Accepts, Section
<1>3. Contract(g)[name] = Says(lines, Body(lines, i))
    BY <1>2 DEF Contract
<1>4. /\ \E j \in Body(lines, i) : lines[j].says # {}
      /\ Forbidden \notin Says(lines, {j \in Body(lines, i) : lines[j].says # {}})
    BY <1>1 DEF Accepts
<1>5. /\ Says(lines, Body(lines, i)) # {}
      /\ Forbidden \notin Says(lines, Body(lines, i))
    BY <1>4 DEF Says
<1> QED  BY <1>0, <1>2, <1>3, <1>5, SaysBody

\* While there is an agent its guide was accepted; the last question was its
\* contract.
SentInv ==
    /\ guide \in Guides \cup {NoFile}
    /\ IF pc = "down" THEN guide = NoFile /\ model = "none" ELSE Accepts(guide)
    /\ model # "none" => sent = Render(Contract(guide))

LEMMA SentInvariant == Spec => []SentInv
<1>1. Init => SentInv
    BY DEF Init, SentInv
<1>2. SentInv /\ [Next]_vars => SentInv'
    <2> SUFFICES ASSUME SentInv, [Next]_vars
                 PROVE  SentInv'
        OBVIOUS
    <2>1. CASE Start
        BY <2>1 DEF Start, SentInv, exchange
    <2>2. CASE Call
        BY <2>2 DEF Call, SentInv
    <2>3. CASE Enter
        BY <2>3 DEF Enter, Event, Raise, SentInv, exchange
    <2>4. CASE AskModel
        BY <2>4 DEF AskModel, Raise, SentInv
    <2>5. CASE DoNotAsk
        BY <2>5 DEF DoNotAsk, Raise, SentInv
    <2>6. CASE WriteTemp \/ Replace \/ SaveFails
        BY <2>6 DEF WriteTemp, Replace, SaveFails, Raise, SentInv, exchange
    <2>7. CASE Exit
        BY <2>7 DEF Exit, Event, Raise, SentInv, exchange
    <2>8. CASE Kill
        BY <2>8 DEF Kill, SentInv
    <2>9. CASE UNCHANGED vars
        BY <2>9 DEF vars, SentInv, exchange
    <2> QED
        BY <2>1, <2>2, <2>3, <2>4, <2>5, <2>6, <2>7, <2>8, <2>9 DEF Next
<1> QED  BY <1>1, <1>2, PTL DEF Spec

\* Whatever the guide files hold, the model is sent what stands under the
\* allowed headers, and nothing forbidden.
THEOREM TheContractIsSent == Spec => []SentIsContract
<1>1. ASSUME SentInv, model # "none", guide # NoFile
      PROVE  SentIsContract
    <2> DEFINE said(name) == Says(guide.lines, {j \in DOMAIN guide.lines :
                                    Above(guide.lines, j) = name})
    <2>1. guide \in Guide /\ Accepts(guide)
        BY <1>1, CallAssumption DEF SentInv
    <2>2. \A name \in AllowedSections :
              /\ said(name) # {} /\ said(name) = Contract(guide)[name]
              /\ Forbidden \notin said(name)
        BY <2>1, ContractFact
    <2>3. sent = UNION {Contract(guide)[name] : name \in AllowedSections}
        BY <1>1 DEF SentInv, Render
    <2> HIDE DEF said
    <2>4. /\ sent = UNION {said(name) : name \in AllowedSections}
          /\ Forbidden \notin sent
        BY <2>2, <2>3
    <2> QED  BY <2>2, <2>4 DEF SentIsContract, said
<1>2. SentInv => SentIsContract
    BY <1>1 DEF SentIsContract
<1> QED  BY <1>2, SentInvariant, PTL
=============================================================================
