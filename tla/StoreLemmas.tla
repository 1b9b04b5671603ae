----------------------------- MODULE StoreLemmas -----------------------------
(***************************************************************************)
(* Facts about the operators of ArtifactStore that the proofs about the    *)
(* runners and about the writer rest on: what each returns, and what it    *)
(* keeps of the sections that were there.                                  *)
(***************************************************************************)
EXTENDS ArtifactStore, SequenceTheorems, WellFoundedInduction, TLAPS

\* A set of numbers that is not empty has a least element.
LEMMA LeastNumber ==
    ASSUME NEW K \in SUBSET Nat, NEW k \in K
    PROVE  \E m \in K : \A n \in K : m <= n
<1>1. PICK m \in K : \A n \in K : <<n, m>> \notin OpToRel(<, Nat)
    BY NatLessThanWellFounded, WFMin
<1>2. \A n \in K : <<n, m>> \notin {ss \in Nat \X Nat : ss[1] < ss[2]}
    BY <1>1, Zenon DEF OpToRel
<1>3. ASSUME NEW n \in K PROVE ~(n < m)
    BY <1>2
<1> QED  BY <1>3

-----------------------------------------------------------------------------
\* Files and disks

\* A patch is told apart from its absence by its section.
LEMMA NoPatchIsNoPatch == NoPatch \notin Patch
BY StoreAssumption DEF NoPatch, Patch

\* The end lines.
LEMMA EndLineFact ==
    /\ \A x \in Line : x.t = "end" => x.v \in Sections /\ x = EndLine(x.v)
    /\ \A s \in Sections : EndLine(s) \in Line /\ BeginLine(s) \in Line
    /\ Bodies \subseteq Line /\ HumanLine \in Line /\ MarkerLine \in Line
<1>1. ASSUME NEW x \in Line, x.t = "end"
      PROVE  x.v \in Sections /\ x = EndLine(x.v)
    <2>0. \A txt : TextLine(txt).t = "text"
        BY DEF TextLine
    <2>1. x # HumanLine /\ x # TextLine(x.v)
        BY <1>1, <2>0 DEF HumanLine
    <2>2. x \in TokenLine
        BY <1>1, <2>1, StoreAssumption DEF Line
    <2> QED  BY <1>1, <2>2 DEF TokenLine, EndLine
<1>2. ASSUME NEW s \in Sections
      PROVE  EndLine(s) \in Line /\ BeginLine(s) \in Line
    BY DEF Line, TokenLine, EndLine, BeginLine
<1> QED  BY <1>1, <1>2 DEF Line, TokenLine, MarkerLine

\* _compose returns lines, whatever it finds in the file.
LEMMA ComposeType ==
    ASSUME NEW f \in FileState, NEW p \in Patch
    PROVE  Compose(f, p) \in Seq(Line)
<1> DEFINE c == f.lines
           s == p.sec
           b == p.body
<1>1. /\ c \in Seq(Line)
      /\ s \in Sections
      /\ b \in Bodies
    BY DEF FileState, Patch
<1>2. /\ MarkerLine \in Line
      /\ BeginLine(s) \in Line
      /\ EndLine(s) \in Line
      /\ b \in Line
    BY <1>1, EndLineFact
<1> HIDE DEF c, s, b
<1>3. NewSection(s, b) \in Seq(Line)
    BY <1>2 DEF NewSection
<1>4. ReplaceSection(c, s, b) \in Seq(Line)
    <2>1. CASE \E ij \in (DOMAIN c) \X (DOMAIN c) : IsSpan(c, s, ij[1], ij[2])
        <3>1. PICK ij \in (DOMAIN c) \X (DOMAIN c) :
                  /\ IsSpan(c, s, ij[1], ij[2])
                  /\ ReplaceSection(c, s, b) =
                         ReplaceSpan(c, s, b, ij[1], ij[2])
            BY <2>1 DEF ReplaceSection
        <3> DEFINE i == ij[1]
                   j == ij[2]
        <3>2. i \in DOMAIN c /\ j \in DOMAIN c
            BY <3>1
        <3>3. c[j] \in Line /\ c[j].t = "end"
            BY <1>1, <3>1, <3>2 DEF IsSpan, IsEnd
        <3>4. c[j].v \in Sections
            BY <3>3, EndLineFact
        <3>5. EndLine(c[j].v) \in Line
            BY <3>4, EndLineFact
        <3> HIDE DEF i, j
        <3>6. i \in 1..Len(c) /\ j \in 1..Len(c) /\ Len(c) \in Nat
            BY <1>1, <3>2
        <3>7. SubSeq(c, 1, i - 1) \in Seq(Line)
            BY <1>1, <3>6, SubSeqProperties
        <3>8. SubSeq(c, j + 1, Len(c)) \in Seq(Line)
            BY <1>1, <3>6, SubSeqProperties
        <3>9. <<BeginLine(s), b, EndLine(c[j].v)>> \in Seq(Line)
            BY <1>2, <3>5
        <3>10. ReplaceSpan(c, s, b, i, j) \in Seq(Line)
            BY <3>7, <3>8, <3>9, ConcatProperties DEF ReplaceSpan
        <3> QED  BY <3>1, <3>10 DEF i, j
    <2>2. CASE ~\E ij \in (DOMAIN c) \X (DOMAIN c) :
                    IsSpan(c, s, ij[1], ij[2])
        BY <1>1, <2>2 DEF ReplaceSection
    <2> QED  BY <2>1, <2>2
<1>5. <<MarkerLine>> \o NewSection(s, b) \in Seq(Line)
    BY <1>2, <1>3, ConcatProperties
<1>6. c \o NewSection(s, b) \in Seq(Line)
    BY <1>1, <1>3, ConcatProperties
<1> QED  BY <1>4, <1>5, <1>6 DEF Compose, c, s, b

LEMMA WriteFileType ==
    ASSUME NEW d \in Disk, NEW f \in Files, NEW p \in Patch
    PROVE  WriteFile(d, f, p) \in Disk
<1>1. d.tree[f] \in FileState
    BY DEF Disk
<1>2. FileWith(Compose(d.tree[f], p)) \in FileState
    BY <1>1, ComposeType DEF FileWith, FileState
<1> QED  BY <1>2 DEF WriteFile, Disk

LEMMA WriteSectionType ==
    ASSUME NEW d \in Disk, NEW f \in Files, NEW p \in Patch
    PROVE  WriteSection(d, f, p) \in Disk
<1> DEFINE w == WriteFile(d, f, p)
<1>1. w \in Disk
    BY WriteFileType
<1>2. WriteSection(d, f, p) = [w EXCEPT !.manifest[f] = w.tree[f]]
    BY DEF WriteSection
<1> HIDE DEF w
<1> QED  BY <1>1, <1>2 DEF Disk

LEMMA CopyPlatformType ==
    ASSUME NEW d \in Disk
    PROVE  CopyPlatform(d) \in Disk
<1>1. NoFile \in FileState
    BY DEF NoFile, FileState
<1> QED  BY <1>1 DEF CopyPlatform, Disk

LEMMA EmptyDiskType == EmptyDisk \in Disk
<1>1. NoFile \in FileState
    BY DEF NoFile, FileState
<1> QED  BY <1>1 DEF EmptyDisk, Disk

\* write_section accepts only files inside the writable roots.
LEMMA WriteErrorFact ==
    ASSUME NEW d, NEW W, NEW f
    PROVE  /\ WriteError(d, W, f) \in {"none", "overwrite"} <=> f \in W
           /\ WriteError(d, W, f) = "traversal" <=> f \notin W
BY DEF WriteError

-----------------------------------------------------------------------------
\* Composition of sections

\* Every begin line is followed by a body and an end line of its section: what
\* composition makes, and what it relies on to find a section again.
SectionsWhole(c) ==
    \A i \in DOMAIN c : c[i].t = "begin" =>
        /\ i + 2 \in DOMAIN c
        /\ c[i + 1].t = "text"
        /\ c[i + 2].t = "end"
        /\ c[i].v = Default \/ c[i + 2].v = c[i].v

WholeDisk(d) == \A f \in Files : SectionsWhole(d.tree[f].lines)

\* The first begin line of section s is line i.
IsFirstBegin(c, s, i) ==
    /\ i \in DOMAIN c /\ IsBegin(s, c[i])
    /\ \A k \in 1..(i - 1) : ~IsBegin(s, c[k])

LEMMA FirstBegin ==
    ASSUME NEW c \in Seq(Line), NEW s,
           \E i \in DOMAIN c : IsBegin(s, c[i])
    PROVE  \E i \in DOMAIN c : IsFirstBegin(c, s, i)
<1> DEFINE K == {i \in DOMAIN c : IsBegin(s, c[i])}
<1>1. K \in SUBSET Nat /\ K # {}
    OBVIOUS
<1>2. PICK m \in K : \A n \in K : m <= n
    BY <1>1, LeastNumber
<1>3. \A k \in 1..(m - 1) : k \in DOMAIN c /\ ~(m <= k)
    BY <1>2
<1> QED  BY <1>2, <1>3 DEF IsFirstBegin

\* In a file of whole sections the pattern of a section that is there matches
\* the three lines of its first section, and nothing else.
LEMMA SpanFact ==
    ASSUME NEW c \in Seq(Line), SectionsWhole(c), NEW s \in Sections,
           NEW i, IsFirstBegin(c, s, i)
    PROVE  /\ i + 2 \in DOMAIN c /\ IsEnd(s, c[i + 2])
           /\ \A k, l \in DOMAIN c : IsSpan(c, s, k, l) <=> k = i /\ l = i + 2
<1>1. /\ i \in DOMAIN c /\ c[i].t = "begin" /\ Matches(s, c[i])
      /\ \A k \in 1..(i - 1) : ~IsBegin(s, c[k])
    BY DEF IsFirstBegin, IsBegin
<1>2. /\ i + 2 \in DOMAIN c
      /\ c[i + 1].t = "text" /\ c[i + 2].t = "end"
      /\ c[i].v = Default \/ c[i + 2].v = c[i].v
    BY <1>1 DEF SectionsWhole
<1>3. IsEnd(s, c[i + 2])
    BY <1>1, <1>2 DEF IsEnd, Matches
<1>4. ~IsEnd(s, c[i + 1])
    BY <1>2 DEF IsEnd
<1>5. i \in Nat /\ DOMAIN c = 1..Len(c)
    BY <1>1
<1>6. IsSpan(c, s, i, i + 2)
    BY <1>1, <1>2, <1>3, <1>4, <1>5 DEF IsSpan, IsBegin
<1>7. ASSUME NEW k \in DOMAIN c, NEW l \in DOMAIN c, IsSpan(c, s, k, l)
      PROVE  k = i /\ l = i + 2
    <2>1. IsBegin(s, c[k]) /\ \A j \in 1..(k - 1) : ~IsBegin(s, c[j])
        BY <1>7 DEF IsSpan
    <2>2. IsBegin(s, c[i])
        BY <1>1 DEF IsBegin
    <2>3. k = i
        <3>1. ASSUME k < i PROVE FALSE
            <4>1. k \in 1..(i - 1)
                BY <1>5, <3>1
            <4> QED  BY <1>1, <2>1, <4>1
        <3>2. ASSUME i < k PROVE FALSE
            <4>1. i \in 1..(k - 1)
                BY <1>1, <1>5, <3>2
            <4> QED  BY <2>1, <2>2, <4>1
        <3> QED  BY <1>5, <3>1, <3>2
    <2>4. IsEnd(s, c[l]) /\ i < l /\ \A j \in (i + 1)..(l - 1) : ~IsEnd(s, c[j])
        BY <1>7, <2>3 DEF IsSpan
    <2>5. l # i + 1
        BY <1>4, <2>4
    <2>6. ~(i + 2 < l)
        BY <1>3, <1>5, <2>4
    <2> QED  BY <1>5, <2>3, <2>4, <2>5, <2>6
<1> QED  BY <1>2, <1>3, <1>6, <1>7

\* Replacing a section changes its begin line and its body, in place.
LEMMA ReplaceFact ==
    ASSUME NEW c \in Seq(Line), SectionsWhole(c),
           NEW s \in Sections, NEW b \in Bodies,
           NEW i, IsFirstBegin(c, s, i)
    PROVE  /\ ReplaceSection(c, s, b) \in Seq(Line)
           /\ Len(ReplaceSection(c, s, b)) = Len(c)
           /\ \A k \in 1..Len(c) : ReplaceSection(c, s, b)[k] =
                  IF k = i THEN BeginLine(s)
                  ELSE IF k = i + 1 THEN b ELSE c[k]
<1>1. /\ i \in DOMAIN c /\ i + 2 \in DOMAIN c /\ c[i + 2].t = "end"
      /\ \A k, l \in DOMAIN c : IsSpan(c, s, k, l) <=> k = i /\ l = i + 2
    BY SpanFact DEF IsFirstBegin, IsEnd
<1>2. DOMAIN c = 1..Len(c) /\ Len(c) \in Nat /\ i \in Nat
    BY <1>1
<1>3. ReplaceSection(c, s, b) = ReplaceSpan(c, s, b, i, i + 2)
    <2> DEFINE P(ij) == IsSpan(c, s, ij[1], ij[2])
               ij == CHOOSE ij \in (DOMAIN c) \X (DOMAIN c) : P(ij)
    <2>1. <<i, i + 2>> \in (DOMAIN c) \X (DOMAIN c) /\ P(<<i, i + 2>>)
        BY <1>1
    <2>2. \E x \in (DOMAIN c) \X (DOMAIN c) : P(x)
        BY <2>1, Zenon
    <2>3. ij \in (DOMAIN c) \X (DOMAIN c) /\ P(ij)
        BY <2>2, Zenon
    <2>4. ij[1] = i /\ ij[2] = i + 2
        BY <1>1, <2>3
    <2>5. ReplaceSection(c, s, b) = ReplaceSpan(c, s, b, ij[1], ij[2])
        BY <2>2, Zenon DEF ReplaceSection
    <2> QED  BY <2>4, <2>5
<1>4. c[i + 2] = EndLine(c[i + 2].v)
    BY <1>1, <1>2, EndLineFact
<1> DEFINE p == SubSeq(c, 1, i - 1)
           q == <<BeginLine(s), b, EndLine(c[i + 2].v)>>
           r == SubSeq(c, i + 3, Len(c))
<1>5. /\ p \in Seq(Line) /\ Len(p) = i - 1
      /\ \A k \in 1..(i - 1) : p[k] = c[k]
    <2>1. \A k \in 1..(i - 1) : c[k] \in Line
        BY <1>1, <1>2
    <2>2. i - 1 \in Int /\ (IF 1 <= i - 1 THEN i - 1 - 1 + 1 ELSE 0) = i - 1
        BY <1>1, <1>2
    <2> QED  BY <2>1, <2>2, SubSeqProperties
<1>6. /\ q \in Seq(Line) /\ Len(q) = 3
      /\ q[1] = BeginLine(s) /\ q[2] = b /\ q[3] = c[i + 2]
    <2>1. BeginLine(s) \in Line /\ b \in Line
        BY EndLineFact
    <2>2. EndLine(c[i + 2].v) \in Line
        BY <1>1, <1>4
    <2> QED  BY <1>4, <2>1, <2>2
<1>7. /\ r \in Seq(Line) /\ Len(r) = Len(c) - i - 2
      /\ \A k \in (i + 3)..Len(c) : r[k - (i + 2)] = c[k]
    <2> DEFINE m == i + 3
               n == Len(c)
    <2>1. m \in Nat /\ n \in Nat /\ m <= n + 1
        BY <1>1, <1>2
    <2>2. \A k \in m..n : c[k] \in Line
        BY <1>1, <1>2
    <2>3. /\ n - m + 1 = Len(c) - i - 2
          /\ \A k \in (i + 3)..Len(c) :
                 k - (i + 2) \in 1..(n - m + 1) /\ m + (k - (i + 2)) - 1 = k
        BY <1>2
    <2>4. r = SubSeq(c, m, n)
        OBVIOUS
    <2> HIDE DEF m, n, r
    <2>5. /\ r \in Seq(Line)
          /\ Len(r) = IF m <= n THEN n - m + 1 ELSE 0
          /\ \A k \in 1..(n - m + 1) : r[k] = c[m + k - 1]
        BY <2>1, <2>2, <2>4, SubSeqProperties
    <2>6. Len(r) = n - m + 1
        BY <2>1, <2>5
    <2> QED  BY <2>3, <2>5, <2>6
<1> HIDE DEF p, q, r
<1>8. /\ p \o q \in Seq(Line) /\ Len(p \o q) = i + 2
      /\ \A k \in 1..(i - 1) : (p \o q)[k] = p[k]
      /\ (p \o q)[i] = q[1] /\ (p \o q)[i + 1] = q[2] /\ (p \o q)[i + 2] = q[3]
    <2>1. /\ p \o q \in Seq(Line) /\ Len(p \o q) = Len(p) + Len(q)
          /\ \A k \in 1..(Len(p) + Len(q)) :
                 (p \o q)[k] = IF k <= Len(p) THEN p[k] ELSE q[k - Len(p)]
        BY <1>5, <1>6, ConcatProperties
    <2>2. Len(p) + Len(q) = i + 2 /\ i \in Nat /\ i >= 1
        BY <1>1, <1>2, <1>5, <1>6
    <2>3. \A k \in 1..(i + 2) :
              (p \o q)[k] = IF k <= i - 1 THEN p[k] ELSE q[k - (i - 1)]
        BY <1>5, <2>1, <2>2
    <2>4. ASSUME NEW j \in 1..3, NEW k \in Nat, k = i - 1 + j
          PROVE  (p \o q)[k] = q[j]
        <3>1. k \in 1..(i + 2) /\ ~(k <= i - 1) /\ k - (i - 1) = j
            BY <2>2, <2>4
        <3> QED  BY <2>3, <3>1
    <2>5. /\ i \in Nat /\ i + 1 \in Nat /\ i + 2 \in Nat
          /\ i = i - 1 + 1 /\ i + 1 = i - 1 + 2 /\ i + 2 = i - 1 + 3
        BY <2>2
    <2>6. \A k \in 1..(i - 1) : (p \o q)[k] = p[k]
        BY <2>2, <2>3
    <2>7. (p \o q)[i] = q[1] /\ (p \o q)[i + 1] = q[2] /\ (p \o q)[i + 2] = q[3]
        <3>1. 1 \in 1..3 /\ 2 \in 1..3 /\ 3 \in 1..3
            OBVIOUS
        <3> QED  BY <2>4, <2>5, <3>1
    <2> QED  BY <2>1, <2>2, <2>6, <2>7
<1> DEFINE h == p \o q
<1>9. /\ h \o r \in Seq(Line) /\ Len(h \o r) = Len(c)
      /\ \A k \in 1..(i + 2) : (h \o r)[k] = h[k]
      /\ \A k \in (i + 3)..Len(c) : (h \o r)[k] = r[k - (i + 2)]
    <2>1. h \in Seq(Line) /\ Len(h) = i + 2
        BY <1>8
    <2> HIDE DEF h
    <2>2. /\ h \o r \in Seq(Line) /\ Len(h \o r) = Len(h) + Len(r)
          /\ \A k \in 1..(Len(h) + Len(r)) :
                 (h \o r)[k] = IF k <= Len(h) THEN h[k] ELSE r[k - Len(h)]
        BY <1>7, <2>1, ConcatProperties
    <2>3. Len(h) + Len(r) = Len(c) /\ i + 2 <= Len(c)
        BY <1>1, <1>2, <1>7, <2>1
    <2>4. \A k \in 1..(i + 2) : (h \o r)[k] = h[k]
        BY <1>2, <2>1, <2>2, <2>3
    <2>5. \A k \in (i + 3)..Len(c) : (h \o r)[k] = r[k - (i + 2)]
        BY <1>2, <2>1, <2>2, <2>3
    <2> QED  BY <2>2, <2>3, <2>4, <2>5
<1>10. ReplaceSection(c, s, b) = h \o r
    <2>1. (i + 2) + 1 = i + 3
        BY <1>2
    <2> QED  BY <1>3, <2>1 DEF ReplaceSpan, p, q, r
<1>11. ASSUME NEW k \in 1..Len(c)
       PROVE  (h \o r)[k] = IF k = i THEN BeginLine(s)
                            ELSE IF k = i + 1 THEN b ELSE c[k]
    <2>0. i \in 1..(i + 2) /\ i + 1 \in 1..(i + 2) /\ i + 2 \in 1..(i + 2)
        BY <1>1, <1>2
    <2>1. CASE k < i
        <3>1. k \in 1..(i - 1) /\ k \in 1..(i + 2) /\ k # i /\ k # i + 1
            BY <1>2, <2>1
        <3> QED  BY <1>5, <1>8, <1>9, <3>1
    <2>2. CASE k = i
        BY <1>6, <1>8, <1>9, <2>0, <2>2
    <2>3. CASE k = i + 1
        BY <1>2, <1>6, <1>8, <1>9, <2>0, <2>3
    <2>4. CASE k = i + 2
        BY <1>2, <1>6, <1>8, <1>9, <2>0, <2>4
    <2>5. CASE k > i + 2
        <3>1. k \in (i + 3)..Len(c) /\ k # i /\ k # i + 1
            BY <1>2, <2>5
        <3> QED  BY <1>7, <1>9, <3>1
    <2>6. k < i \/ k = i \/ k = i + 1 \/ k = i + 2 \/ k > i + 2
        BY <1>2
    <2> QED  BY <2>1, <2>2, <2>3, <2>4, <2>5, <2>6
<1> QED  BY <1>9, <1>10, <1>11

\* The first section s of r starts at line i and carries body b.
SectionAt(r, s, b, i) ==
    /\ IsFirstBegin(r, s, i) /\ i + 2 \in DOMAIN r
    /\ r[i] = BeginLine(s) /\ r[i + 1] = b /\ IsEnd(s, r[i + 2])

\* A begin line has its end line in a file of whole sections.
LEMMA TokensFact ==
    ASSUME NEW c \in Seq(Line), SectionsWhole(c), NEW s \in Sections
    PROVE  HasTokens(c, s) <=> \E i \in DOMAIN c : IsBegin(s, c[i])
<1>1. ASSUME NEW i \in DOMAIN c, IsBegin(s, c[i])
      PROVE  \E j \in DOMAIN c : IsEnd(s, c[j])
    <2>1. c[i].t = "begin" /\ (s = Default \/ c[i].v = s)
        BY <1>1 DEF IsBegin, Matches
    <2>2. /\ i + 2 \in DOMAIN c /\ c[i + 2].t = "end"
          /\ c[i].v = Default \/ c[i + 2].v = c[i].v
        BY <2>1 DEF SectionsWhole
    <2>3. IsEnd(s, c[i + 2])
        BY <2>1, <2>2 DEF IsEnd, Matches
    <2> QED  BY <2>2, <2>3
<1> QED  BY <1>1 DEF HasTokens

\* Nothing in the file starts section s.
NoBegin(c, s) == \A k \in DOMAIN c : ~IsBegin(s, c[k])

\* A section that is not there yet goes to the end of the file.
Appended(c, s, b) == c \o NewSection(s, b)

LEMMA AppendSection ==
    ASSUME PlainBodies,
           NEW c \in Seq(Line), SectionsWhole(c),
           NEW s \in Sections, NEW b \in Bodies,
           NoBegin(c, s),
           NEW r, r = Appended(c, s, b)
    PROVE  /\ r \in Seq(Line) /\ Len(r) = Len(c) + 3
           /\ \A k \in 1..Len(c) : r[k] = c[k]
           /\ r[Len(c) + 3] = EndLine(s)
           /\ SectionAt(r, s, b, Len(c) + 1)
           /\ SectionsWhole(r)
<1> DEFINE q == NewSection(s, b)
           n == Len(c)
<1>1. /\ q \in Seq(Line) /\ Len(q) = 3
      /\ q[1] = BeginLine(s) /\ q[2] = b /\ q[3] = EndLine(s)
    <2>1. BeginLine(s) \in Line /\ b \in Line /\ EndLine(s) \in Line
        BY EndLineFact
    <2> QED  BY <2>1 DEF NewSection
<1>2. n \in Nat /\ DOMAIN c = 1..n
    OBVIOUS
<1>3. r = c \o q
    BY DEF Appended
<1> HIDE DEF q, n
<1>4. /\ r \in Seq(Line) /\ Len(r) = n + 3
      /\ \A k \in 1..(n + 3) : r[k] = IF k <= n THEN c[k] ELSE q[k - n]
    <2>1. /\ c \o q \in Seq(Line) /\ Len(c \o q) = Len(c) + Len(q)
          /\ \A k \in 1..(Len(c) + Len(q)) :
                 (c \o q)[k] = IF k <= Len(c) THEN c[k] ELSE q[k - Len(c)]
        BY <1>1, ConcatProperties
    <2> QED  BY <1>1, <1>3, <2>1 DEF n
<1>5. \A k \in 1..n : r[k] = c[k]
    BY <1>2, <1>4
<1>6. ASSUME NEW j \in 1..3, NEW k \in Nat, k = n + j
      PROVE  r[k] = q[j]
    <2>1. k \in 1..(n + 3) /\ ~(k <= n) /\ k - n = j
        BY <1>2, <1>6
    <2> QED  BY <1>4, <2>1
<1>7. /\ r[n + 1] = BeginLine(s) /\ r[n + 2] = b
      /\ r[n + 3] = EndLine(s)
    <2>1. /\ 1 \in 1..3 /\ 2 \in 1..3 /\ 3 \in 1..3
          /\ n + 1 \in Nat /\ n + 2 \in Nat /\ n + 3 \in Nat
        BY <1>2
    <2> QED  BY <1>1, <1>6, <2>1
<1>8. DOMAIN r = 1..(n + 3)
    BY <1>4
<1>9. SectionAt(r, s, b, n + 1)
    <2>1. n + 1 \in DOMAIN r /\ n + 3 \in DOMAIN r
          /\ (n + 1) - 1 = n /\ (n + 1) + 1 = n + 2 /\ (n + 1) + 2 = n + 3
        BY <1>2, <1>8
    <2>2. IsFirstBegin(r, s, n + 1)
        <3>1. IsBegin(s, r[n + 1])
            BY <1>7 DEF IsBegin, Matches, BeginLine
        <3>2. \A k \in 1..((n + 1) - 1) : ~IsBegin(s, r[k])
            BY <1>2, <1>5, <2>1 DEF NoBegin
        <3> QED  BY <2>1, <3>1, <3>2 DEF IsFirstBegin
    <2>3. IsEnd(s, r[n + 3])
        BY <1>7 DEF IsEnd, Matches, EndLine
    <2> QED  BY <1>7, <2>1, <2>2, <2>3 DEF SectionAt
<1>10. SectionsWhole(r)
    <2>1. ASSUME NEW k \in DOMAIN r, r[k].t = "begin"
          PROVE  /\ k + 2 \in DOMAIN r
                 /\ r[k + 1].t = "text" /\ r[k + 2].t = "end"
                 /\ r[k].v = Default \/ r[k + 2].v = r[k].v
        <3>1. CASE k \in 1..n
            <4>1. c[k].t = "begin" /\ k \in DOMAIN c
                BY <1>2, <1>5, <2>1, <3>1
            <4>2. /\ k + 2 \in DOMAIN c
                  /\ c[k + 1].t = "text" /\ c[k + 2].t = "end"
                  /\ c[k].v = Default \/ c[k + 2].v = c[k].v
                BY <4>1 DEF SectionsWhole
            <4>3. k + 1 \in 1..n /\ k + 2 \in 1..n
                BY <1>2, <3>1, <4>2
            <4>4. r[k] = c[k] /\ r[k + 1] = c[k + 1] /\ r[k + 2] = c[k + 2]
                BY <1>5, <3>1, <4>3
            <4>5. k + 2 \in DOMAIN r
                BY <1>2, <1>8, <4>3
            <4> QED  BY <4>2, <4>4, <4>5
        <3>2. CASE k = n + 1
            <4>1. k + 1 = n + 2 /\ k + 2 = n + 3 /\ n + 3 \in DOMAIN r
                BY <1>2, <1>8, <3>2
            <4>2. /\ r[n + 1].v = s
                  /\ r[n + 2].t = "text"
                  /\ r[n + 3].t = "end" /\ r[n + 3].v = s
                BY <1>7 DEF BeginLine, PlainBodies, EndLine
            <4> QED  BY <3>2, <4>1, <4>2
        <3>3. CASE k = n + 2 \/ k = n + 3
            BY <1>7, <2>1, <3>3 DEF PlainBodies, EndLine
        <3>4. k \in 1..n \/ k = n + 1 \/ k = n + 2 \/ k = n + 3
            BY <1>2, <1>8
        <3> QED  BY <3>1, <3>2, <3>3, <3>4
    <2> QED  BY <2>1 DEF SectionsWhole
<1> QED  BY <1>4, <1>5, <1>7, <1>9, <1>10 DEF n

\* Replacing a section keeps the sections whole, and carries the new body.
LEMMA ReplaceWhole ==
    ASSUME PlainBodies,
           NEW c \in Seq(Line), SectionsWhole(c),
           NEW s \in Sections, NEW b \in Bodies,
           NEW i, IsFirstBegin(c, s, i),
           NEW r, r = ReplaceSection(c, s, b)
    PROVE  SectionAt(r, s, b, i) /\ SectionsWhole(r)
<1>1. /\ r \in Seq(Line) /\ Len(r) = Len(c)
      /\ \A k \in 1..Len(c) : r[k] = IF k = i THEN BeginLine(s)
                                     ELSE IF k = i + 1 THEN b ELSE c[k]
    BY ReplaceFact
<1>2. i \in DOMAIN c /\ i + 2 \in DOMAIN c /\ IsEnd(s, c[i + 2])
    BY SpanFact DEF IsFirstBegin
<1>3. /\ Len(c) \in Nat /\ i \in Nat /\ DOMAIN c = 1..Len(c)
      /\ DOMAIN r = 1..Len(c)
    BY <1>1, <1>2
<1>4. /\ r[i] = BeginLine(s) /\ r[i + 1] = b
      /\ r[i + 2] = c[i + 2] /\ i + 1 \in 1..Len(c)
    BY <1>1, <1>2, <1>3
<1>5. /\ c[i].t = "begin" /\ Matches(s, c[i]) /\ c[i + 1].t = "text"
      /\ c[i].v = Default \/ c[i + 2].v = c[i].v
    BY <1>2 DEF IsFirstBegin, IsBegin, SectionsWhole
<1>6. SectionAt(r, s, b, i)
    <2>1. \A k \in 1..(i - 1) : r[k] = c[k]
        BY <1>1, <1>2, <1>3
    <2>2. IsBegin(s, r[i])
        BY <1>4 DEF IsBegin, Matches, BeginLine
    <2>3. IsFirstBegin(r, s, i)
        BY <1>2, <1>3, <2>1, <2>2 DEF IsFirstBegin
    <2> QED  BY <1>2, <1>3, <1>4, <2>3 DEF SectionAt
<1>7. ASSUME NEW k \in DOMAIN r, r[k].t = "begin"
      PROVE  /\ k + 2 \in DOMAIN r
             /\ r[k + 1].t = "text" /\ r[k + 2].t = "end"
             /\ r[k].v = Default \/ r[k + 2].v = r[k].v
    <2>1. CASE k = i
        <3>1. s = Default \/ c[i + 2].v = s
            BY <1>5 DEF Matches
        <3> QED  BY <1>2, <1>3, <1>4, <2>1, <3>1
                 DEF IsEnd, BeginLine, PlainBodies
    <2>2. CASE k # i
        <3>1. k # i + 1
            BY <1>4, <1>7 DEF PlainBodies
        <3>2. r[k] = c[k] /\ k \in DOMAIN c
            BY <1>1, <1>3, <2>2, <3>1
        <3>3. /\ k + 2 \in DOMAIN c
              /\ c[k + 1].t = "text" /\ c[k + 2].t = "end"
              /\ c[k].v = Default \/ c[k + 2].v = c[k].v
            BY <1>7, <3>2 DEF SectionsWhole
        <3>4. k + 1 # i /\ k + 2 # i /\ k + 2 # i + 1
            BY <1>5, <3>3
        <3>5. k \in Nat /\ k + 1 \in 1..Len(c) /\ k + 2 \in 1..Len(c)
            BY <1>3, <3>2, <3>3
        <3>6. k + 1 # i + 1
            BY <1>3, <2>2, <3>5
        <3>7. r[k + 1] = c[k + 1] /\ r[k + 2] = c[k + 2]
            BY <1>1, <3>4, <3>5, <3>6
        <3> QED  BY <1>3, <3>2, <3>3, <3>5, <3>7
    <2> QED  BY <2>1, <2>2
<1> QED  BY <1>6, <1>7 DEF SectionsWhole

\* Composing section s into file f makes n lines whatever its body is, with the
\* section at line i, and only the body line depends on the body.
Composed(f, s, b) == Compose(f, [sec |-> s, body |-> b])

ComposesAt(f, s, i, n) ==
    /\ \A b \in Bodies : /\ Composed(f, s, b) \in Seq(Line)
                         /\ Len(Composed(f, s, b)) = n
                         /\ SectionAt(Composed(f, s, b), s, b, i)
                         /\ SectionsWhole(Composed(f, s, b))
    /\ \A a, b \in Bodies : \A k \in 1..n :
           k # i + 1 => Composed(f, s, a)[k] = Composed(f, s, b)[k]

LEMMA ComposeAppends ==
    ASSUME PlainBodies,
           NEW f, NEW s \in Sections, NEW c \in Seq(Line), SectionsWhole(c),
           NoBegin(c, s),
           \A b \in Bodies : Composed(f, s, b) = Appended(c, s, b)
    PROVE  ComposesAt(f, s, Len(c) + 1, Len(c) + 3)
<1>1. ASSUME NEW b \in Bodies, NEW r, r = Composed(f, s, b)
      PROVE  /\ r \in Seq(Line) /\ Len(r) = Len(c) + 3
             /\ \A k \in 1..Len(c) : r[k] = c[k]
             /\ r[Len(c) + 3] = EndLine(s)
             /\ SectionAt(r, s, b, Len(c) + 1)
             /\ SectionsWhole(r)
    <2>1. r = Appended(c, s, b)
        BY <1>1
    <2> QED  BY <2>1, AppendSection
<1>2. ASSUME NEW a \in Bodies, NEW b \in Bodies, NEW k \in 1..(Len(c) + 3),
             k # Len(c) + 1 + 1
      PROVE  Composed(f, s, a)[k] = Composed(f, s, b)[k]
    <2>1. k \in 1..Len(c) \/ k = Len(c) + 1 \/ k = Len(c) + 3
        BY <1>2
    <2>2. CASE k \in 1..Len(c)
        BY <1>1, <2>2
    <2>3. CASE k = Len(c) + 1
        BY <1>1, <2>3 DEF SectionAt
    <2>4. CASE k = Len(c) + 3
        BY <1>1, <2>4
    <2> QED  BY <2>1, <2>2, <2>3, <2>4
<1> QED  BY <1>1, <1>2 DEF ComposesAt

LEMMA ComposeReplaces ==
    ASSUME PlainBodies,
           NEW f, NEW s \in Sections, NEW c \in Seq(Line), SectionsWhole(c),
           NEW i, IsFirstBegin(c, s, i),
           \A b \in Bodies : Composed(f, s, b) = ReplaceSection(c, s, b)
    PROVE  ComposesAt(f, s, i, Len(c))
<1>1. ASSUME NEW b \in Bodies, NEW r, r = Composed(f, s, b)
      PROVE  /\ r \in Seq(Line) /\ Len(r) = Len(c)
             /\ \A k \in 1..Len(c) : r[k] = IF k = i THEN BeginLine(s)
                    ELSE IF k = i + 1 THEN b ELSE c[k]
             /\ SectionAt(r, s, b, i) /\ SectionsWhole(r)
    <2>1. r = ReplaceSection(c, s, b)
        BY <1>1
    <2> QED  BY <2>1, ReplaceFact, ReplaceWhole
<1>2. ASSUME NEW a \in Bodies, NEW b \in Bodies, NEW k \in 1..Len(c),
             k # i + 1
      PROVE  Composed(f, s, a)[k] = Composed(f, s, b)[k]
    BY <1>1, <1>2
<1> QED  BY <1>1, <1>2 DEF ComposesAt

\* Whatever a file of whole sections holds, composing a section into it takes
\* one of these two forms.
LEMMA ComposeForm ==
    ASSUME PlainBodies,
           NEW f \in FileState, SectionsWhole(f.lines), NEW s \in Sections
    PROVE  \E i, n : ComposesAt(f, s, i, n)
<1> DEFINE c == f.lines
<1>0. c \in Seq(Line) /\ SectionsWhole(c)
    BY DEF FileState
<1>1. CASE ~f.exists
    <2> DEFINE m == <<MarkerLine>>
    <2>1. m \in Seq(Line) /\ \A k \in DOMAIN m : m[k].t = "marker"
        BY EndLineFact DEF MarkerLine
    <2>2. SectionsWhole(m) /\ NoBegin(m, s)
        BY <2>1 DEF SectionsWhole, IsBegin, NoBegin
    <2>3. \A b \in Bodies : Composed(f, s, b) = Appended(m, s, b)
        BY <1>1 DEF Composed, Compose, Appended
    <2> HIDE DEF m
    <2> QED  BY <2>1, <2>2, <2>3, ComposeAppends
<1>2. CASE f.exists /\ \E i \in DOMAIN c : IsBegin(s, c[i])
    <2>1. PICK i \in DOMAIN c : IsFirstBegin(c, s, i)
        BY <1>0, <1>2, FirstBegin
    <2>2. \A b \in Bodies : Composed(f, s, b) = ReplaceSection(c, s, b)
        BY <1>0, <1>2, TokensFact DEF Composed, Compose
    <2> HIDE DEF c
    <2> QED  BY <1>0, <2>1, <2>2, ComposeReplaces
<1>3. CASE f.exists /\ NoBegin(c, s)
    <2>1. \A b \in Bodies : Composed(f, s, b) = Appended(c, s, b)
        BY <1>0, <1>3, TokensFact DEF Composed, Compose, NoBegin,
                                       Appended
    <2> HIDE DEF c
    <2> QED  BY <1>0, <1>3, <2>1, ComposeAppends
<1>4. f.exists \in BOOLEAN
    BY DEF FileState
<1> QED  BY <1>1, <1>2, <1>3, <1>4 DEF NoBegin

\* A composed patch is in the file.
LEMMA SectionAtHas ==
    ASSUME NEW r \in Seq(Line), NEW p \in Patch, NEW i,
           SectionAt(r, p.sec, p.body, i)
    PROVE  HasSection(FileWith(r), p)
<1>1. i \in 1..Len(r) /\ i + 2 \in 1..Len(r) /\ Len(r) \in Nat
    BY DEF SectionAt, IsFirstBegin
<1>2. i \in 1..(Len(r) - 2)
    BY <1>1
<1> QED  BY <1>2 DEF SectionAt, HasSection, FileWith

LEMMA ComposeCarries ==
    ASSUME PlainBodies,
           NEW f \in FileState, SectionsWhole(f.lines), NEW p \in Patch
    PROVE  /\ HasSection(FileWith(Compose(f, p)), p)
           /\ SectionsWhole(Compose(f, p))
<1>1. p.sec \in Sections /\ p.body \in Bodies
      /\ p = [sec |-> p.sec, body |-> p.body]
    BY DEF Patch
<1>2. PICK i, n : ComposesAt(f, p.sec, i, n)
    BY <1>1, ComposeForm
<1>3. Compose(f, p) = Composed(f, p.sec, p.body)
    BY <1>1 DEF Composed
<1>4. /\ Compose(f, p) \in Seq(Line)
      /\ SectionAt(Compose(f, p), p.sec, p.body, i)
      /\ SectionsWhole(Compose(f, p))
    BY <1>1, <1>2, <1>3 DEF ComposesAt
<1> QED  BY <1>4, SectionAtHas

\* A section written twice is as if only the second had been written.
LEMMA ComposeTwice ==
    ASSUME PlainBodies,
           NEW f \in FileState, SectionsWhole(f.lines),
           NEW p \in Patch, NEW q \in Patch, p.sec = q.sec
    PROVE  Compose(FileWith(Compose(f, p)), q) = Compose(f, q)
<1> DEFINE s == p.sec
           r == Composed(f, s, p.body)
           t == Composed(f, s, q.body)
           u == ReplaceSection(r, s, q.body)
<1>1. /\ s \in Sections /\ p.body \in Bodies /\ q.body \in Bodies
      /\ p = [sec |-> s, body |-> p.body] /\ q = [sec |-> s, body |-> q.body]
    BY DEF Patch
<1>2. Compose(f, p) = r /\ Compose(f, q) = t
    BY <1>1 DEF Composed
<1>3. PICK i, n : ComposesAt(f, s, i, n)
    BY <1>1, ComposeForm
<1>4. /\ r \in Seq(Line) /\ Len(r) = n /\ SectionAt(r, s, p.body, i)
      /\ SectionsWhole(r)
      /\ t \in Seq(Line) /\ Len(t) = n /\ SectionAt(t, s, q.body, i)
      /\ \A k \in 1..n : k # i + 1 => r[k] = t[k]
    BY <1>1, <1>3 DEF ComposesAt
<1>5. IsFirstBegin(r, s, i) /\ HasTokens(r, s)
    BY <1>1, <1>4, TokensFact DEF SectionAt, IsFirstBegin
<1>6. Compose(FileWith(r), q) = u
    BY <1>1, <1>5 DEF Compose, FileWith
<1> HIDE DEF r, t, u, s
<1>7. /\ u \in Seq(Line) /\ Len(u) = n
      /\ \A k \in 1..n : u[k] = IF k = i THEN BeginLine(s)
                                ELSE IF k = i + 1 THEN q.body ELSE r[k]
    BY <1>1, <1>4, <1>5, ReplaceFact DEF u
<1>8. \A k \in 1..n : u[k] = t[k]
    BY <1>4, <1>7 DEF SectionAt
<1>9. u = t
    BY <1>4, <1>7, <1>8
<1> QED  BY <1>2, <1>6, <1>9

-----------------------------------------------------------------------------
\* Writes and edits keep the sections of a disk whole

\* A human writes text, no token.
LEMMA HumanIsText == HumanLine.t = "text"
BY DEF HumanLine, TextLine

\* A line of text at the end of a file cuts no section.
LEMMA AppendText ==
    ASSUME NEW c \in Seq(Line), SectionsWhole(c), NEW b \in Line, b.t = "text"
    PROVE  SectionsWhole(Append(c, b))
<1> DEFINE a == Append(c, b)
<1>1. /\ Len(c) \in Nat /\ DOMAIN c = 1..Len(c) /\ DOMAIN a = 1..(Len(c) + 1)
      /\ \A k \in 1..Len(c) : a[k] = c[k]
      /\ a[Len(c) + 1] = b
    OBVIOUS
<1> HIDE DEF a
<1>2. ASSUME NEW k \in DOMAIN a, a[k].t = "begin"
      PROVE  /\ k + 2 \in DOMAIN a
             /\ a[k + 1].t = "text" /\ a[k + 2].t = "end"
             /\ a[k].v = Default \/ a[k + 2].v = a[k].v
    <2>1. k # Len(c) + 1
        BY <1>1, <1>2
    <2>2. k \in DOMAIN c /\ a[k] = c[k]
        BY <1>1, <2>1
    <2>3. /\ k + 2 \in DOMAIN c
          /\ c[k + 1].t = "text" /\ c[k + 2].t = "end"
          /\ c[k].v = Default \/ c[k + 2].v = c[k].v
        BY <1>2, <2>2 DEF SectionsWhole
    <2>4. k + 1 \in 1..Len(c) /\ k + 2 \in 1..Len(c) /\ k + 2 \in DOMAIN a
        BY <1>1, <2>2, <2>3
    <2> QED  BY <1>1, <2>2, <2>3, <2>4
<1> QED  BY <1>2 DEF SectionsWhole, a

LEMMA AppendKeepsSection ==
    ASSUME NEW c \in Seq(Line), NEW p, NEW x \in Line, NEW e,
           HasSection([exists |-> e, lines |-> c], p)
    PROVE  HasSection(FileWith(Append(c, x)), p)
<1> DEFINE a == Append(c, x)
<1>1. /\ Len(c) \in Nat /\ Len(a) = Len(c) + 1
      /\ \A k \in 1..Len(c) : a[k] = c[k]
    OBVIOUS
<1>2. PICK i \in 1..(Len(c) - 2) : /\ c[i] = BeginLine(p.sec)
                                   /\ c[i + 1] = p.body
                                   /\ IsEnd(p.sec, c[i + 2])
    BY DEF HasSection
<1> HIDE DEF a
<1>3. i \in 1..(Len(a) - 2) /\ a[i] = c[i] /\ a[i + 1] = c[i + 1]
      /\ a[i + 2] = c[i + 2]
    BY <1>1
<1> QED  BY <1>2, <1>3 DEF HasSection, FileWith, a

LEMMA WriteFileWhole ==
    ASSUME PlainBodies,
           NEW d \in Disk, WholeDisk(d), NEW f \in Files, NEW p \in Patch
    PROVE  /\ WholeDisk(WriteFile(d, f, p))
           /\ HasSection(WriteFile(d, f, p).tree[f], p)
           /\ \A g \in Files \ {f} : WriteFile(d, f, p).tree[g] = d.tree[g]
<1>1. d.tree[f] \in FileState /\ SectionsWhole(d.tree[f].lines)
    BY DEF Disk, WholeDisk
<1>2. /\ HasSection(FileWith(Compose(d.tree[f], p)), p)
      /\ SectionsWhole(Compose(d.tree[f], p))
    BY <1>1, ComposeCarries
<1>3. /\ WriteFile(d, f, p).tree[f] = FileWith(Compose(d.tree[f], p))
      /\ \A g \in Files \ {f} : WriteFile(d, f, p).tree[g] = d.tree[g]
    BY DEF WriteFile, Disk
<1> QED  BY <1>2, <1>3 DEF WholeDisk, FileWith

LEMMA WriteSectionTree ==
    ASSUME NEW d \in Disk, NEW f \in Files, NEW p \in Patch
    PROVE  WriteSection(d, f, p).tree = WriteFile(d, f, p).tree
<1>1. WriteFile(d, f, p) \in Disk
    BY WriteFileType
<1> QED  BY <1>1 DEF WriteSection, Disk

LEMMA CopyPlatformWhole ==
    ASSUME NEW d \in Disk, WholeDisk(d)
    PROVE  WholeDisk(CopyPlatform(d))
<1>1. SectionsWhole(NoFile.lines)
    BY DEF SectionsWhole, NoFile
<1> QED  BY <1>1 DEF CopyPlatform, WholeDisk, Disk
=============================================================================
