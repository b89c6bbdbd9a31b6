--------------------------- MODULE WaitForProofs ---------------------------
(* Proofs about WaitFor, for every size of the ring, every pattern without a *)
(* newline, every set of writers and every way they cut the output into      *)
(* chunks.                                                                   *)
EXTENDS WaitFor, SequenceTheorems, WellFoundedInduction, TLAPS

-----------------------------------------------------------------------------
(* Lines and patterns *)

\* Every set of naturals that has an element has a least one.
LEMMA LeastNatural ==
    ASSUME NEW T \in SUBSET Nat, T # {}
    PROVE  \E x \in T : \A y \in T : x <= y
<1> DEFINE R == OpToRel(<, Nat)
<1>1. IsWellFoundedOn(R, Nat)
  BY NatLessThanWellFounded
<1>2. R = {ss \in Nat \X Nat : ss[1] < ss[2]}
  BY DEF OpToRel
<1> HIDE DEF R
<1>3. PICK x \in T : \A y \in T : ~(<<y, x>> \in R)
  BY <1>1, WFMin
<1>4. ASSUME NEW y \in T PROVE x <= y
  <2>1. x \in Nat /\ y \in Nat
    OBVIOUS
  <2>2. y < x => <<y, x>> \in R
    BY <1>2, <2>1
  <2> QED BY <1>3, <2>1, <2>2
<1> QED BY <1>4

\* k is where the last line of text starts.
LastStart(text, k) ==
    /\ k \in 0 .. Len(text)
    /\ k = 0 \/ text[k] = Newline
    /\ \A j \in k + 1 .. Len(text) : text[j] # Newline

\* Every text has a last line.
LEMMA LastStartExists ==
    ASSUME NEW text \in Seq(Byte)
    PROVE  \E k \in 0 .. Len(text) : LastStart(text, k)
<1> DEFINE n == Len(text)
           T == {d \in 0 .. n : d = n \/ text[n - d] = Newline}
<1>1. n \in Nat /\ n \in T /\ T \in SUBSET Nat
  OBVIOUS
<1>2. PICK d \in T : \A e \in T : d <= e
  BY <1>1, LeastNatural
<1>3. ASSUME NEW j \in n - d + 1 .. n, text[j] = Newline PROVE FALSE
  <2>1. n - j \in T
    BY <1>1, <1>3
  <2>2. d <= n - j
    BY <1>2, <2>1
  <2> QED BY <1>1, <2>2
<1>4. LastStart(text, n - d)
  BY <1>1, <1>3 DEF LastStart
<1> QED BY <1>1, <1>4

\* And only one.
LEMMA LastStartUnique ==
    ASSUME NEW text \in Seq(Byte), NEW k \in Int, NEW m \in Int,
           LastStart(text, k), LastStart(text, m)
    PROVE  k = m
BY DEF LastStart

\* What LastLine returns.
LEMMA LastLineIs ==
    ASSUME NEW text \in Seq(Byte), NEW k \in Int, LastStart(text, k)
    PROVE  LastLine(text) = SubSeq(text, k + 1, Len(text))
<1> DEFINE c == CHOOSE m \in 0 .. Len(text) :
                    /\ m = 0 \/ text[m] = Newline
                    /\ \A j \in m + 1 .. Len(text) : text[j] # Newline
<1>1. k \in 0 .. Len(text)
  BY DEF LastStart
<1>2. LastStart(text, c) /\ c \in Int
  BY <1>1 DEF LastStart
<1>3. LastLine(text) = SubSeq(text, c + 1, Len(text))
  BY DEF LastLine
<1> HIDE DEF c
<1>4. c = k
  BY <1>2, LastStartUnique
<1> QED BY <1>3, <1>4

\* The elements of the last line.
LEMMA LastLineElements ==
    ASSUME NEW text \in Seq(Byte), NEW k \in Int, LastStart(text, k)
    PROVE  /\ LastLine(text) \in Seq(Byte \ {Newline}) /\ LastLine(text) \in Seq(Byte)
           /\ Len(LastLine(text)) = Len(text) - k
           /\ \A i \in 1 .. Len(text) - k : LastLine(text)[i] = text[k + i]
<1>1. /\ LastLine(text) = SubSeq(text, k + 1, Len(text)) /\ k \in 0 .. Len(text)
      /\ Len(text) \in Nat
  BY LastLineIs DEF LastStart
<1>2. /\ Len(LastLine(text)) = Len(text) - k
      /\ \A i \in 1 .. Len(text) - k : LastLine(text)[i] = text[k + i]
      /\ LastLine(text) \in Seq(Byte)
  BY <1>1
<1>3. \A i \in 1 .. Len(text) - k : LastLine(text)[i] \in Byte \ {Newline}
  BY <1>1, <1>2 DEF LastStart
<1>4. LastLine(text) \in [1 .. Len(text) - k -> Byte \ {Newline}]
  BY <1>2, <1>3
<1>5. Len(text) - k \in Nat
  BY <1>1
<1> QED BY <1>2, <1>4, <1>5

\* Contains, element by element.
LEMMA ContainsIs ==
    ASSUME NEW text \in Seq(Byte)
    PROVE  Contains(text) <=>
             \E k \in 0 .. Len(text) - Len(Pattern) :
                \A i \in 1 .. Len(Pattern) : text[k + i] = Pattern[i]
<1> USE PatternAssumption
<1>0. Len(Pattern) \in Nat /\ Len(text) \in Nat /\ Pattern \in Seq(Byte)
  OBVIOUS
<1>1. ASSUME NEW k \in 0 .. Len(text) - Len(Pattern)
      PROVE  SubSeq(text, k + 1, k + Len(Pattern)) = Pattern
               <=> \A i \in 1 .. Len(Pattern) : text[k + i] = Pattern[i]
  <2> DEFINE s == SubSeq(text, k + 1, k + Len(Pattern))
  <2>1. s \in Seq(Byte) /\ Len(s) = Len(Pattern) /\ \A i \in 1 .. Len(Pattern) : s[i] = text[k + i]
    BY <1>0
  <2> HIDE DEF s
  <2>2. s = Pattern <=> \A i \in 1 .. Len(Pattern) : s[i] = Pattern[i]
    BY <1>0, <2>1, SeqEqual
  <2> QED BY <2>1, <2>2 DEF s
<1> QED BY <1>1 DEF Contains

\* A line that is cut by the end of a chunk: when the text before the chunk has
\* no match, its last line is all that is needed of it to find the matches, and
\* to find the last line, of both together.
LEMMA CutLine ==
    ASSUME NEW t \in Seq(Byte), NEW c \in Seq(Byte), ~Contains(t)
    PROVE  /\ LastLine(t) \o c \in Seq(Byte)
           /\ Contains(LastLine(t) \o c) <=> Contains(t \o c)
           /\ LastLine(LastLine(t) \o c) = LastLine(t \o c)
<1> USE PatternAssumption
<1>1. PICK s \in 0 .. Len(t) : LastStart(t, s)
  BY LastStartExists
<1> DEFINE l == LastLine(t)
           u == l \o c
           v == t \o c
<1>2. /\ l \in Seq(Byte) /\ Len(l) = Len(t) - s
      /\ \A i \in 1 .. Len(t) - s : l[i] = t[s + i]
  BY <1>1, LastLineElements
<1> HIDE DEF l
<1>3. /\ u \in Seq(Byte) /\ v \in Seq(Byte)
      /\ Len(u) = Len(v) - s /\ Len(v) = Len(t) + Len(c)
      /\ Len(t) \in Nat /\ Len(c) \in Nat /\ s \in 0 .. Len(t)
      /\ \A i \in 1 .. Len(t) : v[i] = t[i]
      /\ \A i \in 1 .. Len(c) : v[Len(t) + i] = c[i]
  <2>1. u \in Seq(Byte) /\ v \in Seq(Byte) /\ Len(t) \in Nat /\ Len(c) \in Nat
    BY <1>2
  <2>2. Len(u) = Len(l) + Len(c) /\ Len(v) = Len(t) + Len(c)
    BY <1>2
  <2>3. /\ \A i \in 1 .. Len(t) : v[i] = t[i]
        /\ \A i \in 1 .. Len(c) : v[Len(t) + i] = c[i]
    BY <2>1
  <2>4. Len(u) = Len(v) - s
    BY <1>2, <2>1, <2>2
  <2> QED BY <2>1, <2>2, <2>3, <2>4
<1>4. \A i \in 1 .. Len(u) : u[i] = v[s + i]
  <2> SUFFICES ASSUME NEW i \in 1 .. Len(u) PROVE u[i] = v[s + i]
    OBVIOUS
  <2>1. CASE i <= Len(l)
    BY <1>2, <1>3, <2>1
  <2>2. CASE i > Len(l)
    <3>1. u[i] = c[i - Len(l)]
      BY <1>2, <1>3, <2>2
    <3>2. i - Len(l) \in 1 .. Len(c) /\ s + i = Len(t) + (i - Len(l))
      BY <1>2, <1>3, <2>2
    <3> QED BY <1>3, <3>1, <3>2
  <2> QED BY <1>2, <1>3, <2>1, <2>2, SMTT(40)
<1> HIDE DEF u, v
<1> DEFINE At(text, k) == \A i \in 1 .. Len(Pattern) : text[k + i] = Pattern[i]
<1>5. Len(Pattern) \in Nat \ {0} /\ \A i \in 1 .. Len(Pattern) : Pattern[i] # Newline
  OBVIOUS
<1>6. ASSUME Contains(u) PROVE Contains(v)
  <2>1. PICK k \in 0 .. Len(u) - Len(Pattern) : At(u, k)
    BY <1>3, <1>6, ContainsIs
  <2>2. s + k \in 0 .. Len(v) - Len(Pattern)
    BY <1>3, <1>5
  <2>3. At(v, s + k)
    BY <1>3, <1>4, <1>5, <2>1
  <2> QED BY <1>3, <2>2, <2>3, ContainsIs
<1>7. ASSUME Contains(v) PROVE Contains(u)
  <2>1. PICK k \in 0 .. Len(v) - Len(Pattern) : At(v, k)
    BY <1>3, <1>7, ContainsIs
  <2>2. k + Len(Pattern) > Len(t)
    <3> SUFFICES ASSUME k + Len(Pattern) <= Len(t) PROVE FALSE
      BY <1>3, <1>5
    <3>1. k \in 0 .. Len(t) - Len(Pattern)
      BY <1>3, <1>5
    <3>2. ASSUME NEW i \in 1 .. Len(Pattern) PROVE t[k + i] = Pattern[i]
      <4>1. k + i \in 1 .. Len(t)
        BY <1>3, <1>5, <3>1
      <4> QED BY <1>3, <2>1, <4>1
    <3> QED BY <3>1, <3>2, ContainsIs
  <2>3. k >= s
    <3> SUFFICES ASSUME k < s PROVE FALSE
      BY <1>3
    <3>1. s - k \in 1 .. Len(Pattern) /\ s \in 1 .. Len(t)
      BY <1>3, <1>5, <2>2
    <3>2. v[s] = Newline
      BY <1>1, <1>3, <3>1 DEF LastStart
    <3>3. v[k + (s - k)] = Pattern[s - k]
      BY <2>1, <3>1
    <3>4. k + (s - k) = s
      BY <1>3
    <3> QED BY <1>5, <3>1, <3>2, <3>3, <3>4
  <2>4. k - s \in 0 .. Len(u) - Len(Pattern)
    BY <1>3, <1>5, <2>3
  <2>5. ASSUME NEW i \in 1 .. Len(Pattern) PROVE u[(k - s) + i] = Pattern[i]
    <3>1. (k - s) + i \in 1 .. Len(u) /\ s + ((k - s) + i) = k + i
      BY <1>3, <1>5, <2>4
    <3> QED BY <1>4, <2>1, <3>1
  <2> QED BY <1>3, <2>4, <2>5, ContainsIs
<1>8. LastLine(u) = LastLine(v)
  <2>1. PICK m \in 0 .. Len(v) : LastStart(v, m)
    BY <1>3, LastStartExists
  <2>2. m >= s
    <3> SUFFICES ASSUME m < s PROVE FALSE
      BY <1>3
    <3>1. s \in m + 1 .. Len(v) /\ s \in 1 .. Len(t)
      BY <1>3
    <3>2. v[s] = Newline
      BY <1>1, <1>3, <3>1 DEF LastStart
    <3> QED BY <2>1, <3>1, <3>2 DEF LastStart
  <2>3. m > s => v[m] = Newline
    BY <1>3, <2>1 DEF LastStart
  <2>4. LastStart(u, m - s)
    <3>1. m - s \in 0 .. Len(u)
      BY <1>3, <2>2
    <3>2. m - s = 0 \/ u[m - s] = Newline
      <4>1. CASE m > s
        <5>1. m - s \in 1 .. Len(u) /\ s + (m - s) = m
          BY <1>3, <4>1
        <5> QED BY <1>4, <2>3, <4>1, <5>1
      <4> QED BY <1>3, <2>2, <4>1
    <3>3. ASSUME NEW j \in m - s + 1 .. Len(u) PROVE u[j] # Newline
      <4>1. j \in 1 .. Len(u) /\ s + j \in m + 1 .. Len(v)
        BY <1>3, <2>2
      <4> QED BY <1>4, <2>1, <4>1 DEF LastStart
    <3> QED BY <3>1, <3>2, <3>3 DEF LastStart
  <2>5. /\ LastLine(u) \in Seq(Byte) /\ Len(LastLine(u)) = Len(u) - (m - s)
        /\ \A i \in 1 .. Len(u) - (m - s) : LastLine(u)[i] = u[(m - s) + i]
    <3>1. m - s \in Int /\ u \in Seq(Byte)
      BY <1>3
    <3> HIDE PatternAssumption
    <3> QED BY <2>4, <3>1, LastLineElements
  <2>6. /\ LastLine(v) \in Seq(Byte) /\ Len(LastLine(v)) = Len(v) - m
        /\ \A i \in 1 .. Len(v) - m : LastLine(v)[i] = v[m + i]
    <3>1. m \in Int /\ v \in Seq(Byte)
      BY <1>3
    <3> HIDE PatternAssumption
    <3> QED BY <2>1, <3>1, LastLineElements
  <2>7. Len(LastLine(u)) = Len(LastLine(v))
    BY <1>3, <2>5, <2>6
  <2>8. ASSUME NEW i \in 1 .. Len(LastLine(u)) PROVE LastLine(u)[i] = LastLine(v)[i]
    <3>1. /\ i \in 1 .. Len(v) - m /\ i \in 1 .. Len(u) - (m - s)
          /\ (m - s) + i \in 1 .. Len(u) /\ s + ((m - s) + i) = m + i
      BY <1>3, <2>2, <2>5, <2>6, <2>7
    <3> QED BY <1>4, <2>5, <2>6, <3>1
  <2> QED BY <2>5, <2>6, <2>7, <2>8, SeqEqual
<1> QED BY <1>3, <1>6, <1>7, <1>8 DEF l, u, v

\* The last line of no text is empty.
LEMMA LastLineOfNothing ==
    ASSUME NEW t, t = <<>>
    PROVE  LastLine(t) = <<>> /\ ~Contains(t)
<1>1. t \in Seq(Byte) /\ Len(t) = 0
  OBVIOUS
<1>2. PICK k \in 0 .. Len(t) : LastStart(t, k)
  BY <1>1, LastStartExists
<1>3. k \in Int /\ k = 0
  BY <1>1
<1>4. LastLine(t) \in Seq(Byte) /\ Len(LastLine(t)) = Len(t) - k
  BY <1>1, <1>2, <1>3, LastLineElements
<1>5. LastLine(t) = <<>>
  BY <1>1, <1>3, <1>4, EmptySeq
<1>6. ~Contains(t)
  BY <1>1, PatternAssumption DEF Contains
<1> QED BY <1>5, <1>6

\* The log grows at its end: what was read stays where it was.
LEMMA LogGrows ==
    ASSUME NEW l \in Seq(Byte), NEW p \in Seq(Byte), NEW a \in Nat, NEW b \in 0 .. Len(l)
    PROVE  SubSeq(l \o p, a + 1, b) = SubSeq(l, a + 1, b)
<1>1. /\ l \o p \in Seq(Byte) /\ Len(l) \in Nat /\ Len(p) \in Nat
      /\ Len(l \o p) = Len(l) + Len(p)
      /\ \A i \in 1 .. Len(l) : (l \o p)[i] = l[i]
  OBVIOUS
<1>2. \A i \in a + 1 .. b : (l \o p)[i] \in Byte /\ l[i] \in Byte
  BY <1>1
<1>3. /\ SubSeq(l \o p, a + 1, b) \in Seq(Byte)
      /\ Len(SubSeq(l \o p, a + 1, b)) = IF a + 1 <= b THEN b - (a + 1) + 1 ELSE 0
      /\ \A i \in 1 .. b - (a + 1) + 1 : SubSeq(l \o p, a + 1, b)[i] = (l \o p)[(a + 1) + i - 1]
  BY <1>2, SubSeqProperties
<1>4. /\ SubSeq(l, a + 1, b) \in Seq(Byte)
      /\ Len(SubSeq(l, a + 1, b)) = IF a + 1 <= b THEN b - (a + 1) + 1 ELSE 0
      /\ \A i \in 1 .. b - (a + 1) + 1 : SubSeq(l, a + 1, b)[i] = l[(a + 1) + i - 1]
  BY <1>2, SubSeqProperties
<1>5. ASSUME NEW i \in 1 .. Len(SubSeq(l, a + 1, b))
      PROVE  SubSeq(l \o p, a + 1, b)[i] = SubSeq(l, a + 1, b)[i]
  <2>1. i \in 1 .. b - (a + 1) + 1 /\ (a + 1) + i - 1 \in 1 .. Len(l)
    BY <1>1, <1>4
  <2> QED BY <1>1, <1>3, <1>4, <2>1
<1> QED BY <1>3, <1>4, <1>5, SeqEqual

\* Two adjacent reads are one.
LEMMA ReadsJoin ==
    ASSUME NEW l \in Seq(Byte), NEW a \in Nat, NEW b \in a .. Len(l), NEW c \in b .. Len(l)
    PROVE  /\ SubSeq(l, a + 1, b) \in Seq(Byte) /\ SubSeq(l, b + 1, c) \in Seq(Byte)
           /\ SubSeq(l, a + 1, b) \o SubSeq(l, b + 1, c) = SubSeq(l, a + 1, c)
           /\ SubSeq(l, b + 1, c) = <<>> => b = c
<1> DEFINE x == SubSeq(l, a + 1, b)
           y == SubSeq(l, b + 1, c)
           z == SubSeq(l, a + 1, c)
<1>0. Len(l) \in Nat /\ b \in Nat /\ c \in Nat
  OBVIOUS
<1>1. x \in Seq(Byte) /\ Len(x) = b - a /\ \A i \in 1 .. b - a : x[i] = l[a + i]
  BY <1>0
<1>2. y \in Seq(Byte) /\ Len(y) = c - b /\ \A i \in 1 .. c - b : y[i] = l[b + i]
  BY <1>0
<1>3. z \in Seq(Byte) /\ Len(z) = c - a /\ \A i \in 1 .. c - a : z[i] = l[a + i]
  BY <1>0
<1> HIDE DEF x, y, z
<1>4. x \o y \in Seq(Byte) /\ Len(x \o y) = c - a
  <2>1. x \o y \in Seq(Byte) /\ Len(x \o y) = Len(x) + Len(y)
    BY <1>1, <1>2, ConcatProperties
  <2> QED BY <1>0, <1>1, <1>2, <2>1
<1>5. ASSUME NEW i \in 1 .. Len(x \o y) PROVE (x \o y)[i] = z[i]
  <2>1. CASE i <= b - a
    BY <1>0, <1>1, <1>2, <1>3, <1>4, <2>1
  <2>2. CASE i > b - a
    <3>1. i - (b - a) \in 1 .. c - b /\ b + (i - (b - a)) = a + i
      BY <1>0, <1>4, <2>2
    <3>2. (x \o y)[i] = y[i - (b - a)]
      BY <1>0, <1>1, <1>2, <1>4, <2>2, SMTT(40)
    <3> QED BY <1>0, <1>2, <1>3, <1>4, <3>1, <3>2
  <2> QED BY <1>0, <1>4, <2>1, <2>2
<1>6. x \o y = z
  BY <1>3, <1>4, <1>5, SeqEqual
<1>7. y = <<>> => b = c
  BY <1>0, <1>2
<1> QED BY <1>1, <1>2, <1>6, <1>7 DEF x, y, z

-----------------------------------------------------------------------------
(* The inductive invariant *)

\* No lost wake-up, from the moment the snapshot is taken.
Awake == pc \in {"match", "wait"} /\ ~notify /\ owed = {} => snapshot = written

Covered(b) == mark0 + 1 .. b \subseteq seen \union raced

\* What is missing of the output up to the current position has been flagged,
\* or is about to be.
Flagged ==
    /\ pc \in {"read", "match", "wait"} \union Results => truncated \/ Covered(snapshot)
    /\ pc = "trunc" => truncated \/ IsTruncated(snapshot) \/ Covered(chunkEnd)
    /\ pc = "snap" => truncated \/ Covered(chunkEnd)

\* Up to position b there was no match, and the remainder is the last line.
Examined(b) ==
    /\ mark0 <= b /\ ~Contains(SubSeq(log, mark0 + 1, b))
    /\ remainder = LastLine(SubSeq(log, mark0 + 1, b))

\* The chunk in hand continues what was examined up to b and ends at e.
InHand(b, e) == Examined(b) /\ b <= e /\ chunk = SubSeq(log, b + 1, e)

Exact ==
    /\ pc = "idle" => remainder = <<>>
    /\ ~truncated /\ raced = {} =>
         /\ pc \in {"read", "wait", "timeout", "terminated"} => Examined(snapshot)
         /\ pc = "trunc" /\ ~IsTruncated(snapshot) => InHand(snapshot, chunkEnd)
         /\ pc = "snap" => InHand(snapshot, chunkEnd)
         /\ pc = "match" => \E b \in 0 .. snapshot : InHand(b, snapshot)
         /\ pc = "matched" => Contains(SubSeq(log, mark0 + 1, snapshot))

WInv == WaiterTypeOK /\ Awake /\ Flagged /\ Exact

\* Before the first call.
LEMMA InitWInv == Init => WInv
<1> SUFFICES ASSUME Init PROVE WInv
  OBVIOUS
<1>1. WaiterTypeOK
  <2>1. log \in Seq(Byte) /\ Len(log) = 0 /\ chunk \in Seq(Byte) /\ remainder \in Seq(Byte \ {Newline})
    BY DEF Init, LogInit
  <2>2. notify \in BOOLEAN /\ alive \in BOOLEAN /\ first \in BOOLEAN /\ truncated \in BOOLEAN
        /\ late \in BOOLEAN
    BY Zenon DEF Init, LogInit
  <2>3. calls \in 0 .. MaxCalls
    BY MaxCallsAssumption DEF Init
  <2> QED BY <2>1, <2>2, <2>3 DEF Init, LogInit, WaiterTypeOK, TypeOK, written
<1>2. Awake /\ Flagged /\ Exact
  BY DEF Init, Awake, Flagged, Exact, Results
<1> QED BY <1>1, <1>2 DEF WInv

\* Every step keeps the types.
LEMMA NextType ==
    ASSUME WInv, [Next]_vars
    PROVE  WaiterTypeOK'
<1> USE SizeAssumption, MaxBytesAssumption, MaxCallsAssumption DEF waitVars
<1>0. WaiterTypeOK /\ TypeOK /\ written \in Nat
  BY DEF WInv, WaiterTypeOK, TypeOK, written
<1>1. ASSUME NEW w \in Writer, NEW p \in Chunk, WriteBytes(w, p), UNCHANGED <<alive, waitVars>>
      PROVE  WaiterTypeOK'
  <2>1. p \in Seq(Byte) /\ log \in Seq(Byte) /\ log' = log \o p
    BY <1>0, <1>1, ChunkAssumption DEF WriteBytes, TypeOK
  <2>2. log' \in Seq(Byte) /\ Len(log') = Len(log) + Len(p) /\ Len(log) \in Nat /\ Len(p) \in Nat
    BY <2>1
  <2>3. written' >= written /\ written' \in Nat
    BY <2>2 DEF written
  <2>4. TypeOK'
    BY <1>0, <1>1, <2>2 DEF WriteBytes, TypeOK
  <2>5. /\ snapshot' \in 0 .. written' /\ chunkEnd' \in 0 .. written' /\ mark0' \in 0 .. written'
        /\ seen' \subseteq 1 .. written' /\ raced' \subseteq 1 .. written'
    BY <1>0, <1>1, <2>3 DEF WaiterTypeOK
  <2> QED BY <1>0, <1>1, <2>4, <2>5 DEF WaiterTypeOK
<1>2. ASSUME NEW w \in Writer, Notify(w), UNCHANGED <<alive, waitVars>> PROVE WaiterTypeOK'
  BY <1>0, <1>2 DEF Notify, WaiterTypeOK, TypeOK, written
<1>3. CASE Exit \/ ContextDone
  BY <1>0, <1>3 DEF Exit, ContextDone, logVars, WaiterTypeOK, TypeOK, written
<1>4. CASE OtherRead
  <2>1. mark' \in 0 .. written /\ UNCHANGED <<log, notify, owed, alive, waitVars>>
    BY <1>0, <1>4 DEF OtherRead, AdvanceMarkBy, TypeOK, written
  <2> QED BY <1>0, <2>1 DEF WaiterTypeOK, TypeOK, written
<1>5. CASE Begin
  <2>1. calls + 1 \in 0 .. MaxCalls
    BY <1>0, <1>5 DEF Begin, WaiterTypeOK
  <2> QED BY <1>0, <1>5, <2>1 DEF Begin, logVars, WaiterTypeOK, TypeOK, written
<1>6. CASE ReadChunk
  <2>1. StartOf(snapshot) \in Nat
    BY <1>0 DEF StartOf, Oldest, WaiterTypeOK
  <2>2. chunk' \in Seq(Byte) /\ chunkEnd' \in 0 .. written /\ seen' \subseteq 1 .. written
    <3>1. log \in Seq(Byte) /\ Len(log) \in Nat
      BY <1>0 DEF TypeOK
    <3>2. \A i \in StartOf(snapshot) + 1 .. Len(log) : log[i] \in Byte
      BY <2>1, <3>1
    <3>3. chunk' \in Seq(Byte)
      BY <1>6, <2>1, <3>1, <3>2, SubSeqProperties DEF ReadChunk, ReadSince, written
    <3>4. chunkEnd' = written /\ seen' = seen \union (StartOf(snapshot) + 1 .. written)
      BY <1>6 DEF ReadChunk
    <3>5. seen \subseteq 1 .. written
      BY <1>0 DEF WaiterTypeOK
    <3>6. StartOf(snapshot) + 1 .. written \subseteq 1 .. written
      BY <1>0, <2>1
    <3>7. written \in 0 .. written
      BY <1>0
    <3> QED BY <3>3, <3>4, <3>5, <3>6, <3>7
  <2> QED BY <1>0, <1>6, <2>2 DEF ReadChunk, logVars, WaiterTypeOK, TypeOK, written
<1>7. CASE CheckTruncated
  <2>1. truncated' \in BOOLEAN
    BY <1>7, Zenon DEF CheckTruncated
  <2> QED BY <1>0, <1>7, <2>1 DEF CheckTruncated, logVars, WaiterTypeOK, TypeOK, written
<1>8. CASE TakeSnapshot
  <2>1. snapshot' \in 0 .. written /\ raced' \subseteq 1 .. written
    BY <1>0, <1>8 DEF TakeSnapshot, Snapshot, WaiterTypeOK
  <2> QED BY <1>0, <1>8, <2>1 DEF TakeSnapshot, logVars, WaiterTypeOK, TypeOK, written
<1>9. CASE Match
  <2>1. remainder' \in Seq(Byte \ {Newline})
    <3>1. CASE remainder' = remainder
      BY <1>0, <3>1 DEF WaiterTypeOK
    <3>2. CASE remainder' = LastLine(remainder \o chunk)
      <4>1. remainder \o chunk \in Seq(Byte)
        BY <1>0 DEF WaiterTypeOK
      <4>2. PICK k \in 0 .. Len(remainder \o chunk) : LastStart(remainder \o chunk, k)
        BY <4>1, LastStartExists
      <4>3. k \in Int
        BY <4>1, <4>2
      <4>4. LastLine(remainder \o chunk) \in Seq(Byte \ {Newline})
        BY <4>1, <4>2, <4>3, LastLineElements
      <4> QED BY <3>2, <4>4
    <3> QED BY <1>9, <3>1, <3>2 DEF Match
  <2>2. pc' \in {"wait", "matched", "terminated"} /\ first' \in BOOLEAN
    BY <1>9 DEF Match
  <2>3. UNCHANGED <<logVars, alive, snapshot, chunk, chunkEnd, truncated, late,
                    calls, mark0, seen, raced>>
    BY <1>9 DEF Match
  <2> QED BY <1>0, <2>1, <2>2, <2>3 DEF logVars, WaiterTypeOK, TypeOK, written, Results
<1>10. CASE Wake
  BY <1>0, <1>10 DEF Wake, Wait, WaiterTypeOK, TypeOK, written
<1>11. CASE GiveUp
  BY <1>0, <1>11 DEF GiveUp, logVars, WaiterTypeOK, TypeOK, written, Results
<1>12. CASE Finish
  <2>1. mark' \in 0 .. written /\ UNCHANGED <<log, notify, owed>>
    BY <1>0, <1>12 DEF Finish, Mark, logVars, TypeOK, written
  <2>2. chunk' \in Seq(Byte) /\ remainder' \in Seq(Byte \ {Newline})
    BY <1>12 DEF Finish
  <2>3. first' \in BOOLEAN /\ truncated' \in BOOLEAN /\ late' \in BOOLEAN
    BY <1>12, Zenon DEF Finish
  <2> QED BY <1>0, <1>12, <2>1, <2>2, <2>3 DEF Finish, WaiterTypeOK, TypeOK, written
<1>13. CASE UNCHANGED vars
  BY <1>0, <1>13 DEF vars, logVars, WaiterTypeOK, TypeOK, written
<1> QED
  BY <1>1, <1>2, <1>3, <1>4, <1>5, <1>6, <1>7, <1>8, <1>9, <1>10, <1>11, <1>12, <1>13
  DEF Next, Waiter, TerminalOutput, Output

\* The log only grows.
LEMMA LogNextGrows ==
    ASSUME WInv, [Next]_vars
    PROVE  /\ log' = log \/ ((\E p \in Seq(Byte) : log' = log \o p) /\ owed' # {})
           /\ written \in Nat /\ written' \in Nat /\ written <= written'
<1>0. log \in Seq(Byte)
  BY DEF WInv, WaiterTypeOK, TypeOK
<1>1. ASSUME NEW w \in Writer, NEW p \in Chunk, WriteBytes(w, p)
      PROVE  (\E q \in Seq(Byte) : log' = log \o q) /\ owed' # {}
  BY <1>1, ChunkAssumption DEF WriteBytes
<1>2. ASSUME Exit \/ ContextDone \/ OtherRead \/ Begin PROVE log' = log
  BY <1>2 DEF Exit, ContextDone, OtherRead, AdvanceMarkBy, Begin, logVars
<1>3. ASSUME Waiter PROVE log' = log
  BY <1>3 DEF Waiter, ReadChunk, CheckTruncated, TakeSnapshot, Match, Wake, GiveUp, Finish,
              Wait, Mark, logVars
<1>4. ASSUME NEW w \in Writer, Notify(w) PROVE log' = log
  BY <1>4 DEF Notify
<1>5. ASSUME UNCHANGED vars PROVE log' = log
  BY <1>5 DEF vars, logVars
<1>6. log' = log \/ ((\E p \in Seq(Byte) : log' = log \o p) /\ owed' # {})
  BY <1>1, <1>2, <1>3, <1>4, <1>5 DEF Next, TerminalOutput, Output
<1>7. ASSUME NEW p \in Seq(Byte), log' = log \o p PROVE written' \in Nat /\ written <= written'
  <2>1. Len(log') = Len(log) + Len(p) /\ Len(log) \in Nat /\ Len(p) \in Nat
    BY <1>0, <1>7
  <2> QED BY <2>1 DEF written
<1>8. written \in Nat /\ (log' = log => written' = written)
  BY <1>0 DEF written
<1> QED BY <1>6, <1>7, <1>8

\* Every step keeps a waiter from sleeping on unseen output.
LEMMA NextAwake ==
    ASSUME WInv, [Next]_vars
    PROVE  Awake'
<1>0. Awake /\ (log' = log \/ owed' # {})
  BY LogNextGrows DEF WInv
<1>1. ASSUME NEW w \in Writer, Notify(w), UNCHANGED <<alive, waitVars>> PROVE Awake'
  BY <1>1 DEF Notify, Awake
<1>2. ASSUME NEW w \in Writer, NEW p \in Chunk, WriteBytes(w, p) PROVE Awake'
  BY <1>2 DEF WriteBytes, Awake
<1>3. CASE Exit \/ ContextDone \/ OtherRead
  BY <1>0, <1>3 DEF Exit, ContextDone, OtherRead, AdvanceMarkBy, logVars, waitVars, Awake, written
<1>4. CASE Begin \/ ReadChunk \/ CheckTruncated \/ Wake \/ GiveUp \/ Finish
  BY <1>4 DEF Begin, ReadChunk, CheckTruncated, Wake, GiveUp, Finish, Awake
<1>5. CASE TakeSnapshot
  BY <1>5 DEF TakeSnapshot, Snapshot, logVars, Awake, written
<1>6. CASE Match
  BY <1>0, <1>6 DEF Match, logVars, Awake, written
<1>7. CASE UNCHANGED vars
  BY <1>0, <1>7 DEF vars, logVars, waitVars, Awake, written
<1> QED
  BY <1>1, <1>2, <1>3, <1>4, <1>5, <1>6, <1>7 DEF Next, Waiter, TerminalOutput, Output

\* Every step keeps the flag honest.
LEMMA NextFlagged ==
    ASSUME WInv, [Next]_vars
    PROVE  Flagged'
<1> USE SizeAssumption
<1>0. /\ WaiterTypeOK /\ Flagged /\ written \in Nat /\ written' \in Nat /\ written <= written'
      /\ snapshot \in Nat /\ chunkEnd \in Nat /\ mark0 \in Nat /\ snapshot <= written
  BY LogNextGrows DEF WInv, WaiterTypeOK
<1>1. ASSUME UNCHANGED <<pc, snapshot, chunkEnd, truncated, mark0, seen, raced>> PROVE Flagged'
  <2>1. ASSUME IsTruncated(snapshot) PROVE IsTruncated(snapshot)'
    <3>1. \A a, b, c, d \in Nat : b <= c /\ a < b - d => a < c - d
      OBVIOUS
    <3>2. Size \in Nat /\ snapshot < written - Size
      BY <2>1 DEF IsTruncated
    <3>3. snapshot < written' - Size
      BY <1>0, <3>1, <3>2
    <3> QED BY <1>1, <3>3 DEF IsTruncated
  <2> QED BY <1>0, <1>1, <2>1 DEF Flagged, Covered
<1>2. CASE TerminalOutput \/ Exit \/ ContextDone \/ OtherRead \/ UNCHANGED vars
  BY <1>1, <1>2 DEF TerminalOutput, Exit, ContextDone, OtherRead, waitVars, vars
<1>3. CASE Begin
  <2>1. snapshot' = mark /\ mark0' = mark /\ pc' = "read" /\ mark \in Nat
    BY <1>0, <1>3 DEF Begin, WaiterTypeOK, TypeOK
  <2>2. mark0' + 1 .. snapshot' = {}
    BY <2>1
  <2> QED BY <2>1, <2>2 DEF Flagged, Covered, Results
<1>4. CASE ReadChunk
  <2>1. /\ pc = "read" /\ pc' = "trunc" /\ chunkEnd' = written
        /\ seen' = seen \union (StartOf(snapshot) + 1 .. written)
        /\ UNCHANGED <<snapshot, truncated, mark0, raced, log>>
    BY <1>4 DEF ReadChunk, logVars
  <2>2. CASE truncated
    BY <2>1, <2>2 DEF Flagged, Results
  <2>3. CASE IsTruncated(snapshot)
    BY <2>1, <2>3 DEF Flagged, IsTruncated, written, Results
  <2>4. CASE ~truncated /\ ~IsTruncated(snapshot)
    <3>1. StartOf(snapshot) = snapshot
      BY <1>0, <2>4 DEF StartOf, Oldest, IsTruncated
    <3>2. mark0 + 1 .. snapshot \subseteq seen \union raced
      BY <1>0, <2>1, <2>4 DEF Flagged, Covered
    <3>3. mark0 + 1 .. written \subseteq (mark0 + 1 .. snapshot) \union (snapshot + 1 .. written)
      BY <1>0
    <3>4. Covered(chunkEnd)'
      BY <2>1, <3>1, <3>2, <3>3 DEF Covered
    <3> QED BY <2>1, <3>4 DEF Flagged, Results
  <2> QED BY <2>2, <2>3, <2>4
<1>5. CASE CheckTruncated
  <2>1. /\ pc = "trunc" /\ pc' = "snap"
        /\ truncated' = (truncated \/ IsTruncated(snapshot))
        /\ UNCHANGED <<chunkEnd, mark0, seen, raced>>
    BY <1>5 DEF CheckTruncated
  <2> QED BY <1>0, <2>1 DEF Flagged, Covered, Results
<1>6. CASE TakeSnapshot
  <2>1. /\ pc = "snap" /\ pc' = "match" /\ snapshot' = written
        /\ raced' = raced \union (chunkEnd + 1 .. written)
        /\ UNCHANGED <<truncated, mark0, seen>>
    BY <1>6 DEF TakeSnapshot, Snapshot
  <2>2. mark0 + 1 .. written \subseteq (mark0 + 1 .. chunkEnd) \union (chunkEnd + 1 .. written)
    BY <1>0
  <2>3. truncated \/ Covered(chunkEnd)
    BY <1>0, <2>1 DEF Flagged
  <2>4. truncated' \/ Covered(snapshot)'
    BY <2>1, <2>2, <2>3 DEF Covered
  <2> QED BY <2>1, <2>4 DEF Flagged
<1>7. CASE Match \/ Wake \/ GiveUp
  <2>1. /\ pc \in {"match", "wait"} /\ pc' \in {"read", "wait"} \union Results
        /\ UNCHANGED <<snapshot, truncated, mark0, seen, raced>>
    BY <1>7 DEF Match, Wake, GiveUp, Results
  <2>2. truncated \/ Covered(snapshot)
    BY <1>0, <2>1 DEF Flagged
  <2> QED BY <2>1, <2>2 DEF Flagged, Covered, Results
<1>8. CASE Finish
  BY <1>8 DEF Finish, Flagged, Results
<1> QED
  BY <1>2, <1>3, <1>4, <1>5, <1>6, <1>7, <1>8 DEF Next, Waiter

\* Every step keeps the remainder and the chunk in line with the log.
LEMMA NextExact ==
    ASSUME WInv, [Next]_vars
    PROVE  Exact'
<1> USE SizeAssumption
<1>0. /\ WaiterTypeOK /\ Exact /\ written \in Nat /\ written' \in Nat /\ written <= written'
      /\ snapshot \in 0 .. written /\ chunkEnd \in 0 .. written /\ mark0 \in 0 .. written
      /\ log \in Seq(Byte) /\ chunk \in Seq(Byte) /\ written = Len(log)
  BY LogNextGrows DEF WInv, WaiterTypeOK, TypeOK, written
<1>1. \A a \in Nat, b \in 0 .. written : SubSeq(log', a + 1, b) = SubSeq(log, a + 1, b)
  <2>1. CASE log' = log
    BY <2>1
  <2>2. ASSUME NEW p \in Seq(Byte), log' = log \o p
        PROVE  \A a \in Nat, b \in 0 .. written : SubSeq(log', a + 1, b) = SubSeq(log, a + 1, b)
    BY <1>0, <2>2, LogGrows
  <2> QED BY <2>1, <2>2, LogNextGrows
<1>2. ASSUME NEW b \in 0 .. written, UNCHANGED <<mark0, remainder>>
      PROVE  Examined(b)' <=> Examined(b)
  <2>1. SubSeq(log', mark0 + 1, b) = SubSeq(log, mark0 + 1, b) /\ mark0' = mark0
    BY <1>0, <1>1, <1>2
  <2>2. Contains(SubSeq(log', mark0 + 1, b)) <=> Contains(SubSeq(log, mark0 + 1, b))
    BY <2>1
  <2> QED BY <1>2, <2>1, <2>2 DEF Examined
<1>3. ASSUME NEW b \in 0 .. written, NEW e \in 0 .. written, UNCHANGED <<mark0, remainder, chunk>>
      PROVE  InHand(b, e)' <=> InHand(b, e)
  <2>1. SubSeq(log', b + 1, e) = SubSeq(log, b + 1, e)
    BY <1>0, <1>1, <1>3
  <2> QED BY <1>2, <1>3, <2>1 DEF InHand
<1>4. ASSUME UNCHANGED <<pc, snapshot, chunk, chunkEnd, remainder, truncated, mark0, raced>>
      PROVE  Exact'
  <2>1. Examined(snapshot)' <=> Examined(snapshot)
    BY <1>0, <1>2, <1>4
  <2>2. InHand(snapshot, chunkEnd)' <=> InHand(snapshot, chunkEnd)
    BY <1>0, <1>3, <1>4
  <2>3. ~IsTruncated(snapshot)' => ~IsTruncated(snapshot)
    <3>1. \A a, b, c, d \in Nat : b <= c /\ a < b - d => a < c - d
      OBVIOUS
    <3>2. Size \in Nat /\ snapshot \in Nat
      BY <1>0
    <3>3. snapshot < written - Size => snapshot < written' - Size
      BY <1>0, <3>1, <3>2
    <3> QED BY <1>4, <3>3 DEF IsTruncated
  <2>4. ASSUME NEW b \in 0 .. snapshot, InHand(b, snapshot)
        PROVE  \E d \in 0 .. snapshot' : InHand(d, snapshot)'
    <3>1. b \in 0 .. written /\ b \in 0 .. snapshot'
      BY <1>0, <1>4
    <3>2. InHand(b, snapshot)'
      BY <1>0, <1>3, <1>4, <2>4, <3>1
    <3> QED BY <3>1, <3>2
  <2>5. SubSeq(log', mark0 + 1, snapshot) = SubSeq(log, mark0 + 1, snapshot)
    BY <1>0, <1>1
  <2> QED BY <1>0, <1>4, <2>1, <2>2, <2>3, <2>4, <2>5 DEF Exact
<1>5. CASE TerminalOutput \/ Exit \/ ContextDone \/ OtherRead \/ UNCHANGED vars
  BY <1>4, <1>5 DEF TerminalOutput, Exit, ContextDone, OtherRead, waitVars, vars
<1>6. CASE Begin
  <2>1. /\ pc = "idle" /\ pc' = "read" /\ snapshot' = mark /\ mark0' = mark
        /\ remainder' = remainder /\ log' = log /\ mark \in 0 .. written
    BY <1>0, <1>6 DEF Begin, logVars, WaiterTypeOK, TypeOK
  <2>2. SubSeq(log', mark0' + 1, snapshot') = <<>>
    BY <1>0, <2>1
  <2>3. Examined(snapshot)'
    <3>1. remainder' = <<>> /\ mark0' <= snapshot'
      BY <1>0, <2>1 DEF Exact
    <3> QED BY <2>2, <3>1, LastLineOfNothing DEF Examined
  <2> QED BY <2>1, <2>3 DEF Exact
<1>7. CASE ReadChunk
  <2>1. /\ pc = "read" /\ pc' = "trunc" /\ chunkEnd' = written
        /\ chunk' = SubSeq(log, StartOf(snapshot) + 1, written)
        /\ UNCHANGED <<snapshot, truncated, mark0, raced, log, remainder>>
    BY <1>7 DEF ReadChunk, ReadSince, logVars
  <2>2. ASSUME ~truncated', raced' = {}, ~IsTruncated(snapshot)' PROVE InHand(snapshot, chunkEnd)'
    <3>1. ~IsTruncated(snapshot)
      BY <2>1, <2>2 DEF IsTruncated, written
    <3>2. StartOf(snapshot) = snapshot
      BY <1>0, <3>1 DEF StartOf, Oldest, IsTruncated
    <3>3. Examined(snapshot)
      BY <1>0, <2>1, <2>2 DEF Exact
    <3>4. Examined(snapshot)'
      BY <1>0, <1>2, <2>1, <3>3
    <3> QED BY <1>0, <2>1, <3>2, <3>4 DEF InHand
  <2> QED BY <2>1, <2>2 DEF Exact
<1>8. CASE CheckTruncated
  <2>1. /\ pc = "trunc" /\ pc' = "snap"
        /\ truncated' = (truncated \/ IsTruncated(snapshot))
        /\ UNCHANGED <<snapshot, chunk, chunkEnd, mark0, raced, log, remainder>>
    BY <1>8 DEF CheckTruncated, logVars
  <2>2. InHand(snapshot, chunkEnd)' <=> InHand(snapshot, chunkEnd)
    BY <1>0, <1>3, <2>1
  <2> QED BY <1>0, <2>1, <2>2 DEF Exact
<1>9. CASE TakeSnapshot
  <2>1. /\ pc = "snap" /\ pc' = "match" /\ snapshot' = written
        /\ raced' = raced \union (chunkEnd + 1 .. written)
        /\ UNCHANGED <<truncated, mark0, chunk, chunkEnd, log, remainder>>
    BY <1>9 DEF TakeSnapshot, Snapshot, logVars
  <2>2. ASSUME ~truncated', raced' = {} PROVE \E b \in 0 .. snapshot' : InHand(b, snapshot)'
    <3>1. raced = {} /\ chunkEnd + 1 .. written = {}
      BY <2>1, <2>2
    <3>2. chunkEnd = written
      <4>1. chunkEnd < written => written \in chunkEnd + 1 .. written
        BY <1>0
      <4> QED BY <1>0, <3>1, <4>1
    <3>3. InHand(snapshot, chunkEnd)
      BY <1>0, <2>1, <2>2, <3>1 DEF Exact
    <3>4. PICK b \in 0 .. written : b = snapshot
      BY <1>0
    <3>5. InHand(b, snapshot)'
      BY <1>0, <1>3, <2>1, <3>2, <3>3, <3>4
    <3> QED BY <2>1, <3>4, <3>5
  <2> QED BY <2>1, <2>2 DEF Exact
<1>10. CASE Wake \/ GiveUp
  <2>1. /\ pc = "wait" /\ pc' \in {"read", "matched", "timeout"}
        /\ UNCHANGED <<snapshot, truncated, mark0, raced, log, remainder>>
        /\ pc' = "matched" => Contains(remainder)
    BY <1>10 DEF Wake, Wait, GiveUp, logVars
  <2>2. ASSUME ~truncated', raced' = {} PROVE Examined(snapshot)' /\ pc' # "matched"
    <3>1. Examined(snapshot)
      BY <1>0, <2>1, <2>2 DEF Exact
    <3>2. Examined(snapshot)'
      BY <1>0, <1>2, <2>1, <3>1
    <3> DEFINE t == SubSeq(log, mark0 + 1, snapshot)
    <3>3. t \in Seq(Byte)
      BY <1>0, <3>1, ReadsJoin DEF Examined
    <3>4. ~Contains(t) /\ remainder = LastLine(t)
      BY <3>1 DEF Examined
    <3> HIDE DEF t
    <3>5. remainder \o <<>> = remainder /\ t \o <<>> = t
      <4>1. remainder \in Seq(Byte \ {Newline})
        BY <1>0 DEF WaiterTypeOK
      <4> QED BY <3>3, <4>1, ConcatEmptySeq
    <3>6. <<>> \in Seq(Byte)
      OBVIOUS
    <3>7. Contains(remainder \o <<>>) <=> Contains(t \o <<>>)
      BY <3>3, <3>4, <3>6, CutLine
    <3> QED BY <2>1, <3>2, <3>4, <3>5, <3>7
  <2> QED BY <2>1, <2>2 DEF Exact
<1>11. CASE Match
  <2>1. /\ pc = "match" /\ UNCHANGED <<snapshot, chunk, truncated, mark0, raced, log>>
        /\ \/ chunk = <<>> /\ pc' = "wait" /\ remainder' = remainder
           \/ chunk # <<>> /\ Contains(remainder \o chunk) /\ pc' = "matched"
           \/ /\ chunk # <<>> /\ ~Contains(remainder \o chunk) /\ pc' \in {"wait", "terminated"}
              /\ remainder' = LastLine(remainder \o chunk)
    BY <1>11 DEF Match, logVars
  <2>2. ASSUME ~truncated, raced = {}
        PROVE  /\ pc' \in {"wait", "terminated"} => Examined(snapshot)'
               /\ pc' = "matched" => Contains(SubSeq(log', mark0' + 1, snapshot'))
    <3>1. PICK b \in 0 .. snapshot : InHand(b, snapshot)
      BY <1>0, <2>1, <2>2 DEF Exact
    <3> DEFINE t == SubSeq(log, mark0 + 1, b)
               u == SubSeq(log, mark0 + 1, snapshot)
    <3>2. /\ mark0 <= b /\ ~Contains(t) /\ remainder = LastLine(t)
          /\ b <= snapshot /\ chunk = SubSeq(log, b + 1, snapshot)
      BY <3>1 DEF InHand, Examined
    <3>3. t \in Seq(Byte) /\ t \o chunk = u /\ (chunk = <<>> => b = snapshot)
      <4>1. /\ mark0 \in Nat /\ b \in mark0 .. Len(log) /\ snapshot \in b .. Len(log)
            /\ log \in Seq(Byte)
        BY <1>0, <3>2
      <4>2. SubSeq(log, mark0 + 1, b) \in Seq(Byte)
        BY <4>1, ReadsJoin
      <4>3. SubSeq(log, mark0 + 1, b) \o SubSeq(log, b + 1, snapshot)
              = SubSeq(log, mark0 + 1, snapshot)
        BY <4>1, ReadsJoin
      <4>4. SubSeq(log, b + 1, snapshot) = <<>> => b = snapshot
        BY <4>1, ReadsJoin
      <4> QED BY <3>2, <4>2, <4>3, <4>4 DEF t, u
    <3> HIDE DEF t, u
    <3>4. /\ Contains(remainder \o chunk) <=> Contains(u)
          /\ LastLine(remainder \o chunk) = LastLine(u)
      <4>1. /\ Contains(LastLine(t) \o chunk) <=> Contains(t \o chunk)
            /\ LastLine(LastLine(t) \o chunk) = LastLine(t \o chunk)
        BY <1>0, <3>2, <3>3, CutLine
      <4> QED BY <3>2, <3>3, <4>1
    <3>5. u' = u /\ mark0' <= snapshot'
      BY <1>0, <2>1, <3>2 DEF u
    <3>6. CASE chunk = <<>>
      <4>1. Examined(snapshot)
        BY <3>1, <3>3, <3>6 DEF InHand
      <4> QED BY <1>0, <1>2, <2>1, <3>6, <4>1
    <3>7. CASE chunk # <<>> /\ Contains(remainder \o chunk)
      BY <2>1, <3>4, <3>5, <3>7 DEF u
    <3>8. CASE chunk # <<>> /\ ~Contains(remainder \o chunk)
      <4>1. remainder' = LastLine(u) /\ ~Contains(u) /\ pc' # "matched"
        BY <2>1, <3>4, <3>8
      <4> QED BY <2>1, <3>5, <4>1 DEF Examined, u
    <3> QED BY <3>6, <3>7, <3>8
  <2> QED BY <2>1, <2>2 DEF Exact
<1>12. CASE Finish
  BY <1>12 DEF Finish, Exact
<1> QED
  BY <1>5, <1>6, <1>7, <1>8, <1>9, <1>10, <1>11, <1>12 DEF Next, Waiter

-----------------------------------------------------------------------------
(* Theorems *)

\* The inductive invariant holds in every behaviour.
THEOREM Invariant == Spec => []WInv
<1>1. Init => WInv
  BY InitWInv
<1>2. WInv /\ [Next]_vars => WInv'
  BY NextType, NextAwake, NextFlagged, NextExact DEF WInv
<1> QED BY <1>1, <1>2, PTL DEF Spec

\* When waitForPattern sleeps with no token in the channel or on its way, every
\* byte written since its mark has been examined, was overwritten and is
\* flagged, or was written between its ReadSince and its Snapshot.
THEOREM WaiterCorrect == Spec => []WaiterSound
<1>1. WInv => WaiterSound
  <2> SUFFICES ASSUME WInv PROVE WaiterSound
    OBVIOUS
  <2>1. ASSUME pc = "wait", ~notify, owed = {}
        PROVE  truncated \/ mark0 + 1 .. written \subseteq seen \union raced
    <3>1. snapshot = written
      BY <2>1 DEF WInv, Awake
    <3>2. truncated \/ Covered(snapshot)
      BY <2>1 DEF WInv, Flagged
    <3> QED BY <3>1, <3>2 DEF Covered
  <2> QED BY <2>1 DEF WInv, WaiterSound, NoLostWakeup
<1> QED BY <1>1, Invariant, PTL

\* What wait_for returns is right, or flagged as truncated: matching remainder
\* and chunk line by line finds exactly the matches of the whole output.
THEOREM ResultCorrect == Spec => []ResultHonest
<1>1. WInv => ResultHonest
  <2> SUFFICES ASSUME WInv PROVE ResultHonest
    OBVIOUS
  <2>1. SeenOrFlagged
    BY DEF WInv, Flagged, Covered, SeenOrFlagged
  <2>2. ResultExact
    BY DEF WInv, Exact, Examined, ResultExact, Results
  <2> QED BY <2>1, <2>2 DEF ResultHonest
<1> QED BY <1>1, Invariant, PTL
=============================================================================
