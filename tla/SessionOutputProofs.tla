------------------------ MODULE SessionOutputProofs ------------------------
(* Proofs about the three models of a session's output: its log file       *)
(* (SessionLog), the tool calls that read its screen (ScreenReader) and    *)
(* the remote session (RemoteSession).  They are three specifications,     *)
(* without a variable or a constant in common; each theorem is about one.  *)
EXTENDS SessionLog, ScreenReader, RemoteSession, SequenceTheorems, FiniteSetTheorems, TLAPS

-----------------------------------------------------------------------------
(* The log file *)

Disk == [Slot -> Seq(LogChunk) \union {NoFile}]
Text(f, i) == IF f[i] = NoFile THEN <<>> ELSE f[i]

\* LogChunk c is in one of the files.
On(f, c) == \E i \in Slot : \E n \in 1 .. Len(Text(f, i)) : Text(f, i)[n] = c

\* InOrder, of any files.
Sorted(f) ==
    \A i, j \in Slot : \A m \in 1 .. Len(Text(f, i)), n \in 1 .. Len(Text(f, j)) :
        i > j \/ (i = j /\ m < n) => Text(f, i)[m] < Text(f, j)[n]

\* The output that is on disk has no gap, and `top` is its last chunk.
Run(f, top) ==
    /\ On(f, top) \/ (top = 0 /\ \A c : ~On(f, c))
    /\ \A c : On(f, c) => c = top \/ (c < top /\ On(f, c + 1))

\* Files that no failure has touched: full backups, without a gap between them
\* or in the output, of which `top` is the last chunk.
Whole(f, top) ==
    /\ \A i \in Slot : f[i] # NoFile =>
         /\ i # 0 => Len(f[i]) >= MaxSize
         /\ \A j \in 0 .. i - 1 : f[j] # NoFile
    /\ f[0] # NoFile
    /\ Run(f, top)
    /\ \A c : On(f, c) => \/ \E d : On(f, d) /\ d <= 1
                          \/ \A i \in Slot \ {0} : f[i] # NoFile

\* What is beyond the maximal size is of an earlier session.
Bounded(f) == \A i \in Slot : \A n \in 1 .. Len(Text(f, i)) : n > MaxSize => Text(f, i)[n] <= 0

\* The rotator, when `top` is the last chunk it has been given.
Good(f, pos, top, clob, flt) ==
    /\ f \in Disk /\ pos \in Nat
    /\ Bounded(f)
    /\ \A c : On(f, c) => c <= top
    /\ ~clob => Sorted(f) /\ (f[0] # NoFile => pos = Len(f[0]))
    /\ ~flt => ~clob /\ Whole(f, top)

\* A file is a sequence of chunks.
LEMMA TextSeq ==
    ASSUME NEW f \in Disk, NEW i \in Slot
    PROVE  Text(f, i) \in Seq(LogChunk) /\ Len(Text(f, i)) \in Nat
           /\ DOMAIN Text(f, i) = 1 .. Len(Text(f, i))
           /\ \A n \in 1 .. Len(Text(f, i)) : Text(f, i)[n] \in LogChunk /\ Text(f, i)[n] \in Int
<1>1. f[i] \in Seq(LogChunk) \union {NoFile}
  BY DEF Disk
<1>2. Text(f, i) \in Seq(LogChunk)
  <2>1. <<>> \in Seq(LogChunk)
    OBVIOUS
  <2> QED BY <1>1, <2>1, Zenon DEF Text
<1>3. LogChunk \subseteq Int
  BY LogAssumption DEF LogChunk
<1>4. \A n \in 1 .. Len(Text(f, i)) : Text(f, i)[n] \in LogChunk
  BY <1>2
<1>5. Len(Text(f, i)) \in Nat /\ DOMAIN Text(f, i) = 1 .. Len(Text(f, i))
  BY <1>2
<1> QED BY <1>2, <1>3, <1>4, <1>5, Zenon

\* Where the file in slot i comes from.
From(f, F, i, a) ==
    \/ a = i - 1 /\ Moved(f, i, F)
    \/ a = i /\ ~Moved(f, i, F) /\ ~Moved(f, i + 1, F)

\* Renaming keeps files apart and in order, whatever fails.
LEMMA ShiftFrom ==
    ASSUME NEW f \in Disk, NEW F
    PROVE  /\ Shift(f, F) \in Disk
           /\ \A i \in Slot : \/ Shift(f, F)[i] = NoFile
                              \/ \E a \in Slot : From(f, F, i, a) /\ Shift(f, F)[i] = f[a]
           /\ \A i, j, a, b \in Slot : From(f, F, i, a) /\ From(f, F, j, b) =>
                  (i = j => a = b) /\ (i > j => a > b)
           /\ 1 \notin F => Shift(f, F)[0] = NoFile
<1> DEFINE g == Shift(f, F)
<1>1. /\ Slot = 0 .. MaxFiles /\ MaxFiles \in Nat \ {0}
      /\ \A i \in Slot : g[i] = IF Moved(f, i, F) THEN f[i - 1]
                                ELSE IF Moved(f, i + 1, F) THEN NoFile ELSE f[i]
      /\ g = [i \in Slot |-> g[i]]
  BY LogAssumption DEF Shift, Slot
<1>2. \A i \in Slot : Moved(f, i, F) => i - 1 \in Slot
  BY <1>1 DEF Moved
<1> HIDE DEF g
<1>3. \A i \in Slot : g[i] = NoFile \/ \E a \in Slot : From(f, F, i, a) /\ g[i] = f[a]
  BY <1>1, <1>2 DEF From
<1>4. \A i \in Slot : g[i] \in Seq(LogChunk) \union {NoFile}
  BY <1>3 DEF Disk
<1>5. g \in Disk
  BY <1>1, <1>4 DEF Disk
<1>6. ASSUME NEW i \in Slot, NEW j \in Slot, NEW a \in Slot, NEW b \in Slot,
             From(f, F, i, a), From(f, F, j, b)
      PROVE  (i = j => a = b) /\ (i > j => a > b)
  <2>1. i \in Int /\ j \in Int
    BY <1>1
  <2>2. CASE i = j
    BY <1>6, <2>1, <2>2 DEF From
  <2>3. CASE i > j
    <3>1. CASE i = j + 1
      BY <1>6, <2>1, <3>1 DEF From
    <3>2. CASE i > j + 1
      BY <1>6, <2>1, <3>2 DEF From
    <3> QED BY <2>1, <2>3, <3>1, <3>2
  <2> QED BY <2>1, <2>2, <2>3
<1>7. 1 \notin F => g[0] = NoFile
  BY <1>1 DEF Moved
<1> QED BY <1>3, <1>5, <1>6, <1>7 DEF g

\* A rotation: the current file ends up empty, or closed and out of the way.
LEMMA RotateGood ==
    ASSUME NEW f, NEW pos, NEW top \in Int, NEW clob, NEW flt,
           Good(f, pos, top, clob, flt), pos + 1 > MaxSize,
           NEW F, NEW refused \in BOOLEAN, NEW g,
           refused => g = Shift(f, F), ~refused => g = Reopen(Shift(f, F)),
           NEW q \in Nat, ~refused => q = 0,
           NEW clob2, ~clob2 => ~clob /\ 1 \notin F,
           NEW flt2, ~flt2 => ~flt /\ F = {} /\ ~refused /\ ~clob2
    PROVE  Good(g, q, top, clob2, flt2)
<1> DEFINE h == Shift(f, F)
<1>1. /\ f \in Disk /\ pos \in Nat /\ MaxSize \in Nat /\ 0 \in Slot /\ Slot \subseteq Nat
      /\ NoFile # <<>> /\ <<>> \in Seq(LogChunk)
  <2>1. <<>> \in Seq(LogChunk)
    OBVIOUS
  <2>2. NoFile # <<>>
    BY <2>1, LogAssumption, Zenon
  <2> QED BY <2>1, <2>2, LogAssumption DEF Good, Slot
<1>2. /\ h \in Disk
      /\ \A i \in Slot : h[i] = NoFile \/ \E a \in Slot : From(f, F, i, a) /\ h[i] = f[a]
      /\ \A i, j, a, b \in Slot : From(f, F, i, a) /\ From(f, F, j, b) =>
             (i = j => a = b) /\ (i > j => a > b)
      /\ 1 \notin F => h[0] = NoFile
  BY <1>1, ShiftFrom
<1> HIDE DEF h
<1>3. g \in Disk /\ \A i \in Slot : Text(g, i) = Text(h, i)
  <2>1. CASE refused
    BY <1>2, <2>1 DEF h
  <2>2. CASE ~refused
    <3>1. g = [h EXCEPT ![0] = IF h[0] = NoFile THEN <<>> ELSE h[0]]
      BY <2>2 DEF h, Reopen
    <3>2. \A i \in Slot : g[i] = IF i = 0 /\ h[0] = NoFile THEN <<>> ELSE h[i]
      BY <1>1, <1>2, <3>1 DEF Disk
    <3>3. g \in Disk
      BY <1>1, <1>2, <3>1 DEF Disk
    <3> QED BY <1>1, <3>2, <3>3, Zenon DEF Text
  <2> QED BY <2>1, <2>2
\* A file that is not empty is one of the old ones.
<1>4. \A i \in Slot : \/ Text(g, i) = <<>>
                      \/ \E a \in Slot : From(f, F, i, a) /\ Text(g, i) = Text(f, a)
  BY <1>2, <1>3 DEF Text
<1>5. Bounded(g)
  BY <1>1, <1>4 DEF Good, Bounded
<1>6. \A c : On(g, c) => On(f, c)
  BY <1>4 DEF On
<1>7. ASSUME ~clob2 PROVE Sorted(g) /\ (g[0] # NoFile => q = Len(g[0]))
  <2>1. Sorted(f) /\ h[0] = NoFile
    BY <1>2, <1>7 DEF Good
  <2>2. Sorted(g)
    <3> SUFFICES ASSUME NEW i \in Slot, NEW j \in Slot,
                        NEW m \in 1 .. Len(Text(g, i)), NEW n \in 1 .. Len(Text(g, j)),
                        i > j \/ (i = j /\ m < n)
                 PROVE  Text(g, i)[m] < Text(g, j)[n]
      BY DEF Sorted
    <3>1. Text(g, i) # <<>> /\ Text(g, j) # <<>>
      OBVIOUS
    <3>2. PICK a \in Slot : From(f, F, i, a) /\ Text(g, i) = Text(f, a)
      BY <1>4, <3>1
    <3>3. PICK b \in Slot : From(f, F, j, b) /\ Text(g, j) = Text(f, b)
      BY <1>4, <3>1
    <3>4. a > b \/ (a = b /\ m < n)
      BY <1>2, <3>2, <3>3
    <3> QED BY <2>1, <3>2, <3>3, <3>4 DEF Sorted
  <2>3. refused => g = h
    BY DEF h
  <2>4. ~refused => g[0] = <<>>
    BY <1>1, <1>2, <2>1 DEF h, Reopen, Disk
  <2> QED BY <2>1, <2>2, <2>3, <2>4
\* Nothing has failed: every file is one slot further, the last one is gone.
<1>8. ASSUME ~flt2 PROVE Whole(g, top)
  <2>1. Whole(f, top) /\ Sorted(f) /\ pos = Len(f[0]) /\ f[0] # NoFile /\ F = {} /\ ~refused /\ ~clob2
    BY <1>8 DEF Good, Whole
  <2>2. /\ Slot = 0 .. MaxFiles /\ MaxFiles \in Nat \ {0}
        /\ \A i \in Slot : h[i] = IF Moved(f, i, F) THEN f[i - 1]
                                  ELSE IF Moved(f, i + 1, F) THEN NoFile ELSE f[i]
    BY LogAssumption DEF h, Shift, Slot
  <2>3. \A i \in Slot \ {0} : h[i] = f[i - 1]
    <3> SUFFICES ASSUME NEW i \in Slot \ {0} PROVE h[i] = f[i - 1]
      OBVIOUS
    <3>1. i - 1 \in Slot /\ i + 1 \in Nat /\ i - 1 \in 0 .. i - 1
      BY <2>2
    <3>2. CASE f[i - 1] # NoFile
      BY <2>1, <2>2, <3>2 DEF Moved
    <3>3. CASE f[i - 1] = NoFile
      <4>1. f[i] = NoFile
        BY <2>1, <3>1, <3>3 DEF Whole
      <4> QED BY <2>1, <2>2, <3>3, <4>1 DEF Moved
    <3> QED BY <3>2, <3>3
  <2>4. g[0] = <<>> /\ \A i \in Slot \ {0} : g[i] = f[i - 1] /\ i - 1 \in Slot
    <3>1. h[0] = NoFile
      BY <1>2, <2>1
    <3>2. g = [h EXCEPT ![0] = <<>>]
      BY <2>1, <3>1 DEF h, Reopen
    <3> QED BY <1>1, <1>2, <2>2, <2>3, <3>2 DEF Disk
  <2>5. Text(g, 0) = <<>> /\ \A i \in Slot \ {0} : Text(g, i) = Text(f, i - 1)
    BY <2>4 DEF Text
  <2>6. Len(f[0]) >= MaxSize /\ Text(f, 0) = f[0] /\ MaxSize \in Nat \ {0}
    <3>1. Text(f, 0) = f[0]
      BY <1>1, <2>1 DEF Text
    <3> QED BY <1>1, <2>1, <3>1, LogAssumption
  <2>7. \A i \in Slot : \A n \in 1 .. Len(Text(f, i)) : i # MaxFiles => On(g, Text(f, i)[n])
    <3> SUFFICES ASSUME NEW i \in Slot, NEW n \in 1 .. Len(Text(f, i)), i # MaxFiles
                 PROVE  On(g, Text(f, i)[n])
      OBVIOUS
    <3>1. i + 1 \in Slot \ {0} /\ (i + 1) - 1 = i
      BY <2>2
    <3>2. Text(g, i + 1) = Text(f, i)
      BY <2>5, <3>1
    <3> QED BY <3>1, <3>2 DEF On
  \* A chunk of the last file is older than any other.
  <2>8. ASSUME NEW c, NEW d, On(f, c), On(g, d), c >= d PROVE On(g, c)
    <3>1. PICK i \in Slot : \E n \in 1 .. Len(Text(f, i)) : Text(f, i)[n] = c
      BY <2>8 DEF On
    <3>2. PICK n \in 1 .. Len(Text(f, i)) : Text(f, i)[n] = c
      BY <3>1
    <3>3. PICK j \in Slot : \E m \in 1 .. Len(Text(g, j)) : Text(g, j)[m] = d
      BY <2>8 DEF On
    <3>4. PICK m \in 1 .. Len(Text(g, j)) : Text(g, j)[m] = d
      BY <3>3
    <3>5. j # 0 /\ Text(g, j) = Text(f, j - 1) /\ j - 1 \in Slot /\ j - 1 < MaxFiles
      BY <2>2, <2>4, <2>5, <3>4
    <3>6. c \in Int /\ d \in Int
      BY <1>1, <3>2, <3>4, <3>5, TextSeq, Zenon
    <3>7. i # MaxFiles
      <4>1. i = MaxFiles => i > j - 1
        BY <2>2, <3>5
      <4>2. i > j - 1 => c < d
        BY <2>1, <3>2, <3>4, <3>5 DEF Sorted
      <4> QED BY <2>8, <3>6, <4>1, <4>2
    <3> QED BY <2>7, <3>2, <3>7
  <2>9. PICK d : On(g, d)
    <3>1. 1 \in 1 .. Len(Text(f, 0)) /\ 0 # MaxFiles
      BY <2>2, <2>6
    <3> QED BY <1>1, <2>7, <3>1
  <2>10. \A c : On(f, c) \/ On(g, c) => c \in Int /\ c <= top
    <3>1. \A c : On(f, c) => c \in Int
      BY <1>1, TextSeq DEF On
    <3> QED BY <1>6, <3>1 DEF Good
  <2>11. On(g, top)
    <3>1. On(f, d) /\ d \in Int /\ d <= top
      BY <1>6, <2>9, <2>10
    <3>2. On(f, top)
      BY <2>1, <3>1 DEF Whole, Run
    <3> QED BY <2>8, <2>9, <3>1, <3>2
  <2>12. ASSUME NEW c, On(g, c) PROVE c = top \/ (c < top /\ On(g, c + 1))
    <3>1. c \in Int /\ (c = top \/ (c < top /\ On(f, c + 1)))
      BY <1>6, <2>1, <2>10, <2>12 DEF Whole, Run
    <3> QED BY <2>8, <2>12, <3>1
  <2>13. \/ \E c : On(g, c) /\ c <= 1
         \/ \A i \in Slot \ {0} : g[i] # NoFile
    <3>1. CASE f[MaxFiles] # NoFile
      <4>1. \A j \in 0 .. MaxFiles - 1 : f[j] # NoFile
        BY <2>1, <2>2, <3>1 DEF Whole
      <4>2. ASSUME NEW i \in Slot \ {0} PROVE g[i] # NoFile
        <5>1. i - 1 \in 0 .. MaxFiles - 1
          BY <2>2
        <5> QED BY <2>4, <4>1, <5>1
      <4> QED BY <4>2
    <3>2. CASE f[MaxFiles] = NoFile
      <4>1. PICK e : On(f, e) /\ e <= 1
        BY <1>6, <2>1, <2>2, <2>9, <3>2 DEF Whole
      <4>2. Text(f, MaxFiles) = <<>>
        BY <3>2 DEF Text
      <4>3. On(g, e)
        BY <2>7, <4>1, <4>2 DEF On
      <4> QED BY <4>1, <4>3
    <3> QED BY <3>1, <3>2
  <2>14. \A i \in Slot : g[i] # NoFile =>
           /\ i # 0 => Len(g[i]) >= MaxSize
           /\ \A j \in 0 .. i - 1 : g[j] # NoFile
    <3> SUFFICES ASSUME NEW i \in Slot, g[i] # NoFile, i # 0
                 PROVE  Len(g[i]) >= MaxSize /\ \A j \in 0 .. i - 1 : g[j] # NoFile
      BY <2>2
    <3>1. g[i] = f[i - 1] /\ i - 1 \in Slot /\ f[i - 1] # NoFile
      BY <2>4
    <3>2. Len(f[i - 1]) >= MaxSize /\ \A j \in 0 .. i - 2 : f[j] # NoFile
      BY <2>1, <2>2, <2>6, <3>1 DEF Whole
    <3>3. ASSUME NEW j \in 0 .. i - 1 PROVE g[j] # NoFile
      <4>1. CASE j = 0
        BY <1>1, <2>4, <4>1
      <4>2. CASE j # 0
        <5>1. j \in Slot \ {0} /\ j - 1 \in 0 .. i - 2
          BY <2>2, <4>2
        <5> QED BY <2>4, <3>2, <5>1
      <4> QED BY <4>1, <4>2
    <3> QED BY <3>1, <3>2, <3>3
  <2>15. Run(g, top)
    BY <2>11, <2>12 DEF Run
  <2> QED BY <1>1, <2>4, <2>13, <2>14, <2>15 DEF Whole
<1> QED BY <1>3, <1>5, <1>6, <1>7, <1>8 DEF Good

\* A chunk that could not be written leaves a gap.
LEMMA SkipGood ==
    ASSUME NEW f, NEW pos, NEW top \in Int, NEW clob, NEW flt, Good(f, pos, top, clob, flt),
           \A c : On(f, c) => c \in Int
    PROVE  Good(f, pos, top + 1, clob, TRUE)
<1>1. \A c : On(f, c) => c <= top + 1
  BY DEF Good
<1> QED BY <1>1 DEF Good

\* The chunk after the last one is written to an open file that is not full.
LEMMA PutGood ==
    ASSUME NEW f, NEW pos, NEW top \in Nat, NEW clob, NEW flt,
           Good(f, pos, top, clob, flt), f[0] # NoFile, pos <= Len(f[0]),
           pos + 1 <= MaxSize, top + 1 <= MaxChunks,
           NEW g, g = [f EXCEPT ![0] = IF pos < Len(f[0]) THEN [f[0] EXCEPT ![pos + 1] = top + 1]
                                       ELSE Append(f[0], top + 1)]
    PROVE  Good(g, pos + 1, top + 1, clob, flt) /\ g[0] # NoFile /\ pos + 1 <= Len(g[0])
<1> DEFINE s == f[0]
           t == g[0]
           c0 == top + 1
<1>1. /\ f \in Disk /\ pos \in Nat /\ MaxSize \in Nat /\ 0 \in Slot /\ Slot = 0 .. MaxFiles
      /\ MaxChunks \in Nat /\ c0 \in LogChunk /\ NoFile \notin Seq(LogChunk)
  BY LogAssumption DEF Good, Slot, LogChunk
<1>2. s \in Seq(LogChunk) /\ Len(s) \in Nat
  <2>1. s \in Seq(LogChunk)
    BY <1>1 DEF Disk
  <2> QED BY <2>1
<1>3. /\ t = IF pos < Len(s) THEN [s EXCEPT ![pos + 1] = c0] ELSE Append(s, c0)
      /\ \A i \in Slot \ {0} : g[i] = f[i]
  BY <1>1 DEF Disk
<1>4. /\ t \in Seq(LogChunk) /\ Len(t) \in Nat /\ pos + 1 <= Len(t)
      /\ t[pos + 1] = c0 /\ t # NoFile
      /\ \A n \in 1 .. Len(t) : n # pos + 1 => n \in 1 .. Len(s) /\ t[n] = s[n]
      /\ pos = Len(s) => Len(t) = pos + 1
  <2> HIDE DEF s, t, c0
  <2>1. CASE pos < Len(s)
    <3>1. t = [s EXCEPT ![pos + 1] = c0] /\ pos + 1 \in 1 .. Len(s)
      BY <1>1, <1>2, <1>3, <2>1
    <3>2. t \in Seq(LogChunk) /\ Len(t) = Len(s)
      BY <1>1, <1>2, <3>1
    <3>3. t[pos + 1] = c0 /\ \A n \in 1 .. Len(s) : n # pos + 1 => t[n] = s[n]
      BY <1>2, <3>1
    <3>4. t # NoFile
      BY <1>1, <3>2
    <3>5. pos # Len(s) /\ Len(t) \in Nat /\ pos + 1 <= Len(t)
      BY <1>1, <1>2, <2>1, <3>2
    <3> QED BY <3>2, <3>3, <3>4, <3>5
  <2>2. CASE ~(pos < Len(s))
    <3>1. t = Append(s, c0) /\ pos = Len(s)
      BY <1>1, <1>2, <1>3, <2>2 DEF s
    <3>2. t \in Seq(LogChunk) /\ Len(t) = Len(s) + 1 /\ t[pos + 1] = c0
      BY <1>1, <1>2, <3>1
    <3>3. \A n \in 1 .. Len(t) : n # pos + 1 => n \in 1 .. Len(s) /\ t[n] = s[n]
      BY <1>1, <1>2, <3>1, <3>2
    <3>4. t # NoFile
      BY <1>1, <3>2
    <3>5. Len(t) \in Nat /\ pos + 1 <= Len(t) /\ Len(t) = pos + 1
      BY <1>1, <1>2, <3>1, <3>2
    <3> QED BY <3>2, <3>3, <3>4, <3>5
  <2> QED BY <2>1, <2>2
<1>5. g \in Disk
  <2>1. g = [f EXCEPT ![0] = t] /\ t \in Seq(LogChunk)
    BY <1>1, <1>3, <1>4 DEF Disk
  <2> HIDE DEF t
  <2> QED BY <1>1, <2>1, Zenon DEF Disk
<1>6. Text(g, 0) = t /\ Text(f, 0) = s /\ \A i \in Slot \ {0} : Text(g, i) = Text(f, i)
  BY <1>3, <1>4 DEF Text
<1> HIDE DEF s, t, c0
<1>7. Bounded(g)
  <2>1. \A i \in Slot : \A n \in 1 .. Len(Text(g, i)) :
            (i = 0 /\ n = pos + 1) \/ (n \in 1 .. Len(Text(f, i)) /\ Text(g, i)[n] = Text(f, i)[n])
    BY <1>4, <1>6, Zenon
  <2>2. Bounded(f) /\ ~(pos + 1 > MaxSize)
    BY <1>1 DEF Good
  <2> QED BY <2>1, <2>2, Zenon DEF Bounded
<1>8. \A c : On(g, c) => c = c0 \/ On(f, c)
  <2> SUFFICES ASSUME NEW c, On(g, c) PROVE c = c0 \/ On(f, c)
    OBVIOUS
  <2>1. PICK i \in Slot : \E n \in 1 .. Len(Text(g, i)) : Text(g, i)[n] = c
    BY DEF On
  <2>2. PICK n \in 1 .. Len(Text(g, i)) : Text(g, i)[n] = c
    BY <2>1
  <2>3. CASE i = 0
    BY <1>1, <1>4, <1>6, <2>2, <2>3, Zenon DEF On
  <2>4. CASE i # 0
    BY <1>6, <2>2, <2>4, Zenon DEF On
  <2> QED BY <2>3, <2>4
<1>9. On(g, c0)
  <2>1. pos + 1 \in 1 .. Len(Text(g, 0)) /\ Text(g, 0)[pos + 1] = c0
    BY <1>1, <1>4, <1>6
  <2> QED BY <1>1, <2>1, Zenon DEF On
<1>10. \A c : On(f, c) => c \in Int /\ c <= top
  <2>1. \A c : On(f, c) => c \in Int
    BY <1>1, TextSeq DEF On
  <2> QED BY <1>1, <2>1 DEF Good
<1>11. \A c : On(g, c) => c <= c0
  BY <1>8, <1>10 DEF c0
\* With the current file at its end, nothing is overwritten.
<1>12. ASSUME ~clob PROVE /\ pos = Len(s) /\ Len(t) = pos + 1 /\ Sorted(f)
                          /\ \A c : On(f, c) => On(g, c)
  <2>1. pos = Len(s) /\ Len(t) = pos + 1 /\ Sorted(f)
    BY <1>4, <1>12, Zenon DEF Good, s
  <2>2. \A n \in 1 .. Len(s) : n \in 1 .. Len(t) /\ t[n] = s[n]
    BY <1>2, <1>4, <2>1
  <2>3. \A i \in Slot : \A n \in 1 .. Len(Text(f, i)) :
            n \in 1 .. Len(Text(g, i)) /\ Text(g, i)[n] = Text(f, i)[n]
    BY <1>6, <2>2, Zenon
  <2> QED BY <2>1, <2>3, Zenon DEF On
<1>13. ASSUME ~clob PROVE Sorted(g)
  <2> SUFFICES ASSUME NEW i \in Slot, NEW j \in Slot,
                      NEW m \in 1 .. Len(Text(g, i)), NEW n \in 1 .. Len(Text(g, j)),
                      i > j \/ (i = j /\ m < n)
               PROVE  Text(g, i)[m] < Text(g, j)[n]
    BY Zenon DEF Sorted
  <2>1. i # 0 \/ m # pos + 1
    BY <1>1, <1>4, <1>6, <1>12, <1>13
  <2>2. m \in 1 .. Len(Text(f, i)) /\ Text(g, i)[m] = Text(f, i)[m]
    BY <1>4, <1>6, <2>1, Zenon
  <2>3. CASE j = 0 /\ n = pos + 1
    <3>1. On(f, Text(g, i)[m]) /\ Text(g, j)[n] = c0
      BY <1>4, <1>6, <2>2, <2>3, Zenon DEF On
    <3> QED BY <1>10, <3>1 DEF c0
  <2>4. CASE ~(j = 0 /\ n = pos + 1)
    <3>1. n \in 1 .. Len(Text(f, j)) /\ Text(g, j)[n] = Text(f, j)[n]
      BY <1>4, <1>6, <2>4, Zenon
    <3> QED BY <1>12, <1>13, <2>2, <3>1, Zenon DEF Sorted
  <2> QED BY <2>3, <2>4
<1>14. ASSUME ~flt PROVE Whole(g, c0)
  <2>1. Whole(f, top) /\ ~clob
    BY <1>14 DEF Good
  <2>2. \A i \in Slot : g[i] # NoFile <=> f[i] # NoFile
    BY <1>3, <1>4, Zenon DEF t
  <2>3. \A i \in Slot : g[i] # NoFile =>
           /\ i # 0 => Len(g[i]) >= MaxSize
           /\ \A j \in 0 .. i - 1 : g[j] # NoFile
    <3> SUFFICES ASSUME NEW i \in Slot, g[i] # NoFile
                 PROVE  /\ i # 0 => Len(g[i]) >= MaxSize
                        /\ \A j \in 0 .. i - 1 : g[j] # NoFile
      OBVIOUS
    <3>1. f[i] # NoFile /\ (i # 0 => g[i] = f[i])
      BY <1>3, <2>2
    <3>2. \A j \in 0 .. i - 1 : j \in Slot
      BY <1>1, LogAssumption
    <3> QED BY <2>1, <2>2, <3>1, <3>2 DEF Whole
  <2>4. ASSUME NEW c, On(g, c) PROVE c = c0 \/ (c < c0 /\ On(g, c + 1))
    <3>1. CASE On(f, c)
      <4>1. c \in Int /\ c < c0 /\ (c = top \/ On(f, c + 1))
        BY <1>10, <2>1, <3>1 DEF Whole, Run, c0
      <4>2. c = top => c + 1 = c0
        BY DEF c0
      <4> QED BY <1>9, <1>12, <2>1, <4>1, <4>2, Zenon
    <3> QED BY <1>8, <2>4, <3>1, Zenon
  <2>5. \/ \E d : On(g, d) /\ d <= 1
        \/ \A i \in Slot \ {0} : g[i] # NoFile
    <3>1. CASE top = 0
      BY <1>9, <3>1 DEF c0
    <3>2. CASE top # 0
      <4>1. On(f, top)
        BY <2>1, <3>2 DEF Whole, Run
      <4>2. \/ \E d : On(f, d) /\ d <= 1
            \/ \A i \in Slot \ {0} : f[i] # NoFile
        BY <2>1, <4>1 DEF Whole
      <4> QED BY <1>12, <2>1, <2>2, <4>2, Zenon
    <3> QED BY <3>1, <3>2, Zenon
  <2>6. g[0] # NoFile
    BY <1>1, <2>1, <2>2, Zenon DEF Whole
  <2>7. Run(g, c0)
    BY <1>9, <2>4, Zenon DEF Run
  <2> QED BY <2>3, <2>5, <2>6, <2>7, Zenon DEF Whole
<1>15. ~clob => (g[0] # NoFile => pos + 1 = Len(g[0]))
  BY <1>12 DEF t
<1>16. ~flt => ~clob
  BY DEF Good
<1>17. pos + 1 \in Nat /\ g[0] # NoFile /\ pos + 1 <= Len(g[0])
  BY <1>1, <1>4 DEF t
<1> QED BY <1>5, <1>7, <1>11, <1>13, <1>14, <1>15, <1>16, <1>17, Zenon DEF Good, c0

\* The inductive invariant; an SSH session writes nothing after a failure.
LogInv ==
    /\ FileTypeOK /\ rotator.size = rotator.pos
    /\ reader = "log" => buf >= 1
    /\ Good(rotator.files, rotator.pos, Latest, clobbered, faulty)
    /\ closer = "closed" /\ kind # "ssh" => ~rotator.open /\ reader = "over"
    /\ faulty => failed \/ misnamed
    /\ kind = "ssh" =>
         /\ failed => reader = "over"
         /\ ~misnamed => Run(rotator.files, LogEnd)

\* It gives what the files promise.
LEMMA LogInvImplies ==
    ASSUME LogInv
    PROVE  LogIntact /\ CloseKeepsOutput /\ SshLogKeepsUp
<1> DEFINE f == rotator.files
<1>1. /\ f \in Disk /\ \A i \in Slot : File(i) = Text(f, i)
      /\ \A i \in Slot : /\ DOMAIN Text(f, i) = 1 .. Len(Text(f, i))
                         /\ Text(f, i) \in Seq(LogChunk)
  <2>1. f \in Disk
    BY DEF LogInv, Good
  <2> QED BY <2>1, TextSeq DEF File, Text
<1>2. Good(f, rotator.pos, Latest, clobbered, faulty)
  BY DEF LogInv
<1> HIDE DEF f
<1>3. \A c : c \in Stored <=> On(f, c)
  <2>1. \A i \in Slot : \A c : c \in ToSet(File(i)) <=> \E n \in 1 .. Len(Text(f, i)) : Text(f, i)[n] = c
    BY <1>1 DEF ToSet
  <2>2. \A c : c \in Stored <=> \E i \in Slot : c \in ToSet(File(i))
    BY DEF Stored
  <2> QED BY <2>1, <2>2 DEF On
<1>4. ~clobbered => InOrder
  BY <1>1, <1>2, Zenon DEF Good, Sorted, InOrder
<1>5. ASSUME ~faulty, Stored # {}
      PROVE  /\ Latest \in Stored
             /\ \A c \in Stored : c = Latest \/ (c < Latest /\ c + 1 \in Stored)
             /\ \/ \E c \in Stored : c <= 1
                \/ \A i \in Slot \ {0} : f[i] # NoFile /\ Len(f[i]) >= MaxSize
  <2>1. Whole(f, Latest)
    BY <1>2, <1>5 DEF Good
  <2>2. PICK c : On(f, c)
    BY <1>3, <1>5
  <2>3. Latest \in Stored
    BY <1>3, <2>1, <2>2 DEF Whole, Run
  <2>4. \A d \in Stored : d = Latest \/ (d < Latest /\ d + 1 \in Stored)
    BY <1>3, <2>1 DEF Whole, Run
  <2>5. \/ \E d \in Stored : d <= 1
        \/ \A i \in Slot \ {0} : f[i] # NoFile /\ Len(f[i]) >= MaxSize
    BY <1>3, <2>1, <2>2 DEF Whole
  <2> QED BY <2>3, <2>4, <2>5
<1>6. WithinSize
  BY <1>1, <1>2, Zenon DEF WithinSize, Good, Bounded
<1>7. CloseKeepsOutput
  <2> SUFFICES ASSUME closer = "closed", kind # "ssh"
               PROVE  ~rotator.open /\ (~faulty /\ buf > 0 => buf \in Stored)
    BY DEF CloseKeepsOutput
  <2>1. ~rotator.open /\ Latest = buf
    BY DEF LogInv, Latest
  <2>2. ~faulty /\ buf # 0 => On(f, buf)
    BY <1>2, <2>1 DEF Good, Whole, Run
  <2>3. buf > 0 => buf # 0
    BY DEF LogInv, FileTypeOK
  <2> QED BY <1>3, <2>1, <2>2, <2>3
<1>8. SshLogKeepsUp
  <2> SUFFICES ASSUME kind = "ssh", ~misnamed
               PROVE  /\ LogEnd > 0 => LogEnd \in Stored
                      /\ \A c \in Stored : c = LogEnd \/ (c < LogEnd /\ c + 1 \in Stored)
    BY DEF SshLogKeepsUp
  <2>1. Run(f, LogEnd)
    BY DEF LogInv, f
  <2>2. LogEnd > 0 => LogEnd # 0
    BY DEF LogInv, FileTypeOK, LogEnd
  <2> QED BY <1>3, <2>1, <2>2, Zenon DEF Run
<1> QED BY <1>4, <1>5, <1>6, <1>7, <1>8 DEF LogIntact, Unbroken, LogInv, f

\* A new log is good, with or without the output of an earlier session.
LEMMA LogInvInit == FileInit => LogInv
<1> SUFFICES ASSUME FileInit PROVE LogInv
  OBVIOUS
<1>1. PICK len \in 0 .. MaxEarlier :
         rotator = [files |-> [i \in Slot |-> IF i = 0 THEN [k \in 1 .. len |-> k - len] ELSE NoFile],
                    open |-> TRUE, pos |-> len, size |-> len]
  BY Zenon DEF FileInit
<1> DEFINE f == rotator.files
           earlier == [k \in 1 .. len |-> k - len]
<1>2. /\ 0 \in Slot /\ Slot = 0 .. MaxFiles /\ MaxFiles \in Nat \ {0} /\ MaxSize \in Nat \ {0}
      /\ MaxChunks \in Nat /\ NoFile \notin Seq(LogChunk) /\ len \in Nat /\ MaxEarlier \in Nat
  BY LogAssumption DEF Slot
<1>3. /\ earlier \in Seq(LogChunk) /\ Len(earlier) = len
      /\ \A n \in 1 .. len : earlier[n] = n - len
  <2>1. \A k \in 1 .. len : k - len \in LogChunk
    BY <1>2 DEF LogChunk
  <2> QED BY <1>2, <2>1
<1>4. earlier # NoFile
  BY <1>2, <1>3
<1>5. /\ f = [i \in Slot |-> IF i = 0 THEN earlier ELSE NoFile]
      /\ rotator.pos = len /\ rotator.size = len /\ rotator.open
  BY <1>1
<1> HIDE DEF earlier
<1>6. f[0] = earlier /\ \A i \in Slot \ {0} : f[i] = NoFile
  BY <1>2, <1>5
<1>7. f \in Disk
  BY <1>3, <1>5 DEF Disk
<1>8. Text(f, 0) = earlier /\ \A i \in Slot \ {0} : Text(f, i) = <<>>
  BY <1>4, <1>6 DEF Text
<1>9. rotator \in LogState
  <2>1. rotator = [files |-> f, open |-> TRUE, pos |-> len, size |-> len]
    BY <1>1
  <2>2. f \in [Slot -> Seq(LogChunk) \union {NoFile}] /\ len \in Nat
    BY <1>2, <1>7 DEF Disk
  <2> HIDE DEF f
  <2> QED BY <2>1, <2>2 DEF LogState
<1> HIDE DEF f
<1>10. \A c : On(f, c) <=> \E n \in 1 .. len : c = n - len
  <2>1. \A i \in Slot : \A n \in 1 .. Len(Text(f, i)) : i = 0 /\ n \in 1 .. len
    BY <1>3, <1>8
  <2> QED BY <1>2, <1>3, <1>8, <2>1 DEF On
<1>11. Sorted(f)
  <2> SUFFICES ASSUME NEW i \in Slot, NEW j \in Slot,
                      NEW m \in 1 .. Len(Text(f, i)), NEW n \in 1 .. Len(Text(f, j)),
                      i > j \/ (i = j /\ m < n)
               PROVE  Text(f, i)[m] < Text(f, j)[n]
    BY DEF Sorted
  <2>1. i = 0 /\ j = 0
    BY <1>8
  <2>2. m \in 1 .. len /\ n \in 1 .. len /\ m < n
    BY <1>2, <1>3, <1>8, <2>1
  <2>3. Text(f, i)[m] = m - len /\ Text(f, j)[n] = n - len
    BY <1>3, <1>8, <2>1, <2>2
  <2> QED BY <1>2, <2>2, <2>3
<1>12. Run(f, 0)
  <2>1. On(f, 0) \/ \A c : ~On(f, c)
    <3>1. CASE len = 0
      BY <1>10, <3>1
    <3>2. CASE len # 0
      <4>1. len \in 1 .. len /\ len - len = 0
        BY <1>2, <3>2
      <4> QED BY <1>10, <4>1
    <3> QED BY <3>1, <3>2
  <2>2. ASSUME NEW c, On(f, c) PROVE c = 0 \/ (c < 0 /\ On(f, c + 1))
    <3>1. PICK n \in 1 .. len : c = n - len
      BY <1>10, <2>2
    <3>2. CASE n = len
      BY <1>2, <3>1, <3>2
    <3>3. CASE n # len
      <4>1. n + 1 \in 1 .. len /\ c + 1 = (n + 1) - len /\ c < 0
        BY <1>2, <3>1, <3>3
      <4> QED BY <1>10, <4>1
    <3> QED BY <3>2, <3>3
  <2> QED BY <2>1, <2>2 DEF Run
<1>13. \A c : On(f, c) => c <= 0
  BY <1>2, <1>10
<1>14. Whole(f, 0)
  <2>1. \A i \in Slot : f[i] # NoFile =>
         /\ i # 0 => Len(f[i]) >= MaxSize
         /\ \A j \in 0 .. i - 1 : f[j] # NoFile
    BY <1>2, <1>6
  <2>2. \A c : On(f, c) => \/ \E d : On(f, d) /\ d <= 1
                           \/ \A i \in Slot \ {0} : f[i] # NoFile
    <3>1. \A c : On(f, c) => c <= 1
      BY <1>2, <1>10
    <3> QED BY <3>1
  <2> QED BY <1>4, <1>6, <1>12, <2>1, <2>2 DEF Whole
<1>15. Good(f, rotator.pos, 0, clobbered, faulty)
  <2>1. Bounded(f)
    BY <1>13 DEF Bounded, On
  <2>2. rotator.pos \in Nat /\ rotator.pos = Len(f[0]) /\ ~clobbered
    BY <1>2, <1>3, <1>5, <1>6 DEF FileInit
  <2> QED BY <1>7, <1>11, <1>13, <1>14, <2>1, <2>2 DEF Good
<1>16. Latest = 0 /\ LogEnd = 0 /\ reader = "read" /\ closer = "none" /\ ~failed /\ ~faulty
  BY DEF FileInit, Latest, LogEnd
<1>17. FileTypeOK
  <2>1. rotator.open => rotator.files[0] # NoFile /\ rotator.pos <= Len(rotator.files[0])
    BY <1>2, <1>3, <1>4, <1>5, <1>6 DEF f
  <2>2. {hungUp, failed, faulty, misnamed, clobbered} \subseteq BOOLEAN
    BY Zenon DEF FileInit
  <2>3. buf \in 0 .. MaxChunks
    BY <1>2 DEF FileInit
  <2> QED BY <1>9, <2>1, <2>2, <2>3 DEF FileTypeOK, FileInit
<1> QED BY <1>5, <1>12, <1>15, <1>16, <1>17 DEF LogInv, f

\* A rotation without a failed rename leaves no gap, whether or not the path can
\* be opened again.
LEMMA RotateRun ==
    ASSUME NEW f, NEW pos, NEW top \in Int, Good(f, pos, top, FALSE, FALSE), pos + 1 > MaxSize,
           NEW g, g = Shift(f, {}) \/ g = Reopen(Shift(f, {}))
    PROVE  Run(g, top)
<1> DEFINE h == Shift(f, {})
           o == Reopen(h)
<1>1. h \in Disk /\ 0 \in Slot
  BY ShiftFrom, LogAssumption DEF Good, Slot
<1>2. Run(o, top)
  <2>1. Good(o, 0, top, FALSE, FALSE)
    <3>1. 0 \in Nat /\ 1 \notin {} /\ FALSE \in BOOLEAN
      OBVIOUS
    <3> QED BY <3>1, RotateGood
  <2> QED BY <2>1 DEF Good, Whole
<1>3. \A i \in Slot : Text(o, i) = Text(h, i)
  <2> HIDE DEF h
  <2>1. \A i \in Slot : o[i] = IF i = 0 /\ h[0] = NoFile THEN <<>> ELSE h[i]
    BY <1>1 DEF Reopen, Disk
  <2>2. <<>> # NoFile
    <3>1. <<>> \in Seq(LogChunk)
      OBVIOUS
    <3> QED BY <3>1, LogAssumption, Zenon
  <2> HIDE DEF o
  <2> QED BY <2>1, <2>2, Zenon DEF Text
<1> HIDE DEF h, o
<1>4. \A c : On(o, c) <=> On(h, c)
  BY <1>3 DEF On
<1>5. Run(h, top)
  BY <1>2, <1>4 DEF Run
<1> QED BY <1>2, <1>5 DEF h, o

\* The log is rotated if it is full and then takes the chunk, or reports an error.
LEMMA WriteLogInv ==
    ASSUME LogInv, NEW F \in SUBSET (Slot \ {0}),
           NEW refused \in BOOLEAN, NEW short \in BOOLEAN, WriteLog(F, refused, short)
    PROVE  LogInv'
<1> DEFINE full == Full(rotator)
           ready == IF full THEN Rotate(rotator, F, refused) ELSE rotator
           ok == ready.open /\ ~short
           top == buf - 1
           fl == faulty \/ short \/ (full /\ (refused \/ F # {})) \/ ~ok
           cl == clobbered \/ (full /\ 1 \in F)
<1>1. /\ reader = "log" /\ rotator' = IF ok THEN Put(ready, buf) ELSE ready
      /\ reader' = AfterLog(ok) /\ failed' = (failed \/ ~ok)
      /\ faulty' = fl /\ clobbered' = cl /\ misnamed' = (misnamed \/ (full /\ F # {}))
      /\ kind' = kind /\ buf' = buf /\ closer' = closer /\ hungUp' = hungUp
  BY DEF WriteLog
<1>2. /\ rotator \in LogState /\ rotator.size = rotator.pos /\ rotator.files \in Disk
      /\ rotator.pos \in Nat /\ rotator.open \in BOOLEAN
      /\ rotator.open => rotator.files[0] # NoFile /\ rotator.pos <= Len(rotator.files[0])
      /\ rotator = [files |-> rotator.files, open |-> rotator.open, pos |-> rotator.pos, size |-> rotator.size]
  BY DEF LogInv, FileTypeOK, LogState, Disk
<1>3. /\ buf \in Nat /\ buf >= 1 /\ buf <= MaxChunks /\ top \in Nat /\ top + 1 = buf /\ Latest = top
      /\ MaxSize \in Nat \ {0} /\ MaxChunks \in Nat /\ 0 \in Slot
      /\ full = (rotator.pos + 1 > MaxSize)
  BY <1>1, <1>2, LogAssumption DEF LogInv, FileTypeOK, Latest, Full, Slot
<1>4. Good(rotator.files, rotator.pos, top, clobbered, faulty)
  BY <1>3 DEF LogInv
<1>5. \E g \in Disk, op \in BOOLEAN, q \in Nat :
         /\ ready = [files |-> g, open |-> op, pos |-> q, size |-> q]
         /\ Good(g, q, top, cl, fl)
         /\ op => g[0] # NoFile /\ q <= Len(g[0]) /\ q + 1 <= MaxSize
  <2>1. CASE ~full
    <3>1. ready = rotator
      BY <2>1
    <3>2. Good(rotator.files, rotator.pos, top, cl, fl)
      BY <1>4, <2>1 DEF Good
    <3> QED BY <1>2, <1>3, <2>1, <3>1, <3>2
  <2>2. CASE full
    <3> DEFINE h == Shift(rotator.files, F)
               g == IF refused THEN h ELSE Reopen(h)
               q == IF refused THEN rotator.pos ELSE 0
    <3>1. ready = [files |-> g, open |-> ~refused, pos |-> q, size |-> q]
      <4>1. ready = IF refused THEN [rotator EXCEPT !.files = h, !.open = FALSE]
                    ELSE [files |-> Reopen(h), open |-> TRUE, pos |-> 0, size |-> 0]
        BY <2>2 DEF Rotate
      <4> QED BY <1>2, <4>1, Zenon
    <3>2. q \in Nat /\ (~refused => q = 0) /\ top \in Int /\ rotator.pos + 1 > MaxSize
      <4>1. rotator.pos + 1 > MaxSize
        BY <1>3, <2>2, Zenon
      <4>2. q \in Nat /\ (~refused => q = 0)
        BY <1>2
      <4> QED BY <1>3, <4>1, <4>2
    <3>3. (~cl => ~clobbered /\ 1 \notin F) /\ (~fl => ~faulty /\ F = {} /\ ~refused /\ ~cl)
      BY <1>4, <2>2 DEF Good
    <3>4. Good(g, q, top, cl, fl)
      <4>1. (refused => g = Shift(rotator.files, F)) /\ (~refused => g = Reopen(Shift(rotator.files, F)))
        OBVIOUS
      <4> HIDE DEF cl, fl, ready, full, top, q, g, h
      <4>2. ASSUME NEW c1, NEW f1, ~c1 => ~clobbered /\ 1 \notin F,
                   ~f1 => ~faulty /\ F = {} /\ ~refused /\ ~c1
            PROVE  Good(g, q, top, c1, f1)
        BY <1>4, <3>2, <4>1, <4>2, RotateGood
      <4> QED BY <3>3, <4>2
    <3>5. g \in Disk
      BY <3>4 DEF Good
    <3>6. ~refused => g[0] # NoFile /\ q <= Len(g[0]) /\ q + 1 <= MaxSize
      <4>1. h \in Disk
        BY <1>2, ShiftFrom
      <4> SUFFICES ASSUME ~refused PROVE g[0] # NoFile /\ q <= Len(g[0]) /\ q + 1 <= MaxSize
        OBVIOUS
      <4>2. g[0] = IF h[0] = NoFile THEN <<>> ELSE h[0]
        <5> HIDE DEF h
        <5>1. g = Reopen(h)
          OBVIOUS
        <5> QED BY <1>3, <4>1, <5>1 DEF Reopen, Disk
      <4>3. <<>> # NoFile /\ g[0] \in Seq(LogChunk) \union {NoFile}
        <5>1. <<>> \in Seq(LogChunk)
          OBVIOUS
        <5>2. NoFile \notin Seq(LogChunk)
          BY LogAssumption
        <5> QED BY <1>3, <3>5, <5>1, <5>2, Zenon DEF Disk
      <4>4. g[0] # NoFile
        <5> HIDE DEF g, h
        <5> QED BY <4>2, <4>3
      <4>5. Len(g[0]) \in Nat
        <5> HIDE DEF g, h
        <5> QED BY <4>3, <4>4
      <4> QED BY <1>3, <4>4, <4>5
    <3>7. (~refused) \in BOOLEAN
      OBVIOUS
    <3> HIDE DEF g, q, ready, cl, fl, top
    <3> QED BY <3>1, <3>2, <3>4, <3>5, <3>6, <3>7, Zenon
  <2> QED BY <2>1, <2>2
<1>6. PICK g \in Disk : \E op \in BOOLEAN, q \in Nat :
         /\ ready = [files |-> g, open |-> op, pos |-> q, size |-> q]
         /\ Good(g, q, top, cl, fl)
         /\ op => g[0] # NoFile /\ q <= Len(g[0]) /\ q + 1 <= MaxSize
  BY <1>5
<1>7. PICK op \in BOOLEAN, q \in Nat :
         /\ ready = [files |-> g, open |-> op, pos |-> q, size |-> q]
         /\ Good(g, q, top, cl, fl)
         /\ op => g[0] # NoFile /\ q <= Len(g[0]) /\ q + 1 <= MaxSize
  BY <1>6
<1>8. ready.files = g /\ ready.open = op /\ ready.pos = q /\ ready.size = q
  BY <1>7
<1> HIDE DEF ready
<1>9. Latest' = buf /\ reader' \in {"read", "over"}
  BY <1>1 DEF AfterLog, Latest
<1>10. /\ rotator' \in LogState /\ rotator'.size = rotator'.pos
       /\ rotator'.open => rotator'.files[0] # NoFile /\ rotator'.pos <= Len(rotator'.files[0])
       /\ Good(rotator'.files, rotator'.pos, buf, cl, fl)
  <2>1. CASE ok
    <3> DEFINE g2 == [g EXCEPT ![0] = IF q < Len(g[0]) THEN [g[0] EXCEPT ![q + 1] = buf] ELSE Append(g[0], buf)]
    <3>1. g[0] # NoFile /\ q <= Len(g[0]) /\ q + 1 <= MaxSize /\ op
      BY <1>7, <1>8, <2>1
    <3>2. Good(g2, q + 1, buf, cl, fl) /\ g2[0] # NoFile /\ q + 1 <= Len(g2[0])
      <4>1. g2 = [g EXCEPT ![0] = IF q < Len(g[0]) THEN [g[0] EXCEPT ![q + 1] = top + 1] ELSE Append(g[0], top + 1)]
            /\ top + 1 <= MaxChunks
        BY <1>3, Zenon
      <4> HIDE DEF g2, cl, fl, top
      <4> QED BY <1>3, <1>7, <3>1, <4>1, PutGood, Zenon
    <3>3. rotator' = [files |-> g2, open |-> op, pos |-> q + 1, size |-> q + 1]
      <4>1. rotator' = Put(ready, buf)
        BY <1>1, <2>1
      <4> QED BY <1>7, <4>1, Zenon DEF Put
    <3>4. g2 \in Disk
      BY <3>2 DEF Good
    <3> HIDE DEF g2, cl, fl
    <3>5. q + 1 \in Nat
      OBVIOUS
    <3>6. rotator' \in LogState
      BY <3>3, <3>4, <3>5 DEF LogState, Disk
    <3> QED BY <3>1, <3>2, <3>3, <3>6
  <2>2. CASE ~ok
    <3>1. rotator' = [files |-> g, open |-> op, pos |-> q, size |-> q]
      BY <1>1, <1>7, <2>2
    <3>2. fl = TRUE
      BY <2>2
    <3>3. \A c : On(g, c) => c \in Int
      BY TextSeq DEF On
    <3>4. Good(g, q, buf, cl, fl)
      <4> HIDE DEF cl, fl
      <4>1. top \in Int
        BY <1>3
      <4>2. Good(g, q, top + 1, cl, TRUE)
        <5> HIDE DEF top
        <5> QED BY <1>7, <3>3, <4>1, SkipGood, Zenon
      <4> QED BY <1>3, <3>2, <4>2, Zenon
    <3> HIDE DEF cl, fl
    <3>5. rotator' \in LogState
      BY <3>1 DEF LogState, Disk
    <3> QED BY <1>7, <3>1, <3>4, <3>5
  <2> QED BY <2>1, <2>2
<1>11. closer' = "closed" /\ kind' # "ssh" => FALSE
  BY <1>1 DEF LogInv
<1>12. FileTypeOK'
  <2>1. {hungUp', failed', faulty', misnamed', clobbered'} \subseteq BOOLEAN
    <3>1. {hungUp, failed, faulty, misnamed, clobbered} \subseteq BOOLEAN
      BY DEF LogInv, FileTypeOK
    <3> QED BY <1>1, <3>1
  <2> QED BY <1>1, <1>9, <1>10, <2>1 DEF LogInv, FileTypeOK
<1>13. faulty' => failed' \/ misnamed'
  <2>1. full /\ refused => ~ok
    BY DEF Rotate, ready
  <2>2. faulty => failed \/ misnamed
    BY DEF LogInv
  <2> QED BY <1>1, <2>1, <2>2
<1>14. ASSUME kind' = "ssh" PROVE failed' => reader' = "over"
  BY <1>1, <1>14 DEF AfterLog, LogInv
\* Over SSH this is the first chunk that can fail.
<1>15. ASSUME kind' = "ssh", ~misnamed' PROVE Run(rotator'.files, LogEnd')
  <2>1. kind = "ssh" /\ ~misnamed /\ ~failed /\ ~faulty /\ (full => F = {})
    BY <1>1, <1>15 DEF LogInv
  <2>2. ~clobbered /\ Whole(rotator.files, top) /\ Good(rotator.files, rotator.pos, top, FALSE, FALSE)
    BY <1>4, <2>1 DEF Good
  <2>3. CASE ok
    <3>1. LogEnd' = buf /\ faulty' = FALSE
      BY <1>1, <1>9, <1>13, <1>15, <2>1, <2>3 DEF LogEnd
    <3>2. Good(rotator'.files, rotator'.pos, buf, cl, FALSE)
      BY <1>1, <1>10, <3>1, Zenon
    <3> QED BY <3>1, <3>2 DEF Good, Whole
  <2>4. CASE ~ok
    <3>1. LogEnd' = top /\ rotator' = ready
      BY <1>1, <2>4 DEF LogEnd
    <3>2. CASE ~full
      BY <2>2, <3>1, <3>2 DEF ready, Whole
    <3>3. CASE full
      <4>1. ready.files = Shift(rotator.files, {}) \/ ready.files = Reopen(Shift(rotator.files, {}))
        <5>1. ready = Rotate(rotator, {}, refused)
          BY <2>1, <3>3 DEF ready
        <5> QED BY <1>2, <5>1, Zenon DEF Rotate, LogState
      <4>2. rotator.pos + 1 > MaxSize /\ top \in Int
        <5>1. rotator.pos + 1 > MaxSize
          BY <1>3, <3>3, Zenon
        <5> QED BY <1>3, <5>1
      <4> HIDE DEF top
      <4>3. Run(ready.files, top)
        BY <2>2, <4>1, <4>2, RotateRun
      <4> QED BY <3>1, <4>3
    <3> QED BY <3>2, <3>3
  <2> QED BY <2>3, <2>4
<1> QED BY <1>1, <1>9, <1>10, <1>11, <1>12, <1>13, <1>14, <1>15 DEF LogInv

\* Every step keeps the invariant.
LEMMA LogInvStep == LogInv /\ [FileNext]_fileVars => LogInv'
<1> SUFFICES ASSUME LogInv, [FileNext]_fileVars PROVE LogInv'
  OBVIOUS
<1>1. CASE ReadTerminal
  <2>1. /\ rotator' = rotator /\ clobbered' = clobbered /\ faulty' = faulty /\ buf' = buf + 1 /\ reader' = "log"
        /\ kind' = kind /\ closer' = closer /\ hungUp' = hungUp /\ failed' = failed /\ misnamed' = misnamed
        /\ closer = "none" /\ buf < MaxChunks /\ reader = "read"
    BY <1>1 DEF ReadTerminal
  <2>2. buf \in Nat /\ MaxChunks \in Nat
    BY LogAssumption DEF LogInv, FileTypeOK
  <2>3. Latest' = Latest /\ (kind = "ssh" => LogEnd' = LogEnd)
    BY <2>1, <2>2 DEF Latest, LogEnd, LogInv
  <2>4. FileTypeOK'
    BY <2>1, <2>2 DEF LogInv, FileTypeOK
  <2> QED BY <2>1, <2>2, <2>3, <2>4 DEF LogInv
<1>2. CASE LogWrite
  BY <1>2, WriteLogInv DEF LogWrite
<1>3. CASE HangUp
  <2>1. Latest' = Latest /\ LogEnd' = LogEnd
    BY <1>3 DEF HangUp, Latest, LogEnd
  <2> QED BY <1>3, <2>1 DEF HangUp, LogInv, FileTypeOK
<1>4. CASE ReadEnds
  <2>1. Latest' = Latest /\ LogEnd' = LogEnd
    BY <1>4 DEF ReadEnds, Latest, LogEnd
  <2> QED BY <1>4, <2>1 DEF ReadEnds, LogInv, FileTypeOK
<1>5. CASE CloseTerminal
  <2>1. Latest' = Latest /\ LogEnd' = LogEnd
    BY <1>5 DEF CloseTerminal, Latest, LogEnd
  <2> QED BY <1>5, <2>1 DEF CloseTerminal, LogInv, FileTypeOK
<1>6. CASE CloseLog
  <2>1. Latest' = Latest /\ LogEnd' = LogEnd
    BY <1>6 DEF CloseLog, Latest, LogEnd
  <2>2. /\ rotator \in LogState /\ rotator' = [rotator EXCEPT !.open = FALSE]
        /\ clobbered' = clobbered /\ faulty' = faulty /\ buf' = buf /\ reader' = reader
        /\ kind' = kind /\ hungUp' = hungUp /\ failed' = failed /\ misnamed' = misnamed
        /\ closer' = "closed" /\ (kind # "ssh" => reader = "over")
    BY <1>6 DEF CloseLog, LogInv, FileTypeOK
  <2>3. /\ rotator' \in LogState /\ rotator'.files = rotator.files /\ rotator'.pos = rotator.pos
        /\ rotator'.size = rotator.size /\ rotator'.open = FALSE
    BY <2>2, Zenon DEF LogState
  <2>4. FileTypeOK'
    BY <2>2, <2>3 DEF LogInv, FileTypeOK
  <2> QED BY <2>1, <2>2, <2>3, <2>4 DEF LogInv
<1>7. CASE UNCHANGED fileVars
  <2>1. Latest' = Latest /\ LogEnd' = LogEnd
    BY <1>7 DEF fileVars, Latest, LogEnd
  <2> QED BY <1>7, <2>1 DEF fileVars, LogInv, FileTypeOK
<1> QED BY <1>1, <1>2, <1>3, <1>4, <1>5, <1>6, <1>7 DEF FileNext

\* logRotator: over any number of rotations, whatever renames, opens and writes
\* fail, the files hold the output in order and within their size, and without
\* a gap as long as nothing failed.
THEOREM LogCorrect == FileSpec => []LogIntact
<1>1. FileInit => LogInv
  BY LogInvInit
<1>2. LogInv /\ [FileNext]_fileVars => LogInv'
  BY LogInvStep
<1>3. LogInv => LogIntact
  BY LogInvImplies
<1> QED BY <1>1, <1>2, <1>3, PTL DEF FileSpec

\* Close of a local or serial session waits for its reader, and so leaves the
\* whole output in a closed log.
THEOREM CloseCorrect == FileSpec => []CloseKeepsOutput
<1>1. FileInit => LogInv
  BY LogInvInit
<1>2. LogInv /\ [FileNext]_fileVars => LogInv'
  BY LogInvStep
<1>3. LogInv => CloseKeepsOutput
  BY LogInvImplies
<1> QED BY <1>1, <1>2, <1>3, PTL DEF FileSpec

\* Over SSH a chunk that the log could not take ends the copy: the log has no gap
\* and lacks at most the ring buffer's last chunk.
THEOREM SshLogCorrect == FileSpec => []SshLogKeepsUp
<1>1. FileInit => LogInv
  BY LogInvInit
<1>2. LogInv /\ [FileNext]_fileVars => LogInv'
  BY LogInvStep
<1>3. LogInv => SshLogKeepsUp
  BY LogInvImplies
<1> QED BY <1>1, <1>2, <1>3, PTL DEF FileSpec

-----------------------------------------------------------------------------
(* Reading the screen *)

\* ReaderTypeOK without the bound on `shown`, and where positions may be.
ReaderTypes ==
    /\ TypeOK /\ written <= MaxBytes /\ isAlive \in BOOLEAN
    /\ pc \in [Caller -> Labels] /\ mode \in [Caller -> {"first", "loop", "final", "cursor"}]
    /\ snap \in [Caller -> 0 .. MaxBytes] /\ cursor \in [Caller -> 0 .. MaxBytes]
    /\ cur \in [Caller -> Chunks] /\ last \in [Caller -> Chunks]
    /\ hasOutput \in [Caller -> BOOLEAN]
    /\ how \in [Caller -> {"none", "settled", "prompt", "timeout"}]
    /\ late \in [Caller -> BOOLEAN] /\ cancelled \in [Caller -> BOOLEAN]
    /\ calls \in 0 .. MaxRequests
    /\ consumed \subseteq 1 .. MaxBytes /\ passedOver \subseteq 1 .. MaxBytes
    /\ shown \in [1 .. MaxBytes -> Nat]

\* What a caller holds is in the log, and says what it should.
Held(c) ==
    /\ cur[c].from >= 0 /\ End(cur[c]) <= written
    /\ snap[c] <= written /\ cursor[c] <= written
    /\ pc[c] = "truncated" => cur[c].from = snap[c] \/ snap[c] < Oldest
    /\ pc[c] = "check" /\ how[c] = "settled" => cur[c].bytes = last[c].bytes

\* The calls on the session are serialised.
Alone == \A c, d \in Caller : c = d

\* What serialised calls have done to the bytes,
Shared ==
    /\ Accounted
    /\ \A p \in 1 .. MaxBytes : shown[p] <= calls
    /\ written <= Size => \A p \in 1 .. MaxBytes : shown[p] <= 1 /\ (shown[p] # 0 => p <= mark)

\* and what the call under way may rely on: nobody else moves the mark.
Own(c) ==
    /\ pc[c] = "idle" => ~hasOutput[c]
    /\ pc[c] # "idle" => \A p \in 1 .. MaxBytes : shown[p] < calls
    /\ pc[c] \in {"read", "judge", "check", "advance"} => snap[c] = mark
    /\ pc[c] \in {"since", "read", "judge", "sleep", "check", "advance"} /\ hasOutput[c] => mark < written
    /\ pc[c] \in {"judge", "check", "advance"} =>
         /\ cur[c].from >= mark /\ (cur[c].from = mark \/ cur[c].from <= Oldest)
         /\ hasOutput[c] => cur[c].bytes # <<>>
    /\ pc[c] \in {"check", "advance"} /\ how[c] \in {"settled", "prompt"} => cur[c].bytes # <<>>
    /\ pc[c] = "respond" /\ written <= Size => \A p \in Span(cur[c]) : p <= mark /\ shown[p] = 0

\* The inductive invariant.
ReaderInv ==
    /\ ReaderTypes /\ \A c \in Caller : Held(c)
    /\ Alone => Shared /\ \A c \in Caller : Own(c)

\* What the two reads return.
LEMMA ReadSinceIs ==
    ASSUME ReaderTypes, NEW s \in 0 .. MaxBytes, s <= written
    PROVE  /\ StartOf(s) \in 0 .. written /\ StartOf(s) >= s
           /\ StartOf(s) = s \/ (s < Oldest /\ StartOf(s) = Oldest)
           /\ s < written => StartOf(s) < written
           /\ ReadSince(s) \in Seq(Byte) /\ Len(ReadSince(s)) = written - StartOf(s)
           /\ \A m \in 0 .. 1 : LET r == ReadSinceMax(s, m)
                                IN  /\ r.out \in Seq(Byte) /\ Len(r.out) \in Nat
                                    /\ r.cursor - Len(r.out) = StartOf(s) /\ r.cursor \in 0 .. written
<1>1. log \in Seq(Byte) /\ written = Len(log) /\ Len(log) \in Nat /\ Size \in Nat \ {0} /\ MaxBytes \in Nat
  BY SizeAssumption, MaxBytesAssumption DEF ReaderTypes, TypeOK, written
<1>2. /\ StartOf(s) \in 0 .. written /\ StartOf(s) >= s
      /\ StartOf(s) = s \/ (s < Oldest /\ StartOf(s) = Oldest)
      /\ s < written => StartOf(s) < written
  BY <1>1 DEF StartOf, Oldest
<1>3. ASSUME NEW a \in 0 .. Len(log), NEW b \in a .. Len(log)
      PROVE  SubSeq(log, a + 1, b) \in Seq(Byte) /\ Len(SubSeq(log, a + 1, b)) = b - a
  BY <1>1
<1>4. ReadSince(s) \in Seq(Byte) /\ Len(ReadSince(s)) = written - StartOf(s)
  <2>1. ReadSince(s) = SubSeq(log, StartOf(s) + 1, Len(log))
    BY <1>1 DEF ReadSince
  <2>2. StartOf(s) \in 0 .. Len(log) /\ Len(log) \in StartOf(s) .. Len(log)
    BY <1>1, <1>2
  <2> QED BY <1>1, <1>3, <2>1, <2>2
<1>5. ASSUME NEW m \in 0 .. 1
      PROVE  LET r == ReadSinceMax(s, m)
             IN  /\ r.out \in Seq(Byte) /\ Len(r.out) \in Nat
                 /\ r.cursor - Len(r.out) = StartOf(s) /\ r.cursor \in 0 .. written
  <2> DEFINE r == ReadSinceMax(s, m)
             a == StartOf(s)
             n == IF m > 0 /\ written - a > m THEN m ELSE written - a
  <2>1. a \in 0 .. Len(log) /\ ~(StartOf(s) > written)
    BY <1>1, <1>2
  <2>2. n \in 0 .. Len(log) - a
    BY <1>1, <2>1
  <2>3. r.out = SubSeq(log, a + 1, a + n) /\ r.cursor = a + n
    BY <2>1, Zenon DEF ReadSinceMax
  <2> HIDE DEF r, n, a
  <2>4. a + n \in a .. Len(log)
    BY <1>1, <2>1, <2>2
  <2>5. r.out \in Seq(Byte) /\ Len(r.out) = (a + n) - a
    BY <1>3, <2>1, <2>3, <2>4
  <2>6. Len(r.out) \in Nat /\ r.cursor - Len(r.out) = a /\ r.cursor \in 0 .. written
    BY <1>1, <2>1, <2>2, <2>3, <2>4, <2>5
  <2> QED BY <2>5, <2>6 DEF r, a
<1> QED BY <1>2, <1>4, <1>5

\* Output only makes the log longer.
LEMMA OutputGrows ==
    ASSUME TypeOK, written <= MaxBytes, Output
    PROVE  /\ TypeOK' /\ written' \in Nat /\ written <= written' /\ written' <= MaxBytes
           /\ Oldest <= Oldest' /\ mark' = mark
<1>1. PICK w \in Writer : Notify(w) \/ \E p \in Chunk : WriteBytes(w, p)
  BY DEF Output
<1>2. log \in Seq(Byte) /\ Len(log) \in Nat /\ MaxBytes \in Nat /\ Size \in Nat /\ Chunk \subseteq Seq(Byte)
      /\ mark \in 0 .. Len(log) /\ owed \subseteq Writer /\ notify \in BOOLEAN
  BY SizeAssumption, ChunkAssumption, MaxBytesAssumption DEF TypeOK
<1>3. /\ log' \in Seq(Byte) /\ Len(log) <= Len(log') /\ Len(log') <= MaxBytes /\ mark' = mark
      /\ owed' \subseteq Writer /\ notify' \in BOOLEAN
  <2>1. CASE Notify(w)
    BY <1>2, <2>1 DEF Notify, written
  <2>2. ASSUME NEW p \in Chunk, WriteBytes(w, p)
        PROVE  /\ log' \in Seq(Byte) /\ Len(log) <= Len(log') /\ Len(log') <= MaxBytes /\ mark' = mark
               /\ owed' \subseteq Writer /\ notify' \in BOOLEAN
    <3>1. p \in Seq(Byte) /\ Len(p) \in Nat /\ log' = log \o p /\ Len(log) + Len(p) <= MaxBytes
          /\ mark' = mark /\ owed' = owed \union {w} /\ notify' = notify
      BY <1>2, <2>2 DEF WriteBytes, written
    <3>2. log' \in Seq(Byte) /\ Len(log') = Len(log) + Len(p)
      BY <1>2, <3>1
    <3> QED BY <1>2, <3>1, <3>2
  <2> QED BY <1>1, <2>1, <2>2
<1>4. TypeOK'
  BY <1>2, <1>3 DEF TypeOK
<1> QED BY <1>2, <1>3, <1>4 DEF written, Oldest

\* The values a caller's invariants are about.
Same(d) ==
    /\ pc'[d] = pc[d] /\ mode'[d] = mode[d] /\ snap'[d] = snap[d] /\ cur'[d] = cur[d]
    /\ last'[d] = last[d] /\ hasOutput'[d] = hasOutput[d] /\ how'[d] = how[d] /\ cursor'[d] = cursor[d]

\* The call ends.
LEMMA EndTypes ==
    ASSUME ReaderTypes, NEW c \in Caller, Finish(c)
    PROVE  /\ pc' \in [Caller -> Labels] /\ mode' \in [Caller -> {"first", "loop", "final", "cursor"}]
           /\ snap' \in [Caller -> 0 .. MaxBytes]
           /\ cur' \in [Caller -> Chunks] /\ last' \in [Caller -> Chunks]
           /\ hasOutput' \in [Caller -> BOOLEAN]
           /\ how' \in [Caller -> {"none", "settled", "prompt", "timeout"}]
           /\ late' \in [Caller -> BOOLEAN] /\ cancelled' \in [Caller -> BOOLEAN]
           /\ pc'[c] = "idle" /\ mode'[c] = "first" /\ snap'[c] = 0 /\ cur'[c] = Empty
           /\ ~hasOutput'[c]
           /\ \A d \in Caller \ {c} : cursor'[d] = cursor[d] => Same(d)
<1>1. 0 \in 0 .. MaxBytes
  BY MaxBytesAssumption
<1>2. Empty \in Chunks
  <2>1. 0 \in -1 .. MaxBytes
    BY MaxBytesAssumption
  <2>2. <<>> \in Seq(Byte)
    OBVIOUS
  <2> QED BY <2>1, <2>2 DEF Empty, Chunks
<1>3. /\ pc' = [pc EXCEPT ![c] = "idle"] /\ mode' = [mode EXCEPT ![c] = "first"]
      /\ snap' = [snap EXCEPT ![c] = 0] /\ cur' = [cur EXCEPT ![c] = Empty]
      /\ last' = [last EXCEPT ![c] = Empty] /\ hasOutput' = [hasOutput EXCEPT ![c] = FALSE]
      /\ how' = [how EXCEPT ![c] = "none"] /\ late' = [late EXCEPT ![c] = FALSE]
      /\ cancelled' = [cancelled EXCEPT ![c] = FALSE]
  BY DEF Finish, MoveTo
<1>4. /\ pc' \in [Caller -> Labels] /\ mode' \in [Caller -> {"first", "loop", "final", "cursor"}]
      /\ how' \in [Caller -> {"none", "settled", "prompt", "timeout"}]
  BY <1>3 DEF ReaderTypes, Labels
<1>5. snap' \in [Caller -> 0 .. MaxBytes] /\ cur' \in [Caller -> Chunks] /\ last' \in [Caller -> Chunks]
  BY <1>1, <1>2, <1>3 DEF ReaderTypes
<1>6. hasOutput' \in [Caller -> BOOLEAN] /\ late' \in [Caller -> BOOLEAN] /\ cancelled' \in [Caller -> BOOLEAN]
  BY <1>3 DEF ReaderTypes
<1>7. pc'[c] = "idle" /\ mode'[c] = "first" /\ snap'[c] = 0 /\ cur'[c] = Empty /\ ~hasOutput'[c]
  BY <1>3 DEF ReaderTypes
<1>8. \A d \in Caller \ {c} : cursor'[d] = cursor[d] => Same(d)
  BY <1>3 DEF ReaderTypes, Same
<1> QED BY <1>4, <1>5, <1>6, <1>7, <1>8

\* What a poll leads to: the loop goes on, or the wait ends.
LEMMA JudgeShape ==
    ASSUME ReaderTypes, NEW c \in Caller, Judge(c)
    PROVE  /\ pc' \in [Caller -> Labels] /\ mode' \in [Caller -> {"first", "loop", "final", "cursor"}]
           /\ last' \in [Caller -> Chunks] /\ hasOutput' \in [Caller -> BOOLEAN]
           /\ how' \in [Caller -> {"none", "settled", "prompt", "timeout"}]
           /\ pc[c] = "judge"
           /\ \/ /\ pc'[c] = "sleep" /\ mode'[c] = "loop"
                 /\ hasOutput'[c] => hasOutput[c] \/ cur[c].bytes # <<>>
              \/ /\ pc'[c] = "check" /\ hasOutput'[c] = hasOutput[c] /\ last'[c] = last[c]
                 /\ \/ how'[c] = "timeout"
                    \/ hasOutput[c] /\ cur[c].bytes = last[c].bytes
           /\ \A d \in Caller \ {c} : Same(d)
<1> DEFINE Goal ==
           /\ pc' \in [Caller -> Labels] /\ mode' \in [Caller -> {"first", "loop", "final", "cursor"}]
           /\ last' \in [Caller -> Chunks] /\ hasOutput' \in [Caller -> BOOLEAN]
           /\ how' \in [Caller -> {"none", "settled", "prompt", "timeout"}]
           /\ \/ /\ pc'[c] = "sleep" /\ mode'[c] = "loop"
                 /\ hasOutput'[c] => hasOutput[c] \/ cur[c].bytes # <<>>
              \/ /\ pc'[c] = "check" /\ hasOutput'[c] = hasOutput[c] /\ last'[c] = last[c]
                 /\ \/ how'[c] = "timeout"
                    \/ hasOutput[c] /\ cur[c].bytes = last[c].bytes
           /\ \A d \in Caller \ {c} : Same(d)
<1>1. pc[c] = "judge" /\ snap' = snap /\ cur' = cur /\ cursor' = cursor
  BY DEF Judge
<1>2. ASSUME Remember(c) PROVE Goal
  <2> DEFINE v == (mode[c] = "loop" /\ hasOutput[c]) \/ cur[c].bytes # <<>>
  <2>1. /\ last' = [last EXCEPT ![c] = cur[c]] /\ hasOutput' = [hasOutput EXCEPT ![c] = v]
        /\ mode' = [mode EXCEPT ![c] = "loop"] /\ pc' = [pc EXCEPT ![c] = "sleep"] /\ how' = how
    BY <1>2 DEF Remember, MoveTo
  <2>2. v \in BOOLEAN /\ (v => hasOutput[c] \/ cur[c].bytes # <<>>)
    OBVIOUS
  <2> HIDE DEF v
  <2>3. hasOutput' \in [Caller -> BOOLEAN] /\ hasOutput'[c] = v
    BY <2>1, <2>2 DEF ReaderTypes
  <2>4. last' \in [Caller -> Chunks]
    BY <2>1 DEF ReaderTypes
  <2>5. /\ pc' \in [Caller -> Labels] /\ mode' \in [Caller -> {"first", "loop", "final", "cursor"}]
        /\ pc'[c] = "sleep" /\ mode'[c] = "loop"
    BY <2>1 DEF ReaderTypes, Labels
  <2>6. \A d \in Caller \ {c} : Same(d)
    BY <1>1, <2>1 DEF ReaderTypes, Same
  <2> QED BY <2>1, <2>2, <2>3, <2>4, <2>5, <2>6 DEF ReaderTypes
<1>3. ASSUME NEW why \in {"settled", "prompt", "timeout"}, Leave(c, why),
             why = "timeout" \/ (hasOutput[c] /\ cur[c].bytes = last[c].bytes)
      PROVE  Goal
  <2>1. how' = [how EXCEPT ![c] = why] /\ pc' = [pc EXCEPT ![c] = "check"]
        /\ mode' = mode /\ last' = last /\ hasOutput' = hasOutput
    BY <1>3 DEF Leave, MoveTo
  <2>2. /\ pc' \in [Caller -> Labels] /\ how' \in [Caller -> {"none", "settled", "prompt", "timeout"}]
        /\ pc'[c] = "check" /\ how'[c] = why
    BY <2>1 DEF ReaderTypes, Labels
  <2>3. \A d \in Caller \ {c} : Same(d)
    BY <1>1, <2>1 DEF ReaderTypes, Same
  <2> QED BY <1>3, <2>1, <2>2, <2>3 DEF ReaderTypes
<1>4. ASSUME mode[c] = "loop", MoveTo(c, "sleep"), UNCHANGED <<mode, last, hasOutput, how>> PROVE Goal
  <2>1. /\ pc' = [pc EXCEPT ![c] = "sleep"] /\ mode' = mode /\ last' = last /\ hasOutput' = hasOutput
        /\ how' = how
    BY <1>4 DEF MoveTo
  <2>2. pc' \in [Caller -> Labels] /\ pc'[c] = "sleep" /\ \A d \in Caller \ {c} : Same(d)
    BY <1>1, <2>1 DEF ReaderTypes, Labels, Same
  <2> QED BY <1>4, <2>1, <2>2 DEF ReaderTypes
<1>5. Goal
  <2> HIDE DEF Goal
  <2>1. CASE FirstPoll(c)
    BY <1>2, <2>1 DEF FirstPoll
  <2>2. CASE Changed(c)
    BY <1>2, <2>2 DEF Changed
  <2>3. CASE Unchanged(c)
    BY <1>3, <1>4, <2>3 DEF Unchanged
  <2>4. CASE FinalPoll(c)
    BY <1>3, <2>4 DEF FinalPoll
  <2> QED BY <2>1, <2>2, <2>3, <2>4 DEF Judge
<1> QED BY <1>1, <1>5

\* A step of one caller, on a log it does not write to.
LEMMA StepFrame ==
    ASSUME ReaderInv, ReaderTypes', NEW c \in Caller, log' = log,
           \A d \in Caller \ {c} : Same(d), Held(c)', Alone => Shared' /\ Own(c)'
    PROVE  ReaderInv'
<1>1. written' = written /\ Oldest' = Oldest
  BY DEF written, Oldest
<1>2. ASSUME NEW d \in Caller \ {c} PROVE Held(d)'
  <2>1. Held(d) /\ Same(d)
    BY DEF ReaderInv
  <2> QED BY <1>1, <2>1 DEF Held, Same, End
<1> QED BY <1>2 DEF ReaderInv, Alone

\* The history of the bytes is as before.
LEMMA SharedFrame ==
    ASSUME ReaderTypes, Shared, log' = log, mark' = mark, consumed' = consumed, passedOver' = passedOver,
           shown' = shown, calls' \in Nat, calls' >= calls
    PROVE  Shared'
<1>1. written' = written /\ Oldest' = Oldest
  BY DEF written, Oldest
<1>2. calls \in Nat /\ \A p \in 1 .. MaxBytes : shown[p] \in Nat
  BY MaxBytesAssumption, MaxRequestsAssumption DEF ReaderTypes
<1> QED BY <1>1, <1>2 DEF Shared, Accounted

\* The environment of one call: its deadline, its cancellation.
LEMMA EnvInv ==
    ASSUME ReaderInv, NEW c \in Caller,
           DeadlinePasses(c) \/ Cancel(c) \/ SendInputDead(c)
    PROVE  ReaderInv'
<1>1. /\ log' = log /\ mark' = mark /\ notify' = notify /\ owed' = owed /\ isAlive' = isAlive
      /\ pc' = pc /\ mode' = mode /\ snap' = snap /\ cur' = cur /\ last' = last /\ hasOutput' = hasOutput
      /\ how' = how /\ cursor' = cursor /\ consumed' = consumed /\ passedOver' = passedOver /\ shown' = shown
  BY DEF DeadlinePasses, Cancel, SendInputDead, logVars, callVars, byteVars
<1>2. calls' \in 0 .. MaxRequests /\ calls' >= calls /\ calls \in Nat
  BY MaxRequestsAssumption DEF DeadlinePasses, Cancel, SendInputDead, ReaderInv, ReaderTypes
<1>3. late' \in [Caller -> BOOLEAN] /\ cancelled' \in [Caller -> BOOLEAN]
  BY Zenon DEF DeadlinePasses, Cancel, SendInputDead, callVars, ReaderInv, ReaderTypes
<1>4. ReaderTypes'
  BY <1>1, <1>2, <1>3, Zenon DEF ReaderInv, ReaderTypes, TypeOK, written
<1>5. written' = written /\ Oldest' = Oldest
  BY <1>1 DEF written, Oldest
<1>6. \A d \in Caller : Held(d)'
  BY <1>1, <1>5 DEF ReaderInv, Held, End
<1>7. ASSUME Alone PROVE Shared' /\ \A d \in Caller : Own(d)'
  <2>1. Shared'
    BY <1>1, <1>2, <1>7, SharedFrame DEF ReaderInv
  <2>2. \A p \in 1 .. MaxBytes : shown[p] \in Nat
    BY Zenon DEF ReaderInv, ReaderTypes
  <2> QED BY <1>1, <1>2, <1>5, <1>7, <2>1, <2>2 DEF ReaderInv, Own, Span, End
<1> QED BY <1>4, <1>6, <1>7 DEF ReaderInv, Alone

\* A settling call starts; a write moves the mark to the end first.
LEMMA StartInv ==
    ASSUME ReaderInv, NEW c \in Caller, SendInput(c) \/ ReadOutput(c)
    PROVE  ReaderInv'
<1>1. /\ log' = log /\ notify' = notify /\ owed' = owed /\ isAlive' = isAlive
      /\ pc[c] = "idle" /\ pc' = [pc EXCEPT ![c] = "since"] /\ mode' = mode /\ snap' = snap /\ cur' = cur
      /\ last' = last /\ hasOutput' = hasOutput /\ how' = how /\ late' = late /\ cancelled' = cancelled
      /\ cursor' = cursor /\ consumed' = consumed /\ shown' = shown
      /\ calls < MaxRequests /\ calls' = calls + 1
      /\ \/ mark' = mark /\ passedOver' = passedOver
         \/ mark' = written /\ passedOver' = passedOver \union (mark + 1 .. written)
  BY DEF SendInput, ReadOutput, StartSettling, MoveTo, Mark, logVars, byteVars
<1>2. /\ log \in Seq(Byte) /\ written = Len(log) /\ Len(log) \in Nat /\ written' = written /\ Oldest' = Oldest
      /\ mark \in 0 .. written /\ written <= MaxBytes /\ MaxBytes \in Nat /\ MaxRequests \in Nat
      /\ calls \in 0 .. MaxRequests /\ \A p \in 1 .. MaxBytes : shown[p] \in Nat
  BY <1>1, MaxBytesAssumption, MaxRequestsAssumption DEF ReaderInv, ReaderTypes, TypeOK, written, Oldest
<1>3. pc'[c] = "since" /\ pc' \in [Caller -> Labels] /\ \A d \in Caller \ {c} : Same(d)
  BY <1>1 DEF ReaderInv, ReaderTypes, Labels, Same
<1>4. /\ mark' \in 0 .. written /\ mark' >= mark /\ passedOver' \subseteq 1 .. MaxBytes /\ calls' \in 0 .. MaxRequests
  <2>1. passedOver \subseteq 1 .. MaxBytes /\ (mark + 1 .. written) \subseteq 1 .. MaxBytes
    BY <1>2 DEF ReaderInv, ReaderTypes
  <2>2. passedOver' \subseteq 1 .. MaxBytes
    BY <1>1, <2>1, Zenon
  <2> QED BY <1>1, <1>2, <2>2
<1>5. ReaderTypes'
  BY <1>1, <1>2, <1>3, <1>4, Zenon DEF ReaderInv, ReaderTypes, TypeOK, written
<1>6. Held(c)'
  BY <1>1, <1>2, <1>3 DEF ReaderInv, Held, End
<1>7. ASSUME Alone PROVE Shared' /\ Own(c)'
  <2>1. Shared /\ Own(c)
    BY <1>7 DEF ReaderInv
  <2>2. Accounted'
    BY <1>1, <1>2, <2>1 DEF Shared, Accounted
  <2>3. Shared'
    BY <1>1, <1>2, <1>4, <2>1, <2>2 DEF Shared
  <2> QED BY <1>1, <1>2, <1>3, <2>1, <2>3 DEF Own, Shared
<1> QED BY <1>1, <1>3, <1>5, <1>6, <1>7, StepFrame

\* Since reads the mark in one step and the log in the next.
LEMMA SinceInv ==
    ASSUME ReaderInv, NEW c \in Caller, SinceMark(c) \/ SinceRead(c)
    PROVE  ReaderInv'
<1>1. /\ log' = log /\ mark' = mark /\ notify' = notify /\ owed' = owed /\ isAlive' = isAlive
      /\ mode' = mode /\ last' = last /\ hasOutput' = hasOutput /\ how' = how /\ late' = late
      /\ cancelled' = cancelled /\ cursor' = cursor /\ calls' = calls
      /\ consumed' = consumed /\ passedOver' = passedOver /\ shown' = shown
  BY DEF SinceMark, SinceRead, logVars, byteVars
<1>2. /\ log \in Seq(Byte) /\ written = Len(log) /\ Len(log) \in Nat /\ written' = written /\ Oldest' = Oldest
      /\ mark \in 0 .. written /\ written <= MaxBytes /\ MaxBytes \in Nat /\ MaxRequests \in Nat
      /\ calls \in 0 .. MaxRequests
  BY <1>1, MaxBytesAssumption, MaxRequestsAssumption DEF ReaderInv, ReaderTypes, TypeOK, written, Oldest
<1>3. Alone => Shared'
  BY <1>1, <1>2, SharedFrame DEF ReaderInv
<1>4. CASE SinceMark(c)
  <2>1. pc[c] = "since" /\ pc' = [pc EXCEPT ![c] = "read"] /\ snap' = [snap EXCEPT ![c] = mark] /\ cur' = cur
    BY <1>4 DEF SinceMark, MoveTo
  <2>2. /\ pc'[c] = "read" /\ pc' \in [Caller -> Labels] /\ snap'[c] = mark /\ snap' \in [Caller -> 0 .. MaxBytes]
        /\ \A d \in Caller \ {c} : Same(d)
    BY <1>1, <1>2, <2>1 DEF ReaderInv, ReaderTypes, Labels, Same
  <2>3. ReaderTypes'
    BY <1>1, <1>2, <2>1, <2>2, Zenon DEF ReaderInv, ReaderTypes, TypeOK, written
  <2>4. Held(c)'
    BY <1>1, <1>2, <2>1, <2>2 DEF ReaderInv, Held, End
  <2>5. Alone => Own(c)'
    BY <1>1, <1>2, <2>1, <2>2 DEF ReaderInv, Own
  <2> QED BY <1>1, <1>3, <2>2, <2>3, <2>4, <2>5, StepFrame
<1>5. CASE SinceRead(c)
  <2> DEFINE k == [from |-> StartOf(snap[c]), bytes |-> ReadSince(snap[c])]
  <2>1. pc[c] = "read" /\ pc' = [pc EXCEPT ![c] = "judge"] /\ cur' = [cur EXCEPT ![c] = k] /\ snap' = snap
    BY <1>5 DEF SinceRead, MoveTo
  <2>2. snap[c] \in 0 .. MaxBytes /\ snap[c] <= written
    BY DEF ReaderInv, ReaderTypes, Held
  <2>3. /\ k.from \in 0 .. written /\ k.from >= snap[c]
        /\ k.from = snap[c] \/ (snap[c] < Oldest /\ k.from = Oldest)
        /\ snap[c] < written => k.from < written
        /\ k.bytes \in Seq(Byte) /\ Len(k.bytes) = written - k.from
    BY <2>2, ReadSinceIs DEF ReaderInv
  <2>4. k \in Chunks
    BY <1>2, <2>3 DEF Chunks
  <2> HIDE DEF k
  <2>5. /\ pc'[c] = "judge" /\ pc' \in [Caller -> Labels] /\ cur'[c] = k /\ cur' \in [Caller -> Chunks]
        /\ \A d \in Caller \ {c} : Same(d)
    BY <1>1, <2>1, <2>4 DEF ReaderInv, ReaderTypes, Labels, Same
  <2>6. ReaderTypes'
    BY <1>1, <1>2, <2>1, <2>5, Zenon DEF ReaderInv, ReaderTypes, TypeOK, written
  <2>7. End(k) = written
    BY <1>2, <2>3 DEF End
  <2>8. Held(c)'
    BY <1>1, <1>2, <2>1, <2>3, <2>5, <2>7 DEF ReaderInv, Held, End
  <2>9. ASSUME Alone PROVE Own(c)'
    <3>1. Own(c) /\ snap[c] = mark
      BY <2>1, <2>9 DEF ReaderInv, Own
    <3>2. hasOutput[c] => mark < written /\ k.bytes # <<>>
      <4>1. k.bytes = <<>> => Len(k.bytes) = 0
        OBVIOUS
      <4>2. hasOutput[c] => mark < written
        BY <2>1, <3>1 DEF Own
      <4> QED BY <1>2, <2>3, <3>1, <4>1, <4>2
    <3>3. k.from >= mark /\ (k.from = mark \/ k.from <= Oldest)
      BY <1>2, <2>3, <3>1
    <3> QED BY <1>1, <1>2, <2>1, <2>5, <3>1, <3>2, <3>3, Zenon DEF Own
  <2> QED BY <1>1, <1>3, <2>5, <2>6, <2>8, <2>9, StepFrame
<1> QED BY <1>4, <1>5

\* The loop of WaitForSettleCtx.
LEMMA LoopInv ==
    ASSUME ReaderInv, NEW c \in Caller, Judge(c) \/ Sleep(c)
    PROVE  ReaderInv'
<1>1. /\ log' = log /\ mark' = mark /\ notify' = notify /\ owed' = owed /\ isAlive' = isAlive
      /\ snap' = snap /\ cur' = cur /\ late' = late /\ cancelled' = cancelled /\ cursor' = cursor
      /\ calls' = calls /\ consumed' = consumed /\ passedOver' = passedOver /\ shown' = shown
  BY DEF Judge, Sleep, logVars, byteVars
<1>2. /\ log \in Seq(Byte) /\ written = Len(log) /\ Len(log) \in Nat /\ written' = written /\ Oldest' = Oldest
      /\ mark \in 0 .. written /\ written <= MaxBytes /\ MaxBytes \in Nat /\ MaxRequests \in Nat
      /\ calls \in 0 .. MaxRequests
  BY <1>1, MaxBytesAssumption, MaxRequestsAssumption DEF ReaderInv, ReaderTypes, TypeOK, written, Oldest
<1>3. Alone => Shared'
  BY <1>1, <1>2, SharedFrame DEF ReaderInv
<1>4. CASE Judge(c)
  <2>1. /\ pc' \in [Caller -> Labels] /\ mode' \in [Caller -> {"first", "loop", "final", "cursor"}]
        /\ last' \in [Caller -> Chunks] /\ hasOutput' \in [Caller -> BOOLEAN]
        /\ how' \in [Caller -> {"none", "settled", "prompt", "timeout"}]
        /\ pc[c] = "judge"
        /\ \/ /\ pc'[c] = "sleep" /\ mode'[c] = "loop"
              /\ hasOutput'[c] => hasOutput[c] \/ cur[c].bytes # <<>>
           \/ /\ pc'[c] = "check" /\ hasOutput'[c] = hasOutput[c] /\ last'[c] = last[c]
              /\ \/ how'[c] = "timeout"
                 \/ hasOutput[c] /\ cur[c].bytes = last[c].bytes
        /\ \A d \in Caller \ {c} : Same(d)
    BY <1>4, JudgeShape DEF ReaderInv
  <2>2. ReaderTypes'
    BY <1>1, <1>2, <2>1, Zenon DEF ReaderInv, ReaderTypes, TypeOK, written
  <2>3. Held(c)'
    BY <1>1, <1>2, <2>1 DEF ReaderInv, Held, End
  <2>4. ASSUME Alone PROVE Own(c)'
    <3>1. Own(c)
      BY <2>4 DEF ReaderInv
    <3>2. cur[c].bytes # <<>> => mark < written
      <4>1. cur[c].bytes \in Seq(Byte) /\ cur[c].from \in Int
        BY <1>2 DEF ReaderInv, ReaderTypes, Chunks
      <4>2. cur[c].bytes # <<>> => Len(cur[c].bytes) \in Nat \ {0}
        BY <4>1
      <4>3. cur[c].from + Len(cur[c].bytes) <= written /\ cur[c].from >= mark
        BY <2>1, <3>1 DEF ReaderInv, Held, End, Own
      <4> QED BY <1>2, <4>1, <4>2, <4>3
    <3> QED BY <1>1, <1>2, <2>1, <3>1, <3>2 DEF Own
  <2> QED BY <1>1, <1>3, <2>1, <2>2, <2>3, <2>4, StepFrame
<1>5. CASE Sleep(c)
  <2>1. /\ pc[c] = "sleep" /\ pc' = [pc EXCEPT ![c] = "since"] /\ last' = last /\ hasOutput' = hasOutput /\ how' = how
        /\ mode' = mode \/ mode' = [mode EXCEPT ![c] = "final"]
    BY <1>5 DEF Sleep, MoveTo
  <2>2. /\ pc'[c] = "since" /\ pc' \in [Caller -> Labels] /\ mode' \in [Caller -> {"first", "loop", "final", "cursor"}]
        /\ \A d \in Caller \ {c} : Same(d)
    BY <1>1, <2>1, Zenon DEF ReaderInv, ReaderTypes, Labels, Same
  <2>3. ReaderTypes'
    BY <1>1, <1>2, <2>1, <2>2, Zenon DEF ReaderInv, ReaderTypes, TypeOK, written
  <2>4. Held(c)'
    BY <1>1, <1>2, <2>1, <2>2 DEF ReaderInv, Held, End
  <2>5. Alone => Own(c)'
    BY <1>1, <1>2, <2>1, <2>2 DEF ReaderInv, Own
  <2> QED BY <1>1, <1>3, <2>2, <2>3, <2>4, <2>5, StepFrame
<1> QED BY <1>4, <1>5

\* ReadScreen moves the mark by what it took, unless the call was cancelled.
LEMMA TakeInv ==
    ASSUME ReaderInv, NEW c \in Caller, CtxErr(c) \/ Advance(c)
    PROVE  ReaderInv'
<1>1. /\ log' = log /\ notify' = notify /\ owed' = owed /\ isAlive' = isAlive
      /\ mode' = mode /\ snap' = snap /\ last' = last /\ hasOutput' = hasOutput /\ how' = how /\ late' = late
      /\ cancelled' = cancelled /\ cursor' = cursor /\ calls' = calls
      /\ passedOver' = passedOver /\ shown' = shown
  BY DEF CtxErr, Advance, AdvanceMarkBy, logVars, byteVars
<1>2. /\ log \in Seq(Byte) /\ written = Len(log) /\ Len(log) \in Nat /\ written' = written /\ Oldest' = Oldest
      /\ mark \in 0 .. written /\ written <= MaxBytes /\ MaxBytes \in Nat /\ MaxRequests \in Nat
      /\ calls \in 0 .. MaxRequests
  BY <1>1, MaxBytesAssumption, MaxRequestsAssumption DEF ReaderInv, ReaderTypes, TypeOK, written, Oldest
<1>3. /\ cur[c].bytes \in Seq(Byte) /\ Len(cur[c].bytes) \in Nat /\ cur[c].from \in Nat
      /\ cur[c].from + Len(cur[c].bytes) <= written
  <2>1. cur[c].bytes \in Seq(Byte) /\ cur[c].from \in -1 .. MaxBytes
    BY DEF ReaderInv, ReaderTypes, Chunks
  <2>2. cur[c].from >= 0 /\ cur[c].from + Len(cur[c].bytes) <= written
    BY DEF ReaderInv, Held, End
  <2> QED BY <1>2, <2>1, <2>2
<1>4. CASE CtxErr(c)
  <2>1. /\ pc[c] = "check" /\ mark' = mark /\ consumed' = consumed
        /\ \/ pc' = [pc EXCEPT ![c] = "respond"] /\ cur' = [cur EXCEPT ![c] = Empty]
           \/ pc' = [pc EXCEPT ![c] = "advance"] /\ cur' = cur
    BY <1>4 DEF CtxErr, MoveTo, logVars, byteVars
  <2>2. Empty \in Chunks /\ Empty.from = 0 /\ End(Empty) = 0 /\ Span(Empty) = {}
    <3>1. 0 \in -1 .. MaxBytes
      BY <1>2
    <3>2. <<>> \in Seq(Byte)
      OBVIOUS
    <3> QED BY <3>1, <3>2 DEF Empty, Chunks, End, Span
  <2>3. /\ pc' \in [Caller -> Labels] /\ cur' \in [Caller -> Chunks] /\ \A d \in Caller \ {c} : Same(d)
        /\ \/ pc'[c] = "respond" /\ cur'[c] = Empty
           \/ pc'[c] = "advance" /\ cur'[c] = cur[c]
    BY <1>1, <2>1, <2>2, ZenonT(60) DEF ReaderInv, ReaderTypes, Labels, Same
  <2>4. ReaderTypes'
    BY <1>1, <1>2, <2>1, <2>3, Zenon DEF ReaderInv, ReaderTypes, TypeOK, written
  <2>5. Held(c)'
    BY <1>1, <1>2, <2>2, <2>3 DEF ReaderInv, Held, End
  <2>6. ASSUME Alone PROVE Shared' /\ Own(c)'
    <3>1. Shared'
      BY <1>1, <1>2, <2>1, <2>6, SharedFrame DEF ReaderInv
    <3> QED BY <1>1, <1>2, <2>1, <2>2, <2>3, <2>6, <3>1, Zenon DEF ReaderInv, Own, Span, End
  <2> QED BY <1>1, <2>3, <2>4, <2>5, <2>6, StepFrame
<1>5. CASE Advance(c)
  <2> DEFINE n == Len(cur[c].bytes)
             a == cur[c].from
  <2>1. /\ pc[c] = "advance" /\ mark' = IF mark + n > written THEN written ELSE mark + n
        /\ consumed' = consumed \union (a + 1 .. a + n)
        /\ pc' = [pc EXCEPT ![c] = "respond"] /\ cur' = cur
    BY <1>5 DEF Advance, MoveTo, AdvanceMarkBy, Span, End
  <2>2. /\ n \in Nat /\ a \in Nat /\ a + n <= written /\ mark' \in 0 .. written /\ mark' >= mark
        /\ mark' <= mark + n
    BY <1>2, <1>3, <2>1, SMTT(40)
  <2>3. consumed' \subseteq 1 .. MaxBytes
    <3>1. (a + 1 .. a + n) \subseteq 1 .. MaxBytes
      BY <1>2, <2>2
    <3> QED BY <2>1, <3>1, Zenon DEF ReaderInv, ReaderTypes
  <2>4. pc'[c] = "respond" /\ pc' \in [Caller -> Labels] /\ \A d \in Caller \ {c} : Same(d)
    BY <1>1, <2>1 DEF ReaderInv, ReaderTypes, Labels, Same
  <2>5. ReaderTypes'
    BY <1>1, <1>2, <2>1, <2>2, <2>3, <2>4, Zenon DEF ReaderInv, ReaderTypes, TypeOK, written
  <2>6. Held(c)'
    BY <1>1, <1>2, <2>1, <2>4 DEF ReaderInv, Held, End
  <2> HIDE DEF n, a
  <2>7. ASSUME Alone PROVE Shared' /\ Own(c)'
    <3>1. Shared /\ a >= mark /\ (a = mark \/ a <= Oldest)
      BY <2>1, <2>7 DEF ReaderInv, Own, a
    <3>2. Accounted'
      <4> SUFFICES ASSUME NEW p \in 1 .. mark' PROVE p \in consumed' \union passedOver' \/ p <= Oldest'
        BY DEF Accounted
      <4>1. CASE p <= mark
        <5>1. p \in 1 .. mark
          BY <1>2, <2>2, <4>1
        <5> QED BY <1>1, <1>2, <2>1, <3>1, <5>1 DEF Shared, Accounted
      <4>2. CASE p > mark
        <5>1. p \in Int /\ p <= a + n
          BY <1>2, <2>2, <3>1
        <5>2. CASE p > a
          BY <2>1, <2>2, <5>1, <5>2
        <5>3. CASE p <= a
          BY <1>2, <2>2, <3>1, <4>2, <5>1, <5>3, SizeAssumption DEF Oldest
        <5> QED BY <2>2, <5>1, <5>2, <5>3
      <4> QED BY <1>2, <2>2, <4>1, <4>2
    <3>3. Shared'
      BY <1>1, <1>2, <2>2, <3>1, <3>2 DEF Shared
    <3>4. ASSUME written <= Size, NEW p \in Span(cur[c]) PROVE p <= mark' /\ shown[p] = 0
      <4>1. Oldest = 0 /\ p \in a + 1 .. a + n
        <5>1. p \in a + 1 .. a + n
          BY <3>4 DEF Span, End, a, n
        <5>2. Size \in Nat
          BY SizeAssumption
        <5>3. Oldest = 0
          BY <1>2, <3>4, <5>2 DEF Oldest
        <5> QED BY <5>1, <5>3
      <4>2. a = mark /\ p > mark /\ p <= mark + n /\ mark' = mark + n
        BY <1>2, <2>1, <2>2, <3>1, <4>1
      <4>3. p \in 1 .. MaxBytes /\ ~(p <= mark)
        BY <1>2, <2>2, <4>1, <4>2
      <4>4. shown[p] = 0
        BY <3>1, <3>4, <4>3 DEF Shared
      <4> QED BY <4>2, <4>4
    <3>5. Own(c)
      BY <2>7 DEF ReaderInv
    <3> QED BY <1>1, <1>2, <2>1, <2>4, <3>3, <3>4, <3>5 DEF Own
  <2> QED BY <1>1, <2>4, <2>5, <2>6, <2>7, StepFrame
<1> QED BY <1>4, <1>5

\* The response is delivered, or dropped if the request was cancelled.
LEMMA RespondInv ==
    ASSUME ReaderInv, NEW c \in Caller, Respond(c)
    PROVE  ReaderInv'
<1>1. /\ log' = log /\ mark' = mark /\ notify' = notify /\ owed' = owed /\ isAlive' = isAlive
      /\ calls' = calls /\ consumed' = consumed /\ passedOver' = passedOver /\ pc[c] = "respond"
      /\ Finish(c)
      /\ \/ shown' = shown /\ cursor' = cursor
         \/ /\ shown' = [p \in 1 .. MaxBytes |-> IF p \in Span(cur[c]) THEN shown[p] + 1 ELSE shown[p]]
            /\ cursor' = [cursor EXCEPT ![c] = written]
  BY DEF Respond, logVars, Snapshot
<1>2. /\ log \in Seq(Byte) /\ written = Len(log) /\ Len(log) \in Nat /\ written' = written /\ Oldest' = Oldest
      /\ mark \in 0 .. written /\ written <= MaxBytes /\ MaxBytes \in Nat /\ MaxRequests \in Nat
      /\ calls \in 0 .. MaxRequests
  BY <1>1, MaxBytesAssumption, MaxRequestsAssumption DEF ReaderInv, ReaderTypes, TypeOK, written, Oldest
<1>3. /\ cursor' \in [Caller -> 0 .. MaxBytes] /\ cursor'[c] <= written
      /\ \A d \in Caller \ {c} : cursor'[d] = cursor[d]
  <2>1. cursor \in [Caller -> 0 .. MaxBytes] /\ cursor[c] <= written
    BY DEF ReaderInv, ReaderTypes, Held
  <2>2. cursor' = cursor \/ cursor' = [cursor EXCEPT ![c] = written]
    BY <1>1
  <2>3. written \in 0 .. MaxBytes
    BY <1>2
  <2> QED BY <2>1, <2>2, <2>3
<1>4. shown \in [1 .. MaxBytes -> Nat] /\ shown' \in [1 .. MaxBytes -> Nat]
  BY <1>1 DEF ReaderInv, ReaderTypes
<1>5. /\ pc' \in [Caller -> Labels] /\ mode' \in [Caller -> {"first", "loop", "final", "cursor"}]
      /\ snap' \in [Caller -> 0 .. MaxBytes]
      /\ cur' \in [Caller -> Chunks] /\ last' \in [Caller -> Chunks]
      /\ hasOutput' \in [Caller -> BOOLEAN]
      /\ how' \in [Caller -> {"none", "settled", "prompt", "timeout"}]
      /\ late' \in [Caller -> BOOLEAN] /\ cancelled' \in [Caller -> BOOLEAN]
      /\ pc'[c] = "idle" /\ snap'[c] = 0 /\ cur'[c] = Empty /\ ~hasOutput'[c]
      /\ \A d \in Caller \ {c} : Same(d)
  BY <1>1, <1>3, EndTypes DEF ReaderInv
<1>6. ReaderTypes'
  BY <1>1, <1>2, <1>3, <1>4, <1>5, Zenon DEF ReaderInv, ReaderTypes, TypeOK, written
<1>7. Empty.from = 0 /\ End(Empty) = 0
  BY DEF Empty, End
<1>8. Held(c)'
  BY <1>2, <1>3, <1>5, <1>7 DEF Held, End
<1>9. ASSUME Alone PROVE Shared' /\ Own(c)'
  <2>1. Shared /\ Own(c)
    BY <1>9 DEF ReaderInv
  <2>2. Accounted'
    BY <1>1, <1>2, <2>1 DEF Shared, Accounted
  <2>3. ASSUME NEW p \in 1 .. MaxBytes
        PROVE  /\ shown'[p] <= calls
               /\ written <= Size => shown'[p] <= 1 /\ (shown'[p] # 0 => p <= mark)
    <3>1. shown[p] \in Nat /\ shown[p] < calls
      BY <1>1, <1>4, <2>1 DEF Own
    <3>2. written <= Size => shown[p] <= 1 /\ (shown[p] # 0 => p <= mark)
      BY <2>1 DEF Shared
    <3>3. CASE p \in Span(cur[c]) /\ shown' # shown
      <4>1. shown'[p] = shown[p] + 1
        BY <1>1, <3>3, Zenon
      <4>2. written <= Size => p <= mark /\ shown[p] = 0
        BY <1>1, <2>1, <3>3 DEF Own
      <4> QED BY <1>2, <3>1, <4>1, <4>2
    <3>4. CASE ~(p \in Span(cur[c]) /\ shown' # shown)
      <4>1. shown'[p] = shown[p]
        BY <1>1, <3>4, Zenon
      <4> QED BY <1>2, <3>1, <3>2, <4>1
    <3> QED BY <3>3, <3>4
  <2>4. Shared'
    BY <1>1, <1>2, <2>2, <2>3 DEF Shared
  <2> QED BY <1>5, <2>4 DEF Own
<1> QED BY <1>1, <1>5, <1>6, <1>8, <1>9, StepFrame

\* read_output with a cursor: the bytes, then the flag and the next cursor.
LEMMA CursorInv ==
    ASSUME ReaderInv, NEW c \in Caller, ReadCursor(c) \/ RespondCursor(c)
    PROVE  ReaderInv'
<1>1. /\ log' = log /\ mark' = mark /\ notify' = notify /\ owed' = owed /\ isAlive' = isAlive
      /\ consumed' = consumed /\ passedOver' = passedOver /\ shown' = shown
  BY DEF ReadCursor, RespondCursor, logVars, byteVars
<1>2. /\ log \in Seq(Byte) /\ written = Len(log) /\ Len(log) \in Nat /\ written' = written /\ Oldest' = Oldest
      /\ mark \in 0 .. written /\ written <= MaxBytes /\ MaxBytes \in Nat /\ MaxRequests \in Nat
      /\ calls \in 0 .. MaxRequests /\ \A p \in 1 .. MaxBytes : shown[p] \in Nat
  BY <1>1, MaxBytesAssumption, MaxRequestsAssumption DEF ReaderInv, ReaderTypes, TypeOK, written, Oldest
<1>3. CASE ReadCursor(c)
  <2>1. /\ pc[c] = "idle" /\ calls < MaxRequests /\ calls' = calls + 1
        /\ pc' = [pc EXCEPT ![c] = "truncated"] /\ mode' = [mode EXCEPT ![c] = "cursor"]
        /\ snap' = [snap EXCEPT ![c] = cursor[c]]
        /\ last' = last /\ hasOutput' = hasOutput /\ how' = how /\ late' = late
        /\ cancelled' = cancelled /\ cursor' = cursor
    BY <1>3 DEF ReadCursor, MoveTo
  <2>2. PICK m \in 0 .. 1 :
          cur' = [cur EXCEPT ![c] = [from  |-> ReadSinceMax(cursor[c], m).cursor - Len(ReadSinceMax(cursor[c], m).out),
                                     bytes |-> ReadSinceMax(cursor[c], m).out]]
    BY <1>3, Zenon DEF ReadCursor
  <2> DEFINE r == ReadSinceMax(cursor[c], m)
             k == [from |-> r.cursor - Len(r.out), bytes |-> r.out]
  <2>3. cursor[c] \in 0 .. MaxBytes /\ cursor[c] <= written
    BY DEF ReaderInv, ReaderTypes, Held
  <2>4. /\ StartOf(cursor[c]) \in 0 .. written
        /\ StartOf(cursor[c]) = cursor[c] \/ cursor[c] < Oldest
        /\ r.out \in Seq(Byte) /\ Len(r.out) \in Nat
        /\ r.cursor - Len(r.out) = StartOf(cursor[c]) /\ r.cursor \in 0 .. written
    BY <2>3, ReadSinceIs DEF ReaderInv
  <2>5. cur' = [cur EXCEPT ![c] = k]
    BY <2>2
  <2> HIDE DEF r
  <2>6. /\ k \in Chunks /\ k.from >= 0 /\ End(k) <= written
        /\ k.from = cursor[c] \/ cursor[c] < Oldest
    BY <1>2, <2>4 DEF Chunks, End
  <2> HIDE DEF k
  <2>7. /\ pc'[c] = "truncated" /\ pc' \in [Caller -> Labels] /\ cur'[c] = k /\ cur' \in [Caller -> Chunks]
        /\ mode' \in [Caller -> {"first", "loop", "final", "cursor"}] /\ snap'[c] = cursor[c]
        /\ snap' \in [Caller -> 0 .. MaxBytes] /\ \A d \in Caller \ {c} : Same(d)
    BY <1>1, <2>1, <2>3, <2>5, <2>6 DEF ReaderInv, ReaderTypes, Labels, Same
  <2>8. calls' \in 0 .. MaxRequests /\ calls' \in Nat /\ calls' >= calls
    BY <1>2, <2>1
  <2>9. ReaderTypes'
    BY <1>1, <1>2, <2>1, <2>7, <2>8, Zenon DEF ReaderInv, ReaderTypes, TypeOK, written
  <2>10. Held(c)'
    BY <1>2, <2>1, <2>3, <2>6, <2>7 DEF Held, End
  <2>11. ASSUME Alone PROVE Shared' /\ Own(c)'
    <3>1. Shared' /\ Shared
      BY <1>1, <2>8, <2>11, SharedFrame DEF ReaderInv
    <3> QED BY <1>1, <1>2, <2>1, <2>7, <3>1, SMTT(40) DEF Own, Shared
  <2> QED BY <1>1, <2>7, <2>9, <2>10, <2>11, StepFrame
<1>4. CASE RespondCursor(c)
  <2>1. /\ pc[c] = "truncated" /\ calls' = calls /\ Finish(c)
        /\ cursor' = cursor \/ cursor' = [cursor EXCEPT ![c] = End(cur[c])]
    BY <1>4 DEF RespondCursor
  <2>2. End(cur[c]) \in 0 .. written
    <3>1. cur[c].bytes \in Seq(Byte) /\ cur[c].from \in -1 .. MaxBytes
      BY DEF ReaderInv, ReaderTypes, Chunks
    <3>2. cur[c].from >= 0 /\ cur[c].from + Len(cur[c].bytes) <= written
      BY DEF ReaderInv, Held, End
    <3> QED BY <1>2, <3>1, <3>2 DEF End
  <2>3. /\ cursor' \in [Caller -> 0 .. MaxBytes] /\ cursor'[c] <= written
        /\ \A d \in Caller \ {c} : cursor'[d] = cursor[d]
    <3>1. cursor \in [Caller -> 0 .. MaxBytes] /\ cursor[c] <= written
      BY DEF ReaderInv, ReaderTypes, Held
    <3>2. CASE cursor' = cursor
      BY <3>1, <3>2
    <3>3. ASSUME NEW e \in 0 .. written, cursor' = [cursor EXCEPT ![c] = e]
          PROVE  /\ cursor' \in [Caller -> 0 .. MaxBytes] /\ cursor'[c] <= written
                 /\ \A d \in Caller \ {c} : cursor'[d] = cursor[d]
      BY <1>2, <3>1, <3>3
    <3> QED BY <2>1, <2>2, <3>2, <3>3
  <2>4. /\ pc' \in [Caller -> Labels] /\ mode' \in [Caller -> {"first", "loop", "final", "cursor"}]
        /\ snap' \in [Caller -> 0 .. MaxBytes]
        /\ cur' \in [Caller -> Chunks] /\ last' \in [Caller -> Chunks]
        /\ hasOutput' \in [Caller -> BOOLEAN]
        /\ how' \in [Caller -> {"none", "settled", "prompt", "timeout"}]
        /\ late' \in [Caller -> BOOLEAN] /\ cancelled' \in [Caller -> BOOLEAN]
        /\ pc'[c] = "idle" /\ snap'[c] = 0 /\ cur'[c] = Empty /\ ~hasOutput'[c]
        /\ \A d \in Caller \ {c} : Same(d)
    BY <2>1, <2>3, EndTypes DEF ReaderInv
  <2>5. ReaderTypes'
    BY <1>1, <1>2, <2>1, <2>3, <2>4, Zenon DEF ReaderInv, ReaderTypes, TypeOK, written
  <2>6. Empty.from = 0 /\ End(Empty) = 0
    BY DEF Empty, End
  <2>7. Held(c)'
    BY <1>2, <2>3, <2>4, <2>6 DEF Held, End
  <2>8. Alone => Shared'
    BY <1>1, <1>2, <2>1, SharedFrame DEF ReaderInv
  <2>9. Own(c)'
    BY <2>4 DEF Own
  <2> QED BY <1>1, <2>4, <2>5, <2>7, <2>8, <2>9, StepFrame
<1> QED BY <1>3, <1>4

\* Output arrives, or the process exits.
LEMMA TerminalInv ==
    ASSUME ReaderInv,
           SessionOutput \/ Exit \/ UNCHANGED readerVars
    PROVE  ReaderInv'
<1>1. /\ isAlive' \in BOOLEAN
      /\ pc' = pc /\ mode' = mode /\ snap' = snap /\ cur' = cur /\ last' = last /\ hasOutput' = hasOutput
      /\ how' = how /\ late' = late /\ cancelled' = cancelled /\ cursor' = cursor /\ calls' = calls
      /\ consumed' = consumed /\ passedOver' = passedOver /\ shown' = shown
  BY Zenon DEF SessionOutput, Exit, readerVars, callVars, byteVars, ReaderInv, ReaderTypes
<1>2. /\ written \in Nat /\ mark \in 0 .. written /\ MaxBytes \in Nat /\ Size \in Nat /\ TypeOK
      /\ written <= MaxBytes /\ Oldest \in Int
  BY MaxBytesAssumption, SizeAssumption DEF ReaderInv, ReaderTypes, TypeOK, written, Oldest
<1>3. /\ TypeOK' /\ written' \in Nat /\ written <= written' /\ written' <= MaxBytes
      /\ Oldest <= Oldest' /\ mark' = mark
  <2>1. CASE SessionOutput
    BY <1>2, <2>1, OutputGrows DEF SessionOutput
  <2>2. CASE Exit \/ UNCHANGED readerVars
    BY <1>2, <2>2 DEF Exit, readerVars, logVars, TypeOK, written, Oldest
  <2> QED BY <2>1, <2>2
<1>4. Oldest' \in Int
  BY <1>2, <1>3 DEF Oldest
<1>5. ReaderTypes'
  BY <1>1, <1>3 DEF ReaderInv, ReaderTypes
<1>6. ASSUME NEW c \in Caller PROVE Held(c)' /\ (Alone => Own(c)')
  <2>1. /\ cur[c].bytes \in Seq(Byte) /\ cur[c].from \in Int /\ snap[c] \in Int /\ cursor[c] \in Int
        /\ End(cur[c]) \in Int
    BY <1>2 DEF ReaderInv, ReaderTypes, Chunks, End
  <2>2. Held(c)'
    BY <1>1, <1>2, <1>3, <1>4, <2>1, SMTT(40) DEF ReaderInv, Held, End
  <2>3. ASSUME Alone PROVE Own(c)'
    <3>1. Own(c) /\ (written' <= Size => written <= Size)
      BY <1>2, <1>3, <2>3 DEF ReaderInv
    <3> QED BY <1>1, <1>2, <1>3, <1>4, <2>1, <3>1 DEF Own, Span, End
  <2> QED BY <2>2, <2>3
<1>7. ASSUME Alone PROVE Shared'
  <2>1. Shared /\ (written' <= Size => written <= Size)
    BY <1>2, <1>3, <1>7 DEF ReaderInv
  <2>2. Accounted'
    BY <1>1, <1>2, <1>3, <1>4, <2>1 DEF Shared, Accounted
  <2> QED BY <1>1, <1>3, <2>1, <2>2 DEF Shared
<1> QED BY <1>5, <1>6, <1>7 DEF ReaderInv, Alone

\* The invariant holds in the beginning,
LEMMA ReaderInvInit == ReaderInit => ReaderInv
<1> SUFFICES ASSUME ReaderInit PROVE ReaderInv
  OBVIOUS
<1>1. Empty \in Chunks /\ Empty.from = 0 /\ End(Empty) = 0
  <2>1. 0 \in -1 .. MaxBytes
    BY MaxBytesAssumption
  <2>2. <<>> \in Seq(Byte)
    OBVIOUS
  <2> QED BY <2>1, <2>2 DEF Empty, Chunks, End
<1>2. log \in Seq(Byte) /\ written = 0 /\ TypeOK /\ mark = 0
  <2>1. <<>> \in Seq(Byte) /\ Len(<<>>) = 0
    OBVIOUS
  <2>2. log = <<>> /\ mark = 0 /\ notify = FALSE /\ owed = {}
    BY DEF ReaderInit, LogInit
  <2>3. mark \in 0 .. Len(log)
    BY <2>1, <2>2
  <2> QED BY <2>1, <2>2, <2>3, Zenon DEF TypeOK, written
<1>3. MaxBytes \in Nat /\ MaxRequests \in Nat /\ Size \in Nat /\ Oldest = 0
  BY <1>2, MaxBytesAssumption, MaxRequestsAssumption, SizeAssumption DEF Oldest
<1>4. ReaderTypes
  <2>1. isAlive \in BOOLEAN /\ hasOutput \in [Caller -> BOOLEAN] /\ late \in [Caller -> BOOLEAN] /\ cancelled \in [Caller -> BOOLEAN]
    BY DEF ReaderInit
  <2>2. /\ pc \in [Caller -> Labels] /\ mode \in [Caller -> {"first", "loop", "final", "cursor"}]
        /\ how \in [Caller -> {"none", "settled", "prompt", "timeout"}]
    BY DEF ReaderInit, Labels
  <2>3. cur \in [Caller -> Chunks] /\ last \in [Caller -> Chunks]
    BY <1>1 DEF ReaderInit
  <2>4. /\ snap \in [Caller -> 0 .. MaxBytes] /\ cursor \in [Caller -> 0 .. MaxBytes] /\ calls \in 0 .. MaxRequests
        /\ consumed \subseteq 1 .. MaxBytes /\ passedOver \subseteq 1 .. MaxBytes
        /\ shown \in [1 .. MaxBytes -> Nat]
    BY <1>3 DEF ReaderInit
  <2> QED BY <1>2, <1>3, <2>1, <2>2, <2>3, <2>4 DEF ReaderTypes
<1>5. \A c \in Caller : pc[c] = "idle" /\ ~hasOutput[c] /\ cur[c] = Empty /\ snap[c] = 0 /\ cursor[c] = 0
  BY DEF ReaderInit
<1>6. \A c \in Caller : Held(c) /\ Own(c)
  BY <1>1, <1>2, <1>5 DEF Held, Own
<1>7. Shared
  BY <1>2, <1>3 DEF Shared, Accounted, ReaderInit
<1> QED BY <1>4, <1>6, <1>7 DEF ReaderInv

\* and every step keeps it.
LEMMA ReaderInvStep == ReaderInv /\ [ReaderNext]_readerVars => ReaderInv'
<1> SUFFICES ASSUME ReaderInv, [ReaderNext]_readerVars PROVE ReaderInv'
  OBVIOUS
<1>1. ASSUME NEW c \in Caller, StartCall(c) \/ ReaderStep(c) \/ DeadlinePasses(c) \/ Cancel(c)
      PROVE  ReaderInv'
  BY <1>1, EnvInv, StartInv, SinceInv, LoopInv, TakeInv, RespondInv, CursorInv DEF StartCall, ReaderStep
<1> QED BY <1>1, TerminalInv DEF ReaderNext

\* A cursor read that lost bytes says so, however many requests read the
\* session at the same time, although the flag is computed after the read.
THEOREM TruncationCorrect == ReaderSpec => []TruncationFlagged
<1>1. ReaderInit => ReaderInv
  BY ReaderInvInit
<1>2. ReaderInv /\ [ReaderNext]_readerVars => ReaderInv'
  BY ReaderInvStep
<1>3. ReaderInv => TruncationFlagged
  <2> SUFFICES ASSUME ReaderInv, NEW c \in Caller, pc[c] = "truncated", ~CursorTruncated(c)
               PROVE  cur[c].from = snap[c]
    BY DEF TruncationFlagged
  <2>1. cur[c].from = snap[c] \/ snap[c] < Oldest
    BY DEF ReaderInv, Held
  <2>2. snap[c] \in Nat /\ written \in Nat /\ Size \in Nat
    BY SizeAssumption, MaxBytesAssumption DEF ReaderInv, ReaderTypes, TypeOK, written
  <2>3. ~(snap[c] < Oldest)
    BY <2>2 DEF CursorTruncated, IsTruncated, Oldest
  <2> QED BY <2>1, <2>3
<1> QED BY <1>1, <1>2, <1>3, PTL DEF ReaderSpec

\* Under the session lock of the MCP server no output is passed over unseen,
\* and none is returned twice before the ring is overrun.
THEOREM OutputCorrect == ASSUME Alone PROVE ReaderSpec => []OutputAccounted
<1>1. ReaderInit => ReaderInv
  BY ReaderInvInit
<1>2. ReaderInv /\ [ReaderNext]_readerVars => ReaderInv'
  BY ReaderInvStep
<1>3. ReaderInv => OutputAccounted
  <2> SUFFICES ASSUME ReaderInv PROVE OutputAccounted
    OBVIOUS
  <2>1. ReaderTypes /\ Shared /\ \A c \in Caller : Held(c)
    BY DEF ReaderInv
  <2>2. shown \in [1 .. MaxBytes -> 0 .. MaxRequests]
    <3>1. calls \in 0 .. MaxRequests /\ MaxRequests \in Nat /\ shown \in [1 .. MaxBytes -> Nat]
          /\ \A p \in 1 .. MaxBytes : shown[p] <= calls
      BY <2>1, MaxRequestsAssumption DEF ReaderTypes, Shared
    <3>2. \A p \in 1 .. MaxBytes : shown[p] \in 0 .. MaxRequests
      BY <3>1
    <3> QED BY <3>1, <3>2
  <2>3. cursor \in [Caller -> 0 .. written]
    <3>1. cursor \in [Caller -> 0 .. MaxBytes] /\ MaxBytes \in Nat /\ written \in Nat
      BY <2>1, MaxBytesAssumption DEF ReaderTypes, TypeOK, written
    <3>2. \A c \in Caller : cursor[c] \in 0 .. written
      BY <2>1, <3>1 DEF Held
    <3> QED BY <3>1, <3>2
  <2>4. ReaderTypeOK
    BY <2>1, <2>2, <2>3 DEF ReaderTypes, ReaderTypeOK
  <2> QED BY <2>1, <2>4 DEF Shared, OutputAccounted, ShownOnce
<1> QED BY <1>1, <1>2, <1>3, PTL DEF ReaderSpec

\* Under the session lock a call that claims isComplete has seen output, and
\* none arrived between its last two polls.
THEOREM SettledCorrect == ASSUME Alone PROVE ReaderSpec => []CompleteIsSettled
<1>1. ReaderInit => ReaderInv
  BY ReaderInvInit
<1>2. ReaderInv /\ [ReaderNext]_readerVars => ReaderInv'
  BY ReaderInvStep
<1>3. ReaderInv => CompleteIsSettled
  <2> SUFFICES ASSUME ReaderInv PROVE CompleteIsSettled
    OBVIOUS
  <2>1. CompleteNonEmpty
    BY DEF ReaderInv, Own, CompleteNonEmpty
  <2>2. SettledIsQuiet
    BY DEF ReaderInv, Held, SettledIsQuiet, End
  <2> QED BY <2>1, <2>2 DEF CompleteIsSettled
<1> QED BY <1>1, <1>2, <1>3, PTL DEF ReaderSpec

-----------------------------------------------------------------------------
(* The remote session *)

\* No byte is in s twice.
Inj(s) == \A i, j \in 1 .. Len(s) : s[i] = s[j] => i = j

GorLabels == {"new", "write", "call", "await", "store", "screen", "take", "feed", "waiting",
           "start", "poll", "closers", "done"}
Active == {"poll", "screen", "take", "call", "await", "feed"}

\* Goroutine g at label p, in operation o, with RPC m, holding the output k: what
\* each kind of goroutine does, and that output is held only to be passed on.
Fit(g, p, o, m, k) ==
    /\ p \in GorLabels /\ o \in Op \union {"raw", "close", None} /\ m \in {"send", "read", "close", "resize", None}
    /\ k \in Seq(RemoteByte) /\ Inj(k) /\ (p \notin {"store", "feed"} => k = <<>>)
    /\ p \in {"call", "await"} => m \in {"send", "read", "close", "resize"}
    /\ p \in {"write", "store"} \/ (p \in {"call", "await"} /\ m = "send") =>
         g \in Call /\ o \in {"input", "raw", "input_wait"}
    /\ g \in Call => p \notin {"start", "poll"} /\ (p \in {"screen", "take"} => o # "input_wait")
    /\ g \in Pollers => p \in Active \union {"new", "start", "done"} /\ (p \in {"call", "await"} => m = "read")
    /\ g = Reaper => p \in {"new", "call", "await", "closers", "done"} /\ (p \in {"call", "await"} => m = "close")

\* The wait_for of a call at label p, in operation o, is still to come.
Fresh(p, o) == p = "new" \/ (o = "input_wait" /\ p \in {"write", "call", "await", "store"})

\* One goroutine has the RPC mutex, one call the lock, one poller polls.
Control(G, u, l, polling) ==
    /\ G \in [Goroutine -> GorState] /\ u \in Goroutine \union {None} /\ l \in Call \union {None}
    /\ \A g \in Goroutine : /\ Fit(g, G[g].pc, G[g].op, G[g].method, G[g].chunk)
                            /\ G[g].pc = "await" <=> u = g
    /\ \A c \in Call : /\ G[c].pc \notin {"new", "done"} <=> l = c
                       /\ Fresh(G[c].pc, G[c].op) => G[Poller(c)].pc = "new"
    /\ \A p, q \in Pollers : G[p].pc \in Active => polling /\ (G[q].pc \in Active => p = q)

\* The three kinds of goroutine.
LEMMA Kinds ==
    /\ Call \subseteq Goroutine /\ Pollers \subseteq Goroutine /\ Reaper \in Goroutine
    /\ \A c \in Call : c \notin Pollers /\ c # Reaper /\ Poller(c) \in Pollers
    /\ \A c, d \in Call : Poller(c) = Poller(d) => c = d
    /\ \A p \in Pollers : p # Reaper /\ \E c \in Call : p = Poller(c)
    /\ None \notin Goroutine
    /\ \A g \in Goroutine : g \in Call \/ g \in Pollers \/ g = Reaper
<1>1. MaxCalls \in Nat /\ None \notin Int
  BY RemoteAssumption
<1>2. Goroutine \subseteq Int
  BY <1>1 DEF Goroutine, Call, Pollers, Poller, Reaper
<1>3. \A c \in Call : c \notin Pollers /\ c # Reaper /\ Poller(c) \in Pollers
  BY <1>1 DEF Call, Pollers, Poller, Reaper
<1>4. \A c, d \in Call : Poller(c) = Poller(d) => c = d
  BY <1>1 DEF Call, Poller
<1>5. \A p \in Pollers : p # Reaper /\ \E c \in Call : p = Poller(c)
  BY <1>1 DEF Call, Pollers, Poller, Reaper
<1>6. None \notin Goroutine
  BY <1>1, <1>2, Zenon
<1> QED BY <1>3, <1>4, <1>5, <1>6 DEF Goroutine

\* Goroutine g may go on to label p; whether it takes or leaves the mutex, the
\* lock and the polling flag agrees with the labels.
May(G, u, l, w, g, p, o, m, k, u2, l2, w2) ==
    /\ Fit(g, p, o, m, k)
    /\ u2 = u \/ (u = None /\ u2 = g) \/ (u = g /\ u2 = None)
    /\ p = "await" <=> u2 = g
    /\ l2 = l \/ (g \in Call /\ l = None /\ l2 = g) \/ (l = g /\ l2 = None)
    /\ g \in Call => /\ p \notin {"new", "done"} <=> l2 = g
                     /\ Fresh(p, o) => Fresh(G[g].pc, G[g].op)
    /\ \A c \in Call : g = Poller(c) => ~Fresh(G[c].pc, G[c].op)
    /\ w => w2 \/ (g \in Pollers /\ G[g].pc \in Active /\ p \notin Active)
    /\ g \in Pollers /\ p \in Active => w2 /\ (G[g].pc \in Active \/ ~w)

\* It then leaves the others' part of Control alone.
LEMMA Goes ==
    ASSUME NEW G, NEW u, NEW l, NEW polling, Control(G, u, l, polling),
           NEW g \in Goroutine, NEW p, NEW o, NEW m, NEW k, NEW u2, NEW l2, NEW polling2,
           May(G, u, l, polling, g, p, o, m, k, u2, l2, polling2),
           NEW H, H = [G EXCEPT ![g] = [pc |-> p, op |-> o, method |-> m, chunk |-> k]]
    PROVE  Control(H, u2, l2, polling2)
<1> DEFINE r == [pc |-> p, op |-> o, method |-> m, chunk |-> k]
<1>1. G \in [Goroutine -> GorState] /\ u \in Goroutine \union {None} /\ l \in Call \union {None}
  BY DEF Control
<1>2. r \in GorState
  BY DEF GorState, Fit, GorLabels, May
<1>3. H \in [Goroutine -> GorState] /\ H[g] = r /\ \A h \in Goroutine \ {g} : H[h] = G[h]
  <2>1. H = [G EXCEPT ![g] = r]
    OBVIOUS
  <2> HIDE DEF r
  <2> QED BY <1>1, <1>2, <2>1
<1>4. H[g].pc = p /\ H[g].op = o /\ H[g].method = m /\ H[g].chunk = k
  BY <1>3
<1> HIDE DEF r
<1>5. u2 \in Goroutine \union {None} /\ l2 \in Call \union {None}
  BY <1>1 DEF May
<1>6. None # g /\ Call \subseteq Goroutine /\ Pollers \subseteq Goroutine
  BY Kinds
<1>7. ASSUME NEW h \in Goroutine
      PROVE  Fit(h, H[h].pc, H[h].op, H[h].method, H[h].chunk) /\ (H[h].pc = "await" <=> u2 = h)
  <2>1. CASE h = g
    BY <1>4, <2>1 DEF May
  <2>2. CASE h # g
    <3>1. /\ H[h] = G[h] /\ h # None
          /\ Fit(h, G[h].pc, G[h].op, G[h].method, G[h].chunk) /\ (G[h].pc = "await" <=> u = h)
      BY <1>3, <2>2, Kinds DEF Control
    <3> QED BY <2>2, <3>1 DEF May
  <2> QED BY <2>1, <2>2
<1>8. ASSUME NEW c \in Call
      PROVE  /\ H[c].pc \notin {"new", "done"} <=> l2 = c
             /\ Fresh(H[c].pc, H[c].op) => H[Poller(c)].pc = "new"
  <2>1. /\ G[c].pc \notin {"new", "done"} <=> l = c
        /\ Fresh(G[c].pc, G[c].op) => G[Poller(c)].pc = "new"
        /\ Poller(c) \in Goroutine /\ Poller(c) # c /\ c \in Goroutine /\ c # None
    BY Kinds DEF Control
  <2>2. H[c].pc \notin {"new", "done"} <=> l2 = c
    <3>1. CASE c = g
      BY <1>4, <3>1 DEF May
    <3>2. CASE c # g
      BY <1>3, <2>1, <3>2 DEF May
    <3> QED BY <3>1, <3>2
  <2>3. Fresh(H[c].pc, H[c].op) => Fresh(G[c].pc, G[c].op)
    <3>1. CASE c = g
      BY <1>4, <3>1 DEF May
    <3>2. CASE c # g
      BY <1>3, <2>1, <3>2
    <3> QED BY <3>1, <3>2
  <2>4. ASSUME Fresh(H[c].pc, H[c].op) PROVE H[Poller(c)].pc = "new"
    <3>1. Poller(c) # g
      BY <2>3, <2>4 DEF May
    <3> QED BY <1>3, <2>1, <2>3, <2>4, <3>1
  <2> QED BY <2>2, <2>4
<1>9. ASSUME NEW x \in Pollers, NEW y \in Pollers, H[x].pc \in Active
      PROVE  polling2 /\ (H[y].pc \in Active => x = y)
  <2>1. \A a, b \in Pollers : G[a].pc \in Active => polling /\ (G[b].pc \in Active => a = b)
    BY DEF Control
  <2>2. \A a \in Pollers : a \in Goroutine /\ (a # g => H[a] = G[a])
    BY <1>3, <1>6
  <2>3. CASE x = g
    <3>1. polling2 /\ (G[g].pc \in Active \/ ~polling)
      BY <1>4, <1>9, <2>3 DEF May
    <3> QED BY <2>1, <2>2, <2>3, <3>1
  <2>4. CASE x # g
    <3>1. G[x].pc \in Active /\ polling
      BY <1>9, <2>1, <2>2, <2>4
    <3>2. ~(g \in Pollers /\ G[g].pc \in Active)
      BY <2>1, <2>4, <3>1
    <3>3. y = g => H[y].pc \notin Active
      BY <1>4, <3>1, <3>2 DEF May
    <3> QED BY <2>1, <2>2, <3>1, <3>2, <3>3 DEF May
  <2> QED BY <2>3, <2>4
<1> QED BY <1>3, <1>5, <1>7, <1>8, <1>9 DEF Control

RemoteTypes ==
    /\ done \subseteq Call \union {Reaper}
    /\ cache \in Seq(RemoteByte) \union {None} /\ localBuf \in Seq(RemoteByte) /\ localMark \in 0 .. Len(localBuf)
    /\ produced \in 0 .. MaxOut /\ rmark \in 0 .. produced
    /\ {registered, remoteOpen, alive, isPolling, careless} \subseteq BOOLEAN
    /\ conn \in {"none", "up", "down"}
    /\ skipped \subseteq RemoteByte /\ dropped \subseteq RemoteByte /\ probed \subseteq dropped

\* At most one message is under way, for or from the holder of the mutex.
Rpc ==
    \/ wire = <<>> /\ replies = <<>>
    \/ /\ mu # None /\ conn = "up" /\ replies = <<>>
       /\ \E b \in BOOLEAN : wire = <<[from |-> mu, wrote |-> b]>>
    \/ /\ mu # None /\ conn = "up" /\ wire = <<>>
       /\ \E ok \in BOOLEAN, s \in Seq(RemoteByte) :
            /\ replies = <<[to |-> mu, ok |-> ok, bytes |-> s]>>
            /\ Inj(s) /\ (s # <<>> => ok /\ gor[mu].method \in {"send", "read"})

Hand(G) == [g \in Goroutine |-> ToSet(G[g].chunk)]

\* Each of the bytes 1 .. n is in one of five sets or in one goroutine's hand.
Split(A, C, W, K, D, H, n) ==
    /\ \A b : b \in 1 .. n <=> \/ b \in A \/ b \in C \/ b \in W \/ b \in K \/ b \in D
                               \/ \E g \in Goroutine : b \in H[g]
    /\ \A b : /\ b \in A => b \notin C /\ b \notin W /\ b \notin K /\ b \notin D
              /\ b \in C => b \notin W /\ b \notin K /\ b \notin D
              /\ b \in W => b \notin K /\ b \notin D
              /\ b \in K => b \notin D
              /\ \A g \in Goroutine : b \in H[g] =>
                   /\ b \notin A /\ b \notin C /\ b \notin W /\ b \notin K /\ b \notin D
                   /\ \A h \in Goroutine : b \in H[h] => h = g

\* The output that the daemon has handed out, and what may drop it.
Data ==
    /\ Split(ToSet(localBuf), Cached, OnWire, skipped, dropped, Hand(gor), rmark)
    /\ Inj(localBuf) /\ (cache # None => Inj(cache)) /\ (conn = "none" => rmark = 0)
    /\ ~careless /\ cache # None => \E c \in Call : gor[c].pc \in {"screen", "take"}
    /\ DropsExcused

\* The inductive invariant.
RemoteInv == RemoteTypes /\ Control(gor, mu, lock, isPolling) /\ Rpc /\ Data

\* Bytes move from one place to another, or come from the daemon.
LEMMA Moves ==
    ASSUME NEW A, NEW C, NEW W, NEW K, NEW D, NEW H, H = [h \in Goroutine |-> H[h]],
           NEW n \in Nat, Split(A, C, W, K, D, H, n)
    PROVE  /\ Split(A, C, {}, K, D \union W, H, n)
           /\ \A m \in Nat : n <= m =>
                /\ Split(A, C, W, K \union (n + 1 .. m), D, H, m)
                /\ W = {} => Split(A, C, n + 1 .. m, K, D, H, m)
                /\ n = 0 => Split(A, C, W, K, 1 .. m, H, m)
           /\ \A g \in Goroutine :
                /\ H[g] = {} => Split(A, C, {}, K, D, [H EXCEPT ![g] = W], n)
                /\ H[g] = {} => Split(A, {}, W, K, D, [H EXCEPT ![g] = C], n)
                /\ Split(A, H[g], W, K, D \union C, [H EXCEPT ![g] = {}], n)
                /\ Split(A \union H[g], C, W, K, D, [H EXCEPT ![g] = {}], n)
<1>1. Split(A, C, {}, K, D \union W, H, n)
  BY DEF Split
<1>2. ASSUME NEW m \in Nat, n <= m
      PROVE  /\ Split(A, C, W, K \union (n + 1 .. m), D, H, m)
             /\ W = {} => Split(A, C, n + 1 .. m, K, D, H, m)
             /\ n = 0 => Split(A, C, W, K, 1 .. m, H, m)
  <2>1. \A b : /\ b \in 1 .. m <=> b \in 1 .. n \/ b \in n + 1 .. m
               /\ ~(b \in 1 .. n /\ b \in n + 1 .. m)
    BY <1>2
  <2>2. Split(A, C, W, K \union (n + 1 .. m), D, H, m)
    BY <2>1, Zenon DEF Split
  <2>3. W = {} => Split(A, C, n + 1 .. m, K, D, H, m)
    BY <2>1 DEF Split
  <2>4. n = 0 => \A b : b \notin 1 .. n
    OBVIOUS
  <2>5. n = 0 => Split(A, C, W, K, 1 .. m, H, m)
    BY <2>4 DEF Split
  <2> QED BY <2>2, <2>3, <2>5
<1>3. ASSUME NEW g \in Goroutine
      PROVE  /\ H[g] = {} => Split(A, C, {}, K, D, [H EXCEPT ![g] = W], n)
             /\ H[g] = {} => Split(A, {}, W, K, D, [H EXCEPT ![g] = C], n)
             /\ Split(A, H[g], W, K, D \union C, [H EXCEPT ![g] = {}], n)
             /\ Split(A \union H[g], C, W, K, D, [H EXCEPT ![g] = {}], n)
  <2>1. ASSUME NEW X PROVE \A h \in Goroutine : [H EXCEPT ![g] = X][h] = IF h = g THEN X ELSE H[h]
    OBVIOUS
  <2>2. H[g] = {} => Split(A, C, {}, K, D, [H EXCEPT ![g] = W], n)
    BY <2>1 DEF Split
  <2>3. H[g] = {} => Split(A, {}, W, K, D, [H EXCEPT ![g] = C], n)
    BY <2>1 DEF Split
  <2>4. Split(A, H[g], W, K, D \union C, [H EXCEPT ![g] = {}], n)
    BY <2>1 DEF Split
  <2>5. Split(A \union H[g], C, W, K, D, [H EXCEPT ![g] = {}], n)
    BY <2>1 DEF Split
  <2> QED BY <2>2, <2>3, <2>4, <2>5
<1> QED BY <1>1, <1>2, <1>3, Zenon

\* Only the label of g changes.
LEMMA Relabel ==
    ASSUME NEW G \in [Goroutine -> GorState], NEW g \in Goroutine, NEW x,
           NEW H, H = [G EXCEPT ![g].pc = x]
    PROVE  H = [G EXCEPT ![g] = [pc |-> x, op |-> G[g].op, method |-> G[g].method, chunk |-> G[g].chunk]]
<1>1. G[g] \in GorState
  OBVIOUS
<1>2. [G[g] EXCEPT !.pc = x] = [pc |-> x, op |-> G[g].op, method |-> G[g].method, chunk |-> G[g].chunk]
  BY <1>1 DEF GorState
<1> QED BY <1>2, Zenon

\* Only the output in the hand of g changes.
LEMMA Handed ==
    ASSUME NEW g \in Goroutine, \A h \in Goroutine \ {g} : gor'[h] = gor[h]
    PROVE  Hand(gor') = [Hand(gor) EXCEPT ![g] = ToSet(gor'[g].chunk)]
  BY Zenon DEF Hand

\* Goroutine g goes on with the output k in its hand.
LEMMA Single ==
    ASSUME RemoteInv, NEW g \in Goroutine, NEW p, NEW o, NEW m, NEW k,
           gor' = [gor EXCEPT ![g] = [pc |-> p, op |-> o, method |-> m, chunk |-> k]]
    PROVE  /\ gor'[g].pc = p /\ gor'[g].op = o /\ gor'[g].method = m /\ gor'[g].chunk = k
           /\ \A h \in Goroutine \ {g} : gor'[h] = gor[h]
           /\ k = gor[g].chunk => Hand(gor') = Hand(gor)
<1>1. gor \in [Goroutine -> GorState]
  BY DEF RemoteInv, Control
<1>2. gor'[g].pc = p /\ gor'[g].op = o /\ gor'[g].method = m /\ gor'[g].chunk = k
  BY <1>1
<1>3. \A h \in Goroutine \ {g} : gor'[h] = gor[h]
  BY <1>1
<1>4. k = gor[g].chunk => Hand(gor') = Hand(gor)
  BY <1>2, <1>3 DEF Hand
<1> QED BY <1>2, <1>3, <1>4

\* The RPC under way is not that of g.
LEMMA RpcFrame ==
    ASSUME RemoteInv, NEW g \in Goroutine, gor[g].pc # "await", \A h \in Goroutine \ {g} : gor'[h] = gor[h],
           mu' = mu, wire' = wire, replies' = replies, conn' = conn
    PROVE  Rpc'
<1>1. mu # None => gor'[mu] = gor[mu]
  BY DEF RemoteInv, Control
<1> QED BY <1>1 DEF RemoteInv, Rpc

\* No output moves.
LEMMA Quiet ==
    ASSUME RemoteInv, RemoteTypes', Control(gor', mu', lock', isPolling'), Rpc', replies' = replies,
           Hand(gor') = Hand(gor), cache' = cache, localBuf' = localBuf, rmark' = rmark, skipped' = skipped,
           dropped' = dropped, probed' = probed, conn' = conn, careless => careless',
           ~careless' /\ cache # None =>
               \A c \in Call : gor[c].pc \in {"screen", "take"} => gor'[c].pc \in {"screen", "take"}
    PROVE  RemoteInv'
<1>1. Cached' = Cached /\ OnWire' = OnWire
  BY DEF Cached, OnWire
<1>2. Split(ToSet(localBuf), Cached, OnWire, skipped, dropped, Hand(gor), rmark)'
  BY <1>1 DEF RemoteInv, Data
<1>3. DropsExcused'
  BY DEF RemoteInv, Data, DropsExcused
<1>4. (~careless /\ cache # None => \E c \in Call : gor[c].pc \in {"screen", "take"})'
  BY DEF RemoteInv, Data
<1>5. (Inj(localBuf) /\ (cache # None => Inj(cache)) /\ (conn = "none" => rmark = 0))'
  BY DEF RemoteInv, Data
<1>6. Data'
  BY <1>2, <1>3, <1>4, <1>5 DEF Data
<1> QED BY <1>6 DEF RemoteInv

\* What the invariant says of goroutine g.
LEMMA Known ==
    ASSUME RemoteInv, NEW g \in Goroutine
    PROVE  /\ gor \in [Goroutine -> GorState]
           /\ Fit(g, gor[g].pc, gor[g].op, gor[g].method, gor[g].chunk) /\ (gor[g].pc = "await" <=> mu = g)
           /\ lock \in Call \union {None} /\ mu \in Goroutine \union {None}
           /\ g \in Call => (gor[g].pc \notin {"new", "done"} <=> lock = g)
           /\ gor[g].pc # "new" => \A c \in Call : g = Poller(c) => ~Fresh(gor[c].pc, gor[c].op)
           /\ g \in Pollers => (gor[g].pc \in Active => isPolling)
           /\ g # None /\ (g \in Call \/ g \in Pollers \/ g = Reaper)
           /\ g \in Call => g \notin Pollers /\ g # Reaper
           /\ g \in Pollers => g # Reaper
           /\ Call \subseteq Goroutine /\ Pollers \subseteq Goroutine /\ Reaper \in Goroutine
  BY Kinds DEF RemoteInv, Control

\* The goroutine is finished, back in the poller's loop, or goes to close the transport.
LEMMA Over ==
    ASSUME RemoteInv, NEW g \in Goroutine,
           \/ EndCall(g) /\ g \notin Pollers /\ gor[g].pc \notin {"new", "done"}
           \/ AfterRead(g) /\ gor[g].pc \in {"screen", "feed"}
           \/ AfterError(g) /\ gor[g].pc \in {"call", "await"}
    PROVE  /\ \E p, o, m : /\ gor' = [gor EXCEPT ![g] = [pc |-> p, op |-> o, method |-> m, chunk |-> <<>>]]
                           /\ p \in {"done", "poll", "closers"}
           /\ done' \subseteq Call \union {Reaper}
           /\ Control(gor', IF mu = g THEN None ELSE mu, lock', isPolling)
<1> DEFINE s == gor[g]
           u2 == IF mu = g THEN None ELSE mu
           Goal == /\ \E p, o, m : /\ gor' = [gor EXCEPT ![g] = [pc |-> p, op |-> o, method |-> m, chunk |-> <<>>]]
                                   /\ p \in {"done", "poll", "closers"}
                   /\ done' \subseteq Call \union {Reaper}
                   /\ Control(gor', u2, lock', isPolling)
<1>0. Control(gor, mu, lock, isPolling)
  BY DEF RemoteInv
<1>1. /\ gor \in [Goroutine -> GorState]
      /\ Fit(g, s.pc, s.op, s.method, s.chunk) /\ (s.pc = "await" <=> mu = g)
      /\ done \subseteq Call \union {Reaper} /\ lock \in Call \union {None}
      /\ g \in Call => (s.pc \notin {"new", "done"} <=> lock = g)
      /\ g \in Pollers => (s.pc \in Active => isPolling)
  BY Known DEF RemoteInv, RemoteTypes
<1>2. g # None /\ (g \in Call \/ g \in Pollers \/ g = Reaper)
      /\ (g \in Call => g \notin Pollers /\ g # Reaper) /\ (g \in Pollers => g # Reaper)
  BY Known
<1>3. <<>> \in Seq(RemoteByte) /\ Inj(<<>>)
  BY DEF Inj
<1>4. s.pc \notin {"new", "done"}
  OBVIOUS
<1>5. \A c \in Call : g = Poller(c) => ~Fresh(gor[c].pc, gor[c].op)
  BY <1>4, Known
<1>6. u2 = mu \/ (mu = g /\ u2 = None)
  OBVIOUS
<1>7. u2 # g
  BY <1>2
<1> HIDE DEF s, u2
<1>8. ASSUME EndCall(g), g \notin Pollers PROVE Goal
  <2>1. /\ gor' = [gor EXCEPT ![g] = [pc |-> "done", op |-> None, method |-> None, chunk |-> <<>>]]
        /\ done' = done \union {g} /\ lock' = IF lock = g THEN None ELSE lock
    BY <1>8 DEF EndCall, Idle
  <2>2. Fit(g, "done", None, None, <<>>)
    BY <1>2, <1>3, <1>8 DEF Fit, GorLabels
  <2>3. ~Fresh("done", None)
    BY DEF Fresh
  <2>4. lock' = lock \/ (lock = g /\ lock' = None)
    BY <2>1
  <2>5. lock' # g
    BY <1>2, <2>1
  <2>6. May(gor, mu, lock, isPolling, g, "done", None, None, <<>>, u2, lock', isPolling)
    BY <1>5, <1>6, <1>7, <1>8, <2>2, <2>3, <2>4, <2>5 DEF May
  <2>7. done' \subseteq Call \union {Reaper}
    BY <1>1, <1>2, <1>8, <2>1
  <2>8. Control(gor', u2, lock', isPolling)
    BY <1>0, <2>1, <2>6, Goes, Zenon
  <2> QED BY <2>1, <2>7, <2>8, Zenon
<1>9. ASSUME AfterRead(g), s.pc \in Active PROVE Goal
  <2>1. CASE g \in Pollers
    <3>1. /\ gor' = [gor EXCEPT ![g] = [pc |-> "poll", op |-> None, method |-> None, chunk |-> <<>>]]
          /\ done' = done /\ lock' = lock
      BY <1>9, <2>1 DEF AfterRead, Idle
    <3>2. Fit(g, "poll", None, None, <<>>) /\ g \notin Call
      BY <1>2, <1>3, <2>1 DEF Fit, GorLabels, Active
    <3>3. May(gor, mu, lock, isPolling, g, "poll", None, None, <<>>, u2, lock', isPolling)
      BY <1>1, <1>5, <1>6, <1>7, <1>9, <2>1, <3>1, <3>2 DEF May, s
    <3>4. Control(gor', u2, lock', isPolling)
      BY <1>0, <3>1, <3>3, Goes, Zenon
    <3> QED BY <1>1, <3>1, <3>4, Zenon
  <2>2. CASE g \notin Pollers
    <3>1. EndCall(g)
      BY <1>9, <2>2 DEF AfterRead
    <3> QED BY <1>8, <2>2, <3>1
  <2> QED BY <2>1, <2>2
<1>10. ASSUME AfterError(g), s.pc \in {"call", "await"} PROVE Goal
  <2>1. CASE s.method = "close"
    <3>1. gor' = [gor EXCEPT ![g].pc = "closers"] /\ done' = done /\ lock' = lock
      BY <1>10, <2>1 DEF AfterError, Goto, s
    <3>2. s.chunk = <<>> /\ g \notin Pollers
      BY <1>1, <1>10, <2>1 DEF Fit
    <3>3. gor' = [gor EXCEPT ![g] = [pc |-> "closers", op |-> s.op, method |-> s.method, chunk |-> <<>>]]
      <4>1. gor \in [Goroutine -> GorState]
        BY <1>1
      <4>2. gor' = [gor EXCEPT ![g] = [pc |-> "closers", op |-> gor[g].op, method |-> gor[g].method, chunk |-> gor[g].chunk]]
        BY <3>1, <4>1, Relabel, Zenon
      <4> QED BY <3>2, <4>2 DEF s
    <3>4. Fit(g, "closers", s.op, s.method, <<>>)
      BY <1>1, <1>2, <1>3, <3>2 DEF Fit, GorLabels
    <3>5. ~Fresh("closers", s.op)
      BY DEF Fresh
    <3>6. g \in Call => lock' = g
      BY <1>1, <1>10, <3>1
    <3>7. May(gor, mu, lock, isPolling, g, "closers", s.op, s.method, <<>>, u2, lock', isPolling)
      BY <1>5, <1>6, <1>7, <3>1, <3>2, <3>4, <3>5, <3>6 DEF May
    <3>8. Control(gor', u2, lock', isPolling)
      BY <1>0, <3>3, <3>7, Goes, Zenon
    <3> QED BY <1>1, <3>1, <3>3, <3>8, Zenon
  <2>2. CASE s.method = "read"
    <3>1. AfterRead(g)
      BY <1>10, <2>2 DEF AfterError, s
    <3> QED BY <1>9, <1>10, <3>1 DEF Active
  <2>3. CASE s.method \notin {"close", "read"}
    <3>1. EndCall(g)
      BY <1>10, <2>3 DEF AfterError, s
    <3>2. g \notin Pollers
      BY <1>1, <1>10, <2>3 DEF Fit
    <3> QED BY <1>8, <3>1, <3>2
  <2> QED BY <2>1, <2>2, <2>3
<1>11. Goal
  BY <1>8, <1>9, <1>10 DEF s, Active
<1> QED BY <1>11, Zenon DEF u2

\* Goroutine g takes a step that moves no output.
LEMMA QuietStep ==
    ASSUME RemoteInv, NEW g \in Goroutine, NEW p, NEW o, NEW m,
           gor' = [gor EXCEPT ![g] = [pc |-> p, op |-> o, method |-> m, chunk |-> gor[g].chunk]],
           RemoteTypes', Control(gor', mu', lock', isPolling'), Rpc', replies' = replies, conn' = conn,
           cache' = cache, localBuf' = localBuf, rmark' = rmark, skipped' = skipped,
           dropped' = dropped, probed' = probed, careless => careless',
           g \in Call /\ gor[g].pc \in {"screen", "take"} => p \in {"screen", "take"} \/ careless' \/ cache = None
    PROVE  RemoteInv'
<1>1. /\ gor'[g].pc = p /\ \A h \in Goroutine \ {g} : gor'[h] = gor[h]
      /\ Hand(gor') = Hand(gor)
  BY Single, ZenonT(60)
<1>2. ~careless' /\ cache # None =>
           \A c \in Call : gor[c].pc \in {"screen", "take"} => gor'[c].pc \in {"screen", "take"}
  BY <1>1, Known
<1> QED BY <1>1, <1>2, Quiet

\* Steps that change neither a goroutine nor where the output is.
LEMMA CalmInv ==
    ASSUME RemoteInv,
           TerminalOutput \/ (\E c \in Call : ContextDone(c)) \/ UNCHANGED remoteVars
    PROVE  RemoteInv'
<1>1. /\ gor' = gor /\ lock' = lock /\ registered' = registered /\ mu' = mu /\ wire' = wire /\ replies' = replies
      /\ cache' = cache /\ localBuf' = localBuf /\ localMark' = localMark /\ rmark' = rmark /\ remoteOpen' = remoteOpen
      /\ conn' = conn /\ alive' = alive /\ isPolling' = isPolling
      /\ skipped' = skipped /\ dropped' = dropped /\ probed' = probed /\ careless' = careless
  BY DEF TerminalOutput, ContextDone, remoteVars, mgrVars, rpcVars, bufVars, daemonVars, lifeVars, histVars
<1>2. done' \subseteq Call \union {Reaper}
  BY DEF TerminalOutput, ContextDone, remoteVars, RemoteInv, RemoteTypes
<1>3. produced' \in 0 .. MaxOut /\ rmark' \in 0 .. produced'
  <2>1. produced \in 0 .. MaxOut /\ rmark \in 0 .. produced /\ MaxOut \in Nat
    BY RemoteAssumption DEF RemoteInv, RemoteTypes
  <2>2. produced' = produced \/ (produced < MaxOut /\ produced' = produced + 1)
    BY DEF TerminalOutput, ContextDone, remoteVars, daemonVars
  <2> QED BY <1>1, <2>1, <2>2
<1>4. RemoteTypes'
  BY <1>1, <1>2, <1>3 DEF RemoteInv, RemoteTypes
<1>5. Control(gor', mu', lock', isPolling') /\ Rpc' /\ Hand(gor') = Hand(gor)
  BY <1>1 DEF RemoteInv, Rpc
<1> QED BY <1>1, <1>4, <1>5, Quiet

\* The steps of a poller between its reads.
LEMMA PollInv ==
    ASSUME RemoteInv, NEW g \in Pollers,
           PollStart(g) \/ PollTick(g) \/ PollEnd(g)
    PROVE  RemoteInv'
<1> DEFINE s == gor[g]
<1>1. PICK p \in {"done", "poll", "screen"} :
         /\ gor' = [gor EXCEPT ![g].pc = p] /\ s.pc \in {"start", "poll"}
         /\ \/ s.pc = "start" /\ isPolling' = TRUE /\ p = (IF isPolling THEN "done" ELSE "poll")
            \/ s.pc = "poll" /\ p = "screen" /\ isPolling' = isPolling
            \/ s.pc = "poll" /\ p = "done" /\ isPolling' = FALSE
  <2>1. CASE PollStart(g)
    BY <2>1 DEF PollStart, Goto, Pc
  <2>2. CASE PollTick(g)
    BY <2>2 DEF PollTick, Goto, Pc, lifeVars
  <2>3. CASE PollEnd(g)
    BY <2>3 DEF PollEnd, Goto, Pc
  <2> QED BY <2>1, <2>2, <2>3, Zenon
<1>2. /\ done' = done /\ lock' = lock /\ registered' = registered /\ mu' = mu /\ wire' = wire /\ replies' = replies
      /\ cache' = cache /\ localBuf' = localBuf /\ localMark' = localMark /\ produced' = produced /\ rmark' = rmark
      /\ remoteOpen' = remoteOpen /\ conn' = conn /\ alive' = alive
      /\ skipped' = skipped /\ dropped' = dropped /\ probed' = probed /\ careless' = careless
  BY DEF PollStart, PollTick, PollEnd, mgrVars, rpcVars, bufVars, daemonVars, lifeVars, histVars
<1>3. g \in Goroutine
  BY Kinds
<1>4. /\ Fit(g, s.pc, s.op, s.method, s.chunk) /\ (s.pc = "await" <=> mu = g) /\ g \notin Call
      /\ \A c \in Call : g = Poller(c) => ~Fresh(gor[c].pc, gor[c].op)
      /\ s.pc \in Active => isPolling
  BY <1>1, <1>3, Known
<1>5. gor' = [gor EXCEPT ![g] = [pc |-> p, op |-> s.op, method |-> s.method, chunk |-> s.chunk]]
  <2>1. gor \in [Goroutine -> GorState] /\ gor' = [gor EXCEPT ![g].pc = p]
    BY <1>1, <1>3, Known
  <2> QED BY <1>3, <2>1, Relabel, Zenon
<1>6. Fit(g, p, s.op, s.method, s.chunk)
  BY <1>1, <1>4, Kinds DEF Fit, GorLabels, Active
<1>7. isPolling \in BOOLEAN /\ isPolling' \in BOOLEAN
  BY <1>1, Zenon DEF RemoteInv, RemoteTypes
<1> HIDE DEF s
<1>8. May(gor, mu, lock, isPolling, g, p, s.op, s.method, s.chunk, mu', lock', isPolling')
  <2>1. /\ s.pc # "await" /\ p # "await"
        /\ "start" \notin Active /\ "poll" \in Active /\ "screen" \in Active /\ "done" \notin Active
    BY <1>1 DEF Active
  <2>2. isPolling => isPolling' \/ (s.pc \in Active /\ p \notin Active)
    BY <1>1, <2>1, Zenon
  <2>3. p \in Active => isPolling' /\ (s.pc \in Active \/ ~isPolling)
    BY <1>1, <1>4, <2>1
  <2> QED BY <1>2, <1>4, <1>6, <2>1, <2>2, <2>3 DEF May, s
<1>9. Control(gor', mu', lock', isPolling')
  <2>1. Control(gor, mu, lock, isPolling)
    BY DEF RemoteInv
  <2> QED BY <1>3, <1>5, <1>8, <2>1, Goes, Zenon
<1>10. RemoteTypes'
  BY <1>2, <1>7 DEF RemoteInv, RemoteTypes
<1>11. Rpc'
  <2>1. gor[g].pc # "await"
    BY <1>1 DEF s
  <2>2. \A h \in Goroutine \ {g} : gor'[h] = gor[h]
    BY <1>3, <1>5, Single
  <2> QED BY <1>2, <1>3, <2>1, <2>2, RpcFrame
<1> QED BY <1>2, <1>3, <1>4, <1>5, <1>9, <1>10, <1>11, QuietStep, Zenon DEF s

\* Goroutine g goes on within its call or its poll.
LEMMA Stays ==
    ASSUME RemoteInv, NEW g \in Goroutine, NEW p, NEW o, NEW m, NEW k,
           gor' = [gor EXCEPT ![g] = [pc |-> p, op |-> o, method |-> m, chunk |-> k]],
           gor[g].pc \notin {"new", "done", "await"}, p \notin {"new", "done", "await"}, Fit(g, p, o, m, k),
           g \in Call => (Fresh(p, o) => Fresh(gor[g].pc, gor[g].op)),
           g \in Pollers => gor[g].pc \in Active
    PROVE  Control(gor', mu, lock, isPolling)
<1>1. May(gor, mu, lock, isPolling, g, p, o, m, k, mu, lock, isPolling)
  BY Known DEF May
<1>2. Control(gor, mu, lock, isPolling)
  BY DEF RemoteInv
<1> QED BY <1>1, <1>2, Goes, Zenon

\* A call ends, or a read of the poller, without output in its hand.
LEMMA OverQuiet ==
    ASSUME RemoteInv, NEW g \in Goroutine, gor[g].pc \notin {"store", "feed"},
           \/ EndCall(g) /\ g \notin Pollers /\ gor[g].pc \notin {"new", "done"}
           \/ AfterRead(g) /\ gor[g].pc \in {"screen", "feed"}
           \/ AfterError(g) /\ gor[g].pc \in {"call", "await"},
           mu' = (IF mu = g THEN None ELSE mu), mu = g => wire = <<>> /\ replies = <<>>,
           wire' = wire, replies' = replies, conn' = conn, isPolling' = isPolling,
           cache' = cache, localBuf' = localBuf, localMark' \in 0 .. Len(localBuf), produced' = produced, rmark' = rmark,
           remoteOpen' = remoteOpen, registered' = registered, alive' \in BOOLEAN,
           skipped' = skipped, dropped' = dropped, probed' = probed,
           careless' \in BOOLEAN, careless => careless',
           g \in Call /\ gor[g].pc \in {"screen", "take"} => careless' \/ cache = None
    PROVE  RemoteInv'
<1>1. /\ \E p, o, m : /\ gor' = [gor EXCEPT ![g] = [pc |-> p, op |-> o, method |-> m, chunk |-> <<>>]]
                      /\ p \in {"done", "poll", "closers"}
      /\ done' \subseteq Call \union {Reaper}
      /\ Control(gor', IF mu = g THEN None ELSE mu, lock', isPolling)
  BY Over, Zenon
<1>2. PICK p, o, m : gor' = [gor EXCEPT ![g] = [pc |-> p, op |-> o, method |-> m, chunk |-> <<>>]]
  BY <1>1, Zenon
<1>3. gor[g].chunk = <<>> /\ (gor[g].pc = "await" <=> mu = g)
  BY Known DEF Fit
<1>4. \A h \in Goroutine \ {g} : gor'[h] = gor[h]
  BY <1>2, Single
<1>5. Rpc'
  <2>1. CASE mu = g
    BY <2>1 DEF Rpc
  <2>2. CASE mu # g
    BY <1>3, <1>4, <2>2, RpcFrame
  <2> QED BY <2>1, <2>2
<1>6. RemoteTypes'
  BY <1>1 DEF RemoteInv, RemoteTypes
<1>7. Control(gor', mu', lock', isPolling')
  BY <1>1
<1>8. gor' = [gor EXCEPT ![g] = [pc |-> p, op |-> o, method |-> m, chunk |-> gor[g].chunk]]
  BY <1>2, <1>3
<1> QED BY <1>5, <1>6, <1>7, <1>8, QuietStep, Zenon

\* A request is written, if the transport is up.
LEMMA SendInv ==
    ASSUME RemoteInv, NEW g \in Goroutine, SendRequest(g)
    PROVE  RemoteInv'
<1> DEFINE s == gor[g]
<1>1. /\ s.pc = "call" /\ mu = None
      /\ registered' = registered /\ replies' = replies
      /\ cache' = cache /\ localBuf' = localBuf /\ localMark' = localMark /\ produced' = produced /\ rmark' = rmark
      /\ remoteOpen' = remoteOpen /\ conn' = conn /\ isPolling' = isPolling
      /\ skipped' = skipped /\ dropped' = dropped /\ probed' = probed /\ careless' = careless
  BY DEF SendRequest, Pc, bufVars, daemonVars, histVars
<1>2. /\ wire = <<>> /\ replies = <<>> /\ g # None
      /\ Fit(g, s.pc, s.op, s.method, s.chunk) /\ gor \in [Goroutine -> GorState]
      /\ \A c \in Call : g = Poller(c) => ~Fresh(gor[c].pc, gor[c].op)
      /\ g \in Call => lock = g
      /\ g \in Pollers => (s.pc \in Active => isPolling)
  BY <1>1, Known DEF RemoteInv, Rpc
<1>3. /\ localMark \in 0 .. Len(localBuf) /\ alive \in BOOLEAN /\ careless \in BOOLEAN
  BY DEF RemoteInv, RemoteTypes
<1>4. CASE conn = "up"
  <2>1. /\ mu' = g /\ wire' = Append(wire, [from |-> g, wrote |-> FALSE])
        /\ gor' = [gor EXCEPT ![g].pc = "await"] /\ done' = done /\ lock' = lock /\ alive' = alive
    BY <1>4 DEF SendRequest, Goto
  <2>2. gor' = [gor EXCEPT ![g] = [pc |-> "await", op |-> s.op, method |-> s.method, chunk |-> s.chunk]]
    <3>1. gor \in [Goroutine -> GorState]
      BY <1>2
    <3> QED BY <2>1, <3>1, Relabel, Zenon
  <2>3. Fit(g, "await", s.op, s.method, s.chunk)
    BY <1>1, <1>2 DEF Fit, GorLabels, Active
  <2>4. Fresh("await", s.op) => Fresh(s.pc, s.op)
    BY <1>1 DEF Fresh
  <2>5. May(gor, mu, lock, isPolling, g, "await", s.op, s.method, s.chunk, mu', lock', isPolling')
    BY <1>1, <1>2, <2>1, <2>3, <2>4 DEF May, Active
  <2>6. Control(gor', mu', lock', isPolling')
    <3>1. Control(gor, mu, lock, isPolling)
      BY DEF RemoteInv
    <3> QED BY <2>2, <2>5, <3>1, Goes, Zenon
  <2>7. RemoteTypes'
    BY <1>1, <2>1 DEF RemoteInv, RemoteTypes
  <2>8. wire' = <<[from |-> mu', wrote |-> FALSE]>>
    BY <1>2, <2>1
  <2>9. Rpc'
    BY <1>1, <1>2, <1>4, <2>1, <2>8, Zenon DEF Rpc
  <2> QED BY <1>1, <2>2, <2>6, <2>7, <2>9, QuietStep, Zenon
<1>5. CASE conn # "up"
  <2>1. alive' = FALSE /\ AfterError(g) /\ mu' = mu /\ wire' = wire
    BY <1>5 DEF SendRequest
  <2>2. mu' = IF mu = g THEN None ELSE mu
    BY <1>1, <1>2, <2>1
  <2>3. mu # g /\ s.pc \in {"call", "await"} /\ s.pc \notin {"store", "feed", "screen", "take"}
    BY <1>1, <1>2
  <2>4. alive' \in BOOLEAN /\ careless' \in BOOLEAN /\ localMark' \in 0 .. Len(localBuf)
    BY <1>1, <1>3, <2>1, Zenon
  <2> QED BY <1>1, <2>1, <2>2, <2>3, <2>4, OverQuiet
<1> QED BY <1>4, <1>5

\* Scan fails once the transport is down.
LEMMA ScanInv ==
    ASSUME RemoteInv, NEW g \in Goroutine, ScanFails(g)
    PROVE  RemoteInv'
<1>1. /\ gor[g].pc = "await" /\ conn = "down" /\ mu' = None /\ alive' = FALSE /\ AfterError(g)
      /\ registered' = registered /\ wire' = wire /\ replies' = replies
      /\ cache' = cache /\ localBuf' = localBuf /\ localMark' = localMark /\ produced' = produced /\ rmark' = rmark
      /\ remoteOpen' = remoteOpen /\ conn' = conn /\ isPolling' = isPolling
      /\ skipped' = skipped /\ dropped' = dropped /\ probed' = probed /\ careless' = careless
  BY DEF ScanFails, Pc, bufVars, daemonVars, histVars
<1>2. mu = g /\ wire = <<>> /\ replies = <<>>
  BY <1>1, Known DEF RemoteInv, Rpc
<1>3. /\ localMark' \in 0 .. Len(localBuf) /\ alive' \in BOOLEAN /\ careless' \in BOOLEAN
  BY <1>1, Zenon DEF RemoteInv, RemoteTypes
<1>4. mu' = IF mu = g THEN None ELSE mu
  BY <1>1, <1>2
<1> QED BY <1>1, <1>2, <1>3, <1>4, OverQuiet

\* Write, and the end of a wait.
LEMMA CallInv ==
    ASSUME RemoteInv, NEW g \in Call,
           Write(g) \/ WaitOver(g) \/ \E autoSend \in BOOLEAN : WaitMatched(g, autoSend)
    PROVE  RemoteInv'
<1> DEFINE s == gor[g]
<1>1. /\ s.pc \in {"write", "waiting"}
      /\ registered' = registered /\ mu' = mu /\ wire' = wire /\ replies' = replies
      /\ cache' = cache /\ localBuf' = localBuf /\ produced' = produced /\ rmark' = rmark
      /\ remoteOpen' = remoteOpen /\ conn' = conn /\ alive' = alive /\ isPolling' = isPolling
      /\ skipped' = skipped /\ dropped' = dropped /\ probed' = probed /\ careless' = careless
      /\ localMark' = localMark \/ localMark' = Len(localBuf)
  BY DEF Write, WaitOver, WaitMatched, Pc, rpcVars, bufVars, daemonVars, lifeVars, histVars
<1>2. \/ EndCall(g)
      \/ /\ s.pc = "write" /\ gor' = [gor EXCEPT ![g].pc = "call", ![g].method = "send"]
         /\ done' = done /\ lock' = lock
      \/ /\ s.pc = "waiting" /\ gor' = [gor EXCEPT ![g].pc = "write", ![g].op = "raw"]
         /\ done' = done /\ lock' = lock
  BY DEF Write, WaitOver, WaitMatched, Pc
<1>3. g \in Goroutine /\ g \notin Pollers /\ g # Reaper
  BY Kinds
<1>4. /\ Fit(g, s.pc, s.op, s.method, s.chunk) /\ gor \in [Goroutine -> GorState] /\ mu # g
  BY <1>1, <1>3, Known
<1>5. localMark' \in 0 .. Len(localBuf) /\ alive' \in BOOLEAN /\ careless' \in BOOLEAN
  BY <1>1 DEF RemoteInv, RemoteTypes
<1>6. CASE EndCall(g)
  <2>1. mu' = IF mu = g THEN None ELSE mu
    BY <1>1, <1>4
  <2>2. s.pc \notin {"store", "feed", "new", "done", "screen", "take"}
    BY <1>1
  <2> QED BY <1>1, <1>3, <1>4, <1>5, <1>6, <2>1, <2>2, OverQuiet
<1>7. ASSUME NEW p \in {"call", "write"}, NEW o, NEW m,
             gor' = [gor EXCEPT ![g] = [pc |-> p, op |-> o, method |-> m, chunk |-> s.chunk]],
             done' = done, lock' = lock, Fit(g, p, o, m, s.chunk), Fresh(p, o) => Fresh(s.pc, s.op)
      PROVE  RemoteInv'
  <2>1. s.pc \notin {"new", "done", "await", "screen", "take"} /\ p \notin {"new", "done", "await"}
    BY <1>1
  <2>2. Control(gor', mu', lock', isPolling')
    BY <1>1, <1>3, <1>7, <2>1, Stays, Zenon
  <2>3. RemoteTypes'
    BY <1>1, <1>5, <1>7 DEF RemoteInv, RemoteTypes
  <2>4. Rpc'
    <3>1. \A h \in Goroutine \ {g} : gor'[h] = gor[h]
      BY <1>3, <1>7, Single
    <3> QED BY <1>1, <1>3, <2>1, <3>1, RpcFrame
  <2> QED BY <1>1, <1>3, <1>7, <2>1, <2>2, <2>3, <2>4, QuietStep, Zenon
<1>8. CASE /\ s.pc = "write" /\ gor' = [gor EXCEPT ![g].pc = "call", ![g].method = "send"]
           /\ done' = done /\ lock' = lock
  <2>1. gor' = [gor EXCEPT ![g] = [pc |-> "call", op |-> s.op, method |-> "send", chunk |-> s.chunk]]
    <3>1. gor \in [Goroutine -> GorState]
      BY <1>4
    <3> DEFINE q == [s EXCEPT !.pc = "call"]
    <3>2. s \in GorState /\ gor' = [gor EXCEPT ![g] = [q EXCEPT !.method = "send"]]
      BY <1>3, <1>8, <3>1, Zenon
    <3> HIDE DEF s
    <3>3. q \in GorState /\ q.pc = "call" /\ q.op = s.op /\ q.method = s.method /\ q.chunk = s.chunk
      BY <3>2 DEF GorState
    <3> HIDE DEF q
    <3>4. [q EXCEPT !.method = "send"] = [pc |-> "call", op |-> q.op, method |-> "send", chunk |-> q.chunk]
      BY <3>3 DEF GorState
    <3> QED BY <3>2, <3>3, <3>4, Zenon
  <2>2. Fit(g, "call", s.op, "send", s.chunk)
    BY <1>3, <1>4, <1>8 DEF Fit, GorLabels
  <2>3. Fresh("call", s.op) => Fresh(s.pc, s.op)
    BY <1>8 DEF Fresh
  <2> QED BY <1>7, <1>8, <2>1, <2>2, <2>3, Zenon
<1>9. CASE /\ s.pc = "waiting" /\ gor' = [gor EXCEPT ![g].pc = "write", ![g].op = "raw"]
           /\ done' = done /\ lock' = lock
  <2>1. gor' = [gor EXCEPT ![g] = [pc |-> "write", op |-> "raw", method |-> s.method, chunk |-> s.chunk]]
    <3>1. gor \in [Goroutine -> GorState]
      BY <1>4
    <3> DEFINE q == [s EXCEPT !.pc = "write"]
    <3>2. s \in GorState /\ gor' = [gor EXCEPT ![g] = [q EXCEPT !.op = "raw"]]
      BY <1>3, <1>9, <3>1, Zenon
    <3> HIDE DEF s
    <3>3. q \in GorState /\ q.pc = "write" /\ q.op = s.op /\ q.method = s.method /\ q.chunk = s.chunk
      BY <3>2 DEF GorState
    <3> HIDE DEF q
    <3>4. [q EXCEPT !.op = "raw"] = [pc |-> "write", op |-> "raw", method |-> q.method, chunk |-> q.chunk]
      BY <3>3 DEF GorState
    <3> QED BY <3>2, <3>3, <3>4, Zenon
  <2>2. Fit(g, "write", "raw", s.method, s.chunk)
    BY <1>3, <1>4, <1>9 DEF Fit, GorLabels
  <2>3. ~Fresh("write", "raw")
    BY DEF Fresh
  <2> QED BY <1>7, <1>9, <2>1, <2>2, <2>3, Zenon
<1> QED BY <1>2, <1>6, <1>8, <1>9

\* ReadScreen looks at its context.
LEMMA CheckInv ==
    ASSUME RemoteInv, NEW g \in Goroutine, CheckCtx(g)
    PROVE  RemoteInv'
<1> DEFINE s == gor[g]
<1>1. /\ s.pc = "screen" /\ registered' = registered /\ mu' = mu /\ wire' = wire /\ replies' = replies
      /\ cache' = cache /\ localBuf' = localBuf /\ localMark' = localMark /\ produced' = produced /\ rmark' = rmark
      /\ remoteOpen' = remoteOpen /\ conn' = conn /\ alive' = alive /\ isPolling' = isPolling
      /\ skipped' = skipped /\ dropped' = dropped /\ probed' = probed
  BY DEF CheckCtx, Pc, rpcVars, bufVars, daemonVars, lifeVars
<1>2. /\ gor \in [Goroutine -> GorState] /\ Fit(g, s.pc, s.op, s.method, s.chunk) /\ mu # g
  BY <1>1, Known
<1>3. localMark' \in 0 .. Len(localBuf) /\ alive' \in BOOLEAN /\ careless \in BOOLEAN
  BY <1>1 DEF RemoteInv, RemoteTypes
<1>4. CASE CtxDone(g)
  <2>1. AfterRead(g) /\ careless' = (careless \/ (g \in Call /\ cache # None))
    BY <1>4 DEF CheckCtx
  <2>2. careless' \in BOOLEAN /\ (careless => careless') /\ (g \in Call => careless' \/ cache = None)
    BY <1>3, <2>1, Zenon
  <2>3. mu' = IF mu = g THEN None ELSE mu
    BY <1>1, <1>2
  <2>4. s.pc \notin {"store", "feed"} /\ s.pc \in {"screen", "feed"}
    BY <1>1
  <2> QED BY <1>1, <1>2, <1>3, <2>1, <2>2, <2>3, <2>4, OverQuiet
<1>5. CASE ~CtxDone(g)
  <2>1. gor' = [gor EXCEPT ![g].pc = "take"] /\ done' = done /\ lock' = lock /\ careless' = careless
    BY <1>5 DEF CheckCtx, Goto
  <2>2. gor' = [gor EXCEPT ![g] = [pc |-> "take", op |-> s.op, method |-> s.method, chunk |-> s.chunk]]
    <3>1. gor \in [Goroutine -> GorState]
      BY <1>2
    <3> QED BY <2>1, <3>1, Relabel, Zenon
  <2>3. Fit(g, "take", s.op, s.method, s.chunk)
    BY <1>1, <1>2 DEF Fit, GorLabels, Active
  <2>4. ~Fresh("take", s.op) /\ s.pc \in Active /\ s.pc \notin {"new", "done", "await"}
    BY <1>1 DEF Fresh, Active
  <2>5. Control(gor', mu', lock', isPolling')
    <3>1. "take" \notin {"new", "done", "await"}
      OBVIOUS
    <3>2. Control(gor', mu, lock, isPolling)
      BY <2>2, <2>3, <2>4, <3>1, Stays, Zenon
    <3> QED BY <1>1, <2>1, <3>2
  <2>6. RemoteTypes'
    BY <1>1, <2>1 DEF RemoteInv, RemoteTypes
  <2>7. gor'[g].pc = "take" /\ Hand(gor') = Hand(gor) /\ \A h \in Goroutine \ {g} : gor'[h] = gor[h]
    BY <2>2, Single, ZenonT(60)
  <2>8. Rpc'
    BY <1>1, <2>4, <2>7, RpcFrame
  <2>9. \A c \in Call : gor[c].pc \in {"screen", "take"} => gor'[c].pc \in {"screen", "take"}
    BY <2>7, Kinds
  <2> QED BY <1>1, <2>1, <2>5, <2>6, <2>7, <2>8, <2>9, Quiet
<1> QED BY <1>4, <1>5

\* The reaper takes the session.
LEMMA ReapInv ==
    ASSUME RemoteInv, Reap
    PROVE  RemoteInv'
<1> DEFINE g == Reaper
           s == gor[g]
<1>1. /\ s.pc = "new" /\ registered' = FALSE /\ alive' = FALSE
      /\ done' = done /\ lock' = lock /\ mu' = mu /\ wire' = wire /\ replies' = replies
      /\ cache' = cache /\ localBuf' = localBuf /\ localMark' = localMark /\ produced' = produced /\ rmark' = rmark
      /\ remoteOpen' = remoteOpen /\ conn' = conn /\ isPolling' = isPolling
      /\ skipped' = skipped /\ dropped' = dropped /\ probed' = probed /\ careless' = careless
  BY DEF Reap, Pc, rpcVars, bufVars, daemonVars, histVars
<1>2. g \in Goroutine /\ g \notin Call /\ g \notin Pollers /\ \A c \in Call : g # Poller(c)
  BY Kinds
<1>3. /\ gor \in [Goroutine -> GorState] /\ Fit(g, s.pc, s.op, s.method, s.chunk) /\ mu # g
  BY <1>1, <1>2, Known
<1>4. gor' = [gor EXCEPT ![g] = [pc |-> "call", op |-> "close", method |-> "close", chunk |-> s.chunk]]
  <2> DEFINE q == [s EXCEPT !.pc = "call"]
             r == [q EXCEPT !.op = "close"]
  <2>1. s \in GorState /\ gor' = [gor EXCEPT ![g] = [r EXCEPT !.method = "close"]]
    BY <1>2, <1>3 DEF Reap
  <2> HIDE DEF s
  <2>2. q \in GorState /\ q.pc = "call" /\ q.chunk = s.chunk
    BY <2>1 DEF GorState
  <2> HIDE DEF q
  <2>3. r \in GorState /\ r.pc = q.pc /\ r.op = "close" /\ r.chunk = q.chunk
    BY <2>2 DEF GorState
  <2> HIDE DEF r
  <2>4. [r EXCEPT !.method = "close"] = [pc |-> r.pc, op |-> r.op, method |-> "close", chunk |-> r.chunk]
    BY <2>3 DEF GorState
  <2> QED BY <2>1, <2>2, <2>3, <2>4, Zenon
<1>5. Fit(g, "call", "close", "close", s.chunk)
  BY <1>1, <1>2, <1>3 DEF Fit, GorLabels
<1> HIDE DEF g
<1>6. May(gor, mu, lock, isPolling, g, "call", "close", "close", s.chunk, mu', lock', isPolling')
  BY <1>1, <1>2, <1>3, <1>5 DEF May
<1>7. Control(gor', mu', lock', isPolling')
  <2>1. Control(gor, mu, lock, isPolling)
    BY DEF RemoteInv
  <2> QED BY <1>2, <1>4, <1>6, <2>1, Goes, Zenon
<1>8. RemoteTypes'
  BY <1>1, Zenon DEF RemoteInv, RemoteTypes
<1>9. Rpc'
  <2>1. \A h \in Goroutine \ {g} : gor'[h] = gor[h]
    BY <1>2, <1>4, Single
  <2> QED BY <1>1, <1>2, <2>1, RpcFrame
<1> QED BY <1>1, <1>2, <1>4, <1>7, <1>8, <1>9, QuietStep, Zenon

\* The poller of call c, whose wait_for begins, may start.
LEMMA Launch ==
    ASSUME NEW G, NEW u, NEW l, NEW w, Control(G, u, l, w), NEW c \in Call,
           ~Fresh(G[c].pc, G[c].op), NEW g, g = Poller(c), G[g].pc = "new"
    PROVE  May(G, u, l, w, g, "start", G[g].op, G[g].method, G[g].chunk, u, l, w)
<1> DEFINE s == G[g]
<1>1. /\ g \in Goroutine /\ g \in Pollers /\ g \notin Call /\ g # Reaper
      /\ \A d \in Call : g = Poller(d) => d = c
  BY Kinds
<1>2. Fit(g, s.pc, s.op, s.method, s.chunk) /\ u # g
  BY <1>1 DEF Control
<1>3. Fit(g, "start", s.op, s.method, s.chunk)
  BY <1>1, <1>2 DEF Fit, GorLabels
<1>4. \A d \in Call : g = Poller(d) => ~Fresh(G[d].pc, G[d].op)
  BY <1>1
<1>5. "start" \notin Active
  BY DEF Active
<1> QED BY <1>1, <1>2, <1>3, <1>4, <1>5 DEF May

\* A call gets the lock.
LEMMA StartCallInv ==
    ASSUME RemoteInv, NEW c \in Call, NEW op \in Op, Start(c, op)
    PROVE  RemoteInv'
<1> DEFINE s == gor[c]
           P == CASE op \in {"input", "raw", "input_wait"} -> "write"
                  [] op = "read"               -> "screen"
                  [] op \in {"close", "resize"} -> "call"
                  [] op = "detach"             -> "closers"
                  [] op = "wait"               -> "waiting"
           M == IF op \in {"close", "resize"} THEN op ELSE None
           G == [gor EXCEPT ![c] = [pc |-> P, op |-> op, method |-> M, chunk |-> s.chunk]]
<1>1. /\ s.pc = "new" /\ lock = None /\ lock' = c /\ conn # "none"
      /\ done' = done /\ mu' = mu /\ wire' = wire /\ replies' = replies
      /\ cache' = cache /\ localBuf' = localBuf /\ localMark' = localMark /\ produced' = produced /\ rmark' = rmark
      /\ remoteOpen' = remoteOpen /\ conn' = conn /\ isPolling' = isPolling
      /\ skipped' = skipped /\ dropped' = dropped /\ probed' = probed /\ careless' = careless
  BY DEF Start, Pc, rpcVars, bufVars, daemonVars, histVars
<1>2. /\ registered' = (registered /\ op \notin {"close", "detach"})
      /\ alive' = (alive /\ op \notin {"close", "detach"})
  BY DEF Start
<1>3. /\ c \in Goroutine /\ c \notin Pollers /\ c # Reaper /\ Poller(c) \in Goroutine /\ Poller(c) # c
      /\ \A d \in Call : d \in Goroutine /\ c # Poller(d)
  BY Kinds
<1>4. /\ gor \in [Goroutine -> GorState] /\ Fit(c, s.pc, s.op, s.method, s.chunk) /\ mu # c
      /\ gor[Poller(c)].pc = "new" /\ mu # Poller(c)
  <2>1. gor \in [Goroutine -> GorState] /\ Fit(c, s.pc, s.op, s.method, s.chunk) /\ mu # c
    BY <1>1, <1>3, Known
  <2>2. gor[Poller(c)].pc = "new"
    BY <1>1 DEF RemoteInv, Control, Fresh
  <2> QED BY <1>3, <2>1, <2>2, Known
<1>5. op \in {"input", "raw", "input_wait", "wait", "read", "resize", "close", "detach"}
  BY RemoteAssumption
<1>6. P \in {"write", "screen", "call", "closers", "waiting"} /\ (op = "wait" => P = "waiting")
  BY <1>5
<1>7. Fit(c, P, op, M, s.chunk)
  <2>1. s.chunk = <<>> /\ s.chunk \in Seq(RemoteByte) /\ Inj(s.chunk)
    BY <1>1, <1>4 DEF Fit
  <2>2. /\ M \in {"close", "resize", None} /\ (P = "call" => M \in {"close", "resize"})
        /\ (P = "write" => op \in {"input", "raw", "input_wait"})
        /\ (P \in {"screen", "take"} => op # "input_wait")
    BY <1>5
  <2>3. P \in GorLabels /\ P \notin {"start", "poll", "store", "feed", "await", "new", "done"}
    BY <1>6 DEF GorLabels
  <2> HIDE DEF P, M, s
  <2> QED BY <1>3, <2>1, <2>2, <2>3 DEF Fit
<1>8. gor' = [G EXCEPT ![Poller(c)].pc = IF op = "wait" THEN "start" ELSE gor[Poller(c)].pc]
  <2> DEFINE q == [s EXCEPT !.op = op]
             r == [q EXCEPT !.method = M]
  <2>1. s \in GorState
    BY <1>3, <1>4
  <2>2. gor' = [[gor EXCEPT ![c] = [r EXCEPT !.pc = P]]
                   EXCEPT ![Poller(c)].pc = IF op = "wait" THEN "start" ELSE gor[Poller(c)].pc]
    <3> DEFINE A == [gor EXCEPT ![c] = q]
               B == [A EXCEPT ![c] = [A[c] EXCEPT !.method = M]]
               C == [B EXCEPT ![c] = [B[c] EXCEPT !.pc = P]]
    <3>1. gor' = [C EXCEPT ![Poller(c)].pc = IF op = "wait" THEN "start" ELSE gor[Poller(c)].pc]
      BY Zenon DEF Start, Pc
    <3> HIDE DEF P, M, q
    <3>2. A[c] = q /\ B = [gor EXCEPT ![c] = r]
      BY <1>3, <1>4
    <3> HIDE DEF A, B, r
    <3>3. C = [gor EXCEPT ![c] = [r EXCEPT !.pc = P]]
      BY <1>3, <1>4, <3>2
    <3> HIDE DEF C
    <3> QED BY <3>1, <3>3, Zenon
  <2> HIDE DEF s, P, M
  <2>3. q \in GorState /\ q.op = op /\ q.chunk = s.chunk
    BY <2>1 DEF GorState
  <2> HIDE DEF q
  <2>4. r \in GorState /\ r.op = op /\ r.method = M /\ r.chunk = s.chunk
    <3>1. M \in {"send", "read", "close", "resize", None}
      BY DEF M
    <3> QED BY <2>3, <3>1 DEF GorState
  <2> HIDE DEF r
  <2>5. [r EXCEPT !.pc = P] = [pc |-> P, op |-> r.op, method |-> r.method, chunk |-> r.chunk]
    BY <2>4 DEF GorState
  <2> QED BY <2>2, <2>4, <2>5, Zenon
<1> HIDE DEF P, M
<1>9. Control(G, mu', lock', isPolling')
  <2>1. Control(gor, mu, lock, isPolling)
    BY DEF RemoteInv
  <2>2. P \notin {"new", "done", "await"} /\ Fresh(gor[c].pc, gor[c].op)
    BY <1>1, <1>6 DEF Fresh
  <2>3. May(gor, mu, lock, isPolling, c, P, op, M, s.chunk, mu', lock', isPolling')
    BY <1>1, <1>3, <1>4, <1>7, <2>2 DEF May
  <2> HIDE DEF s
  <2> QED BY <1>3, <2>1, <2>3, Goes
<1>10. /\ G[c].pc = P /\ G[c].op = op /\ G[c].chunk = s.chunk /\ \A h \in Goroutine \ {c} : G[h] = gor[h]
       /\ G \in [Goroutine -> GorState]
  <2>1. G \in [Goroutine -> GorState]
    BY <1>9 DEF Control
  <2> QED BY <1>3, <1>4, <2>1
<1>11. Hand(G) = Hand(gor)
  BY <1>10 DEF Hand
<1> HIDE DEF G
<1>12. Control(gor', mu', lock', isPolling') /\ Hand(gor') = Hand(gor)
       /\ \A h \in Goroutine \ {c, Poller(c)} : gor'[h] = gor[h]
  <2>1. CASE op = "wait"
    <3>1. ~Fresh(G[c].pc, G[c].op)
      BY <1>6, <1>10, <2>1 DEF Fresh
    <3>2. gor' = [G EXCEPT ![Poller(c)].pc = "start"] /\ G[Poller(c)].pc = "new"
      BY <1>3, <1>4, <1>8, <1>10, <2>1
    <3>3. PICK g : g = Poller(c)
      OBVIOUS
    <3>4. g \in Goroutine /\ G[g].pc = "new" /\ gor' = [G EXCEPT ![g].pc = "start"]
      BY <1>3, <3>2, <3>3
    <3>5. gor' = [G EXCEPT ![g] = [pc |-> "start", op |-> G[g].op, method |-> G[g].method, chunk |-> G[g].chunk]]
      <4>1. G \in [Goroutine -> GorState]
        BY <1>10
      <4> QED BY <3>4, <4>1, Relabel, Zenon
    <3>6. May(G, mu', lock', isPolling', g, "start", G[g].op, G[g].method, G[g].chunk, mu', lock', isPolling')
      BY <1>9, <3>1, <3>3, <3>4, Launch
    <3>7. Control(gor', mu', lock', isPolling')
      <4>1. g \in Goroutine
        BY <3>4
      <4> QED BY <1>9, <3>5, <3>6, <4>1, Goes, Zenon
    <3>8. gor'[g].chunk = G[g].chunk /\ \A h \in Goroutine \ {g} : gor'[h] = G[h]
      BY <1>10, <3>4, <3>5
    <3>9. Hand(gor') = Hand(G)
      BY <3>8 DEF Hand
    <3> QED BY <1>10, <1>11, <3>3, <3>7, <3>8, <3>9
  <2>2. CASE op # "wait"
    <3>1. gor' = [G EXCEPT ![Poller(c)].pc = G[Poller(c)].pc]
      BY <1>3, <1>8, <1>10, <2>2, Zenon
    <3>2. gor' = G
      <4> DEFINE q == G[Poller(c)]
      <4>1. q \in GorState /\ gor' = [G EXCEPT ![Poller(c)] = [q EXCEPT !.pc = q.pc]]
        BY <1>3, <1>10, <3>1
      <4>2. G = [G EXCEPT ![Poller(c)] = q]
        BY <1>3, <1>10
      <4> HIDE DEF q
      <4>3. [q EXCEPT !.pc = q.pc] = q
        BY <4>1 DEF GorState
      <4> QED BY <4>1, <4>2, <4>3
    <3> QED BY <1>9, <1>10, <1>11, <3>2
  <2> QED BY <2>1, <2>2
<1>13. RemoteTypes'
  <2>1. registered' \in BOOLEAN /\ alive' \in BOOLEAN
    BY <1>2
  <2> QED BY <1>1, <2>1 DEF RemoteInv, RemoteTypes
<1>14. Rpc'
  <2>1. mu # None => gor'[mu] = gor[mu]
    BY <1>3, <1>4, <1>12, Known
  <2> QED BY <1>1, <2>1 DEF RemoteInv, Rpc
<1>15. \A d \in Call : gor[d].pc \notin {"screen", "take"}
  <2>1. None \notin Call
    BY Kinds
  <2> QED BY <1>1, <1>3, <2>1, Known
<1> QED BY <1>1, <1>12, <1>13, <1>14, <1>15, Quiet

\* Where the output is.
LEMMA Spread ==
    ASSUME RemoteInv
    PROVE  /\ Split(ToSet(localBuf), Cached, OnWire, skipped, dropped, Hand(gor), rmark)
           /\ Hand(gor) = [g \in Goroutine |-> Hand(gor)[g]]
           /\ rmark \in Nat /\ produced \in Nat /\ rmark <= produced /\ produced <= MaxOut
           /\ OnWire \subseteq RemoteByte /\ Cached \subseteq RemoteByte
<1>1. Split(ToSet(localBuf), Cached, OnWire, skipped, dropped, Hand(gor), rmark)
  BY DEF RemoteInv, Data
<1>2. Hand(gor) = [g \in Goroutine |-> Hand(gor)[g]]
  BY DEF Hand
<1>3. rmark \in Nat /\ produced \in Nat /\ rmark <= produced /\ produced <= MaxOut /\ MaxOut \in Nat
  BY RemoteAssumption DEF RemoteInv, RemoteTypes
<1>4. \A b : b \in OnWire \/ b \in Cached => b \in 1 .. rmark
  BY <1>1 DEF Split
<1>5. \A b : b \in 1 .. rmark => b \in RemoteByte
  BY <1>3 DEF RemoteByte
<1> QED BY <1>1, <1>2, <1>3, <1>4, <1>5

\* The transport ends.
LEMMA Lose ==
    ASSUME RemoteInv, LoseWire, Control(gor', mu', lock', isPolling'),
           done' \subseteq Call \union {Reaper}, Hand(gor') = Hand(gor),
           registered' = registered, cache' = cache, localBuf' = localBuf, localMark' = localMark, produced' = produced,
           rmark' = rmark, remoteOpen' = remoteOpen, alive' = alive, isPolling' = isPolling,
           skipped' = skipped, probed' = probed, careless' = careless,
           \A c \in Call : gor[c].pc \in {"screen", "take"} => gor'[c].pc \in {"screen", "take"}
    PROVE  RemoteInv'
<1>1. conn' = "down" /\ wire' = <<>> /\ replies' = <<>> /\ dropped' = dropped \union OnWire
  BY DEF LoseWire
<1>2. dropped' \subseteq RemoteByte /\ probed' \subseteq dropped'
  <2>1. dropped \subseteq RemoteByte /\ probed \subseteq dropped
    BY DEF RemoteInv, RemoteTypes
  <2> QED BY <1>1, <2>1, Spread
<1>3. RemoteTypes'
  BY <1>1, <1>2 DEF RemoteInv, RemoteTypes
<1>4. Rpc'
  BY <1>1 DEF Rpc
<1>5. OnWire' = {} /\ Cached' = Cached
  BY <1>1 DEF OnWire, Cached
<1>6. Split(ToSet(localBuf), Cached, OnWire, skipped, dropped, Hand(gor), rmark)'
  <2>1. Split(ToSet(localBuf), Cached, {}, skipped, dropped \union OnWire, Hand(gor), rmark)
    BY Spread, Moves, Zenon
  <2> QED BY <1>1, <1>5, <2>1
<1>7. DropsExcused'
  BY <1>1 DEF DropsExcused
<1>8. (~careless /\ cache # None => \E c \in Call : gor[c].pc \in {"screen", "take"})'
  BY DEF RemoteInv, Data
<1>9. (Inj(localBuf) /\ (cache # None => Inj(cache)) /\ (conn = "none" => rmark = 0))'
  BY <1>1 DEF RemoteInv, Data
<1>10. Data'
  BY <1>6, <1>7, <1>8, <1>9 DEF Data
<1> QED BY <1>3, <1>4, <1>10 DEF RemoteInv

\* The connection breaks, or the session is closed on this side.
LEMMA LostInv ==
    ASSUME RemoteInv, ConnectionLost \/ \E g \in Goroutine : CloseTransport(g)
    PROVE  RemoteInv'
<1>1. /\ LoseWire /\ registered' = registered /\ mu' = mu /\ cache' = cache /\ localBuf' = localBuf /\ localMark' = localMark
      /\ produced' = produced /\ rmark' = rmark /\ remoteOpen' = remoteOpen /\ alive' = alive /\ isPolling' = isPolling
      /\ skipped' = skipped /\ probed' = probed /\ careless' = careless
  BY DEF ConnectionLost, CloseTransport, mgrVars, bufVars, daemonVars
<1>2. CASE ConnectionLost
  <2>1. gor' = gor /\ done' = done /\ lock' = lock
    BY <1>2 DEF ConnectionLost, mgrVars
  <2>2. Control(gor', mu', lock', isPolling') /\ done' \subseteq Call \union {Reaper}
    BY <1>1, <2>1 DEF RemoteInv, RemoteTypes
  <2> QED BY <1>1, <2>1, <2>2, Lose
<1>3. ASSUME NEW g \in Goroutine, CloseTransport(g) PROVE RemoteInv'
  <2>1. EndCall(g) /\ gor[g].pc = "closers"
    BY <1>3 DEF CloseTransport, Pc
  <2>2. g \notin Pollers /\ mu # g /\ gor[g].chunk = <<>>
    BY <2>1, Known DEF Fit, Active
  <2>3. /\ \E p, o, m : gor' = [gor EXCEPT ![g] = [pc |-> p, op |-> o, method |-> m, chunk |-> <<>>]]
        /\ done' \subseteq Call \union {Reaper}
        /\ Control(gor', IF mu = g THEN None ELSE mu, lock', isPolling)
    BY <2>1, <2>2, Over
  <2>4. Control(gor', mu', lock', isPolling')
    BY <1>1, <2>2, <2>3
  <2>5. PICK p, o, m : gor' = [gor EXCEPT ![g] = [pc |-> p, op |-> o, method |-> m, chunk |-> <<>>]]
    BY <2>3, Zenon
  <2>6. Hand(gor') = Hand(gor) /\ \A h \in Goroutine \ {g} : gor'[h] = gor[h]
    BY <2>2, <2>5, Single, Zenon
  <2>7. \A c \in Call : gor[c].pc \in {"screen", "take"} => gor'[c].pc \in {"screen", "take"}
    BY <2>1, <2>6, Kinds
  <2> QED BY <1>1, <2>3, <2>4, <2>6, <2>7, Lose
<1> QED BY <1>2, <1>3

\* Attach throws away what the session has printed so far.
LEMMA AttachInv ==
    ASSUME RemoteInv, Attach
    PROVE  RemoteInv'
<1>1. /\ conn = "none" /\ conn' = "up" /\ alive' = TRUE /\ registered' = TRUE
      /\ rmark' = produced /\ probed' = 1 .. produced /\ dropped' = 1 .. produced
      /\ gor' = gor /\ done' = done /\ lock' = lock /\ mu' = mu /\ wire' = wire /\ replies' = replies
      /\ cache' = cache /\ localBuf' = localBuf /\ localMark' = localMark /\ produced' = produced /\ remoteOpen' = remoteOpen
      /\ isPolling' = isPolling /\ skipped' = skipped /\ careless' = careless
  BY DEF Attach, rpcVars, bufVars
<1>2. 1 .. produced \subseteq RemoteByte /\ produced \in 0 .. produced
  BY Spread, RemoteAssumption DEF RemoteByte
<1>3. RemoteTypes'
  BY <1>1, <1>2 DEF RemoteInv, RemoteTypes
<1>4. Rpc'
  BY <1>1 DEF RemoteInv, Rpc
<1>5. OnWire' = OnWire /\ Cached' = Cached
  BY <1>1 DEF OnWire, Cached
<1>6. Split(ToSet(localBuf), Cached, OnWire, skipped, dropped, Hand(gor), rmark)'
  <2>1. rmark = 0
    BY <1>1 DEF RemoteInv, Data
  <2>2. Split(ToSet(localBuf), Cached, OnWire, skipped, 1 .. produced, Hand(gor), produced)
    BY <2>1, Spread, Moves, Zenon
  <2> QED BY <1>1, <1>5, <2>2
<1>7. DropsExcused'
  BY <1>1 DEF DropsExcused
<1>8. (~careless /\ cache # None => \E c \in Call : gor[c].pc \in {"screen", "take"})'
  BY <1>1 DEF RemoteInv, Data
<1>9. (Inj(localBuf) /\ (cache # None => Inj(cache)) /\ (conn = "none" => rmark = 0))'
  BY <1>1 DEF RemoteInv, Data
<1>10. Data'
  BY <1>6, <1>7, <1>8, <1>9 DEF Data
<1>11. Control(gor', mu', lock', isPolling')
  BY <1>1 DEF RemoteInv
<1> QED BY <1>3, <1>4, <1>10, <1>11 DEF RemoteInv

\* The request the daemon finds is that of the mutex's holder.
LEMMA Asked ==
    ASSUME RemoteInv, wire # <<>>
    PROVE  /\ mu # None /\ mu \in Goroutine /\ conn = "up" /\ replies = <<>> /\ OnWire = {}
           /\ \E b \in BOOLEAN : wire = <<[from |-> mu, wrote |-> b]>>
<1>1. mu # None /\ conn = "up" /\ replies = <<>> /\ \E b \in BOOLEAN : wire = <<[from |-> mu, wrote |-> b]>>
  BY DEF RemoteInv, Rpc
<1>2. mu \in Goroutine
  BY <1>1 DEF RemoteInv, Control
<1> QED BY <1>1, <1>2 DEF OnWire

\* The daemon writes to the terminal and skips what was unread.
LEMMA DaemonWriteInv ==
    ASSUME RemoteInv, DaemonWrite
    PROVE  RemoteInv'
<1>1. /\ wire # <<>> /\ wire' = <<[Head(wire) EXCEPT !.wrote = TRUE]>> \o Tail(wire)
      /\ rmark' = produced /\ skipped' = skipped \union (rmark + 1 .. produced)
      /\ gor' = gor /\ done' = done /\ lock' = lock /\ registered' = registered /\ mu' = mu /\ replies' = replies
      /\ cache' = cache /\ localBuf' = localBuf /\ localMark' = localMark /\ produced' = produced /\ remoteOpen' = remoteOpen
      /\ conn' = conn /\ alive' = alive /\ isPolling' = isPolling
      /\ dropped' = dropped /\ probed' = probed /\ careless' = careless
  BY DEF DaemonWrite, mgrVars, bufVars, lifeVars
<1>2. PICK b \in BOOLEAN : wire = <<[from |-> mu, wrote |-> b]>>
  BY <1>1, Asked
<1>3. wire' = <<[from |-> mu', wrote |-> TRUE]>>
  <2> DEFINE h == Head(wire)
  <2>1. h \in [from : Goroutine, wrote : BOOLEAN] /\ h.from = mu /\ Tail(wire) = <<>>
    BY <1>1, <1>2, Asked
  <2>2. wire' = <<[h EXCEPT !.wrote = TRUE]>> \o Tail(wire)
    BY <1>1
  <2> HIDE DEF h
  <2>3. ASSUME NEW x PROVE [h EXCEPT !.wrote = x] = [from |-> h.from, wrote |-> x]
    BY <2>1
  <2>4. [h EXCEPT !.wrote = TRUE] = [from |-> mu', wrote |-> TRUE]
    BY <1>1, <2>1, <2>3, Zenon
  <2>5. ASSUME NEW x PROVE <<x>> \o <<>> = <<x>>
    OBVIOUS
  <2> QED BY <2>1, <2>2, <2>4, <2>5, Zenon
<1>4. Rpc'
  <2>1. mu' # None /\ conn' = "up" /\ replies' = <<>>
    BY <1>1, Asked
  <2> QED BY <1>3, <2>1, Zenon DEF Rpc
<1>5. skipped' \subseteq RemoteByte /\ produced \in 0 .. produced
  <2>1. rmark + 1 .. produced \subseteq RemoteByte /\ produced \in 0 .. produced
    BY Spread, RemoteAssumption DEF RemoteByte
  <2>2. skipped \subseteq RemoteByte
    BY DEF RemoteInv, RemoteTypes
  <2> QED BY <1>1, <2>1, <2>2
<1>6. RemoteTypes'
  BY <1>1, <1>5 DEF RemoteInv, RemoteTypes
<1>7. OnWire' = OnWire /\ Cached' = Cached
  BY <1>1 DEF OnWire, Cached
<1>8. Split(ToSet(localBuf), Cached, OnWire, skipped, dropped, Hand(gor), rmark)'
  <2>1. Split(ToSet(localBuf), Cached, OnWire, skipped \union (rmark + 1 .. produced), dropped, Hand(gor), produced)
    BY Spread, Moves, Zenon
  <2> QED BY <1>1, <1>7, <2>1
<1>9. (/\ Inj(localBuf) /\ (cache # None => Inj(cache)) /\ (conn = "none" => rmark = 0)
       /\ (~careless /\ cache # None => \E c \in Call : gor[c].pc \in {"screen", "take"})
       /\ DropsExcused)'
  BY <1>1, Asked DEF RemoteInv, Data, DropsExcused
<1>10. Data'
  BY <1>8, <1>9 DEF Data
<1>11. Control(gor', mu', lock', isPolling')
  BY <1>1 DEF RemoteInv
<1> QED BY <1>4, <1>6, <1>10, <1>11 DEF RemoteInv

\* The daemon answers, with what is unread if it was asked for output.
LEMMA DaemonServeInv ==
    ASSUME RemoteInv, DaemonServe
    PROVE  RemoteInv'
<1> DEFINE reads == gor[mu].method \in {"send", "read"} /\ remoteOpen
           s == IF reads THEN [k \in 1 .. produced - rmark |-> rmark + k] ELSE <<>>
           n == IF reads THEN produced ELSE rmark
<1>1. /\ wire # <<>> /\ wire' = Tail(wire)
      /\ gor' = gor /\ done' = done /\ lock' = lock /\ registered' = registered /\ mu' = mu
      /\ cache' = cache /\ localBuf' = localBuf /\ localMark' = localMark /\ produced' = produced
      /\ conn' = conn /\ alive' = alive /\ isPolling' = isPolling
      /\ skipped' = skipped /\ dropped' = dropped /\ probed' = probed /\ careless' = careless
  BY DEF DaemonServe, mgrVars, bufVars, lifeVars, histVars
<1>2. PICK b \in BOOLEAN : wire = <<[from |-> mu, wrote |-> b]>>
  BY <1>1, Asked
<1>3. Head(wire).from = mu /\ Tail(wire) = <<>>
  BY <1>2
<1>4. /\ replies' = Append(replies, [to |-> mu, ok |-> remoteOpen, bytes |-> s])
      /\ rmark' = n /\ remoteOpen' = (remoteOpen /\ gor[mu].method # "close")
  BY <1>3, Zenon DEF DaemonServe
<1>5. /\ rmark \in Nat /\ produced \in Nat /\ rmark <= produced /\ produced <= MaxOut
      /\ n \in Nat /\ rmark <= n /\ n <= produced /\ remoteOpen \in BOOLEAN
  BY Spread DEF RemoteInv, RemoteTypes
<1>6. s \in Seq(RemoteByte) /\ Inj(s) /\ ToSet(s) = rmark + 1 .. n
  <2>1. CASE reads
    <3>1. /\ DOMAIN s = 1 .. produced - rmark /\ Len(s) = produced - rmark
          /\ \A k \in 1 .. produced - rmark : s[k] = rmark + k
          /\ s \in Seq(RemoteByte)
      <4>1. s = [k \in 1 .. produced - rmark |-> rmark + k]
        BY <2>1
      <4>2. produced - rmark \in Nat /\ \A k \in 1 .. produced - rmark : rmark + k \in RemoteByte
        BY <1>5, RemoteAssumption DEF RemoteByte
      <4> QED BY <4>1, <4>2
    <3>2. Inj(s)
      BY <1>5, <3>1 DEF Inj
    <3>3. ToSet(s) = {rmark + k : k \in 1 .. produced - rmark}
      BY <3>1 DEF ToSet
    <3>4. \A x \in rmark + 1 .. produced : x - rmark \in 1 .. produced - rmark /\ x = rmark + (x - rmark)
      BY <1>5
    <3>5. {rmark + k : k \in 1 .. produced - rmark} = rmark + 1 .. produced
      BY <1>5, <3>4
    <3> QED BY <2>1, <3>1, <3>2, <3>3, <3>5, Zenon
  <2>2. CASE ~reads
    <3>1. s = <<>> /\ n = rmark /\ <<>> \in Seq(RemoteByte) /\ rmark + 1 .. rmark = {}
      BY <1>5, <2>2
    <3>2. ToSet(<<>>) = {} /\ Inj(<<>>)
      BY DEF ToSet, Inj
    <3> QED BY <3>1, <3>2, Zenon
  <2> QED BY <2>1, <2>2
<1>7. s # <<>> => remoteOpen /\ gor[mu].method \in {"send", "read"}
  OBVIOUS
<1> HIDE DEF s, n
<1>8. replies' = <<[to |-> mu', ok |-> remoteOpen, bytes |-> s]>>
  <2>1. replies = <<>>
    BY <1>1, Asked
  <2> QED BY <1>1, <1>4, <2>1
<1>9. Rpc'
  <2>1. mu' # None /\ conn' = "up" /\ wire' = <<>>
    BY <1>1, <1>3, Asked
  <2> QED BY <1>1, <1>5, <1>6, <1>7, <1>8, <2>1 DEF Rpc
<1>10. RemoteTypes'
  <2>1. rmark' \in 0 .. produced' /\ remoteOpen' \in BOOLEAN
    BY <1>1, <1>4, <1>5
  <2> QED BY <1>1, <2>1 DEF RemoteInv, RemoteTypes
<1>11. OnWire = {} /\ OnWire' = ToSet(s) /\ Cached' = Cached
  <2>1. OnWire' = ToSet(s)
    <3>1. DOMAIN replies' = {1} /\ replies'[1].bytes = s
      BY <1>8
    <3> QED BY <3>1 DEF OnWire
  <2> QED BY <1>1, <2>1, Asked DEF Cached
<1>12. Split(ToSet(localBuf), Cached, OnWire, skipped, dropped, Hand(gor), rmark)'
  <2>1. Split(ToSet(localBuf), Cached, rmark + 1 .. n, skipped, dropped, Hand(gor), n)
    BY <1>5, <1>11, Spread, Moves, Zenon
  <2> QED BY <1>1, <1>4, <1>6, <1>11, <2>1
<1>13. (/\ Inj(localBuf) /\ (cache # None => Inj(cache)) /\ (conn = "none" => rmark = 0)
        /\ (~careless /\ cache # None => \E c \in Call : gor[c].pc \in {"screen", "take"})
        /\ DropsExcused)'
  BY <1>1, Asked DEF RemoteInv, Data, DropsExcused
<1>14. Data'
  BY <1>12, <1>13 DEF Data
<1>15. Control(gor', mu', lock', isPolling')
  BY <1>1 DEF RemoteInv
<1> QED BY <1>9, <1>10, <1>14, <1>15 DEF RemoteInv

\* A caller scans the answer to its request.
LEMMA ReadInv ==
    ASSUME RemoteInv, NEW g \in Goroutine, ReadResponse(g)
    PROVE  RemoteInv'
<1> DEFINE t == gor[g]
<1>1. /\ t.pc = "await" /\ replies # <<>> /\ replies' = Tail(replies) /\ mu' = None
      /\ registered' = registered /\ wire' = wire
      /\ cache' = cache /\ localBuf' = localBuf /\ localMark' = localMark /\ produced' = produced /\ rmark' = rmark
      /\ remoteOpen' = remoteOpen /\ conn' = conn /\ alive' = alive /\ isPolling' = isPolling
      /\ skipped' = skipped /\ dropped' = dropped /\ probed' = probed /\ careless' = careless
  BY DEF ReadResponse, Pc, bufVars, daemonVars, lifeVars, histVars
<1>2. /\ mu = g /\ gor \in [Goroutine -> GorState] /\ Fit(g, t.pc, t.op, t.method, t.chunk) /\ g # None
      /\ g \in Call => lock = g
      /\ \A c \in Call : g = Poller(c) => ~Fresh(gor[c].pc, gor[c].op)
      /\ g \in Pollers => isPolling
      /\ g \in Call \/ g \in Pollers \/ g = Reaper
  <2>1. "await" \in Active
    BY DEF Active
  <2> QED BY <1>1, <2>1, Known
<1>3. PICK ok \in BOOLEAN, s \in Seq(RemoteByte) :
        /\ replies = <<[to |-> g, ok |-> ok, bytes |-> s]>>
        /\ Inj(s) /\ (s # <<>> => ok /\ t.method \in {"send", "read"})
  BY <1>1, <1>2 DEF RemoteInv, Rpc
<1>4. Head(replies).ok = ok /\ Head(replies).bytes = s /\ Tail(replies) = <<>> /\ wire = <<>>
  BY <1>1, <1>3 DEF RemoteInv, Rpc
<1>5. t.chunk = <<>> /\ t.method \in {"send", "read", "close", "resize"} /\ (t.method = "resize" => g \notin Pollers)
  BY <1>1, <1>2 DEF Fit
<1>6. /\ \E p, o, m : gor' = [gor EXCEPT ![g] = [pc |-> p, op |-> o, method |-> m, chunk |-> s]]
      /\ done' \subseteq Call \union {Reaper}
      /\ Control(gor', None, lock', isPolling)
  <2>1. CASE ~ok \/ t.method = "resize"
    <3>1. s = <<>>
      BY <1>3, <2>1
    <3>2. \/ EndCall(g) /\ g \notin Pollers /\ gor[g].pc \notin {"new", "done"}
          \/ AfterError(g) /\ gor[g].pc \in {"call", "await"}
      BY <1>1, <1>4, <1>5, <2>1 DEF ReadResponse
    <3>3. /\ \E p, o, m : gor' = [gor EXCEPT ![g] = [pc |-> p, op |-> o, method |-> m, chunk |-> <<>>]]
          /\ done' \subseteq Call \union {Reaper}
          /\ Control(gor', IF mu = g THEN None ELSE mu, lock', isPolling)
      BY <3>2, Over
    <3> QED BY <1>2, <3>1, <3>3, Zenon
  <2>2. CASE ok /\ t.method # "resize"
    <3> DEFINE P == CASE t.method = "send"  -> "store"
                      [] t.method = "read"  -> "feed"
                      [] t.method = "close" -> "closers"
    <3>1. gor' = [gor EXCEPT ![g].chunk = s, ![g].pc = P] /\ done' = done /\ lock' = lock
      BY <1>4, <2>2, Zenon DEF ReadResponse
    <3>2. /\ P \in {"store", "feed", "closers"} /\ (P = "store" => t.method = "send")
          /\ (P = "feed" => t.method = "read") /\ (P = "closers" => t.method = "close")
      BY <1>5, <2>2
    <3> HIDE DEF P
    <3>3. gor' = [gor EXCEPT ![g] = [pc |-> P, op |-> t.op, method |-> t.method, chunk |-> s]]
      <4> DEFINE q == [t EXCEPT !.chunk = s]
      <4>1. t \in GorState /\ gor' = [gor EXCEPT ![g] = [q EXCEPT !.pc = P]]
        BY <1>2, <3>1, Zenon
      <4> HIDE DEF t
      <4>2. q \in GorState /\ q.op = t.op /\ q.method = t.method /\ q.chunk = s
        BY <4>1, Zenon DEF GorState
      <4> HIDE DEF q
      <4>3. [q EXCEPT !.pc = P] = [pc |-> P, op |-> q.op, method |-> q.method, chunk |-> q.chunk]
        BY <4>2 DEF GorState
      <4> QED BY <4>1, <4>2, <4>3, Zenon
    <3>4. Fit(g, P, t.op, t.method, s)
      <4>1. P = "closers" => s = <<>>
        BY <1>3, <3>2
      <4>2. P \in GorLabels /\ (P = "feed" => P \in Active) /\ P \notin {"start", "poll", "call", "await", "write"}
        BY <3>2 DEF GorLabels, Active
      <4> HIDE DEF t
      <4> QED BY <1>1, <1>2, <1>3, <3>2, <4>1, <4>2 DEF Fit
    <3>5. Fresh(P, t.op) => Fresh(t.pc, t.op)
      BY <1>1, <3>2 DEF Fresh
    <3>6. P \notin {"new", "done", "await"} /\ t.pc \in Active
      BY <1>1, <3>2 DEF Active
    <3>7. May(gor, mu, lock, isPolling, g, P, t.op, t.method, s, None, lock', isPolling)
      BY <1>2, <3>1, <3>4, <3>5, <3>6 DEF May
    <3>8. Control(gor', None, lock', isPolling)
      <4>1. Control(gor, mu, lock, isPolling)
        BY DEF RemoteInv
      <4> HIDE DEF t
      <4> QED BY <3>3, <3>7, <4>1, Goes, Zenon
    <3>9. done' \subseteq Call \union {Reaper}
      BY <3>1 DEF RemoteInv, RemoteTypes
    <3> QED BY <3>3, <3>8, <3>9, Zenon
  <2> QED BY <2>1, <2>2
<1>7. PICK p, o, m : gor' = [gor EXCEPT ![g] = [pc |-> p, op |-> o, method |-> m, chunk |-> s]]
  BY <1>6, Zenon
<1>8. Hand(gor') = [Hand(gor) EXCEPT ![g] = ToSet(s)] /\ \A h \in Goroutine \ {g} : gor'[h] = gor[h]
  <2>1. gor'[g].chunk = s
    <3>1. g \in DOMAIN gor
      BY <1>2
    <3> HIDE DEF t
    <3> QED BY <1>7, <3>1
  <2>2. \A h \in Goroutine \ {g} : gor'[h] = gor[h]
    BY <1>7, Single
  <2> QED BY <2>1, <2>2, Handed
<1>9. RemoteTypes'
  BY <1>1, <1>6 DEF RemoteInv, RemoteTypes
<1>10. Rpc'
  BY <1>1, <1>4 DEF Rpc
<1>11. OnWire = ToSet(s) /\ OnWire' = {} /\ Cached' = Cached /\ Hand(gor)[g] = {}
  <2>1. DOMAIN replies = {1} /\ replies[1].bytes = s /\ replies' = <<>>
    BY <1>1, <1>3, <1>4
  <2>2. OnWire = ToSet(s) /\ OnWire' = {} /\ Cached' = Cached
    BY <1>1, <2>1 DEF OnWire, Cached
  <2> QED BY <1>5, <2>2 DEF Hand, ToSet
<1>12. Split(ToSet(localBuf), Cached, OnWire, skipped, dropped, Hand(gor), rmark)'
  <2>1. Split(ToSet(localBuf), Cached, {}, skipped, dropped, [Hand(gor) EXCEPT ![g] = OnWire], rmark)
    BY <1>11, Spread, Moves, Zenon
  <2> QED BY <1>1, <1>8, <1>11, <2>1
<1>13. (~careless /\ cache # None => \E c \in Call : gor[c].pc \in {"screen", "take"})'
  <2>1. \A c \in Call : gor[c].pc \in {"screen", "take"} => gor'[c].pc \in {"screen", "take"}
    BY <1>1, <1>8, Kinds
  <2> QED BY <1>1, <2>1 DEF RemoteInv, Data
<1>14. (Inj(localBuf) /\ (cache # None => Inj(cache)) /\ (conn = "none" => rmark = 0) /\ DropsExcused)'
  BY <1>1 DEF RemoteInv, Data, DropsExcused
<1>15. Data'
  BY <1>12, <1>13, <1>14 DEF Data
<1>16. Control(gor', mu', lock', isPolling')
  BY <1>1, <1>6
<1> QED BY <1>9, <1>10, <1>15, <1>16 DEF RemoteInv

\* The output goes into the local buffer.
LEMMA FeedInv ==
    ASSUME RemoteInv, NEW g \in Goroutine, FeedLocalBuf(g)
    PROVE  RemoteInv'
<1> DEFINE s == gor[g].chunk
<1>1. /\ gor[g].pc = "feed" /\ localBuf' = localBuf \o s /\ AfterRead(g)
      /\ registered' = registered /\ mu' = mu /\ wire' = wire /\ replies' = replies
      /\ cache' = cache /\ localMark' = localMark /\ produced' = produced /\ rmark' = rmark
      /\ remoteOpen' = remoteOpen /\ conn' = conn /\ alive' = alive /\ isPolling' = isPolling
      /\ skipped' = skipped /\ dropped' = dropped /\ probed' = probed /\ careless' = careless
  BY DEF FeedLocalBuf, Pc, rpcVars, daemonVars, lifeVars, histVars
<1>2. mu # g /\ s \in Seq(RemoteByte) /\ Inj(s)
  BY <1>1, Known DEF Fit
<1>3. localBuf \in Seq(RemoteByte) /\ localMark \in 0 .. Len(localBuf) /\ Inj(localBuf)
  BY DEF RemoteInv, RemoteTypes, Data
<1>4. ToSet(s) = Hand(gor)[g]
  BY DEF Hand
<1>5. /\ \E p, o, m : gor' = [gor EXCEPT ![g] = [pc |-> p, op |-> o, method |-> m, chunk |-> <<>>]]
      /\ done' \subseteq Call \union {Reaper}
      /\ Control(gor', IF mu = g THEN None ELSE mu, lock', isPolling)
  <2>1. AfterRead(g) /\ gor[g].pc \in {"screen", "feed"}
    BY <1>1
  <2> HIDE DEF s
  <2> QED BY <2>1, Over
<1>6. PICK p, o, m : gor' = [gor EXCEPT ![g] = [pc |-> p, op |-> o, method |-> m, chunk |-> <<>>]]
  BY <1>5, Zenon
<1>7. Hand(gor') = [Hand(gor) EXCEPT ![g] = {}] /\ \A h \in Goroutine \ {g} : gor'[h] = gor[h]
  <2>1. ToSet(<<>>) = {}
    BY DEF ToSet
  <2> HIDE DEF s
  <2>2. gor'[g].chunk = <<>>
    <3>1. g \in DOMAIN gor
      BY DEF RemoteInv, Control
    <3> QED BY <1>6, <3>1
  <2>3. \A h \in Goroutine \ {g} : gor'[h] = gor[h]
    BY <1>6, Single
  <2>4. Hand(gor') = [Hand(gor) EXCEPT ![g] = ToSet(<<>>)]
    BY <2>2, <2>3, Handed
  <2> QED BY <2>1, <2>3, <2>4, Zenon
<1> HIDE DEF s
<1>8. /\ localBuf' \in Seq(RemoteByte) /\ Len(localBuf') = Len(localBuf) + Len(s)
      /\ \A k \in 1 .. Len(localBuf) : localBuf'[k] = localBuf[k]
      /\ \A k \in 1 .. Len(s) : localBuf'[Len(localBuf) + k] = s[k]
      /\ Len(localBuf) \in Nat /\ Len(s) \in Nat
  BY <1>1, <1>2, <1>3
<1>9. \A k \in 1 .. Len(localBuf') : k \in 1 .. Len(localBuf) \/ \E j \in 1 .. Len(s) : k = Len(localBuf) + j
  <2>1. \A k \in 1 .. Len(localBuf') : k \notin 1 .. Len(localBuf) =>
             k - Len(localBuf) \in 1 .. Len(s) /\ k = Len(localBuf) + (k - Len(localBuf))
    BY <1>8
  <2> QED BY <2>1, Zenon
<1>10. ToSet(localBuf) \intersect ToSet(s) = {}
  BY <1>4, Spread DEF Split
<1>11. Inj(localBuf')
  <2>1. \A i \in 1 .. Len(localBuf), j \in 1 .. Len(s) : localBuf[i] # s[j]
    <3>1. \A i \in 1 .. Len(localBuf) : localBuf[i] \in ToSet(localBuf)
      BY <1>3 DEF ToSet
    <3>2. \A j \in 1 .. Len(s) : s[j] \in ToSet(s)
      BY <1>2 DEF ToSet
    <3> QED BY <1>10, <3>1, <3>2
  <2>2. ASSUME NEW i \in 1 .. Len(localBuf'), NEW j \in 1 .. Len(localBuf'), localBuf'[i] = localBuf'[j]
        PROVE  i = j
    <3>1. CASE i \in 1 .. Len(localBuf) /\ j \in 1 .. Len(localBuf)
      BY <1>3, <1>8, <2>2, <3>1 DEF Inj
    <3>2. CASE i \notin 1 .. Len(localBuf) /\ j \notin 1 .. Len(localBuf)
      <4>1. PICK x \in 1 .. Len(s) : i = Len(localBuf) + x
        BY <1>9, <3>2
      <4>2. PICK y \in 1 .. Len(s) : j = Len(localBuf) + y
        BY <1>9, <3>2
      <4>3. s[x] = s[y]
        BY <1>8, <2>2, <4>1, <4>2
      <4> QED BY <1>2, <4>1, <4>2, <4>3 DEF Inj
    <3>3. CASE i \in 1 .. Len(localBuf) /\ j \notin 1 .. Len(localBuf)
      <4>1. PICK y \in 1 .. Len(s) : j = Len(localBuf) + y
        BY <1>9, <3>3
      <4> QED BY <1>8, <2>1, <2>2, <3>3, <4>1
    <3>4. CASE i \notin 1 .. Len(localBuf) /\ j \in 1 .. Len(localBuf)
      <4>1. PICK x \in 1 .. Len(s) : i = Len(localBuf) + x
        BY <1>9, <3>4
      <4> QED BY <1>8, <2>1, <2>2, <3>4, <4>1
    <3> QED BY <3>1, <3>2, <3>3, <3>4
  <2> QED BY <2>2 DEF Inj
<1>12. ToSet(localBuf') = ToSet(localBuf) \union Hand(gor)[g]
  <2>1. \A k \in 1 .. Len(s) : Len(localBuf) + k \in 1 .. Len(localBuf')
    BY <1>8
  <2>2. \A k \in 1 .. Len(localBuf) : k \in 1 .. Len(localBuf')
    BY <1>8
  <2>3. \A x : x \in ToSet(localBuf') <=> x \in ToSet(localBuf) \/ x \in ToSet(s)
    <3>1. /\ ToSet(localBuf') = {localBuf'[k] : k \in 1 .. Len(localBuf')}
          /\ ToSet(localBuf) = {localBuf[k] : k \in 1 .. Len(localBuf)}
          /\ ToSet(s) = {s[k] : k \in 1 .. Len(s)}
      <4>1. DOMAIN localBuf' = 1 .. Len(localBuf') /\ DOMAIN localBuf = 1 .. Len(localBuf) /\ DOMAIN s = 1 .. Len(s)
        BY <1>2, <1>3, <1>8
      <4> QED BY <4>1 DEF ToSet
    <3>2. ASSUME NEW x \in ToSet(localBuf') PROVE x \in ToSet(localBuf) \/ x \in ToSet(s)
      <4>1. PICK k \in 1 .. Len(localBuf') : x = localBuf'[k]
        BY <3>1
      <4>2. CASE k \in 1 .. Len(localBuf)
        BY <1>8, <3>1, <4>1, <4>2
      <4>3. CASE k \notin 1 .. Len(localBuf)
        <5>1. PICK j \in 1 .. Len(s) : k = Len(localBuf) + j
          BY <1>9, <4>3
        <5> QED BY <1>8, <3>1, <4>1, <5>1
      <4> QED BY <4>2, <4>3
    <3>3. ASSUME NEW x \in ToSet(localBuf) PROVE x \in ToSet(localBuf')
      BY <1>8, <2>2, <3>1
    <3>4. ASSUME NEW x \in ToSet(s) PROVE x \in ToSet(localBuf')
      BY <1>8, <2>1, <3>1, Zenon
    <3> QED BY <3>2, <3>3, <3>4
  <2> QED BY <1>4, <2>3
<1>13. RemoteTypes'
  <2>1. localMark' \in 0 .. Len(localBuf')
    BY <1>1, <1>3, <1>8
  <2> QED BY <1>1, <1>5, <1>8, <2>1 DEF RemoteInv, RemoteTypes
<1>14. Rpc'
  BY <1>1, <1>7, RpcFrame
<1>15. OnWire' = OnWire /\ Cached' = Cached
  BY <1>1 DEF OnWire, Cached
<1>16. Split(ToSet(localBuf), Cached, OnWire, skipped, dropped, Hand(gor), rmark)'
  <2>1. Split(ToSet(localBuf) \union Hand(gor)[g], Cached, OnWire, skipped, dropped, [Hand(gor) EXCEPT ![g] = {}], rmark)
    BY Spread, Moves, Zenon
  <2> QED BY <1>1, <1>7, <1>12, <1>15, <2>1
<1>17. (~careless /\ cache # None => \E c \in Call : gor[c].pc \in {"screen", "take"})'
  <2>1. \A c \in Call : gor[c].pc \in {"screen", "take"} => gor'[c].pc \in {"screen", "take"}
    BY <1>1, <1>7, Kinds
  <2> QED BY <1>1, <2>1 DEF RemoteInv, Data
<1>18. ((cache # None => Inj(cache)) /\ (conn = "none" => rmark = 0) /\ DropsExcused)'
  BY <1>1 DEF RemoteInv, Data, DropsExcused
<1>19. Data'
  BY <1>11, <1>16, <1>17, <1>18 DEF Data
<1>20. Control(gor', mu', lock', isPolling')
  BY <1>1, <1>2, <1>5
<1> QED BY <1>13, <1>14, <1>19, <1>20 DEF RemoteInv

\* ReadScreen takes the cached output, or asks the daemon.
LEMMA TakeCachedInv ==
    ASSUME RemoteInv, NEW g \in Goroutine, TakeCached(g)
    PROVE  RemoteInv'
<1> DEFINE s == gor[g]
<1>1. /\ s.pc = "take" /\ cache' = None
      /\ done' = done /\ lock' = lock /\ registered' = registered /\ mu' = mu /\ wire' = wire /\ replies' = replies
      /\ localBuf' = localBuf /\ localMark' = localMark /\ produced' = produced /\ rmark' = rmark
      /\ remoteOpen' = remoteOpen /\ conn' = conn /\ alive' = alive /\ isPolling' = isPolling
      /\ skipped' = skipped /\ dropped' = dropped /\ probed' = probed /\ careless' = careless
  BY DEF TakeCached, Pc, mgrVars, rpcVars, daemonVars, lifeVars, histVars
<1>2. /\ gor \in [Goroutine -> GorState] /\ Fit(g, s.pc, s.op, s.method, s.chunk) /\ mu # g
      /\ g \in Pollers => s.pc \in Active
  <2>1. "take" \in Active
    BY DEF Active
  <2> QED BY <1>1, <2>1, Known
<1>3. s.chunk = <<>> /\ s.pc \notin {"new", "done", "await"} /\ s \in GorState
  BY <1>1, <1>2 DEF Fit
<1>4. RemoteTypes'
  BY <1>1 DEF RemoteInv, RemoteTypes
<1>5. CASE cache = None
  <2>1. gor' = [gor EXCEPT ![g] = [pc |-> "call", op |-> s.op, method |-> "read", chunk |-> s.chunk]]
    <3> DEFINE q == [s EXCEPT !.pc = "call"]
    <3>1. gor' = [gor EXCEPT ![g] = [q EXCEPT !.method = "read"]]
      BY <1>2, <1>5, Zenon DEF TakeCached
    <3> HIDE DEF s
    <3>2. q \in GorState /\ q.pc = "call" /\ q.op = s.op /\ q.chunk = s.chunk
      BY <1>3 DEF GorState
    <3> HIDE DEF q
    <3>3. [q EXCEPT !.method = "read"] = [pc |-> q.pc, op |-> q.op, method |-> "read", chunk |-> q.chunk]
      BY <3>2 DEF GorState
    <3> QED BY <3>1, <3>2, <3>3, Zenon
  <2>2. Fit(g, "call", s.op, "read", s.chunk)
    BY <1>1, <1>2 DEF Fit, GorLabels, Active
  <2>3. g \in Call => (Fresh("call", s.op) => Fresh(s.pc, s.op))
    BY <1>1, <1>2 DEF Fresh, Fit
  <2>4. Control(gor', mu', lock', isPolling')
    <3>1. "call" \notin {"new", "done", "await"}
      OBVIOUS
    <3>2. Control(gor', mu, lock, isPolling)
      BY <1>2, <1>3, <2>1, <2>2, <2>3, <3>1, Stays, Zenon
    <3> QED BY <1>1, <3>2
  <2>5. Hand(gor') = Hand(gor) /\ \A h \in Goroutine \ {g} : gor'[h] = gor[h]
    BY <2>1, Single, Zenon
  <2>6. Rpc'
    BY <1>1, <1>3, <2>5, RpcFrame
  <2> QED BY <1>1, <1>4, <1>5, <2>4, <2>5, <2>6, Quiet
<1>6. CASE cache # None
  <2>1. cache \in Seq(RemoteByte) /\ Inj(cache)
    BY <1>6 DEF RemoteInv, RemoteTypes, Data
  <2>2. gor' = [gor EXCEPT ![g] = [pc |-> "feed", op |-> s.op, method |-> s.method, chunk |-> cache]]
    <3> DEFINE q == [s EXCEPT !.pc = "feed"]
    <3>1. gor' = [gor EXCEPT ![g] = [q EXCEPT !.chunk = cache]]
      BY <1>2, <1>6, Zenon DEF TakeCached
    <3> HIDE DEF s
    <3>2. q \in GorState /\ q.pc = "feed" /\ q.op = s.op /\ q.method = s.method
      BY <1>3 DEF GorState
    <3> HIDE DEF q
    <3>3. [q EXCEPT !.chunk = cache] = [pc |-> q.pc, op |-> q.op, method |-> q.method, chunk |-> cache]
      BY <3>2 DEF GorState
    <3> QED BY <3>1, <3>2, <3>3, Zenon
  <2>3. Fit(g, "feed", s.op, s.method, cache)
    BY <1>1, <1>2, <2>1 DEF Fit, GorLabels, Active
  <2>4. ~Fresh("feed", s.op)
    BY DEF Fresh
  <2>5. Control(gor', mu', lock', isPolling')
    <3>1. "feed" \notin {"new", "done", "await"}
      OBVIOUS
    <3>2. Control(gor', mu, lock, isPolling)
      BY <1>2, <1>3, <2>2, <2>3, <2>4, <3>1, Stays, Zenon
    <3> QED BY <1>1, <3>2
  <2>6. gor'[g].chunk = cache /\ \A h \in Goroutine \ {g} : gor'[h] = gor[h]
    <3> HIDE DEF s
    <3> QED BY <1>2, <2>2
  <2>7. Rpc'
    BY <1>1, <1>3, <2>6, RpcFrame
  <2>8. OnWire' = OnWire /\ Cached' = {} /\ Cached = ToSet(cache) /\ Hand(gor)[g] = {}
    BY <1>1, <1>3, <1>6 DEF OnWire, Cached, Hand, ToSet
  <2>9. Split(ToSet(localBuf), Cached, OnWire, skipped, dropped, Hand(gor), rmark)'
    <3>1. Split(ToSet(localBuf), {}, OnWire, skipped, dropped, [Hand(gor) EXCEPT ![g] = Cached], rmark)
      BY <2>8, Spread, Moves, Zenon
    <3>2. Hand(gor') = [Hand(gor) EXCEPT ![g] = ToSet(gor'[g].chunk)]
      BY <2>6, Handed
    <3> QED BY <1>1, <2>6, <2>8, <3>1, <3>2
  <2>10. (/\ Inj(localBuf) /\ (cache # None => Inj(cache)) /\ (conn = "none" => rmark = 0)
          /\ (~careless /\ cache # None => \E c \in Call : gor[c].pc \in {"screen", "take"})
          /\ DropsExcused)'
    BY <1>1 DEF RemoteInv, Data, DropsExcused
  <2>11. Data'
    BY <2>9, <2>10 DEF Data
  <2> QED BY <1>4, <2>5, <2>7, <2>11 DEF RemoteInv
<1> QED BY <1>5, <1>6

\* The output of a write is cached.
LEMMA StoreInv ==
    ASSUME RemoteInv, NEW c \in Call, StoreCache(c)
    PROVE  RemoteInv'
<1> DEFINE s == gor[c]
<1>1. /\ s.pc = "store" /\ cache' = s.chunk /\ dropped' = dropped \union Cached
      /\ careless' = (careless \/ s.op # "input")
      /\ registered' = registered /\ mu' = mu /\ wire' = wire /\ replies' = replies
      /\ localBuf' = localBuf /\ localMark' = localMark /\ produced' = produced /\ rmark' = rmark
      /\ remoteOpen' = remoteOpen /\ conn' = conn /\ alive' = alive /\ isPolling' = isPolling
      /\ skipped' = skipped /\ probed' = probed
  BY DEF StoreCache, Pc, rpcVars, daemonVars, lifeVars
<1>2. /\ c \in Goroutine /\ c \notin Pollers /\ c # Reaper /\ Poller(c) \in Goroutine /\ Poller(c) # c
      /\ \A d \in Call : c # Poller(d)
  BY Kinds
<1>3. /\ gor \in [Goroutine -> GorState] /\ Fit(c, s.pc, s.op, s.method, s.chunk) /\ mu # c /\ lock = c
  BY <1>1, <1>2, Known
<1>4. /\ s \in GorState /\ s.op \in {"input", "raw", "input_wait"} /\ s.chunk \in Seq(RemoteByte) /\ Inj(s.chunk)
      /\ s.chunk # None /\ <<>> \in Seq(RemoteByte) /\ Inj(<<>>)
  <2>1. s.op \in {"input", "raw", "input_wait"} /\ s.chunk \in Seq(RemoteByte) /\ Inj(s.chunk) /\ s \in GorState
    BY <1>1, <1>2, <1>3 DEF Fit
  <2>2. None \notin Seq(RemoteByte)
    BY RemoteAssumption DEF RemoteByte
  <2>3. <<>> \in Seq(RemoteByte) /\ Inj(<<>>)
    BY DEF Inj
  <2> QED BY <2>1, <2>2, <2>3
<1>5. ASSUME NEW p \in {"screen", "waiting"}, p = "screen" => s.op # "input_wait"
      PROVE  LET G == [gor EXCEPT ![c] = [pc |-> p, op |-> s.op, method |-> s.method, chunk |-> <<>>]]
             IN  Control(G, mu, lock, isPolling)
  <2>1. Fit(c, p, s.op, s.method, <<>>)
    BY <1>2, <1>3, <1>4, <1>5 DEF Fit, GorLabels
  <2>2. ~Fresh(p, s.op) /\ p \notin {"new", "done", "await"}
    BY DEF Fresh
  <2>3. May(gor, mu, lock, isPolling, c, p, s.op, s.method, <<>>, mu, lock, isPolling)
    BY <1>2, <1>3, <2>1, <2>2 DEF May
  <2>4. Control(gor, mu, lock, isPolling)
    BY DEF RemoteInv
  <2> HIDE DEF s
  <2> QED BY <1>2, <2>3, <2>4, Goes
<1>6. /\ Control(gor', mu', lock', isPolling') /\ done' \subseteq Call \union {Reaper}
      /\ gor'[c].chunk = <<>> /\ (s.op = "input" => gor'[c].pc = "screen")
      /\ \A h \in Goroutine \ {c} : gor'[h].chunk = gor[h].chunk
      /\ mu # None => gor'[mu] = gor[mu]
  <2>1. CASE s.op = "raw"
    <3>1. EndCall(c) /\ c \notin Pollers /\ gor[c].pc \notin {"new", "done"}
      BY <1>1, <1>2, <2>1 DEF StoreCache
    <3>2. /\ done' \subseteq Call \union {Reaper}
          /\ Control(gor', IF mu = c THEN None ELSE mu, lock', isPolling)
      BY <1>2, <3>1, Over
    <3>3. gor'[c].chunk = <<>> /\ \A h \in Goroutine \ {c} : gor'[h] = gor[h]
      BY <1>2, <1>3, <3>1 DEF EndCall, Idle
    <3>4. Control(gor', mu', lock', isPolling')
      BY <1>1, <1>3, <3>2
    <3>5. mu # None => gor'[mu] = gor[mu]
      BY <1>2, <1>3, <3>3, Known
    <3> QED BY <2>1, <3>2, <3>3, <3>4, <3>5
  <2>2. CASE s.op = "input"
    <3>1. gor' = [gor EXCEPT ![c] = [pc |-> "screen", op |-> s.op, method |-> s.method, chunk |-> <<>>]]
      <4> DEFINE q == [s EXCEPT !.pc = "screen"]
      <4>1. gor' = [gor EXCEPT ![c] = [q EXCEPT !.chunk = <<>>]]
        BY <1>2, <1>3, <2>2, Zenon DEF StoreCache
      <4> HIDE DEF s
      <4>2. q \in GorState /\ q.pc = "screen" /\ q.op = s.op /\ q.method = s.method
        BY <1>4 DEF GorState
      <4> HIDE DEF q
      <4>3. [q EXCEPT !.chunk = <<>>] = [pc |-> q.pc, op |-> q.op, method |-> q.method, chunk |-> <<>>]
        BY <4>2 DEF GorState
      <4> QED BY <4>1, <4>2, <4>3, Zenon
    <3>2. done' = done /\ lock' = lock
      BY <2>2 DEF StoreCache
    <3>3. Control(gor', mu', lock', isPolling')
      BY <1>1, <1>5, <2>2, <3>1, <3>2
    <3>4. done' \subseteq Call \union {Reaper}
      BY <3>2 DEF RemoteInv, RemoteTypes
    <3> HIDE DEF s
    <3>5. gor'[c].chunk = <<>> /\ gor'[c].pc = "screen" /\ \A h \in Goroutine \ {c} : gor'[h] = gor[h]
      BY <1>2, <1>3, <3>1
    <3> QED BY <1>2, <1>3, <3>3, <3>4, <3>5, Known
  <2>3. CASE s.op = "input_wait"
    <3> DEFINE g == Poller(c)
               G == [gor EXCEPT ![c] = [pc |-> "waiting", op |-> s.op, method |-> s.method, chunk |-> <<>>]]
    <3>1. gor' = [G EXCEPT ![g].pc = "start"]
      <4> DEFINE q == [s EXCEPT !.pc = "waiting"]
      <4>1. gor' = [[gor EXCEPT ![c] = [q EXCEPT !.chunk = <<>>]] EXCEPT ![Poller(c)].pc = "start"]
        BY <1>2, <1>3, <2>3, Zenon DEF StoreCache
      <4> HIDE DEF s
      <4>2. q \in GorState /\ q.pc = "waiting" /\ q.op = s.op /\ q.method = s.method
        BY <1>4 DEF GorState
      <4> HIDE DEF q
      <4>3. [q EXCEPT !.chunk = <<>>] = [pc |-> q.pc, op |-> q.op, method |-> q.method, chunk |-> <<>>]
        BY <4>2 DEF GorState
      <4> QED BY <4>1, <4>2, <4>3, Zenon
    <3>2. done' = done /\ lock' = lock
      BY <2>3 DEF StoreCache
    <3>3. Control(G, mu, lock, isPolling)
      BY <1>5
    <3>4. /\ G \in [Goroutine -> GorState] /\ G[c].pc = "waiting" /\ G[c].op = s.op /\ G[c].chunk = <<>>
          /\ \A h \in Goroutine \ {c} : G[h] = gor[h]
      <4>1. G \in [Goroutine -> GorState]
        BY <3>3 DEF Control
      <4> HIDE DEF s
      <4> QED BY <1>2, <1>3, <4>1
    <3> HIDE DEF G
    <3>5. ~Fresh(G[c].pc, G[c].op)
      BY <3>4 DEF Fresh
    <3>6. gor[g].pc = "new"
      BY <1>1, <2>3 DEF RemoteInv, Control, Fresh
    <3>7. PICK x : x = g
      OBVIOUS
    <3>8. x \in Goroutine /\ x # c
      BY <1>2, <3>7
    <3>9. G[x].pc = "new" /\ gor' = [G EXCEPT ![x].pc = "start"]
      BY <1>2, <3>1, <3>4, <3>6, <3>7
    <3>10. gor' = [G EXCEPT ![x] = [pc |-> "start", op |-> G[x].op, method |-> G[x].method, chunk |-> G[x].chunk]]
      <4>1. G \in [Goroutine -> GorState]
        BY <3>4
      <4>2. x \in Goroutine /\ gor' = [G EXCEPT ![x].pc = "start"]
        BY <3>8, <3>9
      <4> HIDE DEF s, g
      <4> QED BY <4>1, <4>2, Relabel, Zenon
    <3>11. May(G, mu, lock, isPolling, x, "start", G[x].op, G[x].method, G[x].chunk, mu, lock, isPolling)
      BY <3>3, <3>5, <3>7, <3>9, Launch
    <3>12. Control(gor', mu, lock, isPolling)
      <4>1. x \in Goroutine
        BY <3>8
      <4> QED BY <3>3, <3>10, <3>11, <4>1, Goes, Zenon
    <3>13. gor'[x].chunk = G[x].chunk /\ \A h \in Goroutine \ {x} : gor'[h] = G[h]
      BY <3>4, <3>8, <3>10
    <3>14. gor'[c].chunk = <<>> /\ \A h \in Goroutine \ {c} : gor'[h].chunk = gor[h].chunk
      BY <1>2, <3>4, <3>8, <3>13
    <3>15. mu # None => gor'[mu] = gor[mu]
      <4>1. mu # x /\ mu \in Goroutine \union {None}
        BY <3>6, <3>7, <3>8, Known
      <4> QED BY <1>3, <3>4, <3>13, <4>1
    <3>16. done' \subseteq Call \union {Reaper}
      BY <3>2 DEF RemoteInv, RemoteTypes
    <3> QED BY <1>1, <2>3, <3>2, <3>12, <3>14, <3>15, <3>16
  <2> QED BY <1>4, <2>1, <2>2, <2>3
<1>7. Hand(gor') = [Hand(gor) EXCEPT ![c] = {}] /\ Hand(gor)[c] = ToSet(s.chunk)
  <2>1. ToSet(<<>>) = {}
    BY DEF ToSet
  <2>2. \A h \in Goroutine : ToSet(gor'[h].chunk) = IF h = c THEN {} ELSE ToSet(gor[h].chunk)
    BY <1>6, <2>1, Zenon
  <2> QED BY <1>2, <2>2, Zenon DEF Hand
<1>8. Rpc'
  BY <1>1, <1>6 DEF RemoteInv, Rpc
<1>9. RemoteTypes'
  <2>1. dropped' \subseteq RemoteByte /\ probed' \subseteq dropped' /\ careless' \in BOOLEAN
    BY <1>1, Spread DEF RemoteInv, RemoteTypes
  <2> QED BY <1>1, <1>4, <1>6, <2>1 DEF RemoteInv, RemoteTypes
<1>10. OnWire' = OnWire /\ Cached' = ToSet(s.chunk)
  BY <1>1, <1>4 DEF OnWire, Cached
<1>11. Split(ToSet(localBuf), Cached, OnWire, skipped, dropped, Hand(gor), rmark)'
  <2>1. Split(ToSet(localBuf), Hand(gor)[c], OnWire, skipped, dropped \union Cached, [Hand(gor) EXCEPT ![c] = {}], rmark)
    BY <1>2, Spread, Moves, Zenon
  <2> QED BY <1>1, <1>7, <1>10, <2>1
<1>12. DropsExcused'
  <2>1. ASSUME ~careless, cache # None PROVE FALSE
    <3>1. PICK d \in Call : gor[d].pc \in {"screen", "take"}
      BY <2>1 DEF RemoteInv, Data
    <3>2. lock = d
      <4>1. gor[d].pc \notin {"new", "done"} <=> lock = d
        BY DEF RemoteInv, Control
      <4> QED BY <3>1, <4>1
    <3> QED BY <1>1, <1>3, <3>1, <3>2
  <2>2. ~careless' => ~careless /\ dropped' = dropped
    BY <1>1, <2>1, Zenon DEF Cached
  <2>3. DropsExcused
    BY DEF RemoteInv, Data
  <2> QED BY <1>1, <2>2, <2>3 DEF DropsExcused
<1>13. (~careless /\ cache # None => \E d \in Call : gor[d].pc \in {"screen", "take"})'
  BY <1>1, <1>6, Zenon
<1>14. (Inj(localBuf) /\ (cache # None => Inj(cache)) /\ (conn = "none" => rmark = 0))'
  BY <1>1, <1>4 DEF RemoteInv, Data
<1>15. Data'
  BY <1>11, <1>12, <1>13, <1>14 DEF Data
<1> QED BY <1>6, <1>8, <1>9, <1>15 DEF RemoteInv

\* Before Attach nothing has happened.
LEMMA RemoteInvInit ==
    ASSUME RemoteInit
    PROVE  RemoteInv
<1> DEFINE i == Idle("new")
<1>1. /\ gor = [g \in Goroutine |-> i]
      /\ done = {} /\ lock = None /\ registered = FALSE /\ mu = None /\ wire = <<>> /\ replies = <<>>
      /\ cache = None /\ localBuf = <<>> /\ localMark = 0 /\ produced = 0 /\ rmark = 0 /\ remoteOpen = TRUE
      /\ conn = "none" /\ alive = FALSE /\ isPolling = FALSE
      /\ skipped = {} /\ dropped = {} /\ probed = {} /\ careless = FALSE
  BY DEF RemoteInit
<1>2. <<>> \in Seq(RemoteByte) /\ Inj(<<>>) /\ Len(<<>>) = 0 /\ ToSet(<<>>) = {} /\ MaxOut \in Nat
  BY RemoteAssumption DEF Inj, ToSet
<1>3. i \in GorState /\ i.pc = "new" /\ i.op = None /\ i.method = None /\ i.chunk = <<>>
  BY <1>2 DEF Idle, GorState
<1>4. \A g \in Goroutine : Fit(g, i.pc, i.op, i.method, i.chunk)
  BY <1>2, <1>3, Zenon DEF Fit, GorLabels
<1> HIDE DEF i
<1>5. \A g \in Goroutine : gor[g] = i
  BY <1>1
<1>6. Control(gor, mu, lock, isPolling)
  <2>1. /\ gor \in [Goroutine -> GorState] /\ mu \in Goroutine \union {None} /\ lock \in Call \union {None}
    BY <1>1, <1>3
  <2>2. \A g \in Goroutine : /\ Fit(g, gor[g].pc, gor[g].op, gor[g].method, gor[g].chunk)
                             /\ gor[g].pc = "await" <=> mu = g
    BY <1>1, <1>3, <1>4, <1>5, Kinds
  <2>3. \A c \in Call : /\ gor[c].pc \notin {"new", "done"} <=> lock = c
                        /\ Fresh(gor[c].pc, gor[c].op) => gor[Poller(c)].pc = "new"
    BY <1>1, <1>3, <1>5, Kinds
  <2>4. \A p \in Pollers : gor[p].pc \notin Active
    BY <1>3, <1>5, Kinds DEF Active
  <2> QED BY <2>1, <2>2, <2>3, <2>4 DEF Control
<1>7. RemoteTypes
  <2>1. {registered, remoteOpen, alive, isPolling, careless} \subseteq BOOLEAN
    BY <1>1, Zenon
  <2>2. localMark \in 0 .. Len(localBuf) /\ produced \in 0 .. MaxOut /\ rmark \in 0 .. produced /\ localBuf \in Seq(RemoteByte)
    BY <1>1, <1>2
  <2> QED BY <1>1, <2>1, <2>2 DEF RemoteTypes
<1>8. Rpc
  BY <1>1 DEF Rpc
<1>9. OnWire = {} /\ Cached = {} /\ \A g \in Goroutine : Hand(gor)[g] = {}
  BY <1>1, <1>2, <1>3, <1>5 DEF OnWire, Cached, Hand
<1>10. Split(ToSet(localBuf), Cached, OnWire, skipped, dropped, Hand(gor), rmark)
  <2>1. \A b : b \notin 1 .. rmark
    BY <1>1
  <2>2. ToSet(localBuf) = {} /\ skipped = {} /\ dropped = {}
    BY <1>1, <1>2
  <2> QED BY <1>9, <2>1, <2>2 DEF Split
<1>11. Data
  BY <1>1, <1>2, <1>10 DEF Data, DropsExcused
<1> QED BY <1>6, <1>7, <1>8, <1>11 DEF RemoteInv

\* Every step keeps the invariant.
LEMMA RemoteInvStep ==
    ASSUME RemoteInv, [RemoteNext]_remoteVars
    PROVE  RemoteInv'
<1>1. Call \subseteq Goroutine /\ Pollers \subseteq Goroutine /\ Reaper \in Goroutine
  BY Kinds
<1>2. CASE TerminalOutput \/ (\E c \in Call : ContextDone(c)) \/ UNCHANGED remoteVars
  BY <1>2, CalmInv
<1>3. CASE Attach
  BY <1>3, AttachInv
<1>4. CASE ConnectionLost
  BY <1>4, LostInv
<1>5. CASE DaemonWrite
  BY <1>5, DaemonWriteInv
<1>6. CASE DaemonServe
  BY <1>6, DaemonServeInv
<1>7. CASE Reap
  BY <1>7, ReapInv
<1>8. ASSUME NEW g \in Goroutine, Step(g) PROVE RemoteInv'
  <2>1. CASE SendRequest(g)
    BY <2>1, SendInv
  <2>2. CASE ReadResponse(g)
    BY <2>2, ReadInv
  <2>3. CASE ScanFails(g)
    BY <2>3, ScanInv
  <2>4. CASE CheckCtx(g)
    BY <2>4, CheckInv
  <2>5. CASE TakeCached(g)
    BY <2>5, TakeCachedInv
  <2>6. CASE FeedLocalBuf(g)
    BY <2>6, FeedInv
  <2>7. CASE CloseTransport(g)
    BY <2>7, LostInv
  <2> QED BY <1>8, <2>1, <2>2, <2>3, <2>4, <2>5, <2>6, <2>7 DEF Step
<1>9. ASSUME NEW c \in Call, Proceed(c) PROVE RemoteInv'
  <2>1. CASE Step(c)
    BY <1>1, <1>8, <2>1
  <2>2. CASE Write(c) \/ WaitOver(c) \/ \E autoSend \in BOOLEAN : WaitMatched(c, autoSend)
    BY <2>2, CallInv
  <2>3. CASE StoreCache(c)
    BY <2>3, StoreInv
  <2> QED BY <1>9, <2>1, <2>2, <2>3 DEF Proceed
<1>10. ASSUME NEW c \in Call, NEW op \in Op, Start(c, op) PROVE RemoteInv'
  BY <1>10, StartCallInv
<1>11. ASSUME NEW p \in Pollers, Poll(p) PROVE RemoteInv'
  <2>1. CASE Step(p)
    BY <1>1, <1>8, <2>1
  <2>2. CASE PollStart(p) \/ PollTick(p) \/ PollEnd(p)
    BY <2>2, PollInv
  <2> QED BY <1>11, <2>1, <2>2 DEF Poll
<1> QED BY <1>1, <1>2, <1>3, <1>4, <1>5, <1>6, <1>7, <1>8, <1>9, <1>10, <1>11 DEF RemoteNext

\* The library's count, seen from the instance.
LEMMA Count ==
    ASSUME NEW Z
    PROVE  Cardinality(Z) = Cardinality(Z)
  BY Zenon DEF Cardinality, Cardinality

\* Where every answer and every poller is, by the invariant.
LEMMA InvShared ==
    ASSUME RemoteInv
    PROVE  ConnectionShared
<1>1. /\ gor \in [Goroutine -> GorState] /\ lock \in Call \union {None} /\ mu \in Goroutine \union {None}
      /\ \A g \in Goroutine : gor[g].pc = "await" <=> mu = g
      /\ \A p, q \in Pollers : gor[p].pc \in Active => (gor[q].pc \in Active => p = q)
  BY DEF RemoteInv, Control
<1>2. /\ wire \in Seq([from : Goroutine, wrote : BOOLEAN])
      /\ \A k \in DOMAIN replies : replies[k].to \in Goroutine
      /\ replies # <<>> => Head(replies).to = mu
  <2>1. CASE wire = <<>> /\ replies = <<>>
    BY <2>1
  <2>2. CASE mu # None /\ replies = <<>> /\ \E b \in BOOLEAN : wire = <<[from |-> mu, wrote |-> b]>>
    <3>1. PICK b \in BOOLEAN : wire = <<[from |-> mu, wrote |-> b]>>
      BY <2>2
    <3>2. [from |-> mu, wrote |-> b] \in [from : Goroutine, wrote : BOOLEAN]
      BY <1>1, <2>2
    <3> QED BY <2>2, <3>1, <3>2
  <2>3. CASE mu # None /\ wire = <<>> /\ \E ok, s : replies = <<[to |-> mu, ok |-> ok, bytes |-> s]>>
    <3>1. PICK ok, s : replies = <<[to |-> mu, ok |-> ok, bytes |-> s]>>
      BY <2>3, Zenon
    <3>2. DOMAIN replies = {1} /\ replies[1].to = mu /\ Head(replies).to = mu
      BY <3>1
    <3> QED BY <1>1, <2>3, <3>2
  <2> QED BY <2>1, <2>2, <2>3 DEF RemoteInv, Rpc
<1>3. RemoteTypeOK
  BY <1>1, <1>2 DEF RemoteTypeOK, RemoteInv, RemoteTypes
<1>4. Paired
  BY <1>1, <1>2 DEF Paired, Pc
<1>5. OnePoller
  <2> DEFINE Z == {p \in Pollers : Pc(p) \in Active}
  <2>1. Z = {} \/ \E p \in Z : Z = {p}
    BY <1>1 DEF Pc
  <2>2. Cardinality(Z) = 0 \/ Cardinality(Z) = 1
    BY <2>1, FS_EmptySet, FS_Singleton, Zenon
  <2>3. Cardinality(Z) <= 1
    BY <2>2, Count
  <2> QED BY <2>3 DEF OnePoller, Active
<1> QED BY <1>3, <1>4, <1>5 DEF ConnectionShared

\* A byte that the daemon has handed out is in one place, by the invariant.
LEMMA InvKept ==
    ASSUME RemoteInv
    PROVE  OutputKept
<1>1. ASSUME NEW b \in 1 .. rmark PROVE Cardinality(Places(b)) = 1
  <2> DEFINE A == {<<"local", k>> : k \in {k \in DOMAIN localBuf : localBuf[k] = b}}
             C == {<<"cache", 0>> : x \in {x \in {0} : b \in Cached}}
             W == {<<"wire", 0>> : x \in {x \in {0} : b \in OnWire}}
             K == {<<"skipped", 0>> : x \in {x \in {0} : b \in skipped}}
             D == {<<"dropped", 0>> : x \in {x \in {0} : b \in dropped}}
             H == {<<"hand", g>> : g \in {g \in Goroutine : b \in ToSet(gor[g].chunk)}}
  <2>1. Places(b) = A \union C \union W \union K \union D \union H
    BY DEF Places
  <2>2. /\ b \notin ToSet(localBuf) => A = {}
        /\ b \notin Cached => C = {}
        /\ b \notin OnWire => W = {}
        /\ b \notin skipped => K = {}
        /\ b \notin dropped => D = {}
        /\ (\A g \in Goroutine : b \notin Hand(gor)[g]) => H = {}
    BY DEF ToSet, Hand
  <2>3. b \in ToSet(localBuf) => \E x : A = {x}
    <3>1. Inj(localBuf) /\ DOMAIN localBuf = 1 .. Len(localBuf)
      BY DEF RemoteInv, Data, RemoteTypes
    <3>2. ASSUME b \in ToSet(localBuf) PROVE \E x : A = {x}
      <4>1. PICK k \in DOMAIN localBuf : localBuf[k] = b
        BY <3>2 DEF ToSet
      <4>2. {j \in DOMAIN localBuf : localBuf[j] = b} = {k}
        BY <3>1, <4>1 DEF Inj
      <4>3. A = {<<"local", k>>}
        BY <4>2
      <4> QED BY <4>3, Zenon
    <3> QED BY <3>2, Zenon
  <2>4. /\ b \in Cached => C = {<<"cache", 0>>}
        /\ b \in OnWire => W = {<<"wire", 0>>}
        /\ b \in skipped => K = {<<"skipped", 0>>}
        /\ b \in dropped => D = {<<"dropped", 0>>}
    OBVIOUS
  <2>5. ASSUME NEW g \in Goroutine, b \in Hand(gor)[g] PROVE H = {<<"hand", g>>}
    <3>1. \A h \in Goroutine : b \in ToSet(gor[h].chunk) <=> h = g
      BY <2>5, Spread DEF Split, Hand
    <3> QED BY <3>1
  <2> HIDE DEF A, C, W, K, D, H
  <2>6. \E x : A \union C \union W \union K \union D \union H = {x}
    <3>1. /\ \/ b \in ToSet(localBuf) \/ b \in Cached \/ b \in OnWire \/ b \in skipped \/ b \in dropped
             \/ \E g \in Goroutine : b \in Hand(gor)[g]
          /\ b \in ToSet(localBuf) => b \notin Cached /\ b \notin OnWire /\ b \notin skipped /\ b \notin dropped
          /\ b \in Cached => b \notin OnWire /\ b \notin skipped /\ b \notin dropped
          /\ b \in OnWire => b \notin skipped /\ b \notin dropped
          /\ b \in skipped => b \notin dropped
          /\ \A g \in Goroutine : b \in Hand(gor)[g] =>
               b \notin ToSet(localBuf) /\ b \notin Cached /\ b \notin OnWire /\ b \notin skipped /\ b \notin dropped
      BY Spread DEF Split
    <3>2. CASE b \in ToSet(localBuf)
      <4>1. C = {} /\ W = {} /\ K = {} /\ D = {} /\ H = {}
        BY <2>2, <3>1, <3>2
      <4> QED BY <2>3, <3>2, <4>1, Zenon
    <3>3. CASE b \in Cached
      <4>1. A = {} /\ W = {} /\ K = {} /\ D = {} /\ H = {}
        BY <2>2, <3>1, <3>3
      <4> QED BY <2>4, <3>3, <4>1, Zenon
    <3>4. CASE b \in OnWire
      <4>1. A = {} /\ C = {} /\ K = {} /\ D = {} /\ H = {}
        BY <2>2, <3>1, <3>4
      <4> QED BY <2>4, <3>4, <4>1, Zenon
    <3>5. CASE b \in skipped
      <4>1. A = {} /\ C = {} /\ W = {} /\ D = {} /\ H = {}
        BY <2>2, <3>1, <3>5
      <4> QED BY <2>4, <3>5, <4>1, Zenon
    <3>6. CASE b \in dropped
      <4>1. A = {} /\ C = {} /\ W = {} /\ K = {} /\ H = {}
        BY <2>2, <3>1, <3>6
      <4> QED BY <2>4, <3>6, <4>1, Zenon
    <3>7. ASSUME NEW g \in Goroutine, b \in Hand(gor)[g]
          PROVE  \E x : A \union C \union W \union K \union D \union H = {x}
      <4>1. A = {} /\ C = {} /\ W = {} /\ K = {} /\ D = {}
        BY <2>2, <3>1, <3>7
      <4> QED BY <2>5, <3>7, <4>1, Zenon
    <3> QED BY <3>1, <3>2, <3>3, <3>4, <3>5, <3>6, <3>7, Zenon
  <2>7. PICK x : Places(b) = {x}
    BY <2>1, <2>6, Zenon
  <2> QED BY <2>7, FS_Singleton, Zenon
<1>2. DropsExcused
  BY DEF RemoteInv, Data
<1> QED BY <1>1, <1>2, Count DEF OutputKept, EveryByteOnce

\* The invariant holds in every state.
LEMMA RemoteInvariant ==
    RemoteSpec => []RemoteInv
<1>1. RemoteInit => RemoteInv
  BY RemoteInvInit
<1>2. RemoteInv /\ [RemoteNext]_remoteVars => RemoteInv'
  BY RemoteInvStep
<1> QED BY <1>1, <1>2, PTL DEF RemoteSpec

\* However many calls, pollers, cancellations, reapings and failures of the
\* connection interleave, a caller scans the answer to its own request, at most
\* one poller is at work, and the types hold.
THEOREM ConnectionCorrect == RemoteSpec => []ConnectionShared
<1>1. RemoteInv => ConnectionShared
  BY InvShared
<1> QED BY <1>1, RemoteInvariant, PTL

\* Every byte that the daemon has handed out is in exactly one place, and while
\* the connection is up send_input and read_output alone drop none.
THEOREM OutputKeptCorrect == RemoteSpec => []OutputKept
<1>1. RemoteInv => OutputKept
  BY InvKept
<1> QED BY <1>1, RemoteInvariant, PTL
=============================================================================
