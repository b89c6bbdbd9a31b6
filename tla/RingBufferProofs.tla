-------------------------- MODULE RingBufferProofs --------------------------
(* Proofs about RingBuffer, for every buffer size, every set of bytes and  *)
(* every number of concurrent writers.                                     *)
EXTENDS RingBuffer, SequenceTheorems, TLAPS

-----------------------------------------------------------------------------
(* Positions modulo the size of the array *)

\* The remainder is determined by its range and by the quotient equation.
LEMMA ModUnique ==
    ASSUME NEW S \in Nat \ {0}, NEW a \in Int, NEW q \in Int, NEW r \in 0 .. S - 1,
           a = S * q + r
    PROVE  a % S = r
<1> DEFINE d == a \div S
           m == a % S
<1>1. d \in Int /\ m \in 0 .. S - 1 /\ a = S * d + m
  BY SMT
<1> HIDE DEF d, m
<1>2. S * (q - d) = m - r
  BY <1>1, SMT
<1>3. q - d \in Int /\ m - r < S /\ m - r > -S
  BY <1>1, SMT
<1>4. CASE q - d >= 1
  <2>1. S * (q - d) >= S
    BY <1>1, <1>4, SMT
  <2> QED BY <2>1, <1>1, <1>2, <1>3, SMT
<1>5. CASE q - d <= -1
  <2>1. S * (q - d) <= -S
    BY <1>1, <1>5, SMT
  <2> QED BY <2>1, <1>1, <1>2, <1>3, SMT
<1>6. CASE q - d = 0
  BY <1>1, <1>2, <1>6, SMT DEF m
<1> QED BY <1>1, <1>4, <1>5, <1>6, SMT

\* Adding a multiple of the size, or replacing a summand by its remainder,
\* does not change the remainder.
LEMMA ModShift ==
    ASSUME NEW S \in Nat \ {0}, NEW a \in Int, NEW b \in Int, NEW k \in Int,
           b = a + S * k
    PROVE  b % S = a % S
<1> DEFINE d == a \div S
           m == a % S
<1>1. d \in Int /\ m \in 0 .. S - 1 /\ a = S * d + m
  BY SMT
<1> HIDE DEF d, m
<1>2. b = S * (d + k) + m /\ d + k \in Int
  BY <1>1, SMT
<1> QED BY <1>1, <1>2, ModUnique DEF m

\* An index may be reduced modulo the size before it is added to.
LEMMA ModAdd ==
    ASSUME NEW S \in Nat \ {0}, NEW a \in Int, NEW b \in Int
    PROVE  ((a % S) + b) % S = (a + b) % S
<1> DEFINE d == a \div S
           m == a % S
           x == m + b
           y == a + b
<1>1. d \in Int /\ m \in Int /\ a = S * d + m
  BY SMT
<1> HIDE DEF d, m
<1>2. x \in Int /\ y \in Int /\ y = x + S * d
  BY <1>1, SMT
<1> HIDE DEF x, y
<1>3. y % S = x % S
  BY <1>1, <1>2, ModShift
<1> QED BY <1>3 DEF x, y, m

\* Two positions less than Size apart occupy different slots.
LEMMA ModDistinct ==
    ASSUME NEW S \in Nat \ {0}, NEW a \in Int, NEW b \in Int,
           b < a, a - b < S
    PROVE  a % S # b % S
<1> DEFINE d == a \div S
           e == b \div S
           m == a % S
<1>1. d \in Int /\ m \in 0 .. S - 1 /\ a = S * d + m
  BY SMT
<1>2. SUFFICES ASSUME b % S = m PROVE FALSE
  OBVIOUS
<1>3. e \in Int /\ b = S * e + m
  BY <1>2, SMT
<1> HIDE DEF d, e, m
<1>4. S * (d - e) = a - b
  BY <1>1, <1>3, SMT
<1>5. CASE d - e >= 1
  <2>1. S * (d - e) >= S
    BY <1>1, <1>3, <1>5, SMT
  <2> QED BY <2>1, <1>4, SMT
<1>6. CASE d - e <= 0
  <2>1. S * (d - e) <= 0
    BY <1>1, <1>3, <1>6, SMT
  <2> QED BY <2>1, <1>4, SMT
<1> QED BY <1>1, <1>3, <1>5, <1>6, SMT

-----------------------------------------------------------------------------
(* The inductive invariant *)

\* Window alone is not inductive: that head and written move together needs
\* the types, that a byte of one write is never stored between two bytes of
\* another needs Exclusive, and that the log only grows needs Progress.
IInv == TypeOK /\ Exclusive /\ Window /\ Progress

\* A fresh buffer satisfies the inductive invariant.
LEMMA InitIInv == Init => IInv
<1> SUFFICES ASSUME Init PROVE IInv
  OBVIOUS
<1> USE SizeAssumption, ZeroAssumption DEF Init
<1>1. TypeOK
  BY SMTT(40) DEF TypeOK
<1>2. Exclusive /\ Progress
  BY DEF Exclusive, Progress
<1>3. Window
  <2>1. 0 % Size = 0
    BY ModUnique
  <2> QED BY <2>1 DEF Window
<1> QED BY <1>1, <1>2, <1>3 DEF IInv

\* Starting a Write changes no byte of the buffer.
LEMMA LockIInv ==
    ASSUME IInv, NEW w \in Writer, NEW p \in Chunk, WriteLock(w, p)
    PROVE  IInv'
<1> USE SizeAssumption, ChunkAssumption DEF IInv
<1>0. p \in Seq(Byte)
  OBVIOUS
<1>1. TypeOK'
  BY <1>0 DEF TypeOK, WriteLock
<1>2. Exclusive'
  BY DEF TypeOK, WriteLock, Exclusive, MuFree
<1>3. Window'
  BY DEF WriteLock, Window
<1>4. Progress'
  BY <1>0 DEF TypeOK, WriteLock, Progress, MuFree, Window
<1> QED BY <1>1, <1>2, <1>3, <1>4

\* Storing one byte: the new byte takes the slot of the oldest one, and no
\* other slot of the window changes.
LEMMA ByteIInv ==
    ASSUME IInv, NEW w \in Writer, WriteByte(w)
    PROVE  IInv'
<1> USE SizeAssumption DEF IInv
<1> DEFINE b == slice[w][i[w] + 1]
<1>0. b \in Byte /\ slice[w] \in Seq(Byte) /\ i[w] \in Nat
  BY DEF TypeOK, WriteByte
<1>1. /\ hist' = Append(hist, b) /\ hist \in Seq(Byte)
      /\ written' = written + 1 /\ written = Len(hist) /\ written \in Nat
      /\ Len(hist') = written + 1
      /\ \A k \in 1 .. Len(hist) : hist'[k] = hist[k]
      /\ hist'[written + 1] = b
      /\ hist' \in Seq(Byte)
  BY <1>0 DEF TypeOK, Window, WriteByte
<1>2. (head + 1) % Size = (written + 1) % Size
  <2>1. head = written % Size /\ written \in Int /\ 1 \in Int
        /\ Size \in Nat \ {0}
    BY <1>1 DEF Window
  <2>2. ((written % Size) + 1) % Size = (written + 1) % Size
    BY <2>1, ModAdd, Zenon
  <2> QED BY <2>1, <2>2, Zenon
<1>3. TypeOK'
  <2>1. (head + 1) % Size \in 0 .. Size - 1
    BY DEF TypeOK
  <2>2. markSnapshot' \in 0 .. written'
    BY DEF TypeOK, WriteByte
  <2> QED BY <1>0, <1>1, <2>1, <2>2 DEF TypeOK, WriteByte
<1>4. Exclusive'
  BY DEF WriteByte, Exclusive
<1>5. Window'
  <2>1. written' = Len(hist') /\ head' = written' % Size
    BY <1>1, <1>2 DEF WriteByte
  <2>2. ASSUME NEW p \in 0 .. written' - 1, p >= written' - Size
        PROVE  buf'[p % Size] = hist'[p + 1]
    <3>1. p \in Int /\ p % Size \in 0 .. Size - 1 /\ p <= written /\ p >= written + 1 - Size
      BY <1>1, <2>2
    <3>2. buf' = [buf EXCEPT ![head] = b] /\ buf \in [0 .. Size - 1 -> Byte]
      BY DEF WriteByte, TypeOK
    <3>3. CASE p = written
      BY <3>1, <3>2, <3>3, <1>1 DEF Window
    <3>4. CASE p < written
      <4>1. p % Size # head
        BY <3>1, <3>4, <1>1, ModDistinct DEF Window
      <4>2. buf'[p % Size] = buf[p % Size]
        BY <3>1, <3>2, <4>1
      <4>3. buf[p % Size] = hist[p + 1] /\ p + 1 \in 1 .. Len(hist)
        BY <2>2, <3>1, <3>4, <1>1 DEF Window
      <4> QED BY <4>2, <4>3, <1>1
    <3> QED BY <3>1, <3>3, <3>4, <1>1
  <2> QED BY <2>1, <2>2 DEF Window
<1>6. Progress'
  <2>1. SUFFICES ASSUME NEW v \in Writer, pc'[v] = "copy"
                 PROVE  /\ slice'[v] \in Chunk
                        /\ i'[v] <= Len(slice'[v])
                        /\ i'[v] <= Len(hist')
                        /\ Len(hist') - i'[v] + Len(slice'[v]) <= MaxBytes
                        /\ Len(hist') - i'[v] >= markSnapshot'
                        /\ \A k \in 1 .. i'[v] :
                              hist'[Len(hist') - i'[v] + k] = slice'[v][k]
    BY DEF Progress
  <2>2. v = w
    BY <2>1 DEF WriteByte, Exclusive
  <2>3. i'[w] = i[w] + 1 /\ slice' = slice /\ markSnapshot' = markSnapshot
        /\ markSnapshot \in Nat /\ i[w] < Len(slice[w]) /\ Len(slice[w]) \in Nat
    BY <1>0 DEF WriteByte, TypeOK
  <2>4. /\ slice[w] \in Chunk
        /\ i[w] <= Len(hist)
        /\ Len(hist) - i[w] + Len(slice[w]) <= MaxBytes
        /\ Len(hist) - i[w] >= markSnapshot
        /\ \A k \in 1 .. i[w] : hist[Len(hist) - i[w] + k] = slice[w][k]
    BY DEF WriteByte, Progress
  <2>5. ASSUME NEW k \in 1 .. i[w] + 1
        PROVE  hist'[Len(hist') - i'[w] + k] = slice'[w][k]
    <3>1. Len(hist') - i'[w] + k = Len(hist) - i[w] + k
      BY <1>0, <1>1, <2>3
    <3>2. CASE k = i[w] + 1
      <4>1. Len(hist) - i[w] + k = written + 1
        BY <3>2, <1>0, <1>1
      <4>2. slice'[w][k] = b
        BY <3>2, <2>3
      <4> QED BY <3>1, <4>1, <4>2, <1>1
    <3>3. CASE k \in 1 .. i[w]
      <4>1. Len(hist) - i[w] + k \in 1 .. Len(hist)
        BY <3>3, <1>0, <1>1, <2>4
      <4>2. hist[Len(hist) - i[w] + k] = slice[w][k]
        BY <3>3, <2>4
      <4> QED BY <3>1, <4>1, <4>2, <1>1, <2>3
    <3> QED BY <3>2, <3>3, <1>0
  <2>6. /\ slice'[w] \in Chunk
        /\ Len(hist') - i'[w] + Len(slice'[w]) <= MaxBytes
        /\ i'[w] <= Len(slice'[w])
        /\ i'[w] <= Len(hist')
        /\ Len(hist') - i'[w] >= markSnapshot'
    BY <2>3, <2>4, <1>0, <1>1, MaxBytesAssumption, SMTT(40)
  <2>7. \A k \in 1 .. i'[w] : hist'[Len(hist') - i'[w] + k] = slice'[w][k]
    BY <2>3, <2>5
  <2> QED BY <2>2, <2>6, <2>7
<1> QED BY <1>3, <1>4, <1>5, <1>6

\* The remaining steps store no byte.
LEMMA OtherIInv ==
    ASSUME IInv,
           \/ \E w \in Writer : WriteUnlock(w) \/ WriteNotify(w)
           \/ Wait \/ Mark \/ \E n \in 0 .. MaxBytes : AdvanceMarkBy(n)
           \/ UNCHANGED vars
    PROVE  IInv'
<1> USE SizeAssumption, MaxBytesAssumption DEF IInv
<1>1. ASSUME NEW w \in Writer, WriteUnlock(w) PROVE IInv'
  BY <1>1 DEF WriteUnlock, TypeOK, Exclusive, Window, Progress
<1>2. ASSUME NEW w \in Writer, WriteNotify(w) PROVE IInv'
  BY <1>2 DEF WriteNotify, TypeOK, Exclusive, Window, Progress
<1>3. ASSUME Wait PROVE IInv'
  BY <1>3 DEF Wait, TypeOK, Exclusive, Window, Progress
<1>4. ASSUME Mark PROVE IInv'
  BY <1>4 DEF Mark, MuFree, TypeOK, Exclusive, Window, Progress
<1>5. ASSUME NEW n \in 0 .. MaxBytes, AdvanceMarkBy(n) PROVE IInv'
  BY <1>5 DEF AdvanceMarkBy, MuFree, TypeOK, Exclusive, Window, Progress
<1>6. ASSUME UNCHANGED vars PROVE IInv'
  BY <1>6 DEF vars, TypeOK, Exclusive, Window, Progress
<1> QED BY <1>1, <1>2, <1>3, <1>4, <1>5, <1>6

\* Every step preserves the inductive invariant.
LEMMA NextIInv == IInv /\ [Next]_vars => IInv'
<1> SUFFICES ASSUME IInv, [Next]_vars PROVE IInv'
  OBVIOUS
<1>1. ASSUME NEW w \in Writer, NEW p \in Chunk, WriteLock(w, p) PROVE IInv'
  BY <1>1, LockIInv
<1>2. ASSUME NEW w \in Writer, WriteByte(w) PROVE IInv'
  BY <1>2, ByteIInv
<1> QED BY <1>1, <1>2, OtherIInv DEF Next, Write

\* The inductive invariant holds in every reachable state.
THEOREM Invariant == Spec => []IInv
<1>1. Init => IInv
  BY InitIInv
<1>2. IInv /\ [Next]_vars => IInv'
  BY NextIInv
<1> QED BY <1>1, <1>2, PTL DEF Spec

\* Whatever the size of the buffer and the number of concurrent writers, the
\* array always holds the last Size bytes of the stream, each at its place.
THEOREM WindowCorrect == Spec => []Window
<1>1. IInv => Window
  BY DEF IInv
<1> QED BY <1>1, Invariant, PTL

\* The variables of ring.go keep their types; in particular the read cursor
\* markSnapshot never passes the write position.
THEOREM TypeCorrect == Spec => []TypeOK
<1>1. IInv => TypeOK
  BY DEF IInv
<1> QED BY <1>1, Invariant, PTL

-----------------------------------------------------------------------------
(* The read methods *)

\* The slot arithmetic of the read loops finds the byte of each position.
LEMMA SlotOf ==
    ASSUME NEW S \in Nat \ {0}, NEW total \in Int, NEW back \in Int, NEW j \in Int
    PROVE  ((((total % S) - back + 2 * S) % S) + j) % S = (total - back + j) % S
<1> DEFINE m == total % S
           x == m - back + 2 * S
           y == -back + 2 * S + j
           z == total - back + j
<1>1. m \in Int /\ x \in Int /\ y \in Int /\ z \in Int
  BY SMT
<1>2. ((x % S) + j) % S = (x + j) % S
  BY <1>1, ModAdd, Zenon
<1>3. (m + y) % S = (total + y) % S
  BY <1>1, ModAdd, Zenon
<1> HIDE DEF m
<1>4. x + j = m + y
  BY <1>1, SMT
<1>5. total + y = z + S * 2 /\ total + y \in Int
  BY <1>1, SMT
<1>6. (total + y) % S = z % S
  <2> HIDE DEF y, z
  <2> DEFINE t == total + y
  <2>1. t \in Int /\ 2 \in Int /\ t = z + S * 2
    BY <1>5
  <2> HIDE DEF t
  <2>2. t % S = z % S
    BY <1>1, <2>1, ModShift, Zenon
  <2> QED BY <2>2 DEF t
<1> HIDE DEF x, y, z
<1>7. ((x % S) + j) % S = z % S
  BY <1>2, <1>3, <1>4, <1>6, Zenon
<1> QED BY <1>7 DEF x, z, m

\* Copying `count` bytes from `back` bytes behind head returns that part of
\* the stream, as long as it is inside the window.
LEMMA CopyOutExact ==
    ASSUME IInv, NEW back \in 0 .. Available, NEW count \in 0 .. back
    PROVE  CopyOut(back, count)
             = SubSeq(hist, written - back + 1, written - back + count)
<1> USE SizeAssumption DEF IInv
<1>1. /\ hist \in Seq(Byte) /\ written = Len(hist) /\ written \in Nat
      /\ head = written % Size /\ Size \in Nat \ {0}
  BY DEF TypeOK, Window
<1>2. /\ back \in Nat /\ count \in Nat /\ count <= back
      /\ back <= written /\ back <= Size
  BY <1>1 DEF Available
<1> DEFINE start == (head - back + 2 * Size) % Size
           m == written - back + 1
           n == written - back + count
<1>3. ASSUME NEW k \in 1 .. count
      PROVE  buf[(start + k - 1) % Size] = hist[k + m - 1]
  <2>1. k \in Int /\ k - 1 \in Int /\ start \in Int /\ start + k - 1 = start + (k - 1)
    BY <1>1, <1>2
  <2>2. (start + (k - 1)) % Size = (written - back + (k - 1)) % Size
    <3>1. written \in Int /\ back \in Int /\ Size \in Nat \ {0}
      BY <1>1, <1>2
    <3>2. ((((written % Size) - back + 2 * Size) % Size) + (k - 1)) % Size
            = (written - back + (k - 1)) % Size
      BY <3>1, <2>1, SlotOf, ZenonT(60)
    <3> QED BY <3>2, <1>1, Zenon
  <2> DEFINE p == written - back + (k - 1)
  <2>3. /\ p \in 0 .. written - 1 /\ p >= written - Size
        /\ p + 1 = k + m - 1
    BY <1>1, <1>2, <1>3
  <2>4. buf[p % Size] = hist[p + 1]
    BY <2>3 DEF Window
  <2> QED BY <2>1, <2>2, <2>3, <2>4
<1>4. SubSeq(hist, m, n) = [k \in 1 .. count |-> hist[k + m - 1]]
  <2>1. m \in Int /\ n \in Int /\ 1 + n - m = count
    BY <1>1, <1>2
  <2>2. SubSeq(hist, m, n) = [k \in 1 .. (1 + n - m) |-> hist[k + m - 1]]
    BY <1>1, <1>2, <2>1, SMT
  <2> QED BY <2>1, <2>2
<1>5. CopyOut(back, count) = [k \in 1 .. count |-> buf[(start + k - 1) % Size]]
  BY DEF CopyOut
<1> QED BY <1>3, <1>4, <1>5

\* While no write is in progress the log is the whole stream.
LEMMA CommittedFree ==
    IInv /\ MuFree => committed = hist /\ Len(committed) = written
<1> SUFFICES ASSUME IInv, MuFree
             PROVE  committed = hist /\ Len(committed) = written
  OBVIOUS
<1>1. hist \in Seq(Byte) /\ written = Len(hist) /\ Len(hist) \in Nat
  BY DEF IInv, TypeOK, Window
<1>2. committed = SubSeq(hist, 1, Len(hist))
  BY <1>1 DEF committed, Uncommitted
<1>3. SubSeq(hist, 1, Len(hist)) = hist
  BY <1>1
<1> QED BY <1>1, <1>2, <1>3

\* ReadSince, ReadSinceMax, IsTruncated and String return exactly the bytes
\* of the stream they promise, for every size of the buffer and every cursor.
THEOREM ReadsCorrect == Spec => []ReadsExact
<1>1. ASSUME IInv, MuFree,
             NEW s \in Int, NEW m \in Nat
      PROVE  /\ ReadSince(s) = Log!ReadSince(s)
             /\ IsTruncated(s) <=> Log!IsTruncated(s)
             /\ ReadSinceMax(s, m) = Log!ReadSinceMax(s, m)
             /\ String = Log!ReadSince(0)
  <2> USE SizeAssumption
  <2>1. /\ hist \in Seq(Byte) /\ written = Len(hist) /\ written \in Nat
        /\ committed = hist
    BY <1>1, CommittedFree DEF IInv, TypeOK, Window
  <2> DEFINE oldest == written - Available
             from == IF s < oldest THEN oldest ELSE s
             capped == IF from > written THEN written ELSE from
             avail == written - capped
             count == IF m > 0 /\ avail > m THEN m ELSE avail
  <2>a. /\ Available \in 0 .. written /\ Available \in 0 .. Size
        /\ oldest \in 0 .. written
    BY <2>1 DEF Available
  <2>b. Log!written = written /\ Log!Oldest = oldest
    BY <2>1 DEF Log!written, Log!Oldest, Available
  <2>c. from \in Int /\ from >= oldest /\ Log!StartOf(s) = from
    BY <1>1, <2>1, <2>a, <2>b DEF Log!StartOf
  <2>d. capped \in oldest .. written /\ avail \in 0 .. Available
    <3> HIDE DEF from
    <3>1. capped \in oldest .. written
      BY <2>1, <2>a, <2>c
    <3> HIDE DEF capped
    <3> QED BY <2>1, <2>a, <3>1
  <2>e. count \in 0 .. avail
    <3> HIDE DEF avail
    <3> QED BY <1>1, <2>1, <2>a, <2>d
  <2>2. /\ Log!written = written
        /\ Log!Oldest = oldest
        /\ Log!StartOf(s) = from
        /\ Available \in Nat /\ oldest \in Nat /\ from \in Int /\ capped \in Nat
        /\ avail \in 0 .. Available /\ count \in 0 .. avail
        /\ oldest <= written /\ from >= oldest
    <3> HIDE DEF oldest, from, capped, avail, count
    <3> QED BY <2>1, <2>a, <2>b, <2>c, <2>d, <2>e
  <2>3. IsTruncated(s) <=> Log!IsTruncated(s)
    BY <2>1 DEF IsTruncated, Log!IsTruncated, Log!written
  <2>4. ReadSince(s) = Log!ReadSince(s)
    <3>1. Log!ReadSince(s) = SubSeq(hist, from + 1, written)
      BY <2>1, <2>2 DEF Log!ReadSince
    <3>2. CASE from >= written
      <4>1. ReadSince(s) = <<>>
        BY <2>2, <2>1, <3>2 DEF ReadSince
      <4>2. SubSeq(hist, from + 1, written) = <<>>
        <5> HIDE DEF from
        <5>1. from + 1 \in Int /\ written \in Int /\ written < from + 1
          BY <2>1, <2>2, <3>2
        <5> QED BY <5>1, SubSeqEmpty
      <4> QED BY <3>1, <4>1, <4>2
    <3>3. CASE from < written
      <4>1. /\ ReadSince(s) = CopyOut(written - from, written - from)
            /\ written - from \in 0 .. Available
        BY <2>1, <2>2, <3>3 DEF ReadSince, Available
      <4>2. CopyOut(written - from, written - from)
              = SubSeq(hist, written - (written - from) + 1,
                       written - (written - from) + (written - from))
        BY <1>1, <4>1, CopyOutExact
      <4>3. /\ written - (written - from) + 1 = from + 1
            /\ written - (written - from) + (written - from) = written
        BY <2>1, <2>2
      <4> QED BY <3>1, <4>1, <4>2, <4>3
    <3> QED BY <2>1, <2>2, <3>2, <3>3
  <2>5. ReadSinceMax(s, m) = Log!ReadSinceMax(s, m)
    <3>1. Log!ReadSinceMax(s, m)
            = [out |-> SubSeq(hist, capped + 1, capped + count),
               cursor |-> capped + count, hasMore |-> count < avail]
      BY <2>1, <2>2 DEF Log!ReadSinceMax
    <3>2. ReadSinceMax(s, m)
            = IF avail <= 0
              THEN [out |-> <<>>, cursor |-> capped, hasMore |-> FALSE]
              ELSE [out |-> CopyOut(avail, count), cursor |-> capped + count,
                    hasMore |-> m > 0 /\ avail > m]
      BY DEF ReadSinceMax
    <3>3. (count < avail) <=> (m > 0 /\ avail > m)
      BY <2>2, <1>1
    <3>4. CASE avail <= 0
      <4>1. count = 0 /\ avail = 0 /\ capped + count = capped
        BY <2>2, <3>4
      <4>2. SubSeq(hist, capped + 1, capped + count) = <<>>
        <5> HIDE DEF capped, count
        <5>1. /\ capped + 1 \in Int /\ capped + count \in Int
              /\ capped + count < capped + 1
          BY <2>2, <4>1
        <5> QED BY <5>1, SubSeqEmpty
      <4> HIDE DEF oldest, from, capped, avail, count
      <4>3. (count < avail) = FALSE
        BY <4>1
      <4>4. ReadSinceMax(s, m)
              = [out |-> <<>>, cursor |-> capped, hasMore |-> FALSE]
        BY <3>2, <3>4
      <4> QED BY <3>1, <4>1, <4>2, <4>3, <4>4
    <3>5. CASE avail > 0
      <4>1. CopyOut(avail, count)
              = SubSeq(hist, written - avail + 1, written - avail + count)
        BY <1>1, <2>2, CopyOutExact
      <4>2. written - avail = capped
        BY <2>1, <2>2
      <4>3. (count < avail) = (m > 0 /\ avail > m)
        BY <3>3
      <4>4. ~(avail <= 0)
        BY <2>2, <3>5
      <4> HIDE DEF oldest, from, capped, avail, count
      <4> QED BY <3>1, <3>2, <4>1, <4>2, <4>3, <4>4
    <3> QED BY <2>2, <3>4, <3>5
  <2>6. String = Log!ReadSince(0)
    <3>1. Log!ReadSince(0) = SubSeq(hist, oldest + 1, written)
      <4> HIDE DEF oldest
      <4>1. Log!StartOf(0) = oldest
        BY <2>2 DEF Log!StartOf
      <4> QED BY <2>1, <2>2, <4>1 DEF Log!ReadSince
    <3>2. CASE Available = 0
      <4>1. written = 0 /\ oldest = 0 /\ hist = <<>>
        BY <2>1, <3>2 DEF Available
      <4>2. SubSeq(hist, oldest + 1, written) = <<>>
        BY <2>1, <4>1
      <4> QED BY <3>1, <3>2, <4>2 DEF String
    <3>3. CASE Available # 0
      <4>1. String = CopyOut(Available, Available)
        BY <3>3 DEF String
      <4>2. CopyOut(Available, Available)
              = SubSeq(hist, written - Available + 1, written - Available + Available)
        <5>1. Available \in 0 .. Available
          BY <2>2
        <5> QED BY <1>1, <5>1, CopyOutExact
      <4>3. written - Available + Available = written
        BY <2>1, <2>2
      <4> QED BY <3>1, <4>1, <4>2, <4>3
    <3> QED BY <3>2, <3>3
  <2> QED BY <2>3, <2>4, <2>5, <2>6
<1>2. IInv => ReadsExact
  <2> SUFFICES ASSUME IInv, MuFree
               PROVE  /\ \A s \in -1 .. written + 1 :
                            /\ ReadSince(s) = Log!ReadSince(s)
                            /\ IsTruncated(s) <=> Log!IsTruncated(s)
                            /\ \A m \in 0 .. Size + 1 :
                                  ReadSinceMax(s, m) = Log!ReadSinceMax(s, m)
                      /\ String = Log!ReadSince(0)
    BY DEF ReadsExact
  <2>1. written \in Int /\ Size \in Int /\ 0 \in Nat /\ 0 \in Int
    BY SizeAssumption DEF IInv, TypeOK
  <2>2. \A s \in -1 .. written + 1 : s \in Int
    BY <2>1
  <2>3. \A m \in 0 .. Size + 1 : m \in Nat
    BY <2>1
  <2> QED BY <1>1, <2>1, <2>2, <2>3, Zenon
<1> QED BY <1>2, Invariant, PTL

-----------------------------------------------------------------------------
(* The circular array implements the append-only log *)

\* The bytes not yet in the log are those of the one write in progress.
LEMMA UncommittedCopy ==
    IInv => \A w \in Writer : pc[w] = "copy" => ~MuFree /\ Uncommitted = i[w]
<1> SUFFICES ASSUME IInv, NEW w \in Writer, pc[w] = "copy"
             PROVE  ~MuFree /\ Uncommitted = i[w]
  OBVIOUS
<1>1. ~MuFree
  BY DEF MuFree
<1>2. (CHOOSE v \in Writer : pc[v] = "copy") = w
  BY DEF IInv, Exclusive
<1> QED BY <1>1, <1>2 DEF Uncommitted

\* The same two facts about the state after a step.
LEMMA CommittedNext ==
    /\ IInv' /\ MuFree' => committed' = hist' /\ Len(committed') = written'
    /\ IInv' => \A w \in Writer : pc'[w] = "copy" => ~MuFree' /\ Uncommitted' = i'[w]
<1>1. (IInv /\ MuFree => committed = hist /\ Len(committed) = written)'
  BY CommittedFree, PTL
<1>2. (IInv => \A w \in Writer : pc[w] = "copy" => ~MuFree /\ Uncommitted = i[w])'
  BY UncommittedCopy, PTL
<1> QED BY <1>1, <1>2

\* Taking the mutex does not change the log.
LEMMA LockRefines ==
    ASSUME IInv, NEW w \in Writer, NEW p \in Chunk, WriteLock(w, p)
    PROVE  UNCHANGED Log!logVars
<1>1. IInv' /\ MuFree
  BY LockIInv DEF WriteLock
<1>2. committed = hist /\ hist \in Seq(Byte) /\ hist' = hist
  BY <1>1, CommittedFree DEF IInv, TypeOK, WriteLock
<1>3. pc'[w] = "copy" /\ i'[w] = 0
  BY DEF IInv, TypeOK, WriteLock
<1>4. Uncommitted' = 0
  BY <1>1, <1>3, CommittedNext
<1>5. committed' = SubSeq(hist, 1, Len(hist) - 0)
  BY <1>2, <1>3, <1>4 DEF committed
<1>6. committed' = committed
  BY <1>2, <1>5
<1>7. {v \in Writer : pc'[v] = "notify"} = {v \in Writer : pc[v] = "notify"}
  BY DEF WriteLock, IInv, TypeOK
<1> QED BY <1>6, <1>7 DEF WriteLock, Log!logVars

\* A byte stored while the mutex is held is not yet in the log.
LEMMA ByteRefines ==
    ASSUME IInv, NEW w \in Writer, WriteByte(w)
    PROVE  UNCHANGED Log!logVars
<1>1. IInv' /\ pc[w] = "copy" /\ pc' = pc
  BY ByteIInv DEF WriteByte
<1>2. Uncommitted = i[w]
  BY <1>1, UncommittedCopy
<1>3. Uncommitted' = i'[w]
  BY <1>1, CommittedNext
<1> DEFINE b == slice[w][i[w] + 1]
           n == Len(hist) - i[w]
<1>4. /\ b \in Byte /\ hist \in Seq(Byte) /\ hist' = Append(hist, b)
      /\ i'[w] = i[w] + 1 /\ i[w] \in Nat /\ i[w] <= Len(hist)
  BY <1>1 DEF IInv, TypeOK, WriteByte, Progress
<1>5. n \in 0 .. Len(hist) /\ Len(hist') - i'[w] = n
  BY <1>4
<1>6. SubSeq(Append(hist, b), 1, n) = SubSeq(hist, 1, n)
  BY <1>4, <1>5
<1>7. committed' = committed
  BY <1>2, <1>3, <1>4, <1>5, <1>6 DEF committed
<1> QED BY <1>1, <1>7 DEF WriteByte, Log!logVars

\* Releasing the mutex appends the whole slice to the log, in one step.
LEMMA UnlockRefines ==
    ASSUME IInv, NEW w \in Writer, WriteUnlock(w)
    PROVE  \E p \in Chunk : Log!WriteBytes(w, p)
<1> DEFINE p == slice[w]
           n == Len(hist) - i[w]
<1>1. IInv' /\ pc[w] = "copy" /\ hist' = hist /\ pc' = [pc EXCEPT ![w] = "notify"]
  BY OtherIInv DEF WriteUnlock
<1>2. MuFree'
  BY <1>1 DEF MuFree, IInv, Exclusive, TypeOK
<1>3. /\ p \in Chunk /\ p \in Seq(Byte) /\ hist \in Seq(Byte)
      /\ i[w] = Len(p) /\ i[w] <= Len(hist) /\ n + Len(p) <= MaxBytes
      /\ \A k \in 1 .. i[w] : hist[n + k] = p[k]
  BY <1>1 DEF IInv, Progress, TypeOK, WriteUnlock
<1>4. committed = SubSeq(hist, 1, n) /\ Len(committed) = n /\ n \in Nat
  <2>1. committed = SubSeq(hist, 1, n)
    BY <1>1, UncommittedCopy DEF committed
  <2>2. n \in Nat /\ n <= Len(hist)
    BY <1>3
  <2> HIDE DEF n
  <2>3. Len(SubSeq(hist, 1, n)) = n
    BY <1>3, <2>2
  <2> QED BY <2>1, <2>2, <2>3
<1>5. committed' = hist'
  BY <1>1, <1>2, CommittedNext
<1>6. hist = SubSeq(hist, 1, n) \o p
  <2> DEFINE c == SubSeq(hist, 1, n)
             t == c \o p
  <2>0. n \in 0 .. Len(hist) /\ n + Len(p) = Len(hist)
    BY <1>3
  <2> HIDE DEF n, p
  <2>1. /\ c \in Seq(Byte) /\ Len(c) = n
        /\ \A k \in 1 .. n : c[k] = hist[k]
    BY <1>3, <2>0
  <2> HIDE DEF c
  <2>2. /\ t \in Seq(Byte) /\ Len(t) = Len(hist)
        /\ \A k \in 1 .. n : t[k] = c[k]
        /\ \A k \in n + 1 .. Len(hist) : t[k] = p[k - n]
    BY <1>3, <2>0, <2>1
  <2> HIDE DEF t
  <2>3. ASSUME NEW k \in 1 .. Len(hist) PROVE hist[k] = t[k]
    <3>1. CASE k <= n
      BY <2>0, <2>1, <2>2, <3>1
    <3>2. CASE k > n
      <4>1. k - n \in 1 .. i[w] /\ k \in n + 1 .. Len(hist) /\ n + (k - n) = k
        BY <1>3, <2>0, <3>2
      <4>2. hist[n + (k - n)] = p[k - n]
        BY <1>3, <4>1
      <4> QED BY <2>2, <4>1, <4>2
    <3> QED BY <2>0, <3>1, <3>2
  <2>4. hist = t
    BY <1>3, <2>2, <2>3, SeqEqual
  <2> QED BY <2>4 DEF t, c
<1>7. committed' = committed \o p
  BY <1>1, <1>4, <1>5, <1>6
<1>8. /\ w \notin {v \in Writer : pc[v] = "notify"}
      /\ {v \in Writer : pc'[v] = "notify"} = {v \in Writer : pc[v] = "notify"} \union {w}
  BY <1>1 DEF IInv, TypeOK
<1>9. UNCHANGED <<markSnapshot, notify>>
  BY DEF WriteUnlock
<1> HIDE DEF p
<1> QED BY <1>3, <1>4, <1>7, <1>8, <1>9 DEF Log!WriteBytes, Log!written

\* Every step of the circular array is a step of the log, or no step of it.
LEMMA StepRefines == IInv /\ [Next]_vars => [Log!LogNext]_(Log!logVars)
<1> SUFFICES ASSUME IInv, [Next]_vars PROVE [Log!LogNext]_(Log!logVars)
  OBVIOUS
<1>0. IInv'
  BY NextIInv
<1>1. ASSUME NEW w \in Writer, NEW p \in Chunk, WriteLock(w, p)
      PROVE  [Log!LogNext]_(Log!logVars)
  BY <1>1, LockRefines
<1>2. ASSUME NEW w \in Writer, WriteByte(w)
      PROVE  [Log!LogNext]_(Log!logVars)
  BY <1>2, ByteRefines
<1>3. ASSUME NEW w \in Writer, WriteUnlock(w)
      PROVE  [Log!LogNext]_(Log!logVars)
  BY <1>3, UnlockRefines DEF Log!LogNext, Log!Output
<1>4. ASSUME NEW w \in Writer, WriteNotify(w)
      PROVE  [Log!LogNext]_(Log!logVars)
  <2>1. /\ w \in {v \in Writer : pc[v] = "notify"}
        /\ {v \in Writer : pc'[v] = "notify"} = {v \in Writer : pc[v] = "notify"} \ {w}
        /\ \A v \in Writer : pc'[v] = "copy" <=> pc[v] = "copy"
    BY <1>4 DEF WriteNotify, IInv, TypeOK
  <2>2. committed' = committed
    <3>1. MuFree' = MuFree /\ i' = i /\ hist' = hist
      BY <1>4, <2>1 DEF MuFree, WriteNotify
    <3>2. CASE MuFree
      BY <3>1, <3>2 DEF committed, Uncommitted
    <3>3. CASE ~MuFree
      <4>1. PICK v \in Writer : pc[v] = "copy"
        BY <3>3 DEF MuFree
      <4>2. Uncommitted = i[v]
        BY <4>1, UncommittedCopy
      <4>3. Uncommitted' = i'[v]
        BY <1>0, <2>1, <4>1, CommittedNext
      <4> QED BY <3>1, <4>2, <4>3 DEF committed
    <3> QED BY <3>2, <3>3
  <2>3. Log!Notify(w)
    BY <1>4, <2>1, <2>2 DEF WriteNotify, Log!Notify
  <2> QED BY <2>3 DEF Log!LogNext, Log!Output
<1>5. ASSUME Wait PROVE [Log!LogNext]_(Log!logVars)
  BY <1>5 DEF Wait, Log!Wait, Log!LogNext, committed, Uncommitted, MuFree
<1>6. ASSUME Mark PROVE [Log!LogNext]_(Log!logVars)
  <2>1. Len(committed) = written /\ committed' = committed
    BY <1>6, CommittedFree DEF Mark, committed, Uncommitted, MuFree
  <2> QED BY <1>6, <2>1 DEF Mark, Log!Mark, Log!LogNext, Log!written
<1>7. ASSUME NEW n \in 0 .. MaxBytes, AdvanceMarkBy(n)
      PROVE  [Log!LogNext]_(Log!logVars)
  <2>1. Len(committed) = written /\ committed' = committed
    BY <1>7, CommittedFree DEF AdvanceMarkBy, committed, Uncommitted, MuFree
  <2>2. Log!AdvanceMarkBy(n)
    BY <1>7, <2>1 DEF AdvanceMarkBy, Log!AdvanceMarkBy, Log!written
  <2> QED BY <2>2 DEF Log!LogNext
<1>8. ASSUME UNCHANGED vars PROVE [Log!LogNext]_(Log!logVars)
  BY <1>8 DEF vars, Log!logVars, committed, Uncommitted, MuFree
<1> QED BY <1>1, <1>2, <1>3, <1>4, <1>5, <1>6, <1>7, <1>8 DEF Next, Write

\* RingBuffer implements OutputLog: with any number of goroutines writing
\* slices of any length, also longer than the buffer, every method behaves as
\* one atomic step on an append-only log.
THEOREM Refinement == Spec => ImplementsLog
<1>1. Init => Log!LogInit
  <2> SUFFICES ASSUME Init PROVE Log!LogInit
    OBVIOUS
  <2>1. IInv /\ MuFree
    BY InitIInv DEF Init, MuFree
  <2>2. committed = <<>>
    BY <2>1, CommittedFree DEF Init
  <2> QED BY <2>2 DEF Init, Log!LogInit
<1>2. IInv /\ [Next]_vars => [Log!LogNext]_(Log!logVars)
  BY StepRefines
<1> QED BY <1>1, <1>2, Invariant, PTL DEF Spec, ImplementsLog, Log!LogSpec
=============================================================================
