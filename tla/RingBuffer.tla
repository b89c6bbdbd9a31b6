----------------------------- MODULE RingBuffer -----------------------------
(***************************************************************************)
(* internal/buffer/ring.go: the fixed-size circular byte buffer every      *)
(* session keeps its terminal output in.                                   *)
(*                                                                         *)
(* Write copies its slice one byte per step while it holds the mutex, then *)
(* releases it, then signals the channel.  Several goroutines may write:   *)
(* an SSH session copies stdout and stderr into one buffer, a remote       *)
(* session is fed by its poller and by ReadScreen.  The other methods hold *)
(* the mutex for their whole body and are single steps that need it free.  *)
(* The history variable hist records every byte ever stored.               *)
(***************************************************************************)
EXTENDS Integers, Sequences

CONSTANTS
    Size,       \* capacity in bytes
    Byte,       \* the bytes
    Zero,       \* the byte a fresh slice is filled with
    Chunk,      \* the slices a single Write may carry
    Writer,     \* the writing goroutines
    MaxBytes    \* bound on the number of bytes ever written

ASSUME SizeAssumption == Size \in Nat \ {0}
ASSUME ZeroAssumption == Zero \in Byte
ASSUME ChunkAssumption == Chunk \subseteq Seq(Byte)
ASSUME MaxBytesAssumption == MaxBytes \in Nat

VARIABLES
    buf,            \* the array, indexed from 0
    head,           \* next write position
    written,        \* total bytes written
    markSnapshot,   \* the cursor of Since
    notify,         \* the one-slot channel holds a token
    pc,             \* per writer: "idle", "copy" (holds the mutex), "notify"
    slice,          \* per writer: the argument p of its Write
    i,              \* per writer: bytes of p already stored by its loop
    hist            \* history: every byte ever stored

vars == <<buf, head, written, markSnapshot, notify, pc, slice, i, hist>>

\* rb.mu is held exactly by a writer inside its loop.
MuFree == \A w \in Writer : pc[w] # "copy"

Init ==
    /\ buf = [k \in 0 .. Size - 1 |-> Zero]
    /\ head = 0
    /\ written = 0
    /\ markSnapshot = 0
    /\ notify = FALSE
    /\ pc = [w \in Writer |-> "idle"]
    /\ slice = [w \in Writer |-> <<>>]
    /\ i = [w \in Writer |-> 0]
    /\ hist = <<>>

-----------------------------------------------------------------------------
(* Write *)

\* Fault for ImplementsLog: Write does not take the mutex.
WriteUnlocked(w, p) ==
    /\ pc[w] = "idle"
    /\ written + Len(p) <= MaxBytes
    /\ pc' = [pc EXCEPT ![w] = "copy"]
    /\ slice' = [slice EXCEPT ![w] = p]
    /\ i' = [i EXCEPT ![w] = 0]
    /\ UNCHANGED <<buf, head, written, markSnapshot, notify, hist>>

WriteLock(w, p) ==
    /\ pc[w] = "idle"
    /\ MuFree
    /\ written + Len(p) <= MaxBytes
    /\ pc' = [pc EXCEPT ![w] = "copy"]
    /\ slice' = [slice EXCEPT ![w] = p]
    /\ i' = [i EXCEPT ![w] = 0]
    /\ UNCHANGED <<buf, head, written, markSnapshot, notify, hist>>

\* Fault for Window: head is advanced before the byte is stored.
WriteByteAfterAdvance(w) ==
    /\ pc[w] = "copy"
    /\ i[w] < Len(slice[w])
    /\ buf' = [buf EXCEPT ![(head + 1) % Size] = slice[w][i[w] + 1]]
    /\ head' = (head + 1) % Size
    /\ written' = written + 1
    /\ i' = [i EXCEPT ![w] = @ + 1]
    /\ hist' = Append(hist, slice[w][i[w] + 1])
    /\ UNCHANGED <<markSnapshot, notify, pc, slice>>

\* One iteration of the copying loop.
WriteByte(w) ==
    /\ pc[w] = "copy"
    /\ i[w] < Len(slice[w])
    /\ buf' = [buf EXCEPT ![head] = slice[w][i[w] + 1]]
    /\ head' = (head + 1) % Size
    /\ written' = written + 1
    /\ i' = [i EXCEPT ![w] = @ + 1]
    /\ hist' = Append(hist, slice[w][i[w] + 1])
    /\ UNCHANGED <<markSnapshot, notify, pc, slice>>

WriteUnlock(w) ==
    /\ pc[w] = "copy"
    /\ i[w] = Len(slice[w])
    /\ pc' = [pc EXCEPT ![w] = "notify"]
    /\ UNCHANGED <<buf, head, written, markSnapshot, notify, slice, i, hist>>

\* The non-blocking send: a token already in the channel makes it a no-op.
WriteNotify(w) ==
    /\ pc[w] = "notify"
    /\ notify' = TRUE
    /\ pc' = [pc EXCEPT ![w] = "idle"]
    /\ UNCHANGED <<buf, head, written, markSnapshot, slice, i, hist>>

-----------------------------------------------------------------------------
(* The read methods, evaluated while the mutex is free. *)

Available == IF written > Size THEN Size ELSE written

\* count bytes of the array, the first one `back` bytes behind head.
CopyOut(back, count) ==
    LET start == (head - back + 2 * Size) % Size
    IN  [k \in 1 .. count |-> buf[(start + k - 1) % Size]]

IsTruncated(s) == s < written - Size

\* Fault for ReadsExact: a cursor behind the oldest byte is not lifted to it.
ReadSinceUnlifted(s) ==
    LET count == written - s
    IN  IF count <= 0 THEN <<>> ELSE CopyOut(count, count)

ReadSince(s) ==
    LET oldest == written - Available
        from   == IF s < oldest THEN oldest ELSE s
        count  == written - from
    IN  IF count <= 0 THEN <<>> ELSE CopyOut(count, count)

ReadSinceMax(s, maxBytes) ==
    LET oldest  == written - Available
        lifted  == IF s < oldest THEN oldest ELSE s
        from    == IF lifted > written THEN written ELSE lifted
        avail   == written - from
        hasMore == maxBytes > 0 /\ avail > maxBytes
        count   == IF hasMore THEN maxBytes ELSE avail
    IN  IF avail <= 0
        THEN [out |-> <<>>, cursor |-> from, hasMore |-> FALSE]
        ELSE [out |-> CopyOut(avail, count), cursor |-> from + count,
              hasMore |-> hasMore]

String == IF Available = 0 THEN <<>> ELSE CopyOut(Available, Available)

-----------------------------------------------------------------------------
(* Wait, Mark, AdvanceMarkBy *)

Wait ==
    /\ notify
    /\ notify' = FALSE
    /\ UNCHANGED <<buf, head, written, markSnapshot, pc, slice, i, hist>>

Mark ==
    /\ MuFree
    /\ markSnapshot' = written
    /\ UNCHANGED <<buf, head, written, notify, pc, slice, i, hist>>

AdvanceMarkBy(n) ==
    /\ MuFree
    /\ markSnapshot' = IF markSnapshot + n > written THEN written
                                                     ELSE markSnapshot + n
    /\ UNCHANGED <<buf, head, written, notify, pc, slice, i, hist>>

Write(w) ==
    \/ \E p \in Chunk : WriteLock(w, p)
    \/ WriteByte(w)
    \/ WriteUnlock(w)
    \/ WriteNotify(w)

Next ==
    \/ \E w \in Writer : Write(w)
    \/ Wait
    \/ Mark
    \/ \E n \in 0 .. MaxBytes : AdvanceMarkBy(n)

Spec == Init /\ [][Next]_vars

-----------------------------------------------------------------------------
(* Properties *)

\* head stays inside the array, and the read cursor of Since never passes the
\* write position, whatever AdvanceMarkBy is asked for.
TypeOK ==
    /\ buf \in [0 .. Size - 1 -> Byte]
    /\ head \in 0 .. Size - 1
    /\ written \in Nat
    /\ markSnapshot \in 0 .. written
    /\ notify \in BOOLEAN
    /\ pc \in [Writer -> {"idle", "copy", "notify"}]
    /\ slice \in [Writer -> Seq(Byte)]
    /\ i \in [Writer -> Nat]
    /\ hist \in Seq(Byte)

\* sync.Mutex: two goroutines are never inside the copying loop together.
Exclusive ==
    \A v, w \in Writer : pc[v] = "copy" /\ pc[w] = "copy" => v = w

\* head and written stay in step with the bytes really stored, and the array
\* holds the last Size of them, each in the slot of its position modulo Size.
Window ==
    /\ written = Len(hist)
    /\ head = written % Size
    /\ \A p \in 0 .. written - 1 :
          p >= written - Size => buf[p % Size] = hist[p + 1]

\* A write in progress has stored exactly the prefix of its slice that its
\* loop index says, as the newest bytes of the stream.
Progress ==
    \A w \in Writer : pc[w] = "copy" =>
        /\ slice[w] \in Chunk
        /\ i[w] <= Len(slice[w])
        /\ i[w] <= Len(hist)
        /\ Len(hist) - i[w] + Len(slice[w]) <= MaxBytes
        /\ Len(hist) - i[w] >= markSnapshot
        /\ \A k \in 1 .. i[w] : hist[Len(hist) - i[w] + k] = slice[w][k]

-----------------------------------------------------------------------------
(* Implementation of the atomic log.  A write takes effect when the mutex  *)
(* is released: until then the bytes it has stored are not in the log.     *)

Uncommitted ==
    IF MuFree THEN 0 ELSE i[CHOOSE w \in Writer : pc[w] = "copy"]

committed == SubSeq(hist, 1, Len(hist) - Uncommitted)

Log == INSTANCE OutputLog WITH
           log <- committed, mark <- markSnapshot, notify <- notify,
           owed <- {w \in Writer : pc[w] = "notify"}

\* Every step of the circular array is a step of the append-only log or
\* leaves it unchanged: concurrent writers neither interleave nor lose bytes.
ImplementsLog == Log!LogSpec

\* For every cursor a caller can hold or make up, ReadSince, ReadSinceMax,
\* IsTruncated and String return exactly the bytes of the log they promise:
\* no byte of a slot that was overwritten, none out of order, none missing.
ReadsExact ==
    MuFree =>
        /\ \A s \in -1 .. written + 1 :
              /\ ReadSince(s) = Log!ReadSince(s)
              /\ IsTruncated(s) <=> Log!IsTruncated(s)
              /\ \A m \in 0 .. Size + 1 :
                    ReadSinceMax(s, m) = Log!ReadSinceMax(s, m)
        /\ String = Log!ReadSince(0)
=============================================================================
