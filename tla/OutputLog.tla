----------------------------- MODULE OutputLog -----------------------------
(***************************************************************************)
(* What internal/buffer.RingBuffer promises its users: an append-only log  *)
(* of the bytes a terminal produced, of which the last Size bytes can be   *)
(* read, one read cursor (markSnapshot), and a one-slot wake-up channel    *)
(* (notify).  Every method is one atomic step, except that Write signals   *)
(* the channel in a second step, after it has released the mutex.          *)
(* RingBuffer shows that the circular array implements this module; the    *)
(* models of the users of the buffer are built on this module.             *)
(***************************************************************************)
EXTENDS Integers, Sequences

CONSTANTS
    Size,       \* capacity of the buffer in bytes (BufferSizeFromEnv)
    Byte,       \* the bytes that can be written
    Chunk,      \* the slices a single Write call may carry
    Writer,     \* the goroutines that copy terminal output into the buffer
    MaxBytes    \* bound on the number of bytes ever written

ASSUME SizeAssumption == Size \in Nat \ {0}
ASSUME ChunkAssumption == Chunk \subseteq Seq(Byte)
ASSUME MaxBytesAssumption == MaxBytes \in Nat

VARIABLES
    log,        \* every byte written so far; Len(log) is the code's `written`
    mark,       \* markSnapshot: the read cursor of Since
    notify,     \* TRUE when the one-slot channel holds a token
    owed        \* writers that have appended but not yet signalled

logVars == <<log, mark, notify, owed>>

\* The read cursor never passes the end of the log.
TypeOK ==
    /\ log \in Seq(Byte)
    /\ mark \in 0 .. Len(log)
    /\ notify \in BOOLEAN
    /\ owed \subseteq Writer

LogInit ==
    /\ log = <<>>
    /\ mark = 0
    /\ notify = FALSE
    /\ owed = {}

-----------------------------------------------------------------------------
(* The read methods: values of the current state. *)

written == Len(log)

Snapshot == written

\* Position of the oldest byte that can still be read.
Oldest == IF written > Size THEN written - Size ELSE 0

IsTruncated(s) == s < written - Size

\* The position a read that asks for s really starts from.
StartOf(s) == IF s < Oldest THEN Oldest ELSE s

ReadSince(s) == SubSeq(log, StartOf(s) + 1, written)

ReadSinceMax(s, maxBytes) ==
    LET from  == IF StartOf(s) > written THEN written ELSE StartOf(s)
        avail == written - from
        count == IF maxBytes > 0 /\ avail > maxBytes THEN maxBytes ELSE avail
    IN  [out     |-> SubSeq(log, from + 1, from + count),
         cursor  |-> from + count,
         hasMore |-> count < avail]

-----------------------------------------------------------------------------
(* The methods that change state. *)

\* Write, up to the release of the mutex.
WriteBytes(w, p) ==
    /\ w \notin owed
    /\ written + Len(p) <= MaxBytes
    /\ log' = log \o p
    /\ owed' = owed \union {w}
    /\ UNCHANGED <<mark, notify>>

\* Fault for WaiterSound (WaitFor): the signal is dropped.
NotifyDropped(w) ==
    /\ w \in owed
    /\ owed' = owed \ {w}
    /\ UNCHANGED <<log, mark, notify>>

\* Write, the non-blocking send after the mutex is released.
Notify(w) ==
    /\ w \in owed
    /\ owed' = owed \ {w}
    /\ notify' = TRUE
    /\ UNCHANGED <<log, mark>>

\* Wait takes the token; without one the caller blocks.
Wait ==
    /\ notify
    /\ notify' = FALSE
    /\ UNCHANGED <<log, mark, owed>>

Mark ==
    /\ mark' = written
    /\ UNCHANGED <<log, notify, owed>>

AdvanceMarkBy(n) ==
    /\ mark' = IF mark + n > written THEN written ELSE mark + n
    /\ UNCHANGED <<log, notify, owed>>

Output ==
    \E w \in Writer : Notify(w) \/ \E p \in Chunk : WriteBytes(w, p)

LogNext ==
    \/ Output
    \/ Wait
    \/ Mark
    \/ \E n \in 0 .. MaxBytes : AdvanceMarkBy(n)

LogSpec == LogInit /\ [][LogNext]_logVars
=============================================================================
