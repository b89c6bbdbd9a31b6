------------------------------ MODULE WaitFor ------------------------------
(***************************************************************************)
(* waitForPattern of internal/mcp/tools.go: the wait_for mode of           *)
(* read_output and send_input, on the output log of a session.             *)
(*                                                                         *)
(* The session lock admits one waiter at a time.  ReadSince, IsTruncated   *)
(* and Snapshot take the mutex of the buffer one after the other, so they  *)
(* are three steps here.  A pattern is a sequence of bytes without a       *)
(* newline; a line matches when it contains the pattern.                   *)
(***************************************************************************)
EXTENDS OutputLog

CONSTANTS
    Newline,        \* the byte "\n"
    Pattern,        \* the pattern waited for
    MaxCalls        \* bound on the number of calls

ASSUME PatternAssumption ==
    /\ Newline \in Byte
    /\ Pattern \in Seq(Byte \ {Newline}) /\ Pattern # <<>>
ASSUME MaxCallsAssumption == MaxCalls \in Nat

VARIABLES
    alive,          \* isAlive()
    pc,             \* where the call is
    first,          \* the existing output is being checked
    snapshot,       \* `snapshot` of the code
    chunk,          \* the result of the last ReadSince
    chunkEnd,       \* position of its last byte
    remainder,      \* the incomplete trailing line
    truncated,      \* `truncated` of the code
    late,           \* the context is done: timeout or cancellation
    calls,          \* calls made so far
    \* History of the running call.
    mark0,          \* the mark it started from
    seen,           \* positions it has examined
    raced           \* positions written between ReadSince and Snapshot

waitVars == <<pc, first, snapshot, chunk, chunkEnd, remainder, truncated, late,
              calls, mark0, seen, raced>>
vars == <<logVars, alive, waitVars>>

Results == {"matched", "timeout", "terminated"}

\* Types; the positions waitForPattern keeps never pass the end of the log, and
\* the remainder it carries over is a single line.
WaiterTypeOK ==
    /\ TypeOK
    /\ alive \in BOOLEAN
    /\ pc \in {"idle", "read", "trunc", "snap", "match", "wait"} \union Results
    /\ first \in BOOLEAN
    /\ snapshot \in 0 .. written /\ chunkEnd \in 0 .. written /\ mark0 \in 0 .. written
    /\ chunk \in Seq(Byte) /\ remainder \in Seq(Byte \ {Newline})
    /\ truncated \in BOOLEAN /\ late \in BOOLEAN
    /\ calls \in 0 .. MaxCalls
    /\ seen \subseteq 1 .. written /\ raced \subseteq 1 .. written

Contains(text) ==
    \E k \in 0 .. Len(text) - Len(Pattern) :
        SubSeq(text, k + 1, k + Len(Pattern)) = Pattern

\* The part of text after its last newline.
LastLine(text) ==
    LET start == CHOOSE k \in 0 .. Len(text) :
                    /\ k = 0 \/ text[k] = Newline
                    /\ \A j \in k + 1 .. Len(text) : text[j] # Newline
    IN  SubSeq(text, start + 1, Len(text))

Init ==
    /\ LogInit
    /\ alive = TRUE
    /\ pc = "idle" /\ first = TRUE
    /\ snapshot = 0 /\ chunk = <<>> /\ chunkEnd = 0 /\ remainder = <<>>
    /\ truncated = FALSE /\ late = FALSE /\ calls = 0
    /\ mark0 = 0 /\ seen = {} /\ raced = {}

-----------------------------------------------------------------------------
(* The environment *)

TerminalOutput == Output /\ UNCHANGED <<alive, waitVars>>

Exit == alive /\ alive' = FALSE /\ UNCHANGED <<logVars, waitVars>>

\* Between waits, other calls move the mark: ReadScreen up to what it read.
OtherRead ==
    /\ pc = "idle"
    /\ \E n \in 1 .. written - mark : AdvanceMarkBy(n)
    /\ UNCHANGED <<alive, waitVars>>

ContextDone ==
    /\ pc \notin Results \union {"idle"} /\ ~late
    /\ late' = TRUE
    /\ UNCHANGED <<logVars, alive, pc, first, snapshot, chunk, chunkEnd,
                   remainder, truncated, calls, mark0, seen, raced>>

-----------------------------------------------------------------------------
(* The call *)

\* read_output: start from the mark.
Begin ==
    /\ pc = "idle" /\ calls < MaxCalls
    /\ calls' = calls + 1
    /\ pc' = "read"
    /\ snapshot' = mark /\ mark0' = mark
    /\ UNCHANGED <<logVars, alive, first, chunk, chunkEnd, remainder, truncated,
                   late, seen, raced>>

ReadChunk ==
    /\ pc = "read" /\ pc' = "trunc"
    /\ chunk' = ReadSince(snapshot)
    /\ chunkEnd' = written
    /\ seen' = seen \union (StartOf(snapshot) + 1 .. written)
    /\ UNCHANGED <<logVars, alive, first, snapshot, remainder, truncated, late,
                   calls, mark0, raced>>

CheckTruncated ==
    /\ pc = "trunc" /\ pc' = "snap"
    /\ truncated' = (truncated \/ IsTruncated(snapshot))
    /\ UNCHANGED <<logVars, alive, first, snapshot, chunk, chunkEnd, remainder,
                   late, calls, mark0, seen, raced>>

TakeSnapshot ==
    /\ pc = "snap" /\ pc' = "match"
    /\ snapshot' = Snapshot
    /\ raced' = raced \union (chunkEnd + 1 .. written)
    /\ UNCHANGED <<logVars, alive, first, chunk, chunkEnd, remainder, truncated,
                   late, calls, mark0, seen>>

\* Fault for ResultHonest: the incomplete line of earlier chunks is dropped.
MatchChunkOnly ==
    /\ pc = "match"
    /\ first' = FALSE
    /\ \/ /\ chunk = <<>>
          /\ pc' = "wait" /\ UNCHANGED remainder
       \/ /\ chunk # <<>> /\ Contains(chunk)
          /\ pc' = "matched" /\ UNCHANGED remainder
       \/ /\ chunk # <<>> /\ ~Contains(chunk)
          /\ remainder' = LastLine(chunk)
          /\ pc' = IF first \/ alive THEN "wait" ELSE "terminated"
    /\ UNCHANGED <<logVars, alive, snapshot, chunk, chunkEnd, truncated, late,
                   calls, mark0, seen, raced>>

\* The lines of remainder + chunk, then the new remainder, are matched.  In
\* the loop, a chunk without a match ends the call if the session is dead.
Match ==
    LET text == remainder \o chunk
    IN  /\ pc = "match"
        /\ first' = FALSE
        /\ \/ /\ chunk = <<>>
              /\ pc' = "wait" /\ UNCHANGED remainder
           \/ /\ chunk # <<>> /\ Contains(text)
              /\ pc' = "matched" /\ UNCHANGED remainder
           \/ /\ chunk # <<>> /\ ~Contains(text)
              /\ remainder' = LastLine(text)
              /\ pc' = IF first \/ alive THEN "wait" ELSE "terminated"
        /\ UNCHANGED <<logVars, alive, snapshot, chunk, chunkEnd, truncated, late,
                       calls, mark0, seen, raced>>

\* rb.Wait(ctx): the token, or the end of the context; either if both.
Wake ==
    /\ pc = "wait" /\ pc' = "read"
    /\ Wait
    /\ UNCHANGED <<alive, first, snapshot, chunk, chunkEnd, remainder, truncated,
                   late, calls, mark0, seen, raced>>

\* Fault for WaitReturns: the end of the context is ignored while the session
\* is alive.
GiveUpWhenDead ==
    /\ pc = "wait" /\ late /\ ~alive
    /\ pc' = IF Contains(remainder) THEN "matched" ELSE "timeout"
    /\ UNCHANGED <<logVars, alive, first, snapshot, chunk, chunkEnd, remainder,
                   truncated, late, calls, mark0, seen, raced>>

GiveUp ==
    /\ pc = "wait" /\ late
    /\ pc' = IF Contains(remainder) THEN "matched" ELSE "timeout"
    /\ UNCHANGED <<logVars, alive, first, snapshot, chunk, chunkEnd, remainder,
                   truncated, late, calls, mark0, seen, raced>>

\* The handler: only a match moves the mark.  The locals of the call are gone.
Finish ==
    /\ pc \in Results
    /\ pc' = "idle"
    /\ IF pc = "matched" THEN Mark ELSE UNCHANGED logVars
    /\ first' = TRUE
    /\ snapshot' = 0 /\ chunk' = <<>> /\ chunkEnd' = 0 /\ remainder' = <<>>
    /\ truncated' = FALSE /\ late' = FALSE
    /\ mark0' = 0 /\ seen' = {} /\ raced' = {}
    /\ UNCHANGED <<alive, calls>>

Waiter == ReadChunk \/ CheckTruncated \/ TakeSnapshot \/ Match \/ Wake \/ GiveUp \/ Finish

Next ==
    \/ TerminalOutput \/ Exit \/ OtherRead \/ ContextDone
    \/ Begin \/ Waiter

\* The goroutine of the call runs, and its context has a timeout (at most
\* 600 s).  Output, exit and new calls are not promised.
Spec == Init /\ [][Next]_vars /\ WF_vars(Waiter) /\ WF_vars(ContextDone)

-----------------------------------------------------------------------------
(* Properties *)

\* No lost wake-up: when the waiter is asleep with no token in the channel and
\* no writer about to send one, it has examined every byte written since the
\* mark, up to the newest one.  The exceptions are bytes that were overwritten
\* first, and then is_truncated is set, and bytes that were written between
\* ReadSince and Snapshot, which tools.go:619 steps over: their token wakes the
\* waiter and it then finds nothing, so it may sleep on them.  Write signals
\* after it has released the mutex, and the channel holds one token only.
NoLostWakeup ==
    pc = "wait" /\ ~notify /\ owed = {} =>
        truncated \/ mark0 + 1 .. written \subseteq seen \union raced

\* Bytes that were overwritten before the waiter could examine them set
\* is_truncated, although the flag is computed in a later step than the read.
SeenOrFlagged ==
    pc \in {"match", "wait"} \union Results =>
        truncated \/ mark0 + 1 .. snapshot \subseteq seen \union raced

\* The result is right: when nothing was overwritten and no write fell between
\* ReadSince and Snapshot, a match means that the output since the mark does
\* contain the pattern and a timeout that it does not, however the output was
\* cut into chunks and lines.
ResultExact ==
    pc \in Results /\ ~truncated /\ raced = {} =>
        (pc = "matched" <=> Contains(SubSeq(log, mark0 + 1, snapshot)))

\* Every call ends.
WaitReturns == pc # "idle" ~> pc = "idle"

\* The waiter's state is sound, and it sleeps with no wake-up on its way only
\* when all output is examined, flagged as lost, or in the window between
\* ReadSince and Snapshot.
WaiterSound == WaiterTypeOK /\ NoLostWakeup

\* What wait_for returns is right, or flagged: bytes lost to overwriting set
\* is_truncated, and an undisturbed call matches exactly when the pattern is
\* in the output.
ResultHonest == SeenOrFlagged /\ ResultExact
=============================================================================
