---------------------------- MODULE ScreenReader ----------------------------
(***************************************************************************)
(* How tool calls read a local, SSH or serial session: Write/WriteRaw,     *)
(* ReadScreen with the settling loop of internal/pty/helper.go, and the    *)
(* cursor reads of read_output, over the output log of the session.        *)
(*                                                                         *)
(* A Caller is one request at a time: the MCP server serialises the calls  *)
(* on a session with its lock (one Caller); the ai-tmux daemon serves each *)
(* client connection on its own goroutine and has no such lock (several    *)
(* Callers).  Time is abstract: the deadline of a call passes at some      *)
(* moment (late), and a poll that finds the output unchanged may or may    *)
(* not be 300 ms after the last change.                                    *)
(***************************************************************************)
EXTENDS OutputLog

CONSTANTS
    Caller,         \* the requests served concurrently on the session
    Prompt,         \* the byte that makes HasPrompt true at the end of output
    MaxRequests     \* bound on the number of calls

ASSUME MaxRequestsAssumption == MaxRequests \in Nat

VARIABLES
    isAlive,        \* the session's alive flag
    pc,             \* per caller: where its call is
    mode,           \* per caller: which getOutput call of WaitForSettleCtx
    snap,           \* per caller: markSnapshot as read by Since
    cur,            \* per caller: the value of the last getOutput call
    last,           \* per caller: `last` of WaitForSettleCtx
    hasOutput,      \* per caller: `hasOutput` of WaitForSettleCtx
    how,            \* per caller: why the loop ended
    late,           \* per caller: the deadline has passed
    cancelled,      \* per caller: the client cancelled the request
    cursor,         \* per caller: the cursor of its last response
    calls,          \* calls made so far
    \* History of what happened to each byte, by position in the log.
    consumed,       \* positions AdvanceMarkBy was called for
    passedOver,     \* positions Mark moved the read cursor over
    shown           \* how often a position was in a delivered response

callVars == <<pc, mode, snap, cur, last, hasOutput, how, late, cancelled, cursor>>
byteVars == <<consumed, passedOver, shown>>
readerVars == <<logVars, isAlive, callVars, calls, byteVars>>

\* The value of a getOutput call: the bytes, and where they start.
Chunks == [from : -1 .. MaxBytes, bytes : Seq(Byte)]
Empty == [from |-> 0, bytes |-> <<>>]
End(c) == c.from + Len(c.bytes)
Span(c) == c.from + 1 .. End(c)

Labels == {"idle", "since", "read", "judge", "sleep", "check", "advance",
           "respond", "truncated"}

\* Types; no cursor in a response is beyond the bytes written.
ReaderTypeOK ==
    /\ TypeOK
    /\ isAlive \in BOOLEAN
    /\ pc \in [Caller -> Labels]
    /\ mode \in [Caller -> {"first", "loop", "final", "cursor"}]
    /\ snap \in [Caller -> 0 .. MaxBytes]
    /\ cur \in [Caller -> Chunks] /\ last \in [Caller -> Chunks]
    /\ hasOutput \in [Caller -> BOOLEAN]
    /\ how \in [Caller -> {"none", "settled", "prompt", "timeout"}]
    /\ late \in [Caller -> BOOLEAN] /\ cancelled \in [Caller -> BOOLEAN]
    /\ cursor \in [Caller -> 0 .. written]
    /\ calls \in 0 .. MaxRequests
    /\ consumed \subseteq 1 .. MaxBytes /\ passedOver \subseteq 1 .. MaxBytes
    /\ shown \in [1 .. MaxBytes -> 0 .. MaxRequests]

ReaderInit ==
    /\ LogInit
    /\ isAlive = TRUE
    /\ pc = [c \in Caller |-> "idle"]
    /\ mode = [c \in Caller |-> "first"]
    /\ snap = [c \in Caller |-> 0]
    /\ cur = [c \in Caller |-> Empty] /\ last = [c \in Caller |-> Empty]
    /\ hasOutput = [c \in Caller |-> FALSE]
    /\ how = [c \in Caller |-> "none"]
    /\ late = [c \in Caller |-> FALSE] /\ cancelled = [c \in Caller |-> FALSE]
    /\ cursor = [c \in Caller |-> 0]
    /\ calls = 0
    /\ consumed = {} /\ passedOver = {}
    /\ shown = [p \in 1 .. MaxBytes |-> 0]

MoveTo(c, label) == pc' = [pc EXCEPT ![c] = label]

\* The call is over: its local variables are gone.
Finish(c) ==
    /\ MoveTo(c, "idle")
    /\ mode' = [mode EXCEPT ![c] = "first"]
    /\ snap' = [snap EXCEPT ![c] = 0]
    /\ cur' = [cur EXCEPT ![c] = Empty] /\ last' = [last EXCEPT ![c] = Empty]
    /\ hasOutput' = [hasOutput EXCEPT ![c] = FALSE]
    /\ how' = [how EXCEPT ![c] = "none"]
    /\ late' = [late EXCEPT ![c] = FALSE]
    /\ cancelled' = [cancelled EXCEPT ![c] = FALSE]

-----------------------------------------------------------------------------
(* The environment: output, process exit, time, cancellation *)

SessionOutput ==
    /\ Output
    /\ UNCHANGED <<isAlive, callVars, calls, byteVars>>

\* The process exits: cmd.Wait returns, or the reading goroutine gets an error.
Exit ==
    /\ isAlive /\ isAlive' = FALSE
    /\ UNCHANGED <<logVars, callVars, calls, byteVars>>

DeadlinePasses(c) ==
    /\ pc[c] # "idle" /\ ~late[c]
    /\ late' = [late EXCEPT ![c] = TRUE]
    /\ UNCHANGED <<logVars, isAlive, pc, mode, snap, cur, last, hasOutput, how,
                   cancelled, cursor, calls, byteVars>>

Cancel(c) ==
    /\ pc[c] # "idle" /\ ~cancelled[c]
    /\ cancelled' = [cancelled EXCEPT ![c] = TRUE]
    /\ UNCHANGED <<logVars, isAlive, pc, mode, snap, cur, last, hasOutput, how,
                   late, cursor, calls, byteVars>>

-----------------------------------------------------------------------------
(* Starting a call *)

StartSettling(c) ==
    /\ pc[c] = "idle" /\ calls < MaxRequests
    /\ calls' = calls + 1
    /\ MoveTo(c, "since")
    /\ UNCHANGED <<isAlive, mode, snap, cur, last, hasOutput, how, late,
                   cancelled, cursor>>

\* send_input, send_control: Write or WriteRaw, then ReadScreen.
SendInput(c) ==
    /\ isAlive
    /\ Mark
    /\ passedOver' = passedOver \union (mark + 1 .. written)
    /\ StartSettling(c)
    /\ UNCHANGED <<consumed, shown>>

\* Write on a session that is not alive only returns an error.
SendInputDead(c) ==
    /\ pc[c] = "idle" /\ calls < MaxRequests
    /\ ~isAlive
    /\ calls' = calls + 1
    /\ UNCHANGED <<logVars, isAlive, callVars, byteVars>>

\* read_output, mode 1: ReadScreen.
ReadOutput(c) ==
    /\ StartSettling(c)
    /\ UNCHANGED <<logVars, byteVars>>

-----------------------------------------------------------------------------
(* WaitForSettleCtx over Since *)

\* Since, first half: read the mark, release the mutex.
SinceMark(c) ==
    /\ pc[c] = "since"
    /\ snap' = [snap EXCEPT ![c] = mark]
    /\ MoveTo(c, "read")
    /\ UNCHANGED <<logVars, isAlive, mode, cur, last, hasOutput, how, late,
                   cancelled, cursor, calls, byteVars>>

\* Since, second half: read from the mark as it was.
SinceRead(c) ==
    /\ pc[c] = "read"
    /\ cur' = [cur EXCEPT ![c] = [from |-> StartOf(snap[c]),
                                  bytes |-> ReadSince(snap[c])]]
    /\ MoveTo(c, "judge")
    /\ UNCHANGED <<logVars, isAlive, mode, snap, last, hasOutput, how, late,
                   cancelled, cursor, calls, byteVars>>

\* What the loop has seen after the first or a changed poll.
Remember(c) ==
    /\ last' = [last EXCEPT ![c] = cur[c]]
    /\ hasOutput' = [hasOutput EXCEPT ![c] =
                        (mode[c] = "loop" /\ @) \/ cur[c].bytes # <<>>]
    /\ mode' = [mode EXCEPT ![c] = "loop"]
    /\ MoveTo(c, "sleep")
    /\ UNCHANGED how

HasPrompt(bytes) == bytes # <<>> /\ bytes[Len(bytes)] = Prompt

Leave(c, why) ==
    /\ how' = [how EXCEPT ![c] = why]
    /\ MoveTo(c, "check")
    /\ UNCHANGED <<mode, last, hasOutput>>

FirstPoll(c) == mode[c] = "first" /\ Remember(c)

Changed(c) ==
    /\ mode[c] = "loop" /\ cur[c].bytes # last[c].bytes
    /\ Remember(c)

\* Fault for CompleteIsSettled: only the last byte is compared.
UnchangedTail(c) ==
    /\ mode[c] = "loop" /\ hasOutput[c] /\ cur[c].bytes # <<>> /\ last[c].bytes # <<>>
    /\ cur[c].bytes[Len(cur[c].bytes)] = last[c].bytes[Len(last[c].bytes)]
    /\ Leave(c, "settled")

\* Unchanged output ends the loop when it has been unchanged long enough, or
\* when it ends in a prompt; otherwise the loop sleeps again.
Unchanged(c) ==
    /\ mode[c] = "loop" /\ cur[c].bytes = last[c].bytes
    /\ \/ hasOutput[c] /\ Leave(c, "settled")
       \/ hasOutput[c] /\ HasPrompt(cur[c].bytes) /\ Leave(c, "prompt")
       \/ /\ ~(hasOutput[c] /\ HasPrompt(cur[c].bytes))
          /\ MoveTo(c, "sleep")
          /\ UNCHANGED <<mode, last, hasOutput, how>>

FinalPoll(c) == mode[c] = "final" /\ Leave(c, "timeout")

Judge(c) ==
    /\ pc[c] = "judge"
    /\ FirstPoll(c) \/ Changed(c) \/ Unchanged(c) \/ FinalPoll(c)
    /\ UNCHANGED <<logVars, isAlive, snap, cur, late, cancelled, cursor, calls,
                   byteVars>>

\* Fault for CallReturns: the loop does not look at the deadline.
SleepPastDeadline(c) ==
    /\ pc[c] = "sleep"
    /\ \/ UNCHANGED mode
       \/ cancelled[c] /\ mode' = [mode EXCEPT ![c] = "final"]
    /\ MoveTo(c, "since")
    /\ UNCHANGED <<logVars, isAlive, snap, cur, last, hasOutput, how, late,
                   cancelled, cursor, calls, byteVars>>

\* The loop condition and the select on the timer and the context.  Past the
\* deadline, or on cancellation, the output is read one last time.
Sleep(c) ==
    /\ pc[c] = "sleep"
    /\ \/ ~late[c] /\ UNCHANGED mode
       \/ (late[c] \/ cancelled[c]) /\ mode' = [mode EXCEPT ![c] = "final"]
    /\ MoveTo(c, "since")
    /\ UNCHANGED <<logVars, isAlive, snap, cur, last, hasOutput, how, late,
                   cancelled, cursor, calls, byteVars>>

-----------------------------------------------------------------------------
(* The rest of ReadScreen, and the response *)

\* ctx.Err(): a cancelled call returns without consuming anything.
CtxErr(c) ==
    /\ pc[c] = "check"
    /\ IF cancelled[c]
       THEN /\ MoveTo(c, "respond")
            /\ cur' = [cur EXCEPT ![c] = Empty]
       ELSE /\ MoveTo(c, "advance")
            /\ UNCHANGED cur
    /\ UNCHANGED <<logVars, isAlive, mode, snap, last, hasOutput, how, late,
                   cancelled, cursor, calls, byteVars>>

\* Fault for OutputAccounted: the mark moves to the end of the log, not by what was
\* consumed (Mark instead of AdvanceMarkBy).
AdvanceToEnd(c) ==
    /\ pc[c] = "advance"
    /\ Mark
    /\ consumed' = consumed \union Span(cur[c])
    /\ MoveTo(c, "respond")
    /\ UNCHANGED <<isAlive, mode, snap, cur, last, hasOutput, how, late,
                   cancelled, cursor, calls, passedOver, shown>>

Advance(c) ==
    /\ pc[c] = "advance"
    /\ AdvanceMarkBy(Len(cur[c].bytes))
    /\ consumed' = consumed \union Span(cur[c])
    /\ MoveTo(c, "respond")
    /\ UNCHANGED <<isAlive, mode, snap, cur, last, hasOutput, how, late,
                   cancelled, cursor, calls, passedOver, shown>>

\* The handler takes the cursor with Snapshot; the server then sends the
\* response, or drops it if the request was cancelled by now.
Respond(c) ==
    /\ pc[c] = "respond"
    /\ IF cancelled[c]
       THEN UNCHANGED <<shown, cursor>>
       ELSE /\ shown' = [p \in 1 .. MaxBytes |->
                            IF p \in Span(cur[c]) THEN shown[p] + 1 ELSE shown[p]]
            /\ cursor' = [cursor EXCEPT ![c] = Snapshot]
    /\ Finish(c)
    /\ UNCHANGED <<logVars, isAlive, calls, consumed, passedOver>>

-----------------------------------------------------------------------------
(* read_output, mode 2: ReadSinceMax and, under a second acquisition of the
   mutex, IsTruncated. *)

ReadCursor(c) ==
    /\ pc[c] = "idle" /\ calls < MaxRequests
    /\ calls' = calls + 1
    /\ \E maxBytes \in 0 .. 1 :
          LET r == ReadSinceMax(cursor[c], maxBytes)
          IN  cur' = [cur EXCEPT ![c] = [from |-> r.cursor - Len(r.out), bytes |-> r.out]]
    /\ mode' = [mode EXCEPT ![c] = "cursor"]
    /\ snap' = [snap EXCEPT ![c] = cursor[c]]
    /\ MoveTo(c, "truncated")
    /\ UNCHANGED <<logVars, isAlive, last, hasOutput, how, late, cancelled, cursor,
                   byteVars>>

\* Fault for TruncationFlagged: a loss of one byte is not reported.
CursorTruncatedByTwo(c) == IsTruncated(snap[c] + 1)

\* The flag the response of a cursor read carries.
CursorTruncated(c) == IsTruncated(snap[c])

RespondCursor(c) ==
    /\ pc[c] = "truncated"
    /\ cursor' = IF cancelled[c] THEN cursor
                 ELSE [cursor EXCEPT ![c] = End(cur[c])]
    /\ Finish(c)
    /\ UNCHANGED <<logVars, isAlive, calls, byteVars>>

-----------------------------------------------------------------------------
ReaderStep(c) ==
    \/ SinceMark(c) \/ SinceRead(c) \/ Judge(c) \/ Sleep(c)
    \/ CtxErr(c) \/ Advance(c) \/ Respond(c) \/ RespondCursor(c)

StartCall(c) == SendInput(c) \/ SendInputDead(c) \/ ReadOutput(c) \/ ReadCursor(c)

ReaderNext ==
    \/ SessionOutput
    \/ Exit
    \/ \E c \in Caller : StartCall(c) \/ ReaderStep(c) \/ DeadlinePasses(c) \/ Cancel(c)

\* Goroutines are scheduled and timers fire; nothing makes a client call,
\* cancel, or a terminal produce output.
ReaderFairness == \A c \in Caller : WF_readerVars(ReaderStep(c)) /\ WF_readerVars(DeadlinePasses(c))

ReaderSpec == ReaderInit /\ [][ReaderNext]_readerVars /\ ReaderFairness

-----------------------------------------------------------------------------
(* Properties *)

\* No byte is silently skipped: whatever the read cursor has passed was
\* consumed by a read, or deliberately skipped by Write's Mark, or had been
\* overwritten.  AdvanceMarkBy exists for this: bytes that arrive after the
\* output was taken stay unread.
Accounted ==
    \A p \in 1 .. mark : p \in consumed \union passedOver \/ p <= Oldest

\* helper.go: "Empty output is never considered settled".
CompleteNonEmpty ==
    \A c \in Caller : pc[c] \in {"check", "advance"} /\ how[c] \in {"settled", "prompt"}
        => cur[c].bytes # <<>>

\* A cursor read that lost bytes to overwriting says so, although the flag is
\* computed after the mutex was released: without is_truncated the bytes
\* returned start exactly at the cursor that was asked for.
TruncationFlagged ==
    \A c \in Caller : pc[c] = "truncated" /\ ~CursorTruncated(c)
        => cur[c].from = snap[c]

\* "unread data only": until the ring has been overrun, no byte is in two
\* responses of settling reads, whatever is cancelled or times out.
ShownOnce == written <= Size => \A p \in 1 .. MaxBytes : shown[p] <= 1

\* "isComplete=true means output settled": between the two polls that found it
\* unchanged nothing was written, unless the ring overwrote what the first saw.
SettledIsQuiet ==
    \A c \in Caller : pc[c] = "check" /\ how[c] = "settled" =>
        End(cur[c]) = End(last[c]) \/ cur[c].from # last[c].from

\* ReadScreen returns: a deadline ends every wait, however much output keeps
\* the screen from settling.
CallReturns == \A c \in Caller : pc[c] # "idle" ~> pc[c] = "idle"

\* What a reader may rely on: cursors stay within the output, no byte is skipped
\* unseen by AdvanceMarkBy, and none is returned twice.
OutputAccounted == ReaderTypeOK /\ Accounted /\ ShownOnce

\* isComplete is never claimed for output that is empty or still arriving.
CompleteIsSettled == CompleteNonEmpty /\ SettledIsQuiet
=============================================================================
