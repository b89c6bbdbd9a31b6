----------------------------- MODULE SessionLog -----------------------------
(***************************************************************************)
(* The log file of a session: logRotator (internal/mcp/tools.go), the      *)
(* goroutine that copies the terminal's output into the ring buffer and    *)
(* the log, and Close, for the three kinds of session that log: a local    *)
(* terminal (aitx/ptysession.go), a serial port (session/serial.go) and    *)
(* SSH (session/ssh.go), which copies with io.Copy and closes its log      *)
(* without waiting for the copy.                                           *)
(*                                                                         *)
(* Output is a stream of chunks numbered 1, 2, ..., each of size one; the  *)
(* chunks up to 0 are those that an earlier session left in the file.      *)
(* Every rename, open and write of the file system may fail.  logRotator's *)
(* mutex makes one Write one step.  One goroutine reads an SSH session     *)
(* too: crypto/ssh has a second one for stderr, but NewSSHSession always   *)
(* requests a terminal, so that the host merges stderr into stdout.        *)
(***************************************************************************)
EXTENDS Integers, Sequences, SequencesExt

CONSTANTS
    MaxChunks,  \* bound: chunks the terminal prints
    MaxSize,    \* maxSize, in chunks
    MaxFiles,   \* maxFiles
    MaxEarlier, \* bound: chunks that the file has already, more than MaxSize perhaps
    NoFile

LogChunk == 1 - MaxEarlier .. MaxChunks

ASSUME LogAssumption ==
    /\ MaxChunks \in Nat /\ MaxEarlier \in Nat
    /\ MaxSize \in Nat \ {0} /\ MaxFiles \in Nat \ {0}
    /\ NoFile \notin Seq(LogChunk)

VARIABLES
    kind,       \* "pty", "serial" or "ssh"
    buf,        \* chunks that have reached the ring buffer
    reader,     \* "read", "log" (holds chunk buf), "over"
    closer,     \* Close: "none", "wait", "closed"
    hungUp,     \* the terminal has ended by itself: exit, disconnection, unplugged
    rotator,    \* the rotator and its files: LogState
    failed,     \* history: a write to the log has failed
    faulty,     \* history: a rename, an open or a write has failed
    misnamed,   \* history: a rename has failed
    clobbered   \* history: the current file could not be renamed

fileVars == <<kind, buf, reader, closer, hungUp, rotator, failed, faulty, misnamed, clobbered>>

Slot == 0 .. MaxFiles       \* path, path.1, path.2, ...

LogState ==
    [files : [Slot -> Seq(LogChunk) \union {NoFile}],
     open  : BOOLEAN,               \* r.file # nil
     pos   : Nat,                   \* offset of the next write
     size  : Nat]                   \* r.size

\* Types; an open log writes inside the current file or at its end.
FileTypeOK ==
    /\ kind \in {"pty", "serial", "ssh"}
    /\ buf \in 0 .. MaxChunks
    /\ reader \in {"read", "log", "over"} /\ closer \in {"none", "wait", "closed"}
    /\ rotator \in LogState
    /\ rotator.open => rotator.files[0] # NoFile /\ rotator.pos <= Len(rotator.files[0])
    /\ {hungUp, failed, faulty, misnamed, clobbered} \subseteq BOOLEAN

\* newLogRotator appends to a file of an earlier session, whatever its size.
FileInit ==
    /\ kind \in {"pty", "serial", "ssh"}
    /\ buf = 0 /\ reader = "read" /\ closer = "none" /\ hungUp = FALSE
    /\ \E n \in 0 .. MaxEarlier :
         rotator = [files |-> [i \in Slot |-> IF i = 0 THEN [k \in 1 .. n |-> k - n] ELSE NoFile],
                    open |-> TRUE, pos |-> n, size |-> n]
    /\ failed = FALSE /\ faulty = FALSE /\ misnamed = FALSE /\ clobbered = FALSE

-----------------------------------------------------------------------------
(* logRotator *)

\* Whether the file in slot i - 1 is renamed into slot i; F is the renames that
\* fail.  The highest slot goes first, so that each finds its place free.
Moved(files, i, F) == i \in Slot \ {0} /\ files[i - 1] # NoFile /\ i \notin F

Shift(files, F) ==
    [i \in Slot |-> IF Moved(files, i, F) THEN files[i - 1]
                    ELSE IF Moved(files, i + 1, F) THEN NoFile ELSE files[i]]

\* The new handle writes from the start of whatever the path leads to.
Reopen(files) == [files EXCEPT ![0] = IF @ = NoFile THEN <<>> ELSE @]

\* Fault for LogIntact: the size is not reset.
RotateKeepsSize(l, F, refused) ==
    IF refused THEN [l EXCEPT !.files = Shift(@, F), !.open = FALSE]
    ELSE [l EXCEPT !.files = Reopen(Shift(@, F)), !.open = TRUE, !.pos = 0]

\* rotate; when the path cannot be opened again the size stays, and the next
\* write rotates again.
Rotate(l, F, refused) ==
    IF refused THEN [l EXCEPT !.files = Shift(@, F), !.open = FALSE]
    ELSE [files |-> Reopen(Shift(l.files, F)), open |-> TRUE, pos |-> 0, size |-> 0]

Full(l) == l.size + 1 > MaxSize

Put(l, chunk) ==
    LET f == l.files[0]
    IN  [l EXCEPT !.files = [@ EXCEPT ![0] = IF l.pos < Len(f) THEN [f EXCEPT ![l.pos + 1] = chunk]
                                             ELSE Append(f, chunk)],
                  !.pos = @ + 1, !.size = @ + 1]

-----------------------------------------------------------------------------
(* The goroutine that reads the terminal *)

\* The ring buffer gets the chunk first.
ReadTerminal ==
    /\ reader = "read" /\ closer = "none" /\ ~hungUp /\ buf < MaxChunks
    /\ buf' = buf + 1 /\ reader' = "log"
    /\ UNCHANGED <<kind, closer, hungUp, rotator, failed, faulty, misnamed, clobbered>>

\* Fault for SshLogKeepsUp: an SSH session ignores the error too.
AfterLogIgnores(ok) == "read"

\* io.Copy ends on an error of MultiWriter; the other loops ignore it.
AfterLog(ok) == IF kind = "ssh" /\ ~ok THEN "over" ELSE "read"

\* logRotator.Write, F being the renames that fail.
WriteLog(F, refused, short) ==
    LET ready == IF Full(rotator) THEN Rotate(rotator, F, refused) ELSE rotator
        ok == ready.open /\ ~short
    IN  /\ reader = "log"
        /\ rotator' = IF ok THEN Put(ready, buf) ELSE ready
        /\ reader' = AfterLog(ok)
        /\ failed' = (failed \/ ~ok)
        /\ faulty' = (faulty \/ short \/ (Full(rotator) /\ (refused \/ F # {})) \/ ~ok)
        /\ misnamed' = (misnamed \/ (Full(rotator) /\ F # {}))
        /\ clobbered' = (clobbered \/ (Full(rotator) /\ 1 \in F))
        /\ UNCHANGED <<kind, buf, closer, hungUp>>

HangUp ==
    /\ ~hungUp /\ hungUp' = TRUE
    /\ UNCHANGED <<kind, buf, reader, closer, rotator, failed, faulty, misnamed, clobbered>>

\* Fault for Closes: a read error is retried.
ReadEndsNever ==
    /\ reader = "read" /\ (hungUp \/ (closer # "none" /\ kind = "ssh"))
    /\ reader' = "over"
    /\ UNCHANGED <<kind, buf, closer, hungUp, rotator, failed, faulty, misnamed, clobbered>>

\* The read fails once the terminal is closed or has ended.
ReadEnds ==
    /\ reader = "read" /\ (closer # "none" \/ hungUp)
    /\ reader' = "over"
    /\ UNCHANGED <<kind, buf, closer, hungUp, rotator, failed, faulty, misnamed, clobbered>>

-----------------------------------------------------------------------------
(* Close *)

CloseTerminal ==
    /\ closer = "none"
    /\ closer' = "wait"
    /\ UNCHANGED <<kind, buf, reader, hungUp, rotator, failed, faulty, misnamed, clobbered>>

\* Fault for CloseKeepsOutput: nobody waits for the reader.
CloseLogAtOnce ==
    /\ closer = "wait"
    /\ closer' = "closed" /\ rotator' = [rotator EXCEPT !.open = FALSE]
    /\ UNCHANGED <<kind, buf, reader, hungUp, failed, faulty, misnamed, clobbered>>

\* Local and serial sessions wait for the reader.
CloseLog ==
    /\ closer = "wait"
    /\ kind # "ssh" => reader = "over"
    /\ closer' = "closed" /\ rotator' = [rotator EXCEPT !.open = FALSE]
    /\ UNCHANGED <<kind, buf, reader, hungUp, failed, faulty, misnamed, clobbered>>

LogWrite == \E F \in SUBSET (Slot \ {0}), refused, short \in BOOLEAN : WriteLog(F, refused, short)

FileNext == ReadTerminal \/ LogWrite \/ HangUp \/ ReadEnds \/ CloseTerminal \/ CloseLog

\* The reader and Close run on; the terminal need not print.
FileFairness == WF_fileVars(LogWrite \/ ReadEnds) /\ WF_fileVars(CloseLog)

FileSpec == FileInit /\ [][FileNext]_fileVars /\ FileFairness

-----------------------------------------------------------------------------
(* Properties *)

File(i) == IF rotator.files[i] = NoFile THEN <<>> ELSE rotator.files[i]

\* Everything on disk, and the last chunk that should be there.
Stored == UNION {ToSet(File(i)) : i \in Slot}
Latest == IF reader = "log" THEN buf - 1 ELSE buf

\* Where the log of an SSH session ends.
LogEnd == IF reader = "log" \/ failed THEN buf - 1 ELSE buf

\* From the oldest backup to the current file, and within each file.
InOrder ==
    \A i, j \in Slot : \A m \in DOMAIN File(i), n \in DOMAIN File(j) :
        i > j \/ (i = j /\ m < n) => File(i)[m] < File(j)[n]

\* "append all session output": over any number of rotations the files, read
\* from the oldest backup on, hold an unbroken run of the output that ends with
\* the last chunk written, and drop the oldest only when every backup is full.
\* With file system errors there may be gaps, but as long as the current file
\* could be renamed the order is never disturbed.
Unbroken ==
    /\ ~clobbered => InOrder
    /\ ~faulty /\ Stored # {} =>
         /\ Latest \in Stored
         /\ \A c \in Stored : c = Latest \/ (c < Latest /\ c + 1 \in Stored)
         /\ \/ \E c \in Stored : c <= 1
            \/ \A i \in Slot \ {0} : rotator.files[i] # NoFile /\ Len(rotator.files[i]) >= MaxSize

\* No file outgrows log_max_size, at the boundary and after failures too: what
\* it has beyond is left from an earlier session.
WithinSize == \A i \in Slot : \A n \in DOMAIN File(i) : n > MaxSize => File(i)[n] <= 0

\* Over SSH the ring buffer never runs ahead of the log by more than one chunk:
\* MultiWriter returns the error of a failed write, io.Copy ends, and the output
\* that the log has lost is not followed by any.  As long as every rename
\* succeeded the log has no gap and ends with the ring buffer's last chunk, or
\* the one before while that is being written or when it could not be.
SshLogKeepsUp ==
    kind = "ssh" /\ ~misnamed =>
        /\ LogEnd > 0 => LogEnd \in Stored
        /\ \A c \in Stored : c = LogEnd \/ (c < LogEnd /\ c + 1 \in Stored)

\* Close of a local or serial session leaves a closed file that has all the
\* output the ring buffer has: the wait for the reader is enough.
CloseKeepsOutput ==
    closer = "closed" /\ kind # "ssh" =>
        /\ ~rotator.open
        /\ ~faulty /\ buf > 0 => buf \in Stored

\* Close comes to its end: the reader it waits for stops.
Closes == closer = "wait" ~> closer = "closed"

\* The files are intact: in order, without gaps unless the file system failed,
\* and within their size.
LogIntact == FileTypeOK /\ Unbroken /\ WithinSize
=============================================================================
