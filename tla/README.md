# TLA+ models of pty-mcp

pty-mcp is an MCP server that gives an AI client interactive terminal sessions:
local PTYs, SSH, serial ports, and sessions kept alive by the ai-tmux daemon.
This directory models its concurrent parts: the ring buffer the output goes
through, the two ways of reading it, the session log, the session manager under
the tool handlers, the stdio and HTTP transports, remote sessions and the
ai-tmux daemon behind them, and the audit trail with the single-use
credentials.

## The system

| Part (source) | State | Operations | Interacts with |
|---|---|---|---|
| ring buffer (`internal/buffer/ring.go`) | array, head, written, markSnapshot, one-slot channel, mutex | Write, ReadSince(Max), Since, Snapshot, IsTruncated, String, Tail, Wait, Mark, AdvanceMarkBy | written by reader goroutines, read by tool calls |
| settling (`internal/pty/helper.go`) | last, lastChange, hasOutput of a call | WaitForSettle(Ctx), HasPrompt | polls Since |
| sessions (`internal/aitx/ptysession.go`, `internal/session/{ssh,serial,local}.go`) | alive, buffer | Write, WriteRaw, ReadScreen, Close, Resize | read goroutine, exit goroutine |
| wait_for (`waitForPattern`, `internal/mcp/tools.go`) | snapshot, remainder, truncated | one call | Wait/ReadSince/Snapshot of the buffer |
| session manager (`internal/session/session.go`) | sessions, infos, session locks, staged secrets | Add, Get, List, Close, Detach, Lock/UnlockSession, Set/TakeSecret, idleReaper | called by every handler |
| tool handlers (`internal/mcp/tools.go`) | locals; server-wide prompt semaphore | 16 tools | manager, sessions, operator's dialog |
| stdio dispatcher (`Serve`, `internal/mcp/server.go`) | in-flight registry, semaphore, respCh | receive, cancel, finish, write, shut down | a goroutine per request |
| HTTP transport (`internal/mcp/http.go`) | registry, semaphore, HTTP sessions with their age | POST (a batch), DELETE | handlers, disconnecting clients |
| remote session (`internal/session/remote.go`) | RPC connection, cached output, local buffer, isPolling | call, WriteWithTimeout, ReadScreen, PollRemote, Detach | ai-tmux daemon |
| ai-tmux (`internal/aitx/{server,client}.go`) | session table, unix socket, daemon processes | ensureServer, create, use, close, idleReaper, closeAll | PTY sessions, the file system, signals |
| credentials (`internal/mcp/credentials.go`) | single-use keys, identity key file | get_credential_bundle, inject_secret | session lock, audit |
| audit (`internal/audit/{client,server}.go`) | bounded queue, retries; the collector's file | SendCmd, SendOutput, SendCredential, worker, Close | send_input, credentials |
| log rotation (`logRotator`, `internal/mcp/tools.go`) | files path, path.1, ..., size | Write, rotate, Close | reader goroutines, Close of a session |

What is hard here: methods of the buffer that are atomic one by one but used in
twos and threes; one read cursor shared by all readers of a session; settling
decided by comparing texts; cancellation at any point of a handler, including
after its last check; close, detach, a second check in create and the idle
reaper racing for one session; secrets that are staged, taken and put back;
a registry in which "cancelled" and "answered" must exclude each other; a
shutdown that may not wait for ever; output that waits in a cache between two
RPCs; a poller that must neither be doubled nor missing; daemons that start and
stop around one socket path; a bounded queue between a command and its record;
file operations whose errors are ignored. `PROJECT.json` lists each of these at
its line under `hazards`, with the properties that would show it going wrong.

## Modules

    OutputLog            what the buffer promises: an append-only log
      ^ implemented by RingBuffer          (RingBufferProofs: for every size)
      ^ extended by    ScreenReader        ReadScreen, settling, cursor reads
      ^ extended by    WaitFor             waitForPattern
    SessionLog           logRotator, the reader goroutine, Close
    SessionManager       Manager + tool handlers + reaper
    Dispatcher           Serve (stdio)
    HttpTransport        the HTTP endpoint and its sessions
    RemoteSession        RPC client, cached output, poller, tool calls on it
    AiTmux               client start-up, daemon life, session table
    AuditClient          queue, worker, retries, collector
      ^ extended by    AuditedCalls        send_input's records, credentials
    MC*.tla, MC*.cfg     instances for TLC
    *Proofs.tla          theorems: RingBuffer, WaitFor, SessionManager, Dispatcher,
                         HttpTransport, AiTmux, AuditedCalls; SessionOutput, which
                         is about ScreenReader, RemoteSession and SessionLog

**RingBuffer** follows `ring.go`. A Write takes the mutex, stores one byte per
step, releases the mutex and signals; all other methods are one step that needs
the mutex free. The read methods are operators that index the array as the code
does. `hist` is a history variable: all bytes ever stored.

**OutputLog** is the abstraction: `log`, `mark`, `notify`, and `owed`, the
writers that have appended but not signalled yet (Write signals after Unlock).
The refinement mapping takes a write into the log when the mutex is released.

**ScreenReader** puts callers on the log. Since is two steps (mark, bytes),
ReadScreen is a loop of polls, then `ctx.Err()`, then AdvanceMarkBy, then the
response, and output, exit, cancellation and deadline may happen between any
two. One Caller is what the MCP server's session lock allows; two Callers are
two clients of the ai-tmux daemon, which has no such lock (with two, TLC finds
Accounted violated: both advance the shared mark for the same bytes). The history
variables record per byte whether it was consumed, skipped by Write's Mark, and
how often it was shown. Time is abstract: a poll that finds the
output unchanged may or may not be 300 ms after the last change.

**WaitFor** splits each round of waitForPattern into ReadSince, IsTruncated,
Snapshot and the match. The regular expression is a fixed byte sequence without
newline; ANSI stripping, context and tail lines are left out.

**SessionManager** has one step per acquisition of a Manager mutex and per call
on the session. A request is a tool call; send_control and resize_session take
the steps of read_output. `obj` is the session itself, `sessions` the map. What
`ClassifyOutput` says of the output is a free choice. A Close that finds
nothing ends the call with an error. `torn` counts the calls of Close and Detach
on each session; the sessions' own closeOnce would hide a second one.

**Dispatcher** has the reading loop, a goroutine per request, the writer and
the shutdown. `KeyOf` lets two requests share an id. Handlers return some time
or, in `Stalling`, perhaps never. The encoder may fail on any answer (`unsent`).

**HttpTransport** has one record per POST, which dispatches its messages one
after the other and stands for its registry entry. A POST without a session id
is stateless; all stateless POSTs share one scope, as in the code. A client can
only name ids it was given. The age of an HTTP session is one bit, set by `Age`.
`Sid` bounds the sessions of a behaviour: an initialize happens while there is a
fresh id left.

**RemoteSession** follows every byte from the remote terminal to the local
buffer. The goroutines are the tool calls (serialised by the Manager's lock), one
poller per wait_for, and the reaper. An RPC is a request on the wire, one or two
steps of the daemon, and a scan under `r.mu`; the connection may break between
any two. `careless` is set by the calls after which cached output may be
overwritten. wait_for is reduced to "a wanted byte is beyond the mark".

**AiTmux** runs several clients and daemons around one socket path. A daemon goes
through Lstat, Remove, Listen; a signal starts closeAll, then ln.Close, then the
deferred Remove, which unlink the path whoever has bound it. `Killed` may happen
anywhere in RunServer and leaves the socket file; a RunServer that returns an error
is at "failed". A handler keeps its pointer to a session after the table's lock was
released; `doomed` holds what the reaper and closeAll took out and have yet to
close.

**AuditClient** splits enqueue into its three selects, so that senders and the
worker interleave there. A post is stored, refused, answered without having been
written (the collector ignores a failing write), or not answered in time, in
which case it may be stored later. **AuditedCalls** adds the calls that send
entries, the session lock they queue for, and the credential store. main may close
the audit client while calls still run, when the grace period of Serve is over. The
generation of the identity key is external and split in two, reading and
writing.

**SessionLog** has the files of one rotator as sequences of chunks. Any subset of
the renames, the reopening and the write may fail. The reader goroutine puts a
chunk into the ring buffer, then into the log; an SSH session's copier stops on
an error, the others go on; Close of an SSH session does not wait for the copier.
crypto/ssh copies stderr with a second goroutine, which has nothing to copy here:
NewSSHSession always requests a terminal (ssh.go:142) and gives up if it gets none,
and the host merges the two streams of a terminal. The file may hold output of an
earlier session (the chunks up to 0), more of it than `log_max_size` allows. Backups
that an earlier session left are not an initial state; a rotator meets them later in
the same run.

Operators whose comment begins "Fault for" are deliberate errors, at least one for each
checked property; putting one in the place of the definition after it makes TLC
report that property.

## Runs

All runs finish in well under five minutes with two workers. Several checked
properties are conjunctions; the named parts, which the text below refers to, are
in parentheses. After a semicolon: liveness.

| Run | Shows | Bounds |
|---|---|---|
| ring | Window, ReadsExact, ImplementsLog | ring of 3, 6 bytes (two laps), 2 writers, slices of 0, 1, 2 and 4 bytes (longer than the ring) |
| screen | OutputAccounted (ReaderTypeOK, Accounted, ShownOnce), CompleteIsSettled (CompleteNonEmpty, SettledIsQuiet), TruncationFlagged; CallReturns | ring of 2, 4 bytes, 2 calls by one caller |
| wait_for | WaiterSound (WaiterTypeOK, NoLostWakeup), ResultHonest (SeenOrFlagged, ResultExact); WaitReturns | ring of 3, 4 bytes, pattern of 2 bytes, 2 calls |
| sessions | TableExact (TypeOK, NoLeak, RegisteredIsOpen, WithinLimit), SecretsGuarded (SecretOnce, SendsAlone), TornDownOnce | 2 ids (one remote), 4 requests of any kind, limit 1, reaper on |
| session_locks | SecretHasSession, NoCloseInOperation; CallsEnd | 2 sessions that exist already, 3 requests (send_input, close, prepare_secret, send_secret), one cancellable, no reaper |
| dispatch | NothingLeaks (TypeOK, RegistryExact, SlotsExact), OneOutcome (AnsweredOnce, CancelSilences), CleanShutdown (NoSendOnClosed, CleanExitAnswers); RequestsProgress (EveryRequestAnswered, CancelledLeavesQueue), ShutdownEnds | 3 requests (two with one id, whose handlers may stall), 1 notification, 2 slots, channel of 1 |
| http | NothingLeaks (TypeOK, RegistryExact, SlotsExact, EndedStaysEnded), BatchAnswered, CancelledByOwner; PostsProgress (QueueLeft, PostsEnd) | 2 clients with equal ids, 4 POSTs of up to 3 messages (initialize, request, notification, cancellation, parse error), one of which may stall and one whose client may leave, 1 slot, 2 HTTP sessions |
| remote | ConnectionShared (TypeOK, Paired, OnePoller), OutputKept (EveryByteOnce, DropsExcused); AllEnd | 2 calls of any kind, their pollers and the reaper, 2 bytes of output |
| aitmux | TableExact (TypeOK, OneOwner, WithinLimit), PathSound (NoOrphan, CleanStart); Settles | 2 clients, 2 daemons, 2 forks, limit 1 |
| audit | TrailAccounted (TypeOK, Accounted, LostOnlyContended), StrictRecorded, CmdBeforeOutput, CredentialsSafe (WrittenOnce, NotBurned, OneIdentity); Settled | 2 calls and 2 bundles (2 of the four with auditing on), 2 sessions, queue of 1, 2 attempts |
| session_log | LogIntact (TypeOK, Unbroken, WithinSize), SshLogKeepsUp, CloseKeepsOutput; Closes | 8 chunks, files of 2, 3 backups, up to 3 chunks of an earlier session |

Why the bounds suffice. Wrap-around, a cursor a full lap behind and a slice
longer than the ring all occur with a ring of 2 or 3 bytes; the proofs remove
the bound for the ring itself. An overrun inside a call needs more bytes than
the ring holds, and a second call to see its consequences. Four requests are
enough for create, prepare_secret and two calls that use the secret, or create,
two racing closers and an operation; limit 1 makes the second create fail.
In session_locks two calls hold different session locks and compete for the
prompt while a third waits for one of the locks. In
the dispatcher two requests with one id and a third compete for two slots, and
a channel of one makes a sender block. Two clients are enough for equal
ids in different sessions. Two calls on a remote session give a write whose
output is overwritten or read by the next call, and two pollers. Two daemons, one
of them signalled or killed, are enough for every order of start-up and shutdown;
limit 1 and two forks make the second check of createSession fail. A queue of one
with a call's two records, or two callers, makes the three selects of enqueue
contend; two attempts have a retry. Eight chunks in files of two fill the current
file and all three backups, and those of an earlier session before them make the
rotator drop the oldest; three of these are more than a file may hold. Symmetry over requests is used in
`sessions`, which checks safety only.

session_locks leaves out two things on purpose: the reaper, which closes without
the lock (see the known deviations), and list_sessions, through which a client can
learn the id of a session whose creation is being undone by
CheckAfterAdd, which closes without the lock as well.

Deadlock is not checked in the runs whose calls are bounded: when all calls are
made and done, the model stops. It is checked in `ring`.

### A disagreement with the documentation

`remote_unpolled` checks WaitIsPolled: while a wait_for waits on a live remote
session, some poller that will go on fetches the output. README.md:70 says
"`wait_for` blocks until a regex pattern appears in output". TLC finds the
behaviour the code has: a first wait_for matches and returns, its poller has not
yet noticed; a second wait_for starts, its poller finds `isPolling` set and gives
up (remote.go:319); the first poller stops. Nobody polls, and the second call
times out whatever the terminal prints.

### Known deviations

Found while modelling; the properties are stated so that they excuse exactly
these cases, and the models contain them.

- ring.go:252: after an overrun Since returns the bytes kept, AdvanceMarkBy moves
  the stale mark, and the next read returns bytes again that were shown before.
  ShownOnce is stated up to the first overrun.
- helper.go:107: settling compares texts; when the ring overwrites a repeating
  output, two polls are equal although more was written. SettledIsQuiet excuses
  polls between which the oldest byte kept has moved.
- ptysession.go:237: a cancellation after the `ctx.Err()` check consumes output
  whose response is dropped, although the comment above promises otherwise.
- tools.go:805: the cursor of a settling read is the write position at response
  time, past bytes that arrived after the output was taken (CHANGELOG.md:159
  says it reflects the bytes read).
- tools.go:619: a write between ReadSince and Snapshot is never examined; a
  pattern in it is missed. The write's token wakes the waiter, which finds nothing
  and may sleep on the bytes. ResultExact, SeenOrFlagged and NoLostWakeup excuse
  this window (`raced`), and nothing else.
- session.go:79: the reaper neither takes the session lock nor clears staged
  secrets; a secret may be staged for a session it has removed. session_locks
  checks SecretHasSession without it.
- server.go:297: when the encoder fails the error is logged, and the client waits
  for an answer that does not come. CleanExitAnswers and EveryRequestAnswered excuse
  this (`unsent`).
- http.go:190: unlike the stdio loop, which dispatch says it mirrors, the select
  may give a slot to a message that was cancelled already. A session is assigned
  after an initialize whether or not it succeeded (comment at 151). The TTL
  counts from creation, so a client whose session expires cannot cancel the
  requests it has in flight. Stateless clients share one scope and can cancel
  each other's requests; CancelledByOwner is about POSTs with a session.
- remote.go:55-62: the probe of AttachRemoteSession reads unread output and
  throws it away, although README.md:56 suggests reconnecting "to check result".
- remote.go:154, 175, 209, 226: a write overwrites output still cached from a call
  that wrote and did not read (a secret, a wait_for, a cancelled call).
  DropsExcused excuses these.
- remote.go:246: the local buffer's mark is moved by wait_for only, so a wait_for
  may match output an earlier read has returned; chunks of two goroutines may
  enter it out of order.
- remote.go:253: an RPC has no deadline. AllEnd assumes that the daemon answers or
  the connection breaks; a connection that stalls silently blocks every call on
  the session, and Close.
- aitx/client.go:52, server.go:33, 45, 65: overlapping start-ups and shutdowns
  leave a daemon running that no path leads to, with its sessions. NoOrphan
  excuses overlaps (`raced`), and nothing else. So does the part of CleanStart
  about giving up and removing a socket.
- aitx/server.go:171: two clients of the daemon that read one session share its
  mark; the reaper may close a session a request has just looked up.
- audit/client.go:127: when another sender takes the room just made, the newest
  entry is dropped, uncounted, although the comment says "drop oldest".
  LostOnlyContended says that this needs contention. Entries in the queue when
  the process ends are lost.
- audit/client.go:146: a command whose posts all timed out is given up, and the
  worker goes on to its output; the collector may still store the command, behind
  the output. CmdBeforeOutput orders the two up to the point where the worker gives
  the command up.
- audit/server.go:66: the collector answers 200 although its file could not be
  written; StrictRecorded counts such a record as accepted.
- credentials.go:47: take does not test the expiry, so an expired credential works
  until a new bundle purges it. credentials.go:194: a call cancelled after the
  box was opened has used the credential up and sends no event.
- tools.go:488: rotate reopens without O_APPEND or O_TRUNC; if the current file
  could not be renamed it is overwritten from its start (`clobbered`). When
  reopening fails the size stays, and every further write shifts the backups once
  more.
- ssh.go:126: an error of the log ends the copier of an SSH session, which then
  shows no output any more (what this buys is SshLogKeepsUp: the log has no gap); ssh.go:550 closes the log without waiting for the
  copier, and a late write may open it again.

### Fairness

- ScreenReader: weak fairness of each caller's steps and of its deadline
  (`timeoutMs` is always positive). No fairness for output, exit, cancellation
  or new calls.
- WaitFor: weak fairness of the waiting goroutine and of the end of its context
  (`context.WithTimeout`, at most 600 s).
- SessionManager: weak fairness of each handler and of the reaper. Reads, dials
  and dialogs have timeouts, with two exceptions: the WSL2 dialog, which the
  operator is assumed to answer, and calls on a stalled remote session, which
  are assumed to return. Locks need no strong fairness because requests are
  finitely many; Go's channels serve senders in order.
- Dispatcher: weak fairness of goroutines, writer (the client reads stdout),
  grace timer, and of handlers outside `Stalling`.
- HttpTransport: weak fairness of the goroutine of each POST, and of handlers
  outside `Stalling`. Nobody has to post, delete, disconnect or grow old.
- RemoteSession: the daemon answers as long as the connection is up; calls, the
  reaper and the end of a poller are strongly fair, because `sync.Mutex` hands
  over to a waiter that starves and `select` chooses among its ready cases at
  random; a wait_for's context ends. One call holds the session lock and one
  poller polls, so fairness of the groups is enough.
- AiTmux: processes and goroutines run, the loop of twenty dials ends. Nobody has
  to send a request or a signal.
- AuditedCalls: goroutines run, a post ends after five seconds at the latest;
  calls are strongly fair because a session lock is a Go channel, which serves
  its waiters in order. Fairness of the groups is enough because calls, bundles
  and entries are finitely many.
- SessionLog: the reader's write and its failing read after Close, and Close
  itself. The terminal need not print or end.

## Proofs

Every theorem holds for all values of the constants that satisfy the assumptions
of its module; the bounds that the models name (bytes, requests, forks, daemons)
are constants too, so they bound nothing in a theorem.

| Module | Theorem | States |
|---|---|---|
| RingBufferProofs | Invariant | Spec => []IInv |
| | TypeCorrect | Spec => []TypeOK |
| | WindowCorrect | Spec => []Window |
| | ReadsCorrect | Spec => []ReadsExact |
| | Refinement | Spec => ImplementsLog |
| WaitForProofs | Invariant | Spec => []WInv |
| | WaiterCorrect | Spec => []WaiterSound |
| | ResultCorrect | Spec => []ResultHonest |
| SessionManagerProofs | TableInvariant | Spec => []TInv |
| | TableCorrect | Spec => []TableExact |
| | TornDownCorrect | Spec => []TornDownOnce |
| | SecretsCorrect | Spec => []SecretsGuarded |
| | StagedForLiveSession | Serialized: Spec => []SecretHasSession |
| | NoCloseUnderOperation | Serialized: Spec => NoCloseInOperation (an action property) |
| DispatcherProofs | Invariant | Spec => []IInv |
| | LeakFreedom | Spec => []NothingLeaks |
| | SingleOutcome | Spec => []OneOutcome |
| | ShutdownIsClean | Spec => []CleanShutdown |
| HttpTransportProofs | Invariant | Spec => []HInv |
| | LeakFreedom | Spec => []NothingLeaks |
| | BatchCorrect | Spec => []BatchAnswered |
| | CancellationScoped | Spec => []CancelledByOwner |
| AiTmuxProofs | Invariant | Spec => []AInv |
| | TableCorrect | Spec => []TableExact |
| | PathCorrect | Spec => []PathSound |
| AuditedCallsProofs | Invariant | Spec => []Inv |
| | TrailCorrect | Spec => []TrailAccounted |
| | StrictCorrect | Spec => []StrictRecorded |
| | OrderCorrect | Spec => []CmdBeforeOutput |
| | CredentialsCorrect | Spec => []CredentialsSafe |
| SessionOutputProofs | LogCorrect | FileSpec => []LogIntact |
| | CloseCorrect | FileSpec => []CloseKeepsOutput |
| | SshLogCorrect | FileSpec => []SshLogKeepsUp |
| | TruncationCorrect | ReaderSpec => []TruncationFlagged |
| | OutputCorrect | Alone: ReaderSpec => []OutputAccounted |
| | SettledCorrect | Alone: ReaderSpec => []CompleteIsSettled |
| | ConnectionCorrect | RemoteSpec => []ConnectionShared |
| | OutputKeptCorrect | RemoteSpec => []OutputKept |

Each module has the same shape: an inductive invariant made of named parts, a
lemma that an assignment to a record changes the fields it names and no other,
one lemma per part with one step per action, and a theorem that draws the checked
property from the invariant. Fairness is not used.

**RingBuffer.** Assumed: a positive size, `Zero \in Byte`, slices are sequences of
bytes, a natural bound. `Window` alone is not inductive: two writers inside the
loop would both be storing at `head`, and the refinement needs to know which bytes
of the stream belong to the write in progress. `IInv` adds `Exclusive` (one writer
in the loop) and `Progress` (the newest `i[w]` bytes are the first `i[w]` bytes of
its slice, the mark is not among them, and the bound leaves room for the rest).
Storing a byte touches one slot; that the other positions of the window are in
other slots is `ModDistinct`, a fact of modular arithmetic (`ModUnique`,
`ModShift`, `ModAdd`). For the reads, `SlotOf` and `CopyOutExact` show that the
start slot the code computes from `head` is the slot of the position asked for.
For the refinement, releasing the mutex is WriteBytes with the whole slice, the
signal is Notify, and taking the mutex or storing a byte leaves the log as it
is (`LockRefines`, `ByteRefines`, `UnlockRefines`).

**WaitFor.** Assumed: a pattern without newline that is not empty, and what
OutputLog assumes. NoLostWakeup follows from two parts: `Awake` says, from the wait
back to the match, that output beyond the snapshot is announced by a token or a
writer that owes one; `Flagged` says at each label which part of the output up to
the snapshot has been examined or was raced past, or that the call is marked
truncated. `Exact` says what the remainder is: the last
line of everything examined so far, which the next chunk continues. The core is
`CutLine`: a pattern that has no newline is in a text exactly when it is in the
text examined before or in its last line followed by the rest. A last line exists because a
non-empty set of naturals has a least element (`LeastNatural`, from the library's
well-foundedness of `<`), which replaces an induction over the text.

**SessionManager.** Assumed: a positive limit, and finitely many sessions at the
start, within it. `TInv` has `ControlOK` (what a call has in hand at each label), `LockExact`
(a session lock's holder is the call that is past it), `OneKeeper` (a session that
runs is in the table, in the hands of one creator or closer, or on the reaper's
list, never two of them), from which RegisteredIsOpen and NoLeak follow, and the
limit, which needs the table finite. With it a step that tears a session down finds it
running, so the count `torn` goes from 0 to 1 and no further (`NextTorn`). `SInv` follows a secret:
`OnePlace` (staged, or in one call's hands), `NotYetSent`, `Fresh`. The last two
theorems assume `Serialized`, that the reaper does not run and nobody lists
sessions, for the reasons given under session_locks; `PInv` then has `Private`
(nobody else knows the session of a create that may be undone) and `InUse` (an
operation's session is in the table until its lock is released).

**Dispatcher.** Assumed: at least one slot and room for one response. RegistryExact and
SlotsExact read the registry and the semaphore off the program counters. That a request is
answered once and a cancelled one never needs `Decided`: whether it will be
answered is settled, for good, in the step that removes its entry; an answer the
encoder fails on leaves the sequence of answers and the others stay, each once
(`FailKeepsOthers`). `ClosedIsQuiet`
(no goroutine is left that could send, once the channel is closed) gives the
clean shutdown.

**HttpTransport.** The same registry, plus, for each POST, `Place` (where in the
batch it is), `Silence` (an entry marked cancelled is exactly a cancellation
recorded for the current message) and `Answers` (what the response has so far is
what the messages passed so far are owed). `Scoped` says that the session of a
POST was given to its client, and EndedStaysEnded keeps an id from being given
out twice; CancelledByOwner follows, also for sessions that have expired.

**AiTmux.** Assumed: finitely many clients, natural bounds, a positive limit, and
that None and PlainFile are not daemons. OneOwner counts a set; the invariant says it
pointwise: `Home` (whoever owns a session belongs to the daemon that forked it),
`Apart` (no two owners), `Owned` (an open session has one), and `Quiet` (closeAll's
list is empty until the signal, which fills it). Home is what makes the end of a
process harmless: it closes its sessions, and takes all their owners with it. `Orderly`
says that, until an overlap has been recorded, at most one start-up or shutdown is
under way and none while a daemon listens at the path. CleanStart needs in addition
that a socket file is that of a daemon which listens, is shutting down or is gone
(`PathKept`), and that a daemon which gets to bind without an overlap finds the path
free (`PathFree`).

**AuditedCalls**, with AuditClient under it. Assumed: a positive queue and number of
attempts, natural bounds, the entries that calls and bundles send, and that None is
none of the values it stands beside. `Nowhere` says that an entry its sender still
holds is neither queued nor posted nor stored; `Room`, that a sender which has made
room finds it unless somebody else was in enqueue (the Cardinality of two senders is
more than one); `Found` is Accounted for one entry. `Linked` ties a call's label to
the labels of its two entries: SendCmd is left only when the command's entry has
been handed over, which in strict mode means accepted, and the output is sent only
by the step that ends the call. With it `Ahead` is inductive: the output enters the
queue when the command is in front of it or gone, and no output is posted, and none
is in flight, while its command is on the way. That a stored output has a
command with a known fate is Linked and Found together: the output is sent after the
command has been handed over, and what was handed over is accounted for. `Single`, `Held` and `Ident` follow
a credential: a call that has taken one is the only one, and what was written was
taken; one that is not in the store was taken or has expired; the key file is
written once, by the holder of identityKeyMu, before anything is signed.

SessionOutputProofs extends three models, SessionLog, ScreenReader and RemoteSession,
which have no name in common for that reason (FileSpec, ReaderSpec, RemoteSpec); each
theorem is about one of them.

**SessionLog.** Assumed: a natural bound, positive limits, and that NoFile is no file.
`LogInv` says in `Good` what the files are when `top` is the last chunk the rotator
was given: ordered unless the current file could not be renamed, and `Whole` (full
backups without an empty slot between them, every chunk followed by the next) as long
as nothing has failed. The write position is part of it, because rotate reopens the
file without O_APPEND: that the next chunk goes behind the last needs `pos` to be the
file's length until a rename of the current file fails. The core is `ShiftFrom`:
whatever subset of the renames fails, what ends up in a slot comes from one slot,
and two slots in order come from two slots in order. For SSH, `Run` (no gap, up to
`LogEnd`) outlives the failure that ends the copier: before it nothing has failed, so
the files are Whole, and the last rotation keeps the run whether or not the path can
be opened again (`RotateRun`). What is beyond the limit in a file is of an earlier
session (`Bounded`), because a chunk is put at `size + 1` at most. Close adds that a reader which
is not ended has its chunk still in hand.

**ScreenReader.** Assumed: what OutputLog assumes, and a natural number of calls.
TruncationCorrect holds for any callers: `Held` says that a chunk which does not begin
at the cursor asked for begins after bytes that the ring had already overwritten, and
the ring never takes that back before the flag is computed. The other two assume
`Alone`, one caller, which is what the MCP server's session lock gives; with two, as
in the ai-tmux daemon, they are false (see Modules). `Own` says what the one caller may
rely on between its steps because nobody else moves the mark: its snapshot is the mark
until it advances, what it holds begins at the mark or where the ring now begins at
the earliest, and what it is about to return has not been shown.

**RemoteSession.** Assumed: natural bounds, operations among the eight, and that None
is neither a goroutine nor output. `Control` ties labels to the three exclusions:
a goroutine awaits a response exactly when it has `r.mu`, a call is under way exactly
when it has the session lock, a poller at work has set isPolling and is the only one;
and a wait_for that has yet to start (`Fresh`) has not started its poller. `May` lists
what one goroutine may change of this, and `Goes` shows once that the others' part
stands, so each action only has to show `May`. `Rpc` says that at most one message is
under way, for the holder of the mutex; Paired follows. `Data` partitions the bytes
handed out (`Split`) into the local buffer, the cache, the wire, the skipped, the
dropped and each goroutine's hand; `Moves` has all the ways in which bytes go from one
part to another. That a write by send_input finds the cache empty is not visible in
one state of the cache: the invariant says that, until a careless call, cached output
has a call about to take it, and that call has the lock.

Only model-checked: the liveness properties (CallReturns, WaitReturns,
CallsEnd, RequestsProgress, ShutdownEnds, PostsProgress, AllEnd, Settles, Settled,
Closes), because fairness and ENABLED are beyond the prover. WaitIsPolled, which the
code does not have, is refuted by TLC.

## Not modelled

`Tail`, ANSI stripping, prompt and password regular expressions, redaction, SSH
authentication and host keys, cryptography, platform dialogs, tool schemas, JSON,
flags and configuration files: text, I/O and libraries. The settling wait during
creation only delays it. In AiTmux a daemon started by hand, and a dial that fails
because the backlog is full, are left out; both act like an overlapping start-up.
In SessionLog rotation switched off (`log_max_size` 0) is a file that is never
full.

## Plan

1. Done: OutputLog, RingBuffer and its proofs, ScreenReader, WaitFor,
   SessionManager, Dispatcher; HttpTransport, RemoteSession, AiTmux, AuditClient,
   AuditedCalls, SessionLog.
2. Done: proofs of every safety property that a passing run checks.
3. Left: a model of the daemon's PTY sessions under several clients, which share a
   mark (today two Callers of ScreenReader), and of the settling wait in creation.
