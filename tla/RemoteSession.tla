--------------------------- MODULE RemoteSession ---------------------------
(***************************************************************************)
(* RemoteSession of internal/session/remote.go and the tool calls on it:   *)
(* the RPC client with its one mutex, the output cached between a write    *)
(* and the read that follows it, the local buffer that wait_for searches,  *)
(* the poller goroutine a wait_for starts, detach, close and the reaper.   *)
(*                                                                         *)
(* Output is a stream of bytes numbered 1, 2, ...; the daemon hands every  *)
(* byte out once, so each byte is in one place: on the wire, in the hands  *)
(* of a goroutine, cached, in the local buffer, or dropped; a write makes  *)
(* the daemon skip what is unread.  The Manager's session lock serialises  *)
(* tool calls; pollers and the reaper run beside them.  The Manager lets   *)
(* one of close, detach and the reaper have the session (SessionManager!   *)
(* TornDownOnce), so closeOnce never blocks here.                          *)
(***************************************************************************)
EXTENDS Integers, Sequences, FiniteSets, SequencesExt

CONSTANTS
    MaxCalls,   \* bound: tool calls, numbered in the order they get the lock
    Op,         \* what they may be
    Wanted,     \* the bytes that complete a match of wait_for's pattern
    MaxOut,     \* bound: bytes the remote terminal prints
    None

ASSUME RemoteAssumption ==
    /\ Op \subseteq {"input", "raw", "input_wait", "wait", "read", "resize", "close", "detach"}
    /\ MaxCalls \in Nat /\ MaxOut \in Nat /\ Wanted \subseteq 1 .. MaxOut
    /\ None \notin Int /\ None \notin Seq(1 .. MaxOut)

Call == 1 .. MaxCalls       \* each has a context and, for wait_for, a poller
Poller(c) == -c
Pollers == {Poller(c) : c \in Call}
Reaper == 0                 \* the Manager's idle reaper
Goroutine == Call \union Pollers \union {Reaper}
RemoteByte == 1 .. MaxOut

VARIABLES
    gor,                            \* per goroutine: GorState
    done,                           \* the contexts that are over
    lock, registered,               \* the Manager: holder of the lock, entry present
    mu, wire, replies,              \* r.mu, requests sent, responses to scan
    cache, localBuf, localMark,     \* cachedOut, localBuf and its mark
    produced, rmark, remoteOpen,    \* the daemon: printed, handed out, session
    conn, alive, isPolling,         \* the transport, and the client's flags
    skipped, dropped, probed, careless      \* history, see the properties

mgrVars == <<lock, registered>>
rpcVars == <<mu, wire, replies>>
bufVars == <<cache, localBuf, localMark>>
daemonVars == <<produced, rmark, remoteOpen>>
lifeVars == <<conn, alive, isPolling>>
histVars == <<skipped, dropped, probed, careless>>
remoteVars == <<gor, done, mgrVars, rpcVars, bufVars, daemonVars, lifeVars, histVars>>

GorState ==
    [pc     : {"new", "write", "call", "await", "store", "screen", "take", "feed", "waiting",
               "start", "poll", "closers", "done"},
     op     : Op \union {"raw", "close", None},     \* "raw": the secret a wait_for sends
     method : {"send", "read", "close", "resize", None},    \* of its RPC
     chunk  : Seq(RemoteByte)]                              \* the output it holds

\* Types; the mark stays inside the local buffer.
RemoteTypeOK ==
    /\ gor \in [Goroutine -> GorState]
    /\ done \subseteq Call \union {Reaper}
    /\ lock \in Call \union {None} /\ mu \in Goroutine \union {None}
    /\ wire \in Seq([from : Goroutine, wrote : BOOLEAN])
    /\ \A k \in DOMAIN replies : replies[k].to \in Goroutine
    /\ cache \in Seq(RemoteByte) \union {None} /\ localBuf \in Seq(RemoteByte)
    /\ localMark \in 0 .. Len(localBuf)
    /\ produced \in 0 .. MaxOut /\ rmark \in 0 .. produced
    /\ {registered, remoteOpen, alive, isPolling, careless} \subseteq BOOLEAN
    /\ conn \in {"none", "up", "down"}
    /\ skipped \subseteq RemoteByte /\ dropped \subseteq RemoteByte /\ probed \subseteq dropped

\* In no operation and without an RPC.
Idle(label) == [pc |-> label, op |-> None, method |-> None, chunk |-> <<>>]

RemoteInit ==
    /\ gor = [g \in Goroutine |-> Idle("new")]
    /\ done = {} /\ lock = None /\ registered = FALSE
    /\ mu = None /\ wire = <<>> /\ replies = <<>>
    /\ cache = None /\ localBuf = <<>> /\ localMark = 0
    /\ produced = 0 /\ rmark = 0 /\ remoteOpen = TRUE
    /\ conn = "none" /\ alive = FALSE /\ isPolling = FALSE
    /\ skipped = {} /\ dropped = {} /\ probed = {} /\ careless = FALSE

Pc(g) == gor[g].pc
Goto(g, label) == gor' = [gor EXCEPT ![g].pc = label]
CtxDone(g) == g \in done \/ -g \in done

\* The handler returns: its context is cancelled, the session is unlocked.
EndCall(g) ==
    /\ gor' = [gor EXCEPT ![g] = Idle("done")]
    /\ done' = done \union {g}
    /\ lock' = IF lock = g THEN None ELSE lock

\* ReadScreen returns: to the handler, or to the poller's loop.
AfterRead(g) ==
    IF g \in Pollers
    THEN gor' = [gor EXCEPT ![g] = Idle("poll")] /\ UNCHANGED <<done, lock>>
    ELSE EndCall(g)

-----------------------------------------------------------------------------
(* The remote terminal, and connecting *)

TerminalOutput ==
    /\ remoteOpen /\ produced < MaxOut
    /\ produced' = produced + 1
    /\ UNCHANGED <<gor, done, mgrVars, rpcVars, bufVars, rmark, remoteOpen, lifeVars, histVars>>

\* AttachRemoteSession's probe reads what is unread and throws it away;
\* NewRemoteSession is the case of a session that has printed nothing.
Attach ==
    /\ conn = "none"
    /\ conn' = "up" /\ alive' = TRUE /\ registered' = TRUE
    /\ rmark' = produced /\ probed' = 1 .. produced /\ dropped' = probed'
    /\ UNCHANGED <<gor, done, lock, rpcVars, bufVars, produced, remoteOpen, isPolling,
                   skipped, careless>>

OnWire == UNION {ToSet(replies[k].bytes) : k \in DOMAIN replies}

\* The transport ends; what is on the wire is lost.
LoseWire ==
    /\ conn' = "down"
    /\ wire' = <<>> /\ replies' = <<>>
    /\ dropped' = dropped \union OnWire

ConnectionLost ==
    /\ conn = "up"
    /\ LoseWire
    /\ UNCHANGED <<gor, done, mgrVars, mu, bufVars, daemonVars, alive, isPolling,
                   skipped, probed, careless>>

-----------------------------------------------------------------------------
(* call: one RPC under r.mu *)

\* What follows an RPC that failed.
AfterError(g) ==
    CASE gor[g].method = "close" -> Goto(g, "closers") /\ UNCHANGED <<done, lock>>
      [] gor[g].method = "read"  -> AfterRead(g)
      [] OTHER                   -> EndCall(g)

\* Fault for ConnectionShared: the mutex is released once the request is written.
SendRequestUnheld(g) ==
    /\ Pc(g) = "call" /\ mu = None
    /\ IF conn = "up"
       THEN /\ wire' = Append(wire, [from |-> g, wrote |-> FALSE])
            /\ Goto(g, "await")
            /\ UNCHANGED <<done, lock, alive>>
       ELSE /\ alive' = FALSE
            /\ AfterError(g)
            /\ UNCHANGED wire
    /\ UNCHANGED <<registered, mu, replies, bufVars, daemonVars, conn, isPolling, histVars>>

SendRequest(g) ==
    /\ Pc(g) = "call" /\ mu = None
    /\ IF conn = "up"
       THEN /\ mu' = g /\ wire' = Append(wire, [from |-> g, wrote |-> FALSE])
            /\ Goto(g, "await")
            /\ UNCHANGED <<done, lock, alive>>
       ELSE /\ alive' = FALSE
            /\ AfterError(g)
            /\ UNCHANGED <<mu, wire>>
    /\ UNCHANGED <<registered, replies, bufVars, daemonVars, conn, isPolling, histVars>>

\* The daemon's Write marks the buffer: unread output is skipped.
DaemonWrite ==
    /\ wire # <<>> /\ ~Head(wire).wrote
    /\ gor[Head(wire).from].method = "send" /\ remoteOpen
    /\ wire' = <<[Head(wire) EXCEPT !.wrote = TRUE]>> \o Tail(wire)
    /\ rmark' = produced
    /\ skipped' = skipped \union (rmark + 1 .. produced)
    /\ UNCHANGED <<gor, done, mgrVars, mu, replies, bufVars, produced, remoteOpen, lifeVars,
                   dropped, probed, careless>>

\* Requests are served in order; a write and a read return the unread output,
\* and nothing but an error once the session is closed.
DaemonServe ==
    LET g == Head(wire).from
        reads == gor[g].method \in {"send", "read"} /\ remoteOpen
    IN  /\ wire # <<>>
        /\ gor[g].method = "send" /\ remoteOpen => Head(wire).wrote
        /\ wire' = Tail(wire)
        /\ replies' = Append(replies,
               [to |-> g, ok |-> remoteOpen,
                bytes |-> IF reads THEN [k \in 1 .. produced - rmark |-> rmark + k] ELSE <<>>])
        /\ rmark' = IF reads THEN produced ELSE rmark
        /\ remoteOpen' = (remoteOpen /\ gor[g].method # "close")
        /\ UNCHANGED <<gor, done, mgrVars, mu, bufVars, produced, lifeVars, histVars>>

\* The caller scans the next line, whoever it was meant for.
ReadResponse(g) ==
    /\ Pc(g) = "await" /\ replies # <<>>
    /\ replies' = Tail(replies)
    /\ mu' = None
    /\ IF ~Head(replies).ok THEN AfterError(g)
       ELSE IF gor[g].method = "resize" THEN EndCall(g)
       ELSE /\ gor' = [gor EXCEPT ![g].chunk = Head(replies).bytes,
                                  ![g].pc = CASE gor[g].method = "send"  -> "store"
                                              [] gor[g].method = "read"  -> "feed"
                                              [] gor[g].method = "close" -> "closers"]
            /\ UNCHANGED <<done, lock>>
    /\ UNCHANGED <<registered, wire, bufVars, daemonVars, lifeVars, histVars>>

ScanFails(g) ==
    /\ Pc(g) = "await" /\ conn = "down"
    /\ mu' = None /\ alive' = FALSE
    /\ AfterError(g)
    /\ UNCHANGED <<registered, wire, replies, bufVars, daemonVars, conn, isPolling, histVars>>

-----------------------------------------------------------------------------
(* Tool calls *)

\* A call gets the session lock.  SendInput alone does not look the session up
\* again and may start on one that has been removed.
Start(c, op) ==
    /\ Pc(c) = "new" /\ conn # "none" /\ lock = None
    /\ c > 1 => Pc(c - 1) # "new"
    /\ registered \/ op \in {"input", "raw", "input_wait"}
    /\ lock' = c
    /\ registered' = (registered /\ op \notin {"close", "detach"})
    /\ alive' = (alive /\ op \notin {"close", "detach"})
    /\ gor' = [gor EXCEPT ![c].op = op,
                          ![c].method = IF op \in {"close", "resize"} THEN op ELSE None,
                          ![c].pc = CASE op \in {"input", "raw", "input_wait"} -> "write"
                                      [] op = "read"               -> "screen"
                                      [] op \in {"close", "resize"} -> "call"
                                      [] op = "detach"             -> "closers"
                                      [] op = "wait"               -> "waiting",
                          ![Poller(c)].pc = IF op = "wait" THEN "start" ELSE Pc(Poller(c))]
    /\ UNCHANGED <<done, rpcVars, bufVars, daemonVars, conn, isPolling, histVars>>

\* The reaper takes an idle session away without its lock, and closes it.
Reap ==
    /\ Pc(Reaper) = "new" /\ registered
    /\ registered' = FALSE /\ alive' = FALSE
    /\ gor' = [gor EXCEPT ![Reaper] = [@ EXCEPT !.pc = "call", !.op = "close", !.method = "close"]]
    /\ UNCHANGED <<done, lock, rpcVars, bufVars, daemonVars, conn, isPolling, histVars>>

\* A cancellation, or the timeout of a wait_for.
ContextDone(c) ==
    /\ Pc(c) \notin {"new", "done"} /\ c \notin done
    /\ done' = done \union {c}
    /\ UNCHANGED <<gor, mgrVars, rpcVars, bufVars, daemonVars, lifeVars, histVars>>

\* Write, WriteWithTimeout and WriteRaw.
Write(c) ==
    /\ Pc(c) = "write"
    /\ IF alive
       THEN gor' = [gor EXCEPT ![c].pc = "call", ![c].method = "send"] /\ UNCHANGED <<done, lock>>
       ELSE EndCall(c)
    /\ UNCHANGED <<registered, rpcVars, bufVars, daemonVars, lifeVars, histVars>>

Cached == IF cache = None THEN {} ELSE ToSet(cache)

\* The output of the write is cached for the read that follows; output that is
\* still cached is overwritten.  A call that does not read after its write, or
\* whose read finds the context over, leaves it there.
StoreCache(c) ==
    /\ Pc(c) = "store"
    /\ cache' = gor[c].chunk
    /\ dropped' = dropped \union Cached
    /\ careless' = (careless \/ gor[c].op # "input")
    /\ CASE gor[c].op = "raw" -> EndCall(c)
         [] gor[c].op = "input" ->
              /\ gor' = [gor EXCEPT ![c].pc = "screen", ![c].chunk = <<>>]
              /\ UNCHANGED <<done, lock>>
         [] gor[c].op = "input_wait" ->
              /\ gor' = [gor EXCEPT ![c].pc = "waiting", ![c].chunk = <<>>,
                                    ![Poller(c)].pc = "start"]
              /\ UNCHANGED <<done, lock>>
    /\ UNCHANGED <<registered, rpcVars, localBuf, localMark, daemonVars, lifeVars, skipped, probed>>

\* ReadScreen returns at once when its context is over.
CheckCtx(g) ==
    /\ Pc(g) = "screen"
    /\ IF CtxDone(g)
       THEN AfterRead(g) /\ careless' = (careless \/ (g \in Call /\ cache # None))
       ELSE Goto(g, "take") /\ UNCHANGED <<done, lock, careless>>
    /\ UNCHANGED <<registered, rpcVars, bufVars, daemonVars, lifeVars, skipped, dropped, probed>>

\* Fault for OutputKept: the cached output is passed over.
TakeCachedNever(g) ==
    /\ Pc(g) = "take"
    /\ gor' = [gor EXCEPT ![g].pc = "call", ![g].method = "read"]
    /\ UNCHANGED <<done, mgrVars, rpcVars, bufVars, daemonVars, lifeVars, histVars>>

\* ReadScreen returns the cached output, if any, and asks the daemon otherwise.
TakeCached(g) ==
    /\ Pc(g) = "take"
    /\ cache' = None
    /\ gor' = IF cache = None
              THEN [gor EXCEPT ![g].pc = "call", ![g].method = "read"]
              ELSE [gor EXCEPT ![g].pc = "feed", ![g].chunk = cache]
    /\ UNCHANGED <<done, mgrVars, rpcVars, localBuf, localMark, daemonVars, lifeVars, histVars>>

\* The output goes into the local buffer after the mutex has been released.
FeedLocalBuf(g) ==
    /\ Pc(g) = "feed"
    /\ localBuf' = localBuf \o gor[g].chunk
    /\ AfterRead(g)
    /\ UNCHANGED <<registered, rpcVars, cache, localMark, daemonVars, lifeVars, histVars>>

-----------------------------------------------------------------------------
(* wait_for and its poller *)

Matches == \E k \in localMark + 1 .. Len(localBuf) : localBuf[k] \in Wanted

\* On a match the mark moves to the end, and a staged secret may be written.
WaitMatched(c, autoSend) ==
    /\ Pc(c) = "waiting" /\ Matches
    /\ localMark' = Len(localBuf)
    /\ IF autoSend
       THEN gor' = [gor EXCEPT ![c].pc = "write", ![c].op = "raw"] /\ UNCHANGED <<done, lock>>
       ELSE EndCall(c)
    /\ UNCHANGED <<registered, rpcVars, cache, localBuf, daemonVars, lifeVars, histVars>>

\* The context is over, or a chunk has arrived and the session is found dead.
WaitOver(c) ==
    /\ Pc(c) = "waiting" /\ (c \in done \/ (~alive /\ Len(localBuf) > localMark))
    /\ EndCall(c)
    /\ UNCHANGED <<registered, rpcVars, bufVars, daemonVars, lifeVars, histVars>>

\* PollRemote returns at once if another poller is at work.
PollStart(p) ==
    /\ Pc(p) = "start"
    /\ IF isPolling THEN Goto(p, "done") ELSE Goto(p, "poll")
    /\ isPolling' = TRUE
    /\ UNCHANGED <<done, mgrVars, rpcVars, bufVars, daemonVars, conn, alive, histVars>>

PollTick(p) ==
    /\ Pc(p) = "poll" /\ alive
    /\ Goto(p, "screen")
    /\ UNCHANGED <<done, mgrVars, rpcVars, bufVars, daemonVars, lifeVars, histVars>>

\* Fault for AllEnd: the poller does not watch its context.
PollEndWhenDead(p) ==
    /\ Pc(p) = "poll" /\ ~alive
    /\ Goto(p, "done") /\ isPolling' = FALSE
    /\ UNCHANGED <<done, mgrVars, rpcVars, bufVars, daemonVars, conn, alive, histVars>>

PollEnd(p) ==
    /\ Pc(p) = "poll" /\ (CtxDone(p) \/ ~alive)
    /\ Goto(p, "done") /\ isPolling' = FALSE
    /\ UNCHANGED <<done, mgrVars, rpcVars, bufVars, daemonVars, conn, alive, histVars>>

\* Closing the transport; a caller blocked in Scan then gets an error.
CloseTransport(g) ==
    /\ Pc(g) = "closers"
    /\ LoseWire
    /\ EndCall(g)
    /\ UNCHANGED <<registered, mu, bufVars, daemonVars, alive, isPolling,
                   skipped, probed, careless>>

-----------------------------------------------------------------------------
Step(g) ==
    \/ SendRequest(g) \/ ReadResponse(g) \/ ScanFails(g)
    \/ CheckCtx(g) \/ TakeCached(g) \/ FeedLocalBuf(g) \/ CloseTransport(g)

Proceed(c) ==
    \/ Step(c) \/ Write(c) \/ StoreCache(c) \/ WaitOver(c)
    \/ \E autoSend \in BOOLEAN : WaitMatched(c, autoSend)

Poll(p) == Step(p) \/ PollStart(p) \/ PollTick(p) \/ PollEnd(p)

RemoteNext ==
    \/ TerminalOutput \/ Attach \/ ConnectionLost \/ DaemonWrite \/ DaemonServe \/ Reap
    \/ \E c \in Call : ContextDone(c) \/ Proceed(c) \/ \E op \in Op : Start(c, op)
    \/ \E p \in Pollers : Poll(p)
    \/ Step(Reaper)

\* Goroutines run, the mutex and select are fair, a wait_for times out, and the
\* daemon answers (without that, a call has no deadline).  One call holds the
\* lock and one poller polls, so fairness of the group is enough.
RemoteFairness ==
    /\ WF_remoteVars(DaemonWrite \/ DaemonServe) /\ SF_remoteVars(Step(Reaper))
    /\ SF_remoteVars(\E c \in Call : Proceed(c))
    /\ WF_remoteVars(\E c \in Call : Pc(c) = "waiting" /\ ContextDone(c))
    /\ WF_remoteVars(\E p \in Pollers : Poll(p))
    /\ SF_remoteVars(\E p \in Pollers : PollEnd(p))

RemoteSpec == RemoteInit /\ [][RemoteNext]_remoteVars /\ RemoteFairness

-----------------------------------------------------------------------------
(* Properties *)

\* Where a byte the daemon has handed out may be.
Places(b) ==
    {<<"local", k>> : k \in {k \in DOMAIN localBuf : localBuf[k] = b}}
      \union {<<"cache", 0>> : x \in {x \in {0} : b \in Cached}}
      \union {<<"wire", 0>> : x \in {x \in {0} : b \in OnWire}}
      \union {<<"skipped", 0>> : x \in {x \in {0} : b \in skipped}}
      \union {<<"dropped", 0>> : x \in {x \in {0} : b \in dropped}}
      \union {<<"hand", g>> : g \in {g \in Goroutine : b \in ToSet(gor[g].chunk)}}

\* Every byte the daemon has handed out is in exactly one place: whatever calls,
\* pollers, cancellations and failures interleave, no output is duplicated, and
\* none is lost on any path but the ones that set `dropped`.
EveryByteOnce == \A b \in 1 .. rmark : Cardinality(Places(b)) = 1

\* While the transport is up, output is dropped only after the probe of Attach
\* or behind a call that wrote and did not read (a secret, a wait_for, a
\* cancelled call): send_input and read_output alone lose nothing.
DropsExcused == conn = "up" /\ ~careless => dropped = probed

\* "protects request/response pairing": the line a caller scans answers its own
\* request.
Paired ==
    \A g \in Goroutine : Pc(g) = "await" /\ replies # <<>> => Head(replies).to = g

\* "only one goroutine will poll at a time".
OnePoller ==
    Cardinality({p \in Pollers : Pc(p) \in {"poll", "screen", "take", "call", "await", "feed"}}) <= 1

\* As long as the daemon answers, every call ends and no poller outlives its
\* call for ever; close, which needs the RPC mutex, is never shut out.
AllEnd == <>[](\A g \in Goroutine : Pc(g) \in {"new", "done"})

\* wait_for "blocks until a regex pattern appears in output": while a call waits,
\* some poller that is not about to stop fetches the output.
WaitIsPolled ==
    \A c \in Call : Pc(c) = "waiting" /\ c \notin done /\ alive =>
        \E p \in Pollers : Pc(p) \notin {"new", "done"} /\ ~CtxDone(p)

\* The goroutines that share the connection keep out of each other's way: every
\* answer reaches its own request, and there is at most one poller.
ConnectionShared == RemoteTypeOK /\ Paired /\ OnePoller

\* No output is duplicated, and none is lost where the code promises to keep it.
OutputKept == EveryByteOnce /\ DropsExcused
=============================================================================
