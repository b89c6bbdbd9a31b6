----------------------------- MODULE Dispatcher -----------------------------
(***************************************************************************)
(* Serve of internal/mcp/server.go: the stdio JSON-RPC loop, the registry  *)
(* of in-flight requests, cancellation notifications, the semaphore that   *)
(* bounds tool calls, the response writer, and shutdown.                   *)
(*                                                                         *)
(* The reading loop is the main goroutine; every request runs on its own;  *)
(* a writer goroutine empties respCh.  Requests with equal KeyOf are a     *)
(* client reusing an id before the earlier request with it has finished.   *)
(* What a handler does is the subject of SessionManager; here it returns   *)
(* some time, or, if it is in Stalling, perhaps never (a remote read).     *)
(***************************************************************************)
EXTENDS Integers, Sequences, FiniteSets, SequencesExt

CONSTANTS
    Request,        \* the requests and notifications the client sends
    Notification,   \* those without an id
    KeyOf,          \* per request: the raw JSON id, the registry's key
    Stalling,       \* those whose handler may never return
    MaxConcurrent,  \* maxConcurrentToolCalls
    RespCap,        \* capacity of respCh
    None            \* no response

ASSUME DispatcherAssumption ==
    /\ Notification \subseteq Request /\ Stalling \subseteq Request
    /\ DOMAIN KeyOf = Request
    /\ MaxConcurrent \in Nat \ {0} /\ RespCap \in Nat \ {0}
    /\ None \notin Request

VARIABLES
    main,           \* the main goroutine: reading, shutting down, gone
    pc,             \* per request: where its goroutine is
    inflight,       \* the requests that have an entry in the registry
    cancelled,      \* entry.cancelled; equally, its context is done
    slots,          \* the requests holding a slot of sem
    respCh,         \* the buffered channel of responses
    closed,         \* respCh is closed
    encoding,       \* the response the writer has taken from respCh
    out,            \* the responses on stdout
    unsent          \* those the encoder returned an error for

vars == <<main, pc, inflight, cancelled, slots, respCh, closed, encoding, out,
          unsent>>

Running == main \in {"serve", "drain", "flush"}

\* Types; notifications are never registered, respCh never exceeds its buffer.
TypeOK ==
    /\ main \in {"serve", "drain", "flush", "clean", "abandoned"}
    /\ pc \in [Request -> {"new", "start", "select", "handle", "finish", "send",
                           "release", "done"}]
    /\ inflight \subseteq Request \ Notification /\ slots \subseteq Request
    /\ cancelled \in [Request -> BOOLEAN]
    /\ respCh \in Seq(Request) /\ Len(respCh) <= RespCap
    /\ closed \in BOOLEAN
    /\ encoding \in Request \union {None}
    /\ out \in Seq(Request) /\ unsent \subseteq Request

Init ==
    /\ main = "serve"
    /\ pc = [r \in Request |-> "new"]
    /\ inflight = {} /\ slots = {}
    /\ cancelled = [r \in Request |-> FALSE]
    /\ respCh = <<>> /\ closed = FALSE
    /\ encoding = None /\ out = <<>> /\ unsent = {}

Goto(r, label) == pc' = [pc EXCEPT ![r] = label]

-----------------------------------------------------------------------------
(* The reading loop *)

\* A request is registered before its goroutine starts, so that a later
\* cancellation notification finds it.
Receive(r) ==
    /\ main = "serve" /\ pc[r] = "new"
    /\ inflight' = inflight \union ({r} \ Notification)
    /\ Goto(r, "start")
    /\ UNCHANGED <<main, cancelled, slots, respCh, closed, encoding, out, unsent>>

\* inflightRegistry.cancel: all entries of the key, or none.
HandleCancellation(key) ==
    /\ main = "serve"
    /\ cancelled' = [r \in Request |->
                        cancelled[r] \/ (r \in inflight /\ KeyOf[r] = key)]
    /\ UNCHANGED <<main, pc, inflight, slots, respCh, closed, encoding, out, unsent>>

Eof ==
    /\ main = "serve" /\ main' = "drain"
    /\ UNCHANGED <<pc, inflight, cancelled, slots, respCh, closed, encoding, out, unsent>>

-----------------------------------------------------------------------------
(* The goroutine of a request *)

\* Fault for NothingLeaks: a request that is given up leaves its entry.
AbandonUnfinished(r) ==
    /\ Goto(r, "done")
    /\ UNCHANGED <<main, inflight, cancelled, slots, respCh, closed, encoding, out, unsent>>

\* Ends without a slot, without running the handler and without a response.
Abandon(r) ==
    /\ inflight' = inflight \ {r}
    /\ Goto(r, "done")
    /\ UNCHANGED <<main, cancelled, slots, respCh, closed, encoding, out, unsent>>

CheckCtx(r) ==
    /\ Running /\ pc[r] = "start"
    /\ IF cancelled[r]
       THEN Abandon(r)
       ELSE /\ Goto(r, "select")
            /\ UNCHANGED <<main, inflight, cancelled, slots, respCh, closed,
                           encoding, out, unsent>>

\* The select: a free slot or the end of the context, either if both.
AcquireSlot(r) ==
    /\ Running /\ pc[r] = "select"
    /\ Cardinality(slots) < MaxConcurrent
    /\ slots' = slots \union {r}
    /\ Goto(r, "handle")
    /\ UNCHANGED <<main, inflight, cancelled, respCh, closed, encoding, out, unsent>>

\* Fault for RequestsProgress: a queued request waits for its slot.
CancelledInSelectWaits(r) ==
    /\ Running /\ pc[r] = "select" /\ cancelled[r]
    /\ Cardinality(slots) < MaxConcurrent
    /\ Abandon(r)

CancelledInSelect(r) ==
    /\ Running /\ pc[r] = "select" /\ cancelled[r]
    /\ Abandon(r)

HandlerReturns(r) ==
    /\ Running /\ pc[r] = "handle"
    /\ Goto(r, IF r \in Notification THEN "release" ELSE "finish")
    /\ UNCHANGED <<main, inflight, cancelled, slots, respCh, closed, encoding, out, unsent>>

\* Fault for OneOutcome: a cancelled request is answered.
FinishUnchecked(r) ==
    /\ Running /\ pc[r] = "finish"
    /\ inflight' = inflight \ {r}
    /\ Goto(r, "send")
    /\ UNCHANGED <<main, cancelled, slots, respCh, closed, encoding, out, unsent>>

\* inflightRegistry.finish decides, under the registry's mutex, between the
\* response and a cancellation.
Finish(r) ==
    /\ Running /\ pc[r] = "finish"
    /\ inflight' = inflight \ {r}
    /\ Goto(r, IF cancelled[r] THEN "release" ELSE "send")
    /\ UNCHANGED <<main, cancelled, slots, respCh, closed, encoding, out, unsent>>

\* Blocks, still holding its slot, while respCh is full.
SendResponse(r) ==
    /\ Running /\ pc[r] = "send"
    /\ Len(respCh) < RespCap
    /\ respCh' = Append(respCh, r)
    /\ Goto(r, "release")
    /\ UNCHANGED <<main, inflight, cancelled, slots, closed, encoding, out, unsent>>

\* The deferred calls: <-sem, cancel, wg.Done.
ReleaseSlot(r) ==
    /\ Running /\ pc[r] = "release"
    /\ slots' = slots \ {r}
    /\ Goto(r, "done")
    /\ UNCHANGED <<main, inflight, cancelled, respCh, closed, encoding, out, unsent>>

-----------------------------------------------------------------------------
(* The writer *)

TakeResponse ==
    /\ Running /\ encoding = None /\ respCh # <<>>
    /\ encoding' = Head(respCh)
    /\ respCh' = Tail(respCh)
    /\ UNCHANGED <<main, pc, inflight, cancelled, slots, closed, out, unsent>>

Encode ==
    /\ Running /\ encoding # None
    /\ out' = Append(out, encoding)
    /\ encoding' = None
    /\ UNCHANGED <<main, pc, inflight, cancelled, slots, respCh, closed, unsent>>

\* The error is logged; the client does not get this answer.
EncodeFails ==
    /\ Running /\ encoding # None
    /\ unsent' = unsent \union {encoding}
    /\ encoding' = None
    /\ UNCHANGED <<main, pc, inflight, cancelled, slots, respCh, closed, out>>

-----------------------------------------------------------------------------
(* Shutdown *)

\* Fault for CleanShutdown: the channel is closed once no handler runs.
CloseRespChEarly ==
    /\ main = "drain"
    /\ \A r \in Request : pc[r] \notin {"start", "select", "handle", "finish"}
    /\ closed' = TRUE
    /\ main' = "flush"
    /\ UNCHANGED <<pc, inflight, cancelled, slots, respCh, encoding, out, unsent>>

\* The WaitGroup's count is the number of goroutines started and not done.
CloseRespCh ==
    /\ main = "drain"
    /\ \A r \in Request : pc[r] \in {"new", "done"}
    /\ closed' = TRUE
    /\ main' = "flush"
    /\ UNCHANGED <<pc, inflight, cancelled, slots, respCh, encoding, out, unsent>>

\* The writer leaves its loop when the channel is closed and empty.
WriterDone ==
    /\ main = "flush" /\ respCh = <<>> /\ encoding = None
    /\ main' = "clean"
    /\ UNCHANGED <<pc, inflight, cancelled, slots, respCh, closed, encoding, out, unsent>>

\* Fault for ShutdownEnds: the grace period starts over while a handler runs.
GraceOverWhenIdle ==
    /\ main = "drain" /\ \A r \in Request : pc[r] # "handle"
    /\ main' = "abandoned"
    /\ UNCHANGED <<pc, inflight, cancelled, slots, respCh, closed, encoding, out, unsent>>

\* shutdownGracePeriod is over: the process exits with goroutines running.
GraceOver ==
    /\ main = "drain" /\ main' = "abandoned"
    /\ UNCHANGED <<pc, inflight, cancelled, slots, respCh, closed, encoding, out, unsent>>

-----------------------------------------------------------------------------
Serve(r) ==
    \/ CheckCtx(r) \/ AcquireSlot(r) \/ CancelledInSelect(r)
    \/ Finish(r) \/ SendResponse(r) \/ ReleaseSlot(r)

Write == TakeResponse \/ Encode \/ EncodeFails

Shutdown == CloseRespCh \/ WriterDone \/ GraceOver

Next ==
    \/ \E r \in Request : Receive(r) \/ Serve(r) \/ HandlerReturns(r)
    \/ \E key \in {KeyOf[r] : r \in Request} : HandleCancellation(key)
    \/ Eof
    \/ Write
    \/ Shutdown

\* Goroutines run, the client reads stdout, the grace timer fires, and the
\* handlers outside Stalling return.  The client need not send anything.
Fairness ==
    /\ \A r \in Request : WF_vars(Serve(r))
    /\ \A r \in Request \ Stalling : WF_vars(HandlerReturns(r))
    /\ WF_vars(Write) /\ WF_vars(Shutdown)

Spec == Init /\ [][Next]_vars /\ Fairness

-----------------------------------------------------------------------------
(* Properties *)

\* Every response that left a goroutine and was not lost, in order of sending.
Answers == out \o (IF encoding = None THEN <<>> ELSE <<encoding>>) \o respCh

\* A request is answered at most once, and only after its handler returned; an
\* answer the encoder failed on is not tried again; a notification is never
\* answered.
AnsweredOnce ==
    /\ IsInjective(Answers)
    /\ \A k \in DOMAIN Answers : Answers[k] \notin unsent
    /\ \A k \in DOMAIN Answers :
          Answers[k] \notin Notification /\ pc[Answers[k]] \in {"release", "done"}

\* "mark cancelled" and "decide whether to send a response" linearize: a
\* cancellation that was accepted silences the request for good, also when
\* it races the end of the handler or when ids are reused.
CancelSilences ==
    \A r \in Request : cancelled[r] =>
        pc[r] # "send" /\ \A k \in DOMAIN Answers : Answers[k] # r

\* The registry holds exactly the requests that can still be cancelled: no
\* path leaves an entry behind, and finish removes its own entry although
\* another request may have the same key.
RegistryExact ==
    inflight = {r \in Request \ Notification :
                    pc[r] \in {"start", "select", "handle", "finish"}}

\* At most maxConcurrentToolCalls handlers run, and no slot is lost.
SlotsExact ==
    /\ Cardinality(slots) <= MaxConcurrent
    /\ slots = {r \in Request : pc[r] \in {"handle", "finish", "send", "release"}}

\* "a goroutine that eventually does finish must not send on a closed channel".
NoSendOnClosed == closed => \A r \in Request : pc[r] # "send"

\* When Serve returns without a timeout, every request it read that was not
\* cancelled has its answer on stdout, unless the encoder failed on it.
CleanExitAnswers ==
    main = "clean" =>
        \A r \in Request \ Notification : pc[r] # "new" /\ ~cancelled[r] =>
            r \in unsent \/ \E k \in DOMAIN out : out[k] = r

\* Every slot is held by a handler that may never return.
AllStalled == Cardinality(slots) = MaxConcurrent /\ slots \subseteq Stalling

\* Every request is answered, unless it is cancelled, its own handler may stall,
\* the encoder fails or the process ends: a stalled handler does not take the
\* others with it as long as stalled handlers do not hold every slot.
EveryRequestAnswered ==
    \A r \in Request \ (Notification \union Stalling) :
        (pc[r] # "new" /\ []~AllStalled) ~>
            ((\E k \in DOMAIN out : out[k] = r) \/ r \in unsent \/ cancelled[r] \/ ~Running)

\* A cancelled request leaves the queue for a slot although every slot may be
\* held by a handler that never returns.
CancelledLeavesQueue ==
    \A r \in Request : cancelled[r] ~> pc[r] \notin {"start", "select"} \/ ~Running

\* Shutdown is never wedged by a handler that does not return.
ShutdownEnds == main = "drain" ~> ~Running

\* Registry and semaphore hold exactly what is in flight, on every path.
NothingLeaks == TypeOK /\ RegistryExact /\ SlotsExact

\* Every request has one outcome: an answer, or silence after a cancellation.
OneOutcome == AnsweredOnce /\ CancelSilences

\* Shutdown neither sends on a closed channel nor loses an answer it had time for
\* and the encoder took.
CleanShutdown == NoSendOnClosed /\ CleanExitAnswers

\* Requests make progress although handlers may stall.
RequestsProgress == EveryRequestAnswered /\ CancelledLeavesQueue
=============================================================================
