---------------------------- MODULE AuditClient ----------------------------
(***************************************************************************)
(* The audit client of internal/audit/client.go and the collector of       *)
(* server.go as the client meets it: entries are posted by their sender    *)
(* (a command in strict mode) or put into a bounded queue that one worker  *)
(* empties; a post is tried again unless it is refused; a request that     *)
(* timed out may still be stored later.                                    *)
(*                                                                         *)
(* An entry is an opaque value.  A retry may store an entry again; the     *)
(* trail is the set of the entries in the file.                            *)
(***************************************************************************)
EXTENDS Integers, Sequences, FiniteSets, SequencesExt

CONSTANTS
    Entry,          \* the entries that may be sent
    QueueCap,       \* capacity of c.queue
    MaxAttempts,    \* len(retryDelays)
    None,
    Stopped         \* the worker has returned

ASSUME AuditAssumption ==
    /\ None \notin Entry /\ Stopped \notin Entry
    /\ QueueCap \in Nat \ {0} /\ MaxAttempts \in Nat \ {0}

VARIABLES
    mode,           \* "strict", "best-effort", or "off" without a client
    snd,            \* per entry: its sender, SenderState
    queue,          \* c.queue
    worker,         \* the entry the worker posts, None, or Stopped
    tries,          \* failed attempts of the worker on it
    closed,         \* c.done is closed
    trail,          \* the entries in the collector's file
    inflight,       \* timed out at the client, the collector may yet store it
    evicted,        \* dropped to make room, and counted by c.dropped
    lost,           \* history: passed over by the last select of enqueue
    refused,        \* history: given up by postWithRetry
    unwritten,      \* history: answered 200 although file.Write failed
    contended       \* history: two goroutines have been in enqueue at once

collectorVars == <<trail, inflight, unwritten>>
auditVars == <<mode, snd, queue, worker, tries, closed, collectorVars, evicted, lost,
               refused, contended>>

SenderState ==
    [pc    : {"idle", "try", "evict", "again", "post", "sent", "failed"},
     tries : 0 .. MaxAttempts]

AuditTypeOK ==
    /\ mode \in {"strict", "best-effort", "off"}
    /\ snd \in [Entry -> SenderState]
    /\ queue \in Seq(Entry) /\ Len(queue) <= QueueCap
    /\ worker \in Entry \union {None, Stopped} /\ tries \in 0 .. MaxAttempts - 1
    /\ {closed, contended} \subseteq BOOLEAN
    /\ trail \union inflight \union evicted \union lost \union refused \union unwritten \subseteq Entry

AuditInit ==
    /\ mode \in {"strict", "best-effort", "off"}
    /\ snd = [e \in Entry |-> [pc |-> "idle", tries |-> 0]]
    /\ queue = <<>> /\ worker = None /\ tries = 0 /\ closed = FALSE
    /\ trail = {} /\ inflight = {} /\ unwritten = {}
    /\ evicted = {} /\ lost = {} /\ refused = {} /\ contended = FALSE

-----------------------------------------------------------------------------
(* post and the collector *)

Outcome == {"stored", "unwritten", "refused", "timeout"}

\* The collector stores the body and ignores a failing write; it refuses what
\* has the wrong token, is too long or is no JSON.  A request that fails on the
\* way, or is not answered in five seconds, may be stored later or never.
Post(e, out) ==
    /\ trail' = IF out = "stored" THEN trail \union {e} ELSE trail
    /\ unwritten' = IF out = "unwritten" THEN unwritten \union {e} ELSE unwritten
    /\ inflight' = CASE out = "timeout" -> inflight \union {e}
                     [] out = "stored"  -> inflight \ {e}
                     [] OTHER           -> inflight

LateStore(e) ==
    /\ e \in inflight
    /\ inflight' = inflight \ {e}
    /\ trail' = trail \union {e}
    /\ UNCHANGED <<mode, snd, queue, worker, tries, closed, unwritten, evicted, lost, refused,
                   contended>>

\* postWithRetry: whether the outcome of attempt n + 1 is final, and a success.
Accepted(out) == out \in {"stored", "unwritten"}

Final(out, n) == Accepted(out) \/ out = "refused" \/ n + 1 = MaxAttempts

-----------------------------------------------------------------------------
(* Senders *)

\* enqueue, by a new goroutine.
StartEnqueue(e) == snd' = IF mode = "off" THEN snd ELSE [snd EXCEPT ![e].pc = "try"]

InEnqueue == {e \in Entry : snd[e].pc \in {"try", "evict", "again"}}

Goes(e, label) == snd' = [snd EXCEPT ![e].pc = label]

FirstSelect(e) ==
    /\ snd[e].pc = "try"
    /\ IF Len(queue) < QueueCap
       THEN queue' = Append(queue, e) /\ Goes(e, "sent")
       ELSE Goes(e, "evict") /\ UNCHANGED queue
    /\ contended' = (contended \/ Cardinality(InEnqueue) > 1)
    /\ UNCHANGED <<mode, worker, tries, closed, collectorVars, evicted, lost, refused>>

\* Fault for TrailAccounted: the dropped entry is not counted.
EvictUncounted(e) ==
    /\ snd[e].pc = "evict"
    /\ queue' = IF queue = <<>> THEN queue ELSE Tail(queue)
    /\ Goes(e, "again")
    /\ contended' = (contended \/ Cardinality(InEnqueue) > 1)
    /\ UNCHANGED <<mode, worker, tries, closed, collectorVars, evicted, lost, refused>>

\* The oldest entry makes room; the worker may have been faster.
Evict(e) ==
    /\ snd[e].pc = "evict"
    /\ IF queue = <<>>
       THEN UNCHANGED <<queue, evicted>>
       ELSE queue' = Tail(queue) /\ evicted' = evicted \union {Head(queue)}
    /\ Goes(e, "again")
    /\ contended' = (contended \/ Cardinality(InEnqueue) > 1)
    /\ UNCHANGED <<mode, worker, tries, closed, collectorVars, lost, refused>>

LastSelect(e) ==
    /\ snd[e].pc = "again"
    /\ IF Len(queue) < QueueCap
       THEN queue' = Append(queue, e) /\ UNCHANGED lost
       ELSE lost' = lost \union {e} /\ UNCHANGED queue
    /\ Goes(e, "sent")
    /\ contended' = (contended \/ Cardinality(InEnqueue) > 1)
    /\ UNCHANGED <<mode, worker, tries, closed, collectorVars, evicted, refused>>

\* SendCmd in strict mode: the caller posts and waits.
StrictPost(e, out) ==
    /\ snd[e].pc = "post"
    /\ Post(e, out)
    /\ snd' = [snd EXCEPT ![e] =
           IF Final(out, @.tries)
           THEN [pc |-> IF Accepted(out) THEN "sent" ELSE "failed", tries |-> 0]
           ELSE [pc |-> "post", tries |-> @.tries + 1]]
    /\ refused' = IF Final(out, snd[e].tries) /\ ~Accepted(out) THEN refused \union {e} ELSE refused
    /\ UNCHANGED <<mode, queue, worker, tries, closed, evicted, lost, contended>>

-----------------------------------------------------------------------------
(* The worker *)

WorkerTake ==
    /\ worker = None /\ queue # <<>>
    /\ worker' = Head(queue) /\ queue' = Tail(queue)
    /\ UNCHANGED <<mode, snd, tries, closed, collectorVars, evicted, lost, refused, contended>>

\* Fault for Settled: the worker ends when a post fails.
WorkerPostOrDie(out) ==
    /\ worker \in Entry
    /\ Post(worker, out)
    /\ worker' = IF Accepted(out) THEN None ELSE Stopped
    /\ refused' = IF Accepted(out) THEN refused ELSE refused \union {worker}
    /\ UNCHANGED <<mode, snd, queue, tries, closed, evicted, lost, contended>>

WorkerPost(out) ==
    /\ worker \in Entry
    /\ Post(worker, out)
    /\ IF Final(out, tries)
       THEN /\ worker' = None /\ tries' = 0
            /\ refused' = IF Accepted(out) THEN refused ELSE refused \union {worker}
       ELSE tries' = tries + 1 /\ UNCHANGED <<worker, refused>>
    /\ UNCHANGED <<mode, snd, queue, closed, evicted, lost, contended>>

\* With the queue not empty, select may still choose the queue.
WorkerStop ==
    /\ worker = None /\ closed
    /\ worker' = Stopped
    /\ UNCHANGED <<mode, snd, queue, tries, closed, collectorVars, evicted, lost, refused, contended>>

Close ==
    /\ ~closed /\ closed' = TRUE
    /\ UNCHANGED <<mode, snd, queue, worker, tries, collectorVars, evicted, lost, refused, contended>>

\* What does not wait for anybody: senders and the worker.
StepAudit ==
    \/ \E e \in Entry : FirstSelect(e) \/ Evict(e) \/ LastSelect(e)
    \/ \E e \in Entry : \E out \in Outcome : StrictPost(e, out)
    \/ WorkerTake \/ WorkerStop \/ \E out \in Outcome : WorkerPost(out)

NextAudit == StepAudit \/ \E e \in Entry : LateStore(e)

-----------------------------------------------------------------------------
(* Properties *)

\* However senders, worker, retries and Close interleave, an entry whose sender
\* is done is queued, posted, stored, counted as dropped, given up or lost in
\* enqueue: it never vanishes elsewhere.
Accounted ==
    \A e \in Entry : snd[e].pc \in {"sent", "failed"} =>
        e \in ToSet(queue) \union trail \union {worker} \union evicted \union lost
                \union refused \union unwritten

\* "drop oldest to make room for newest": a new entry is passed over only when
\* another goroutine was in enqueue at the same time.
LostOnlyContended == lost # {} => contended
=============================================================================
