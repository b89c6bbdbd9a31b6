--------------------------- MODULE HttpTransport ---------------------------
(***************************************************************************)
(* httpTransport of internal/mcp/http.go: the Streamable HTTP endpoint,    *)
(* its session table, and the dispatch of the messages of a POST through   *)
(* the registry and the semaphore it has in common with the stdio loop.    *)
(*                                                                         *)
(* Every POST runs on its own goroutine and dispatches its messages one    *)
(* after the other, so a POST has at most one message in flight and stands *)
(* for the registry entry of that message.  net/http ends the context of a *)
(* POST when its client disconnects.  Time enters only as the moment when  *)
(* a session becomes older than httpSessionTTL.                            *)
(***************************************************************************)
EXTENDS Integers, Sequences, FiniteSets, SequencesExt

CONSTANTS
    Post,           \* the POST requests
    Client,         \* per POST: who sends it
    Body,           \* per POST: its messages, records [kind, id]
    Stalling,       \* those whose handlers may never return
    Leaving,        \* those whose client may disconnect
    Sid,            \* the session ids that rand.Read yields
    MaxConcurrent,  \* maxConcurrentToolCalls
    NoSid           \* no Mcp-Session-Id header: stateless mode

Kind == {"request", "initialize", "notification", "cancel", "bad"}

ASSUME HttpAssumption ==
    /\ DOMAIN Client = Post /\ Stalling \subseteq Post /\ Leaving \subseteq Post
    /\ Body \in [Post -> Seq([kind : Kind, id : Nat])]
    /\ NoSid \notin Sid /\ MaxConcurrent \in Nat \ {0}

VARIABLES
    post,           \* per POST: its goroutine and its request context
    inflight,       \* the POSTs whose current message is registered
    slots,          \* the POSTs holding a slot of sem
    table,          \* the keys of t.sessions
    aged,           \* the sessions older than the TTL
    owner,          \* per session id handed out: the client that got it
    ended,          \* history: ids answered "no content" or "unknown session"
    silenced        \* history: <<POST, message, client>> of accepted cancellations

sessVars == <<table, aged, owner, ended>>
vars == <<post, inflight, slots, sessVars, silenced>>

Clients == {Client[p] : p \in Post}

PostState ==
    [pc        : {"new", "next", "select", "handle", "finish", "release", "done", "refused"},
     at        : Nat,                   \* index of the current message
     scope     : Sid \union {NoSid},    \* the session id it carries
     gone      : BOOLEAN,               \* the client has disconnected
     cancelled : BOOLEAN,               \* entry.cancelled of the current message
     resp      : Seq(Nat)]              \* the messages answered, in order

\* Types; the table holds ids that were handed out.
TypeOK ==
    /\ post \in [Post -> PostState]
    /\ inflight \subseteq Post /\ slots \subseteq Post
    /\ DOMAIN owner \subseteq Sid /\ \A s \in DOMAIN owner : owner[s] \in Clients
    /\ table \subseteq DOMAIN owner /\ aged \subseteq DOMAIN owner
    /\ ended \subseteq DOMAIN owner
    /\ silenced \subseteq Post \X Nat \X Clients

Init ==
    /\ post = [p \in Post |-> [pc |-> "new", at |-> 1, scope |-> NoSid, gone |-> FALSE,
                               cancelled |-> FALSE, resp |-> <<>>]]
    /\ inflight = {} /\ slots = {}
    /\ table = {} /\ aged = {} /\ owner = <<>> /\ ended = {}
    /\ silenced = {}

Pc(p) == post[p].pc
Goto(p, label) == post' = [post EXCEPT ![p].pc = label]
Msg(p) == Body[p][post[p].at]
IsNotification(p) == Msg(p).kind = "notification"
Key(p) == <<post[p].scope, Msg(p).id>>
CtxDone(p) == post[p].cancelled \/ post[p].gone

-----------------------------------------------------------------------------
(* The session table *)

\* sessionValid also drops the expired session it was asked about.
SessionValid(s) == s \in table \ aged

\* No token, another method, a body that is too long, empty or not JSON.
Refuse(p) ==
    /\ Pc(p) = "new"
    /\ Goto(p, "refused")
    /\ UNCHANGED <<inflight, slots, sessVars, silenced>>

\* A POST that carries an unknown session id is refused before any of its
\* messages runs; without an id it is served (stateless mode).
Arrive(p, sid) ==
    /\ Pc(p) = "new"
    /\ IF sid # NoSid /\ ~SessionValid(sid)
       THEN /\ Goto(p, "refused")
            /\ table' = table \ {sid} /\ ended' = ended \union {sid}
       ELSE /\ post' = [post EXCEPT ![p].pc = "next", ![p].scope = sid]
            /\ UNCHANGED <<table, ended>>
    /\ UNCHANGED <<inflight, slots, aged, owner, silenced>>

\* handleDelete: requests in flight under the session go on.
HandleDelete(sid) ==
    /\ sid \in DOMAIN owner
    /\ table' = table \ {sid} /\ ended' = ended \union {sid}
    /\ UNCHANGED <<post, inflight, slots, aged, owner, silenced>>

\* The TTL counts from newSession; no request extends it.
Age(sid) ==
    /\ sid \in table \ aged
    /\ aged' = aged \union {sid}
    /\ UNCHANGED <<post, inflight, slots, table, owner, ended, silenced>>

Disconnect(p) ==
    /\ p \in Leaving /\ Pc(p) \notin {"new", "done", "refused"} /\ ~post[p].gone
    /\ post' = [post EXCEPT ![p].gone = TRUE]
    /\ UNCHANGED <<inflight, slots, sessVars, silenced>>

-----------------------------------------------------------------------------
(* handlePost's loop over the messages, and dispatch *)

\* The message is over; `answers` is <<>> or the index of the message.
Advance(p, answers) ==
    post' = [post EXCEPT ![p].pc = "next", ![p].at = @ + 1, ![p].cancelled = FALSE,
                         ![p].resp = @ \o answers]

ParseError(p) ==
    /\ Pc(p) = "next" /\ post[p].at <= Len(Body[p]) /\ Msg(p).kind = "bad"
    /\ Advance(p, <<post[p].at>>)
    /\ UNCHANGED <<inflight, slots, sessVars, silenced>>

\* Fault for CancelledByOwner: the registry's key is the bare id.
CancelUnscoped(p) ==
    LET hit == {q \in inflight : Msg(q).id = Msg(p).id}
    IN  /\ Pc(p) = "next" /\ post[p].at <= Len(Body[p]) /\ Msg(p).kind = "cancel"
        /\ post' = [q \in Post |->
                       IF q = p THEN [post[p] EXCEPT !.at = @ + 1]
                       ELSE [post[q] EXCEPT !.cancelled = @ \/ q \in hit]]
        /\ silenced' = silenced \union {<<q, post[q].at, Client[p]>> : q \in hit}
        /\ UNCHANGED <<inflight, slots, sessVars>>

\* cancelScoped reaches the entries of its own scope; a cancellation is never
\* answered.
CancelScoped(p) ==
    LET hit == {q \in inflight : Key(q) = Key(p)}
    IN  /\ Pc(p) = "next" /\ post[p].at <= Len(Body[p]) /\ Msg(p).kind = "cancel"
        /\ post' = [q \in Post |->
                       IF q = p THEN [post[p] EXCEPT !.at = @ + 1]
                       ELSE [post[q] EXCEPT !.cancelled = @ \/ q \in hit]]
        /\ silenced' = silenced \union {<<q, post[q].at, Client[p]>> : q \in hit}
        /\ UNCHANGED <<inflight, slots, sessVars>>

\* Registered before the select, so that a cancellation finds it.
Register(p) ==
    /\ Pc(p) = "next" /\ post[p].at <= Len(Body[p])
    /\ Msg(p).kind \notin {"cancel", "bad"}
    /\ inflight' = IF IsNotification(p) THEN inflight ELSE inflight \union {p}
    /\ Goto(p, "select")
    /\ UNCHANGED <<slots, sessVars, silenced>>

\* The select takes a free slot or the end of the context, either if both: a
\* message whose context is done may still run.
AcquireSlot(p) ==
    /\ Pc(p) = "select" /\ Cardinality(slots) < MaxConcurrent
    /\ slots' = slots \union {p}
    /\ Goto(p, "handle")
    /\ UNCHANGED <<inflight, sessVars, silenced>>

\* Fault for NothingLeaks: the abandoned message stays registered.
AbandonUnfinished(p) ==
    /\ Pc(p) = "select" /\ CtxDone(p)
    /\ Advance(p, <<>>)
    /\ UNCHANGED <<inflight, slots, sessVars, silenced>>

\* Fault for PostsProgress: the end of the context is seen with a free slot only.
AbandonWithSlot(p) ==
    /\ Pc(p) = "select" /\ CtxDone(p) /\ Cardinality(slots) < MaxConcurrent
    /\ inflight' = inflight \ {p}
    /\ Advance(p, <<>>)
    /\ UNCHANGED <<slots, sessVars, silenced>>

Abandon(p) ==
    /\ Pc(p) = "select" /\ CtxDone(p)
    /\ inflight' = inflight \ {p}
    /\ Advance(p, <<>>)
    /\ UNCHANGED <<slots, sessVars, silenced>>

HandlerReturns(p) ==
    /\ Pc(p) = "handle"
    /\ IF IsNotification(p) THEN Goto(p, "release") ELSE Goto(p, "finish")
    /\ UNCHANGED <<inflight, slots, sessVars, silenced>>

\* Fault for BatchAnswered: a cancelled request is answered.
FinishUnchecked(p) ==
    /\ Pc(p) = "finish"
    /\ inflight' = inflight \ {p}
    /\ post' = [post EXCEPT ![p].pc = "release", ![p].resp = Append(@, post[p].at)]
    /\ UNCHANGED <<slots, sessVars, silenced>>

\* inflightRegistry.finish decides between the response and a cancellation;
\* the end of the parent context alone does not silence the message.
Finish(p) ==
    /\ Pc(p) = "finish"
    /\ inflight' = inflight \ {p}
    /\ post' = [post EXCEPT ![p].pc = "release",
                            ![p].resp = IF post[p].cancelled THEN @
                                        ELSE Append(@, post[p].at)]
    /\ UNCHANGED <<slots, sessVars, silenced>>

\* The deferred calls of dispatch.
ReleaseSlot(p) ==
    /\ Pc(p) = "release"
    /\ slots' = slots \ {p}
    /\ Advance(p, <<>>)
    /\ UNCHANGED <<inflight, sessVars, silenced>>

\* After the last message: a stateless POST that contained an initialize,
\* whatever became of it, gets a new session, under an id never used before;
\* newSession evicts expired ones.  Sid bounds the sessions of a behaviour.
EndPost(p) ==
    /\ Pc(p) = "next" /\ post[p].at > Len(Body[p])
    /\ IF post[p].scope = NoSid /\ \E k \in DOMAIN Body[p] : Body[p][k].kind = "initialize"
       THEN LET s == CHOOSE s \in Sid : s \notin DOMAIN owner
            IN  /\ \E fresh \in Sid : fresh \notin DOMAIN owner
                /\ table' = (table \ aged) \union {s}
                /\ owner' = [x \in DOMAIN owner \union {s} |->
                                IF x = s THEN Client[p] ELSE owner[x]]
       ELSE UNCHANGED <<table, owner>>
    /\ Goto(p, "done")
    /\ UNCHANGED <<inflight, slots, aged, ended, silenced>>

-----------------------------------------------------------------------------
\* The ids a client can name: the ones it was given.
Headers(p) == {NoSid} \union {s \in DOMAIN owner : owner[s] = Client[p]}

Serve(p) ==
    \/ ParseError(p) \/ CancelScoped(p) \/ Register(p) \/ AcquireSlot(p)
    \/ Abandon(p) \/ Finish(p) \/ ReleaseSlot(p) \/ EndPost(p)

Next ==
    \/ \E p \in Post : Serve(p) \/ HandlerReturns(p) \/ Disconnect(p)
    \/ \E p \in Post : Refuse(p) \/ \E sid \in Headers(p) : Arrive(p, sid)
    \/ \E sid \in Sid : HandleDelete(sid) \/ Age(sid)

\* Goroutines run; handlers of POSTs outside Stalling return.
Fairness ==
    /\ \A p \in Post : WF_vars(Serve(p))
    /\ \A p \in Post \ Stalling : WF_vars(HandlerReturns(p))

Spec == Init /\ [][Next]_vars /\ Fairness

-----------------------------------------------------------------------------
(* Properties *)

\* What a POST is answered: its parse errors and its requests, except the ones
\* somebody cancelled in time.
Owed(p) ==
    {k \in DOMAIN Body[p] :
        \/ Body[p][k].kind = "bad"
        \/ /\ Body[p][k].kind \in {"request", "initialize"}
           /\ ~\E c \in Clients : <<p, k, c>> \in silenced}

\* A POST whose client waits for it is answered exactly what it is owed, in the
\* order of the batch: no message is dropped or answered twice, and a
\* cancellation that was accepted silences its request for good, also when it
\* races the end of the handler or the request had not yet got a slot.
BatchAnswered ==
    \A p \in Post :
        /\ \A i, j \in DOMAIN post[p].resp : i < j => post[p].resp[i] < post[p].resp[j]
        /\ ToSet(post[p].resp) \subseteq Owed(p)
        /\ Pc(p) = "done" /\ ~post[p].gone => ToSet(post[p].resp) = Owed(p)

\* A request posted under a session is cancelled by the client of that session
\* only, although clients use the same JSON-RPC ids.
CancelledByOwner ==
    \A t \in silenced : post[t[1]].scope # NoSid => t[3] = Client[t[1]]

\* The registry holds exactly the messages that can still be cancelled.
RegistryExact ==
    inflight = {p \in Post : Pc(p) \in {"select", "handle", "finish"} /\ ~IsNotification(p)}

\* At most maxConcurrentToolCalls handlers run, and no path loses a slot.
SlotsExact ==
    /\ Cardinality(slots) <= MaxConcurrent
    /\ slots = {p \in Post : Pc(p) \in {"handle", "finish", "release"}}

\* Once a client was told that its session is gone, deleted or expired, the id
\* is not in the table any more and no POST is accepted under it.
EndedStaysEnded == table \intersect ended = {}

\* A message that was cancelled, or whose client is gone, leaves the queue for a
\* slot although every slot may be held by a handler that never returns.
QueueLeft == []<>(\A p \in Post : ~(Pc(p) = "select" /\ CtxDone(p)))

\* Every slot is held by a handler that may never return.
AllStalled == Cardinality(slots) = MaxConcurrent /\ slots \subseteq Stalling

\* In the end every POST that arrived is served, unless its own handlers stall
\* or stalled handlers hold every slot.
PostsEnd ==
    <>[](AllStalled \/ \A p \in Post \ Stalling : Pc(p) \in {"new", "done", "refused"})

\* Registry, semaphore and session table hold exactly what is live: no path of
\* dispatch leaves an entry or a slot, and no ended session comes back.
NothingLeaks == TypeOK /\ RegistryExact /\ SlotsExact /\ EndedStaysEnded

\* POSTs make progress although handlers may stall.
PostsProgress == QueueLeft /\ PostsEnd
=============================================================================
