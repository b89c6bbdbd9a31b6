--------------------------- MODULE SessionManager ---------------------------
(***************************************************************************)
(* internal/session/session.go (the Manager) under the tool handlers of    *)
(* internal/mcp/tools.go: registering, finding, locking, closing and       *)
(* detaching sessions, the idle reaper, and the staged secrets.            *)
(*                                                                         *)
(* A Request is one tool call.  Each step is what a handler does under one *)
(* acquisition of a mutex of the Manager (mu, lockMu, secretMu), or one    *)
(* call on the session itself; between two steps every other request and   *)
(* the reaper may run.  ids are never reused (NewID).                      *)
(***************************************************************************)
EXTENDS Integers, FiniteSets

CONSTANTS
    Id,             \* session ids that NewID can return
    Created,        \* sessions the client created before the requests modelled
    Remote,         \* those of sessions kept by an ai-tmux daemon
    Request,        \* the tool calls
    Op,             \* the tools that are called
    Cancellable,    \* the requests a client may cancel
    MaxSessions,    \* maxSessions
    Reaping,        \* idleSeconds > 0
    None            \* no request, no session, no secret

ASSUME ManagerAssumption ==
    /\ Remote \subseteq Id /\ Created \subseteq Id /\ Cancellable \subseteq Request
    /\ Op \subseteq {"create", "list", "send_input", "read_output", "close",
                     "detach", "prepare_secret", "send_secret",
                     "get_session_state"}
    /\ MaxSessions \in Nat \ {0}
    /\ IsFiniteSet(Created) /\ Cardinality(Created) <= MaxSessions
    /\ Reaping \in BOOLEAN
    /\ None \notin Id \union Request

VARIABLES
    sessions,       \* keys of Manager.sessions (and infos)
    obj,            \* per id: the session itself
    old,            \* per id: LastUsed is more than idleTimeout ago
    lock,           \* per id: the request whose token is in the lock channel
    secret,         \* per id: pendingSecrets, as the request that asked for it
    promptSem,      \* the request that holds secretPromptSem
    toClose,        \* sessions the reaper has removed but not yet closed
    pc, op, sid,    \* per request: where it is, its tool, its session
    held,           \* per request: a secret in a local variable
    cancelled,      \* per request: its context is done
    known,          \* ids the client has seen in a response
    sent,           \* history: how often each entered secret was written
    torn            \* history: how often each session was closed or detached

reqVars == <<pc, op, sid, held, cancelled>>
vars == <<sessions, obj, old, lock, secret, promptSem, toClose, reqVars, known, sent,
          torn>>

Labels == {"new", "dial", "made", "add", "added", "respond", "get", "lock",
           "reget", "write", "use", "auto", "judge", "take", "ask", "asking",
           "entered", "stage", "deliver", "delete", "clear", "teardown",
           "unlock", "done"}

\* Types; the client only ever learns ids of sessions that were created.
TypeOK ==
    /\ sessions \subseteq Id /\ toClose \subseteq Id /\ known \subseteq Id
    /\ obj \in [Id -> {"unborn", "open", "closed", "detached"}]
    /\ old \in [Id -> BOOLEAN]
    /\ lock \in [Id -> Request \union {None}]
    /\ secret \in [Id -> Request \union {None}]
    /\ promptSem \in Request \union {None}
    /\ pc \in [Request -> Labels]
    /\ op \in [Request -> Op \union {None}]
    /\ sid \in [Request -> Id \union {None}]
    /\ held \in [Request -> Request \union {None}]
    /\ cancelled \in [Request -> BOOLEAN]
    /\ sent \in [Request -> Nat] /\ torn \in [Id -> Nat]

Init ==
    /\ sessions = Created /\ toClose = {} /\ known = Created
    /\ obj = [s \in Id |-> IF s \in Created THEN "open" ELSE "unborn"]
    /\ old = [s \in Id |-> FALSE]
    /\ lock = [s \in Id |-> None] /\ secret = [s \in Id |-> None]
    /\ promptSem = None
    /\ pc = [r \in Request |-> "new"] /\ op = [r \in Request |-> None]
    /\ sid = [r \in Request |-> None] /\ held = [r \in Request |-> None]
    /\ cancelled = [r \in Request |-> FALSE]
    /\ sent = [r \in Request |-> 0] /\ torn = [s \in Id |-> 0]

Goto(r, label) == pc' = [pc EXCEPT ![r] = label]

\* Session.Close or RemoteSession.Detach, called on session s.
TearDown(s, how) ==
    /\ obj' = [obj EXCEPT ![s] = how]
    /\ torn' = [torn EXCEPT ![s] = @ + 1]

-----------------------------------------------------------------------------
(* Requests arrive, and are cancelled *)

Arrive(r) ==
    /\ pc[r] = "new"
    /\ \E o \in Op :
        /\ op' = [op EXCEPT ![r] = o]
        /\ \/ o = "create" /\ Goto(r, "dial") /\ UNCHANGED sid
           \/ o = "list" /\ Goto(r, "respond") /\ UNCHANGED sid
           \/ /\ o \notin {"create", "list"}
              /\ \E s \in known : sid' = [sid EXCEPT ![r] = s]
              /\ Goto(r, "get")
    /\ UNCHANGED <<sessions, obj, torn, old, lock, secret, promptSem, toClose, held,
                   cancelled, known, sent>>

Cancel(r) ==
    /\ r \in Cancellable /\ ~cancelled[r] /\ pc[r] \notin {"new", "done"}
    /\ cancelled' = [cancelled EXCEPT ![r] = TRUE]
    /\ UNCHANGED <<sessions, obj, torn, old, lock, secret, promptSem, toClose, pc, op,
                   sid, held, known, sent>>

\* The server sends the result, or drops it when the request was cancelled.
Respond(r) ==
    /\ pc[r] = "respond"
    /\ Goto(r, "done")
    /\ known' = IF cancelled[r] THEN known
                ELSE IF op[r] = "list" THEN known \union sessions
                ELSE known \union {sid[r]}
    /\ UNCHANGED <<sessions, obj, torn, old, lock, secret, promptSem, toClose, op, sid,
                   held, cancelled, sent>>

-----------------------------------------------------------------------------
(* create_ssh_session, create_local_session, create_serial_session *)

DialOk(r) ==
    /\ pc[r] = "dial"
    /\ \E s \in Id :
        /\ obj[s] = "unborn"
        /\ obj' = [obj EXCEPT ![s] = "open"]
        /\ sid' = [sid EXCEPT ![r] = s]
    /\ Goto(r, "made")
    /\ UNCHANGED <<sessions, torn, old, lock, secret, promptSem, toClose, op, held,
                   cancelled, known, sent>>

DialFailed(r) ==
    /\ pc[r] = "dial"
    /\ Goto(r, "done")
    /\ UNCHANGED <<sessions, obj, torn, old, lock, secret, promptSem, toClose, op, sid,
                   held, cancelled, known, sent>>

\* Fault for TableExact: the session of a cancelled call is not closed.
CheckBeforeAddForgets(r) ==
    /\ pc[r] = "made"
    /\ Goto(r, IF cancelled[r] THEN "done" ELSE "add")
    /\ UNCHANGED <<sessions, obj, torn, old, lock, secret, promptSem, toClose, op, sid,
                   held, cancelled, known, sent>>

\* A session that came up for a cancelled call is closed, not registered.
CheckBeforeAdd(r) ==
    /\ pc[r] = "made"
    /\ IF cancelled[r]
       THEN TearDown(sid[r], "closed") /\ Goto(r, "done")
       ELSE UNCHANGED <<obj, torn>> /\ Goto(r, "add")
    /\ UNCHANGED <<sessions, old, lock, secret, promptSem, toClose, op, sid, held,
                   cancelled, known, sent>>

Add(r) ==
    /\ pc[r] = "add"
    /\ IF Cardinality(sessions) >= MaxSessions
       THEN /\ TearDown(sid[r], "closed")
            /\ Goto(r, "done")
            /\ UNCHANGED sessions
       ELSE /\ sessions' = sessions \union {sid[r]}
            /\ Goto(r, "added")
            /\ UNCHANGED <<obj, torn>>
    /\ UNCHANGED <<old, lock, secret, promptSem, toClose, op, sid, held,
                   cancelled, known, sent>>

\* The second check: Manager.Close, without the session lock.
CheckAfterAdd(r) ==
    /\ pc[r] = "added"
    /\ Goto(r, IF cancelled[r] THEN "delete" ELSE "respond")
    /\ UNCHANGED <<sessions, obj, torn, old, lock, secret, promptSem, toClose, op, sid,
                   held, cancelled, known, sent>>

-----------------------------------------------------------------------------
(* Get, LockSession, UnlockSession *)

\* Where the handler goes once it has the lock.
AfterLock(o) ==
    CASE o = "send_input" -> "write"                \* no second Get
      [] o \in {"close", "detach"} -> "delete"
      [] OTHER -> "reget"

AfterReget(o) ==
    CASE o = "prepare_secret" -> "ask"
      [] o = "send_secret" -> "take"
      [] OTHER -> "use"

\* Get refreshes LastUsed.
Get(r, found, missing) ==
    /\ IF sid[r] \in sessions
       THEN old' = [old EXCEPT ![sid[r]] = FALSE] /\ Goto(r, found)
       ELSE UNCHANGED old /\ Goto(r, missing)
    /\ UNCHANGED <<sessions, obj, torn, lock, secret, promptSem, toClose, op, sid, held,
                   cancelled, known, sent>>

\* get_session_state takes no lock and reads the output only.
AfterGet(o) == IF o = "get_session_state" THEN "done" ELSE "lock"

FirstGet(r) == pc[r] = "get" /\ Get(r, AfterGet(op[r]), "done")

Reget(r) == pc[r] = "reget" /\ Get(r, AfterReget(op[r]), "unlock")

\* Fault for NoCloseInOperation: close_session does not take the session lock.
LockSessionNotToClose(r) ==
    /\ pc[r] = "lock"
    /\ \/ op[r] = "close" \/ lock[sid[r]] = None
    /\ lock' = [lock EXCEPT ![sid[r]] = r]
    /\ Goto(r, AfterLock(op[r]))
    /\ UNCHANGED <<sessions, obj, torn, old, secret, promptSem, toClose, op, sid, held,
                   cancelled, known, sent>>

LockSession(r) ==
    /\ pc[r] = "lock"
    /\ \/ /\ lock[sid[r]] = None
          /\ lock' = [lock EXCEPT ![sid[r]] = r]
          /\ Goto(r, AfterLock(op[r]))
       \/ /\ cancelled[r]
          /\ Goto(r, "done")
          /\ UNCHANGED lock
    /\ UNCHANGED <<sessions, obj, torn, old, secret, promptSem, toClose, op, sid, held,
                   cancelled, known, sent>>

\* Deferred: every path of a handler that got the lock ends here.
UnlockSession(r) ==
    /\ pc[r] = "unlock"
    /\ lock' = [lock EXCEPT ![sid[r]] = None]
    /\ Goto(r, "done")
    /\ UNCHANGED <<sessions, obj, torn, old, secret, promptSem, toClose, op, sid, held,
                   cancelled, known, sent>>

-----------------------------------------------------------------------------
(* send_input, read_output (and send_control, resize_session) *)

\* Write on a session that is not alive is an error.
WriteInput(r) ==
    /\ pc[r] = "write"
    /\ Goto(r, IF obj[sid[r]] = "open" THEN "use" ELSE "unlock")
    /\ UNCHANGED <<sessions, obj, torn, old, lock, secret, promptSem, toClose, op, sid,
                   held, cancelled, known, sent>>

\* ReadScreen or waitForPattern takes its time.  Output that was read may make
\* the handler look for a staged secret.
Use(r) ==
    /\ pc[r] = "use"
    /\ Goto(r, "auto") \/ Goto(r, "unlock")
    /\ UNCHANGED <<sessions, obj, torn, old, lock, secret, promptSem, toClose, op, sid,
                   held, cancelled, known, sent>>

\* TakeSecret: found and removed, or not there.
TakeSecret(r, found, missing) ==
    LET s == sid[r]
    IN  /\ held' = [held EXCEPT ![r] = secret[s]]
        /\ secret' = [secret EXCEPT ![s] = None]
        /\ Goto(r, IF secret[s] = None THEN missing ELSE found)
        /\ UNCHANGED <<sessions, obj, torn, old, lock, promptSem, toClose, op, sid,
                       cancelled, known, sent>>

\* Fault for SecretsGuarded: the secret stays staged while it is being used.
AutoPeek(r) ==
    /\ pc[r] = "auto"
    /\ held' = [held EXCEPT ![r] = secret[sid[r]]]
    /\ Goto(r, IF secret[sid[r]] = None THEN "unlock" ELSE "judge")
    /\ UNCHANGED <<sessions, obj, torn, old, lock, secret, promptSem, toClose, op, sid,
                   cancelled, known, sent>>

\* maybeAutoSendSecret takes the secret before it looks at the output.
AutoTake(r) == pc[r] = "auto" /\ TakeSecret(r, "judge", "unlock")

\* The output ends in a password prompt: the secret is written.
AutoSend(r) ==
    /\ pc[r] = "judge"
    /\ Goto(r, "deliver")
    /\ UNCHANGED <<sessions, obj, torn, old, lock, secret, promptSem, toClose, op, sid,
                   held, cancelled, known, sent>>

\* It does not: the secret is put back.
AutoRestore(r) ==
    /\ pc[r] = "judge"
    /\ secret' = [secret EXCEPT ![sid[r]] = held[r]]
    /\ held' = [held EXCEPT ![r] = None]
    /\ Goto(r, "unlock")
    /\ UNCHANGED <<sessions, obj, torn, old, lock, promptSem, toClose, op, sid,
                   cancelled, known, sent>>

\* WriteRaw of a secret; a session that is not alive refuses it.
Deliver(r) ==
    /\ pc[r] = "deliver"
    /\ sent' = IF obj[sid[r]] = "open" THEN [sent EXCEPT ![held[r]] = @ + 1] ELSE sent
    /\ held' = [held EXCEPT ![r] = None]
    /\ Goto(r, "unlock")
    /\ UNCHANGED <<sessions, obj, torn, old, lock, secret, promptSem, toClose, op, sid,
                   cancelled, known>>

-----------------------------------------------------------------------------
(* prepare_secret, send_secret *)

SendTake(r) == pc[r] = "take" /\ TakeSecret(r, "deliver", "ask")

\* readSecretFromUser: one prompt at a time, server-wide.
AskOperator(r) ==
    /\ pc[r] = "ask"
    /\ \/ promptSem = None /\ promptSem' = r /\ Goto(r, "asking")
       \/ cancelled[r] /\ Goto(r, "unlock") /\ UNCHANGED promptSem
    /\ UNCHANGED <<sessions, obj, torn, old, lock, secret, toClose, op, sid, held,
                   cancelled, known, sent>>

\* Fault for CallsEnd: a dialog that fails does not release the prompt.
OperatorDoneKeepsPrompt(r) ==
    /\ pc[r] = "asking"
    /\ \/ promptSem' = None /\ held' = [held EXCEPT ![r] = r] /\ Goto(r, "entered")
       \/ UNCHANGED <<promptSem, held>> /\ Goto(r, "unlock")
    /\ UNCHANGED <<sessions, obj, torn, old, lock, secret, toClose, op, sid, cancelled,
                   known, sent>>

\* The operator answers, or the dialog fails, times out or is cancelled.
OperatorDone(r) ==
    /\ pc[r] = "asking"
    /\ promptSem' = None
    /\ \/ held' = [held EXCEPT ![r] = r] /\ Goto(r, "entered")
       \/ UNCHANGED held /\ Goto(r, "unlock")
    /\ UNCHANGED <<sessions, obj, torn, old, lock, secret, toClose, op, sid, cancelled,
                   known, sent>>

\* A secret entered for a cancelled call is forgotten.
CheckEntered(r) ==
    /\ pc[r] = "entered"
    /\ IF cancelled[r]
       THEN held' = [held EXCEPT ![r] = None] /\ Goto(r, "unlock")
       ELSE /\ Goto(r, IF op[r] = "prepare_secret" THEN "stage" ELSE "deliver")
            /\ UNCHANGED held
    /\ UNCHANGED <<sessions, obj, torn, old, lock, secret, promptSem, toClose, op, sid,
                   cancelled, known, sent>>

SetPendingSecret(r) ==
    /\ pc[r] = "stage"
    /\ secret' = [secret EXCEPT ![sid[r]] = held[r]]
    /\ held' = [held EXCEPT ![r] = None]
    /\ Goto(r, "unlock")
    /\ UNCHANGED <<sessions, obj, torn, old, lock, promptSem, toClose, op, sid,
                   cancelled, known, sent>>

-----------------------------------------------------------------------------
(* Manager.Close and Manager.Detach *)

\* Close called by create_*, which holds no lock, ends the request.
AfterClose(r) == IF op[r] = "create" THEN "done" ELSE "unlock"

\* Fault for TornDownOnce: an entry that is already gone is torn down again.
DeleteEntryBlindly(r) ==
    /\ pc[r] = "delete"
    /\ sessions' = sessions \ {sid[r]}
    /\ Goto(r, "clear")
    /\ UNCHANGED <<obj, torn, old, lock, secret, promptSem, toClose, op, sid, held,
                   cancelled, known, sent>>

DeleteEntry(r) ==
    /\ pc[r] = "delete"
    /\ IF sid[r] \in sessions
       THEN sessions' = sessions \ {sid[r]} /\ Goto(r, "clear")
       ELSE UNCHANGED sessions /\ Goto(r, AfterClose(r))
    /\ UNCHANGED <<obj, torn, old, lock, secret, promptSem, toClose, op, sid, held,
                   cancelled, known, sent>>

\* Fault for SecretHasSession: closing leaves the staged secret.
ClearSecretSkipped(r) ==
    /\ pc[r] = "clear"
    /\ Goto(r, "teardown")
    /\ UNCHANGED <<sessions, obj, torn, old, lock, secret, promptSem, toClose, op, sid,
                   held, cancelled, known, sent>>

ClearSecret(r) ==
    /\ pc[r] = "clear"
    /\ secret' = [secret EXCEPT ![sid[r]] = None]
    /\ Goto(r, "teardown")
    /\ UNCHANGED <<sessions, obj, torn, old, lock, promptSem, toClose, op, sid, held,
                   cancelled, known, sent>>

\* Session.Close; for detach_session on a remote session, RemoteSession.Detach.
CloseObject(r) ==
    LET s == sid[r]
    IN  /\ pc[r] = "teardown"
        /\ TearDown(s, IF op[r] = "detach" /\ s \in Remote THEN "detached" ELSE "closed")
        /\ Goto(r, AfterClose(r))
        /\ UNCHANGED <<sessions, old, lock, secret, promptSem, toClose, op, sid,
                       held, cancelled, known, sent>>

-----------------------------------------------------------------------------
(* idleReaper: removes every idle session under mu, then closes them one by
   one; it does not take session locks and does not clear secrets. *)

Age(s) ==
    /\ Reaping /\ s \in sessions /\ ~old[s]
    /\ old' = [old EXCEPT ![s] = TRUE]
    /\ UNCHANGED <<sessions, obj, torn, lock, secret, promptSem, toClose, reqVars,
                   known, sent>>

Reap ==
    LET idle == {s \in sessions : old[s]}
    IN  /\ Reaping /\ toClose = {} /\ idle # {}
        /\ sessions' = sessions \ idle
        /\ toClose' = idle
        /\ UNCHANGED <<obj, torn, old, lock, secret, promptSem, reqVars, known, sent>>

ReaperClose(s) ==
    /\ s \in toClose
    /\ TearDown(s, "closed")
    /\ toClose' = toClose \ {s}
    /\ UNCHANGED <<sessions, old, lock, secret, promptSem, reqVars, known, sent>>

-----------------------------------------------------------------------------
Handle(r) ==
    \/ Respond(r)
    \/ DialOk(r) \/ DialFailed(r) \/ CheckBeforeAdd(r) \/ Add(r) \/ CheckAfterAdd(r)
    \/ FirstGet(r) \/ LockSession(r) \/ Reget(r) \/ UnlockSession(r)
    \/ WriteInput(r) \/ Use(r) \/ AutoTake(r) \/ AutoSend(r) \/ AutoRestore(r)
    \/ Deliver(r) \/ SendTake(r) \/ AskOperator(r) \/ OperatorDone(r)
    \/ CheckEntered(r) \/ SetPendingSecret(r)
    \/ DeleteEntry(r) \/ ClearSecret(r) \/ CloseObject(r)

Reaper == Reap \/ \E s \in Id : ReaperClose(s)

Next ==
    \/ \E r \in Request : Arrive(r) \/ Cancel(r) \/ Handle(r)
    \/ \E s \in Id : Age(s)
    \/ Reaper

\* Handlers and the reaper run; every wait inside a handler is bounded by a
\* timeout (reads, dials, dialogs) or ends when the holder of the lock or of
\* the prompt is done.  The WSL2 dialog alone has no timeout: there the
\* operator is assumed to answer.
Fairness == WF_vars(Reaper) /\ \A r \in Request : WF_vars(Handle(r))

Spec == Init /\ [][Next]_vars /\ Fairness

-----------------------------------------------------------------------------
(* Properties *)

\* No session leaks: a session that is running is registered, or in the hands
\* of the one request or of the reaper that will register or close it.  Every
\* path counts: cancellation before and after Add, the session limit, close,
\* detach and the reaper, in any interleaving.
NoLeak ==
    \A s \in Id : obj[s] = "open" =>
        \/ s \in sessions \/ s \in toClose
        \/ \E r \in Request : sid[r] = s /\ pc[r] \in {"made", "add", "clear", "teardown"}

\* Get never hands out a session that was closed: an entry leaves the map
\* before its session is closed, whoever closes it.
RegisteredIsOpen == \A s \in sessions : obj[s] = "open"

\* A session is torn down once: of the requests and the reaper that race to end
\* it, one calls Close or Detach, and nobody calls either of them again on a
\* session that was closed or was left running on its host.
TornDownOnce ==
    \A s \in Id : torn[s] = IF obj[s] \in {"closed", "detached"} THEN 1 ELSE 0

\* The Manager never holds more sessions than its limit, although requests
\* create sessions before they know whether there is room.
WithinLimit == Cardinality(sessions) <= MaxSessions

\* A secret the operator entered is written at most once, even when it is
\* staged, taken, put back and taken again by different calls.
SecretOnce == \A r \in Request : sent[r] <= 1

\* No secret is staged on a session while a send_secret is asking the operator
\* for another one (the interleaving PrepareSecret's comment describes).
SendsAlone ==
    \A r \in Request :
        op[r] = "send_secret" /\ pc[r] \in {"ask", "asking", "entered", "deliver"}
            => secret[sid[r]] = None

\* Every call ends: requests queue for session locks and, holding one, for the
\* prompt, and never wait for each other in a circle.
CallsEnd == \A r \in Request : pc[r] # "new" ~> pc[r] = "done"

\* close_session waits for the operation in flight "so a concurrent Write/Read
\* never races a Close": no session is closed under a running operation.
NoCloseInOperation ==
    [][\A s \in Id : obj[s] = "open" /\ obj'[s] # "open" =>
          \A r \in Request : sid[r] = s =>
              pc[r] \notin {"write", "use", "auto", "judge", "take", "ask", "asking",
                          "entered", "stage", "deliver"}]_vars

\* PrepareSecret: no secret is staged "for a session id that's gone and will
\* never be reused".
SecretHasSession ==
    \A s \in Id : secret[s] # None =>
        s \in sessions \/ \E r \in Request : sid[r] = s /\ pc[r] = "clear"

\* The Manager's table is exact: every running session has somebody who will
\* close it, nothing in the table is closed, and the limit holds.
TableExact == TypeOK /\ NoLeak /\ RegisteredIsOpen /\ WithinLimit

\* Staged secrets reach a terminal once at most, and never meet a send_secret.
SecretsGuarded == SecretOnce /\ SendsAlone
=============================================================================
