---------------------------- MODULE AuditedCalls ----------------------------
(***************************************************************************)
(* The calls that leave an audit trail: SendInput with its two phases      *)
(* (tools.go), GetCredentialBundle and InjectSecret with the store of      *)
(* single-use credentials (credentials.go), on top of AuditClient.  A call *)
(* sends "first" (the command) and "last" (its output, or the event of an  *)
(* injection); a bundle k sends <<k, "bundle">>.                           *)
(*                                                                         *)
(* The reaper may take a session away at any time, so every look-up and    *)
(* every write may fail.  Decrypting is external: a sealed box opens or it *)
(* does not.                                                               *)
(***************************************************************************)
EXTENDS AuditClient

CONSTANTS
    MaxCalls,   \* bound: send_input and inject_secret calls
    MaxBundles, \* bound: get_credential_bundle calls, each makes a credential
    MaxBegun,   \* bound: calls of either kind in a behaviour with auditing on
    MaxSessions \* bound: sessions, numbered in the order calls name them

Call == 1 .. MaxCalls
Session == 1 .. MaxSessions
Bundle == 1 .. MaxBundles

ASSUME CallsAssumption ==
    /\ {MaxCalls, MaxBundles, MaxBegun, MaxSessions} \subseteq Nat
    /\ None \notin Nat /\ None \notin {"input", "inject", "run", "early"}
    /\ Entry = (Call \X {"first", "last"}) \union (Bundle \X {"bundle"})

VARIABLES
    call,           \* per call: CallState
    cancelled,      \* calls whose context is over
    lock,           \* the Manager: holder of each session's lock
    bundle,         \* per bundle: [pc, key]
    keyFile, keyMu, \* the identity key on disk, holder of identityKeyMu
    creds, expired, \* credStore.creds, and those past their time
    written         \* history: <<call, credential>> written to a terminal

callVars == <<call, cancelled, lock, written>>
credVars == <<bundle, keyFile, keyMu, creds, expired>>
vars == <<auditVars, callVars, credVars>>

CallState ==
    [pc   : {"new", "get", "lock", "audit", "exec", "refetch", "take", "open", "write", "done"},
     op   : {"input", "inject", None},
     s    : Session \union {None},
     k    : Bundle \union {None},
     took : BOOLEAN,    \* has taken the credential out of the store
     end  : {None, "run", "error", "early", "unsealed", "late"}]

\* Types, of the audit client too: the queue and the attempts within bounds.
TypeOK ==
    /\ AuditTypeOK
    /\ call \in [Call -> CallState]
    /\ cancelled \subseteq Call
    /\ lock \in [Session -> Call \union {None}]
    /\ bundle \in [Bundle -> [pc : {"new", "load", "generate", "sign", "done", "failed"},
                              key : Bundle \union {None}]]
    /\ {keyFile, keyMu} \subseteq Bundle \union {None}
    /\ creds \subseteq Bundle /\ expired \subseteq Bundle
    /\ written \subseteq Call \X Bundle

Init ==
    /\ AuditInit
    /\ call = [c \in Call |-> [pc |-> "new", op |-> None, s |-> None, k |-> None,
                               took |-> FALSE, end |-> None]]
    /\ cancelled = {} /\ lock = [s \in Session |-> None]
    /\ bundle = [k \in Bundle |-> [pc |-> "new", key |-> None]]
    /\ keyFile = None /\ keyMu = None /\ creds = {} /\ expired = {} /\ written = {}

Goto(c, label) == call' = [call EXCEPT ![c].pc = label]

\* The handler returns, with its deferred unlock; an injection sends its event,
\* unless it was cancelled after the credential had been opened.
End(c, how) ==
    /\ call' = [call EXCEPT ![c].pc = "done", ![c].end = how, ![c].s = None]
    /\ lock' = [s \in Session |-> IF lock[s] = c THEN None ELSE lock[s]]
    /\ cancelled' = cancelled \ {c}
    /\ IF call[c].op = "inject" /\ how # "late"
       THEN StartEnqueue(<<c, "last">>)
       ELSE UNCHANGED snd

AuditRest == UNCHANGED <<mode, queue, worker, tries, closed, collectorVars, evicted, lost,
                         refused, contended>>

-----------------------------------------------------------------------------
(* Both calls: Get, then the cancellable lock *)

CanBegin ==
    /\ ~closed
    /\ Cardinality({c \in Call : call[c].pc # "new"})
         + Cardinality({k \in Bundle : bundle[k].pc # "new"})
         < IF mode = "off" THEN MaxCalls + MaxBundles ELSE MaxBegun

Begin(c, op, s, k) ==
    /\ call[c].pc = "new" /\ CanBegin
    /\ \A b \in 1 .. c - 1 : call[b].pc # "new"
    /\ s <= c
    /\ op = "inject" => bundle[k].pc = "done"
    /\ call' = [call EXCEPT ![c] = [@ EXCEPT !.pc = "get", !.op = op, !.s = s,
                                             !.k = IF op = "inject" THEN k ELSE None]]
    /\ UNCHANGED <<auditVars, cancelled, lock, written, credVars>>

Get(c) ==
    /\ call[c].pc = "get"
    /\ \/ Goto(c, "lock") /\ UNCHANGED <<lock, snd, cancelled>>
       \/ End(c, "early")
    /\ AuditRest /\ UNCHANGED <<written, credVars>>

Locked(c) ==
    IF call[c].op = "inject" THEN "refetch" ELSE IF mode = "off" THEN "exec" ELSE "audit"

\* Fault for CredentialsSafe: the credential is consumed before the lock is held.
LockAfterTake(c) ==
    /\ call[c].pc = "lock"
    /\ creds' = creds \ {call[c].k}
    /\ \/ /\ lock[call[c].s] = None
          /\ lock' = [lock EXCEPT ![call[c].s] = c]
          /\ Goto(c, Locked(c)) /\ UNCHANGED <<snd, cancelled>>
       \/ c \in cancelled /\ End(c, "early")
    /\ AuditRest
    /\ UNCHANGED <<written, bundle, keyFile, keyMu, expired>>

\* select on the lock and the context: with both ready, either may win.
LockSession(c) ==
    /\ call[c].pc = "lock"
    /\ \/ /\ lock[call[c].s] = None
          /\ lock' = [lock EXCEPT ![call[c].s] = c]
          /\ Goto(c, Locked(c)) /\ UNCHANGED <<snd, cancelled>>
       \/ c \in cancelled /\ End(c, "early")
    /\ AuditRest /\ UNCHANGED <<written, credVars>>

\* A cancellation, while somebody is still going to look at the context.
Cancel(c) ==
    /\ \/ call[c].pc \in {"get", "lock"}
       \/ call[c].op = "inject" /\ call[c].pc \in {"refetch", "take", "open"}
    /\ c \notin cancelled
    /\ cancelled' = cancelled \union {c}
    /\ UNCHANGED <<auditVars, call, lock, written, credVars>>

\* main closes the client when Serve has returned: calls may still run when the
\* grace period of Serve has ended before they have.
CloseClient ==
    /\ Close
    /\ UNCHANGED <<callVars, credVars>>

-----------------------------------------------------------------------------
(* SendInput *)

\* Fault for CmdBeforeOutput: the command is handed to a goroutine.
SendCmdAsync(c) ==
    /\ call[c].pc = "audit"
    /\ \/ /\ snd[<<c, "first">>].pc = "idle"
          /\ snd' = [snd EXCEPT ![<<c, "first">>].pc = IF mode = "strict" THEN "post" ELSE "try"]
          /\ IF mode = "strict" THEN UNCHANGED <<call, lock, cancelled>> ELSE Goto(c, "exec") /\ UNCHANGED <<lock, cancelled>>
       \/ /\ snd[<<c, "first">>].pc = "sent"
          /\ Goto(c, "exec") /\ UNCHANGED <<lock, snd, cancelled>>
       \/ /\ snd[<<c, "first">>].pc = "failed"
          /\ End(c, "error")
    /\ AuditRest /\ UNCHANGED <<written, credVars>>

\* Fault for StrictRecorded: the error of SendCmd is ignored.
SendCmdLenient(c) ==
    /\ call[c].pc = "audit"
    /\ \/ /\ snd[<<c, "first">>].pc = "idle"
          /\ snd' = [snd EXCEPT ![<<c, "first">>].pc = IF mode = "strict" THEN "post" ELSE "try"]
          /\ UNCHANGED <<call, lock, cancelled>>
       \/ /\ snd[<<c, "first">>].pc \in {"sent", "failed"}
          /\ Goto(c, "exec") /\ UNCHANGED <<lock, snd, cancelled>>
    /\ AuditRest /\ UNCHANGED <<written, credVars>>

\* Phase 1, before the command runs: posted in strict mode, whose error ends
\* the call, queued otherwise.
SendCmd(c) ==
    /\ call[c].pc = "audit"
    /\ \/ /\ snd[<<c, "first">>].pc = "idle"
          /\ snd' = [snd EXCEPT ![<<c, "first">>].pc = IF mode = "strict" THEN "post" ELSE "try"]
          /\ UNCHANGED <<call, lock, cancelled>>
       \/ /\ snd[<<c, "first">>].pc = "sent"
          /\ Goto(c, "exec") /\ UNCHANGED <<lock, snd, cancelled>>
       \/ /\ snd[<<c, "first">>].pc = "failed"
          /\ End(c, "error")
    /\ AuditRest /\ UNCHANGED <<written, credVars>>

\* The command runs, or the write fails; phase 2 is sent either way.
Execute(c) ==
    /\ call[c].pc = "exec"
    /\ \E how \in {"run", "error"} :
         call' = [call EXCEPT ![c].pc = "done", ![c].end = how, ![c].s = None]
    /\ lock' = [lock EXCEPT ![call[c].s] = None]
    /\ cancelled' = cancelled \ {c}
    /\ StartEnqueue(<<c, "last">>)
    /\ AuditRest /\ UNCHANGED <<written, credVars>>

-----------------------------------------------------------------------------
(* GetCredentialBundle *)

BeginBundle(k) ==
    /\ bundle[k].pc = "new" /\ CanBegin
    /\ \A j \in 1 .. k - 1 : bundle[j].pc # "new"
    /\ bundle' = [bundle EXCEPT ![k].pc = "load"]
    /\ UNCHANGED <<auditVars, callVars, keyFile, keyMu, creds, expired>>

\* LoadOrGenerateIdentityKey under identityKeyMu: reads the file, and writes one
\* when there is none.
LoadKey(k) ==
    /\ bundle[k].pc = "load" /\ keyMu = None
    /\ IF keyFile = None
       THEN keyMu' = k /\ bundle' = [bundle EXCEPT ![k] = [pc |-> "generate", key |-> k]]
       ELSE bundle' = [bundle EXCEPT ![k] = [pc |-> "sign", key |-> keyFile]] /\ UNCHANGED keyMu
    /\ UNCHANGED <<auditVars, callVars, keyFile, creds, expired>>

GenerateKey(k) ==
    /\ bundle[k].pc = "generate"
    /\ keyFile' = bundle[k].key /\ keyMu' = None
    /\ bundle' = [bundle EXCEPT ![k].pc = "sign"]
    /\ UNCHANGED <<auditVars, callVars, creds, expired>>

\* The key file, the session key or the signature failed.
BundleFails(k) ==
    /\ bundle[k].pc \in {"load", "generate", "sign"}
    /\ bundle[k].pc = "load" => keyMu = None
    /\ bundle' = [bundle EXCEPT ![k] = [pc |-> "failed", key |-> None]]
    /\ keyMu' = IF keyMu = k THEN None ELSE keyMu
    /\ UNCHANGED <<auditVars, callVars, keyFile, creds, expired>>

\* The bundle is stored, which purges what has expired, and audited.
StoreCred(k) ==
    /\ bundle[k].pc = "sign"
    /\ bundle' = [bundle EXCEPT ![k].pc = "done"]
    /\ creds' = (creds \ expired) \union {k}
    /\ StartEnqueue(<<k, "bundle">>)
    /\ AuditRest /\ UNCHANGED <<callVars, keyFile, keyMu, expired>>

Expire(k) ==
    /\ k \in creds \ expired /\ \E j \in Bundle : bundle[j].pc \notin {"done", "failed"}
    /\ expired' = expired \union {k}
    /\ UNCHANGED <<auditVars, callVars, bundle, keyFile, keyMu, creds>>

-----------------------------------------------------------------------------
(* InjectSecret, under the lock *)

Refetch(c) ==
    /\ call[c].pc = "refetch"
    /\ \/ Goto(c, "take") /\ UNCHANGED <<lock, snd, cancelled>>
       \/ End(c, "early")
    /\ AuditRest /\ UNCHANGED <<written, credVars>>

\* take does not look at the expiry: an expired credential that no later bundle
\* has purged is still handed out.
Take(c) ==
    /\ call[c].pc = "take"
    /\ IF call[c].k \in creds
       THEN /\ call' = [call EXCEPT ![c].pc = "open", ![c].took = TRUE]
            /\ creds' = creds \ {call[c].k}
            /\ UNCHANGED <<lock, snd, cancelled>>
       ELSE End(c, "early") /\ UNCHANGED creds
    /\ AuditRest
    /\ UNCHANGED <<written, bundle, keyFile, keyMu, expired>>

\* The box opens or it does not; a call cancelled meanwhile writes nothing.
OpenBox(c) ==
    /\ call[c].pc = "open"
    /\ \/ End(c, "unsealed")
       \/ c \in cancelled /\ End(c, "late")
       \/ c \notin cancelled /\ Goto(c, "write") /\ UNCHANGED <<lock, snd, cancelled>>
    /\ AuditRest /\ UNCHANGED <<written, credVars>>

WriteSecret(c) ==
    /\ call[c].pc = "write"
    /\ \/ End(c, "run") /\ written' = written \union {<<c, call[c].k>>}
       \/ End(c, "error") /\ UNCHANGED written
    /\ AuditRest /\ UNCHANGED <<credVars>>

-----------------------------------------------------------------------------
StepCall(c) ==
    \/ Get(c) \/ LockSession(c) \/ SendCmd(c) \/ Execute(c)
    \/ Refetch(c) \/ Take(c) \/ OpenBox(c) \/ WriteSecret(c)

StepBundle(k) == LoadKey(k) \/ GenerateKey(k) \/ StoreCred(k) \/ BundleFails(k)

Next ==
    \/ NextAudit /\ UNCHANGED <<callVars, credVars>>
    \/ \E c \in Call : StepCall(c) \/ Cancel(c)
    \/ \E c \in Call, op \in {"input", "inject"}, s \in Session, k \in Bundle : Begin(c, op, s, k)
    \/ \E k \in Bundle : StepBundle(k) \/ BeginBundle(k) \/ Expire(k)
    \/ CloseClient

\* Goroutines run, the lock and the queue are fair, and a post ends, by its
\* timeout at the latest.
Fairness ==
    /\ WF_vars(StepAudit /\ UNCHANGED <<callVars, credVars>>)
    /\ SF_vars(\E c \in Call : StepCall(c))
    /\ WF_vars(\E k \in Bundle : StepBundle(k))

Spec == Init /\ [][Next]_vars /\ Fairness

-----------------------------------------------------------------------------
(* Properties *)

\* In strict mode no command runs before the collector has accepted its record,
\* whatever is retried, delayed or refused; the record is in the trail unless
\* the collector itself failed to write it.
StrictRecorded ==
    \A c \in Call : mode = "strict" /\ call[c].op = "input"
                       /\ (call[c].pc = "exec" \/ call[c].end = "run")
        => <<c, "first">> \in trail \union unwritten

Pipeline == <<worker>> \o queue

\* A command's record is ahead of its output's: while the record is in the queue
\* or at the worker, the output is neither stored nor further on, and when an
\* output is in the collector's file, so is its command, or the command was
\* counted as dropped, passed over, given up, or accepted and not written.  (A
\* command given up after timeouts may still be stored, behind its output.)
CmdBeforeOutput ==
    /\ \A c \in Call, n \in DOMAIN Pipeline :
          Pipeline[n] = <<c, "first">> /\ <<c, "first">> \notin trail =>
              <<c, "last">> \notin trail \union {Pipeline[m] : m \in 1 .. n}
    /\ \A c \in Call :
          call[c].op = "input" /\ <<c, "last">> \in trail =>
              <<c, "first">> \in trail \union evicted \union lost \union refused \union unwritten

\* A credential is written to one terminal once, even when two calls bring the
\* same sealed box to different sessions.
WrittenOnce == \A k \in Bundle : Cardinality({w \in written : w[2] = k}) <= 1

\* A call that gives up in the queue for the session lock, or finds the session
\* gone, has not burned the credential: it is in the store until it expires or
\* some call takes it under the lock of a session it has just seen open.
NotBurned ==
    \A k \in Bundle : bundle[k].pc = "done" /\ k \notin creds \union expired =>
        \E c \in Call : call[c].k = k /\ call[c].took /\ call[c].end # "early"

\* All bundles are signed with the identity key on disk, also when the first
\* two are asked for at once.
OneIdentity == \A k \in Bundle : bundle[k].pc \in {"sign", "done"} => bundle[k].key = keyFile

\* Every call ends, also with the collector down, and until the client is
\* closed the worker empties the queue.
Settled ==
    <>[](/\ \A c \in Call : call[c].pc \in {"new", "done"}
         /\ \A e \in Entry : snd[e].pc \in {"idle", "sent", "failed"}
         /\ closed \/ (queue = <<>> /\ worker = None))

\* No entry vanishes: what is not stored is on its way, counted as dropped or
\* given up, and a new entry is passed over under contention only.
TrailAccounted == TypeOK /\ Accounted /\ LostOnlyContended

\* Single-use credentials are used once and not burned by a call that gave up
\* in the queue, and all bundles speak for one identity.
CredentialsSafe == WrittenOnce /\ NotBurned /\ OneIdentity
=============================================================================
