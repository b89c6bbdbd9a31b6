------------------------------- MODULE AiTmux -------------------------------
(***************************************************************************)
(* The ai-tmux program of internal/aitx: clients that dial the socket and  *)
(* start a daemon when nobody answers (client.go), the daemon's life from  *)
(* clearing the path to its shutdown, and its table of sessions under the  *)
(* handlers of several connections, the idle reaper and closeAll           *)
(* (server.go).  A daemon may be killed at any time; its socket file stays *)
(* and the kernel hangs up its terminals.                                  *)
(*                                                                         *)
(* A connection and its handler goroutine are one record: the handler      *)
(* finishes the request in hand after the client has hung up.              *)
(***************************************************************************)
EXTENDS Integers, FiniteSets

CONSTANTS
    Client,         \* runs of "ai-tmux client"
    MaxDaemons,     \* bound: daemons ever started
    MaxForks,       \* bound: sessions ever forked
    MaxSessions,    \* maxAiTmuxSessions
    PlainFile,      \* at the socket path: a file that is not a socket
    None

ASSUME AiTmuxAssumption ==
    /\ IsFiniteSet(Client)
    /\ MaxDaemons \in Nat /\ MaxForks \in Nat /\ MaxSessions \in Nat \ {0}
    /\ None \notin Nat /\ PlainFile \notin Nat /\ None # PlainFile

Daemon == 1 .. MaxDaemons
Sid == 1 .. MaxForks
Closer == {"reaper", "closeAll"}

VARIABLES
    sock,       \* the socket path: the daemon that bound it, PlainFile, None
    dpc,        \* per daemon: where RunServer is; "failed": it returned an error
    table,      \* per daemon: srv.sessions
    doomed,     \* per daemon: what the reaper and closeAll took out and have yet to close
    sess,       \* per session: "none", "open", "closed"
    home,       \* per session: the daemon it was forked by
    old,        \* the sessions whose lastUsed is past the idle timeout
    conn,       \* per client: ConnState
    raced       \* history: two start-ups or shutdowns have overlapped

daemonVars == <<sock, dpc>>
sessVars == <<table, doomed, sess, home, old>>
vars == <<daemonVars, sessVars, conn, raced>>

ConnState ==
    [pc : {"new", "exec", "retry", "dial",                      \* ensureServer, RunClient
           "idle", "fork", "insert", "close", "use", "over"},   \* handleConn
     d  : Daemon \union {None},
     s  : Sid \union {None},    \* the session the handler has a pointer to
     up : BOOLEAN]              \* the client has not hung up

\* Types; a handler at work belongs to a daemon that still runs.
TypeOK ==
    /\ sock \in Daemon \union {PlainFile, None}
    /\ dpc \in [Daemon -> {"off", "lstat", "clear", "bind", "listen", "sweep", "remove",
                       "failed", "gone"}]
    /\ table \in [Daemon -> SUBSET Sid] /\ doomed \in [Daemon -> [Closer -> SUBSET Sid]]
    /\ sess \in [Sid -> {"none", "open", "closed"}]
    /\ home \in [Sid -> Daemon \union {None}] /\ old \subseteq Sid
    /\ conn \in [Client -> ConnState] /\ raced \in BOOLEAN
    /\ \A c \in Client : conn[c].d # None => dpc[conn[c].d] \in {"listen", "sweep", "remove"}

NoneDoomed == [k \in Closer |-> {}]
Unconnected(label) == [pc |-> label, d |-> None, s |-> None, up |-> TRUE]

\* A file that is not a socket may be in the way.
Init ==
    /\ sock \in {None, PlainFile}
    /\ dpc = [d \in Daemon |-> "off"]
    /\ table = [d \in Daemon |-> {}] /\ doomed = [d \in Daemon |-> NoneDoomed]
    /\ sess = [s \in Sid |-> "none"] /\ home = [s \in Sid |-> None] /\ old = {}
    /\ conn = [c \in Client |-> Unconnected("new")]
    /\ raced = FALSE

Goto(c, label) == conn' = [conn EXCEPT ![c].pc = label]
Table(c) == table[conn[c].d]

-----------------------------------------------------------------------------
(* The client: ensureServer, then the connection *)

\* A dial succeeds: the path leads to a listener that is open.
Answers == sock \in Daemon /\ dpc[sock] \in {"listen", "sweep"}

\* Fault for PathSound: the server is started without a look whether one runs.
ProbeNot(c) ==
    /\ conn[c].pc = "new"
    /\ Goto(c, "exec")
    /\ UNCHANGED <<daemonVars, sessVars>>

Probe(c) ==
    /\ conn[c].pc = "new"
    /\ Goto(c, IF Answers THEN "dial" ELSE "exec")
    /\ UNCHANGED <<daemonVars, sessVars>>

\* cmd.Start, which may fail.
Exec(c) ==
    /\ conn[c].pc = "exec"
    /\ \/ \E d \in Daemon :
            /\ dpc[d] = "off" /\ \A e \in 1 .. d - 1 : dpc[e] # "off"
            /\ dpc' = [dpc EXCEPT ![d] = "lstat"]
            /\ Goto(c, "retry")
       \/ Goto(c, "over") /\ UNCHANGED dpc
    /\ UNCHANGED <<sock, sessVars>>

\* The loop of twenty dials: one succeeds, or the last one fails.
Retry(c) ==
    /\ conn[c].pc = "retry"
    /\ Goto(c, IF Answers THEN "dial" ELSE "over")
    /\ UNCHANGED <<daemonVars, sessVars>>

Connect(c) ==
    /\ conn[c].pc = "dial"
    /\ conn' = [conn EXCEPT ![c] =
           IF Answers THEN [Unconnected("idle") EXCEPT !.d = sock] ELSE Unconnected("over")]
    /\ UNCHANGED <<daemonVars, sessVars>>

\* The SSH connection of the client ends.
Hangup(c) ==
    /\ conn[c].d # None /\ conn[c].up
    /\ conn' = [conn EXCEPT ![c].up = FALSE]
    /\ UNCHANGED <<daemonVars, sessVars>>

-----------------------------------------------------------------------------
(* RunServer *)

\* Fault for PathSound: the socket of a daemon that was killed is not removed.
LstatKeepsStale(d) ==
    /\ dpc[d] = "lstat"
    /\ dpc' = [dpc EXCEPT ![d] = IF sock = PlainFile THEN "failed" ELSE "bind"]
    /\ UNCHANGED <<sock, sessVars, conn>>

\* Lstat: a file that is not a socket is refused, a socket is to be removed.
Lstat(d) ==
    /\ dpc[d] = "lstat"
    /\ dpc' = [dpc EXCEPT ![d] = CASE sock = None      -> "bind"
                                   [] sock = PlainFile -> "failed"
                                   [] OTHER            -> "clear"]
    /\ UNCHANGED <<sock, sessVars, conn>>

Clear(d) ==
    /\ dpc[d] = "clear"
    /\ sock' = None
    /\ dpc' = [dpc EXCEPT ![d] = "bind"]
    /\ UNCHANGED <<sessVars, conn>>

\* Listen fails when the path exists.
Listen(d) ==
    /\ dpc[d] = "bind"
    /\ IF sock = None
       THEN sock' = d /\ dpc' = [dpc EXCEPT ![d] = "listen"]
       ELSE dpc' = [dpc EXCEPT ![d] = "failed"] /\ UNCHANGED sock
    /\ UNCHANGED <<sessVars, conn>>

\* Fault for TableExact: closeAll forgets what it has to close.
SignalForgets(d) ==
    /\ dpc[d] = "listen"
    /\ dpc' = [dpc EXCEPT ![d] = "sweep"]
    /\ table' = [table EXCEPT ![d] = {}]
    /\ UNCHANGED <<sock, doomed, sess, home, old, conn>>

\* SIGTERM or SIGINT: closeAll empties the table, then closes what was in it.
Signal(d) ==
    /\ dpc[d] = "listen"
    /\ dpc' = [dpc EXCEPT ![d] = "sweep"]
    /\ doomed' = [doomed EXCEPT ![d]["closeAll"] = table[d]]
    /\ table' = [table EXCEPT ![d] = {}]
    /\ UNCHANGED <<sock, sess, home, old, conn>>

\* ln.Close unlinks the path, whoever has bound it since.
CloseListener(d) ==
    /\ dpc[d] = "sweep" /\ doomed[d]["closeAll"] = {}
    /\ sock' = None
    /\ dpc' = [dpc EXCEPT ![d] = "remove"]
    /\ UNCHANGED <<sessVars, conn>>

\* The process ends: its connections break, its terminals are hung up.
Die(d) ==
    /\ dpc' = [dpc EXCEPT ![d] = "gone"]
    /\ table' = [table EXCEPT ![d] = {}] /\ doomed' = [doomed EXCEPT ![d] = NoneDoomed]
    /\ sess' = [s \in Sid |-> IF home[s] = d THEN "closed" ELSE sess[s]]
    /\ old' = {s \in old : home[s] # d}
    /\ conn' = [c \in Client |-> IF conn[c].d = d THEN Unconnected("over") ELSE conn[c]]
    /\ UNCHANGED home

\* Fault for Settles: the process waits for its connections.
ExitWaits(d) ==
    /\ dpc[d] = "remove"
    /\ \A c \in Client : conn[c].d # d
    /\ sock' = None
    /\ Die(d)

\* Accept fails, the deferred Remove runs, RunServer returns.
Exit(d) ==
    /\ dpc[d] = "remove"
    /\ sock' = None
    /\ Die(d)

Killed(d) ==
    /\ dpc[d] \notin {"off", "failed", "gone"}
    /\ Die(d)
    /\ UNCHANGED sock

\* idleReaper: one pass under the lock takes the idle sessions out.
ReapIdle(d) ==
    /\ dpc[d] \in {"listen", "sweep", "remove"}
    /\ doomed[d]["reaper"] = {} /\ table[d] \intersect old # {}
    /\ doomed' = [doomed EXCEPT ![d]["reaper"] = table[d] \intersect old]
    /\ table' = [table EXCEPT ![d] = @ \ old]
    /\ UNCHANGED <<daemonVars, sess, home, old, conn>>

\* The reaper and closeAll close one session after the other.
CloseDoomed(d) ==
    /\ \E k \in Closer : \E s \in doomed[d][k] :
         /\ doomed' = [doomed EXCEPT ![d][k] = @ \ {s}]
         /\ sess' = [sess EXCEPT ![s] = "closed"]
         /\ old' = old \ {s}
    /\ UNCHANGED <<daemonVars, table, home, conn>>

Age(s) ==
    /\ sess[s] = "open" /\ s \notin old
    /\ old' = old \union {s}
    /\ UNCHANGED <<daemonVars, table, doomed, sess, home, conn>>

-----------------------------------------------------------------------------
(* handleConn: one request at a time *)

\* createSession refuses early, before it forks.
CheckLimit(c) ==
    /\ conn[c].pc = "idle" /\ conn[c].up
    /\ Cardinality(Table(c)) < MaxSessions
    /\ Goto(c, "fork")
    /\ UNCHANGED <<daemonVars, sessVars>>

\* NewPTYSession, which may fail.
Fork(c) ==
    /\ conn[c].pc = "fork"
    /\ \/ \E s \in Sid :
            /\ sess[s] = "none" /\ \A t \in 1 .. s - 1 : sess[t] # "none"
            /\ sess' = [sess EXCEPT ![s] = "open"]
            /\ home' = [home EXCEPT ![s] = conn[c].d]
            /\ conn' = [conn EXCEPT ![c].pc = "insert", ![c].s = s]
       \/ Goto(c, "idle") /\ UNCHANGED <<sess, home>>
    /\ UNCHANGED <<daemonVars, table, doomed, old>>

\* The second check, under the lock that inserts.
Insert(c) ==
    /\ conn[c].pc = "insert"
    /\ IF Cardinality(Table(c)) < MaxSessions
       THEN /\ table' = [table EXCEPT ![conn[c].d] = @ \union {conn[c].s}]
            /\ conn' = [conn EXCEPT ![c].pc = "idle", ![c].s = None]
       ELSE Goto(c, "close") /\ UNCHANGED table
    /\ UNCHANGED <<daemonVars, doomed, sess, home, old>>

\* closeSession takes the session out of the table under the lock.
CloseSession(c, s) ==
    /\ conn[c].pc = "idle" /\ conn[c].up /\ s \in Table(c)
    /\ table' = [table EXCEPT ![conn[c].d] = @ \ {s}]
    /\ conn' = [conn EXCEPT ![c].pc = "close", ![c].s = s]
    /\ UNCHANGED <<daemonVars, doomed, sess, home, old>>

\* s.Close, after the lock has been released.
CloseHeld(c) ==
    /\ conn[c].pc = "close"
    /\ sess' = [sess EXCEPT ![conn[c].s] = "closed"]
    /\ old' = old \ {conn[c].s}
    /\ conn' = [conn EXCEPT ![c].pc = "idle", ![c].s = None]
    /\ UNCHANGED <<daemonVars, table, doomed, home>>

\* send_input, send_raw, send_control, read_output and resize look the session
\* up, and use it after the lock has been released.
GetSession(c, s) ==
    /\ conn[c].pc = "idle" /\ conn[c].up /\ s \in Table(c)
    /\ conn' = [conn EXCEPT ![c].pc = "use", ![c].s = s]
    /\ UNCHANGED <<daemonVars, sessVars>>

\* A resize does not count as use; nothing works on a closed session.
UseSession(c, touches) ==
    /\ conn[c].pc = "use"
    /\ old' = IF touches THEN old \ {conn[c].s} ELSE old
    /\ conn' = [conn EXCEPT ![c].pc = "idle", ![c].s = None]
    /\ UNCHANGED <<daemonVars, table, doomed, sess, home>>

\* Scan ends the handler when the client is gone; the sessions stay.
EndConn(c) ==
    /\ conn[c].pc = "idle" /\ ~conn[c].up
    /\ conn' = [conn EXCEPT ![c] = Unconnected("over")]
    /\ UNCHANGED <<daemonVars, sessVars>>

-----------------------------------------------------------------------------
StepServer(d) ==
    Lstat(d) \/ Clear(d) \/ Listen(d) \/ CloseListener(d) \/ Exit(d) \/ CloseDoomed(d)

StepConn(c) ==
    \/ Probe(c) \/ Exec(c) \/ Retry(c) \/ Connect(c)
    \/ Fork(c) \/ Insert(c) \/ CloseHeld(c) \/ EndConn(c)
    \/ \E touches \in BOOLEAN : UseSession(c, touches)

Request(c) ==
    \/ CheckLimit(c) \/ Hangup(c)
    \/ \E s \in Sid : CloseSession(c, s) \/ GetSession(c, s)

Step ==
    \/ \E d \in Daemon : StepServer(d) \/ Signal(d) \/ Killed(d) \/ ReapIdle(d)
    \/ \E c \in Client : StepConn(c) \/ Request(c)
    \/ \E s \in Sid : Age(s)

\* Start-ups and shutdowns under way.
Changing ==
    {<<"start", c>> : c \in {c \in Client : conn[c].pc = "exec"}}
      \union {<<"daemon", d>> : d \in {d \in Daemon : dpc[d] \in {"lstat", "clear", "bind", "sweep", "remove"}}}

NoteRace == raced' = (raced \/ \E x, y \in Changing' : x # y)

Next == Step /\ NoteRace

\* Processes and goroutines run; nobody has to send a request or a signal.
Fairness ==
    /\ \A d \in Daemon : WF_vars(StepServer(d) /\ NoteRace)
    /\ \A c \in Client : WF_vars(StepConn(c) /\ NoteRace)

Spec == Init /\ [][Next]_vars /\ Fairness

-----------------------------------------------------------------------------
(* Properties *)

Owners(s) ==
    {<<"table", d>> : d \in {d \in Daemon : s \in table[d]}}
      \union {o \in Closer \X Daemon : s \in doomed[o[2]][o[1]]}
      \union {<<"handler", c>> : c \in {c \in Client : conn[c].pc \in {"insert", "close"} /\ conn[c].s = s}}

\* A terminal that is open has exactly one owner that will close it, the table,
\* a handler, or the reaper's or closeAll's list, and one that is closed has
\* none: with create, close_session, the reaper and shutdown in any order, no
\* session leaks, none is closed twice, and none that a request can find is closed.
OneOwner == \A s \in Sid : Cardinality(Owners(s)) = IF sess[s] = "open" THEN 1 ELSE 0

\* The double check around the slow fork keeps the table within its limit.
WithinLimit == \A d \in Daemon : Cardinality(table[d]) <= MaxSessions

\* As long as start-ups and shutdowns do not overlap, a running daemon is the
\* one the socket path leads to, so its sessions can be reached again after a
\* disconnect.
NoOrphan == ~raced => \A d \in Daemon : dpc[d] = "listen" => sock = d

\* A daemon that was killed, at whatever point, leaves nothing that hinders the
\* next: as long as start-ups and shutdowns do not overlap, RunServer gives up
\* only because of a file that is not a socket, and the socket it removes is a
\* dead daemon's.  Whatever overlaps, the file that is not a socket stays: no
\* daemon gets to where it would remove or replace it.
CleanStart ==
    /\ ~raced => \A d \in Daemon :
          /\ dpc[d] = "failed" => sock = PlainFile
          /\ dpc[d] = "clear" => sock \in Daemon /\ dpc[sock] = "gone"
    /\ \A d \in Daemon : dpc[d] \notin {"off", "lstat", "failed", "gone"} => sock # PlainFile

\* Every client ends up connected or refused, every start-up and every shutdown
\* ends, and nothing but a table holds a session for ever.
Settles ==
    <>[](/\ \A c \in Client :
              conn[c].pc \notin {"new", "exec", "retry", "dial", "insert", "close"}
         /\ \A d \in Daemon :
              dpc[d] \in {"off", "listen", "failed", "gone"} /\ doomed[d] = NoneDoomed)

\* The daemons' tables are exact: every open terminal has one owner that will
\* close it, and the limit holds.
TableExact == TypeOK /\ OneOwner /\ WithinLimit

\* The socket path leads to the daemon that runs, and a daemon that was killed
\* does not keep the next one from it.
PathSound == NoOrphan /\ CleanStart
=============================================================================
