---------------------------- MODULE AiTmuxProofs ----------------------------
(* Proofs about AiTmux, for every number of clients, daemons and sessions and *)
(* every limit.                                                               *)
EXTENDS AiTmux, FiniteSetTheorems, TLAPS

-----------------------------------------------------------------------------
(* What the assignments to conn do, field by field *)

Label == {"new", "exec", "retry", "dial", "idle", "fork", "insert", "close", "use", "over"}

\* Only the connection of c moves.
Only(c) == \A b \in Client \ {c} : conn'[b] = conn[b]

\* A new label changes nothing else of the connection.
LEMMA GotoFields ==
    ASSUME TypeOK, NEW c \in Client, NEW l \in Label, Goto(c, l)
    PROVE  /\ conn' \in [Client -> ConnState] /\ Only(c)
           /\ conn'[c].pc = l /\ conn'[c].d = conn[c].d
           /\ conn'[c].s = conn[c].s /\ conn'[c].up = conn[c].up
BY ZenonT(60) DEF TypeOK, ConnState, Goto, Only, Label

\* A new label with another session: the daemon and the client stay.
LEMMA MoveFields ==
    ASSUME TypeOK, NEW c \in Client, NEW l \in Label, NEW s \in Sid \union {None},
           conn' = [conn EXCEPT ![c].pc = l, ![c].s = s]
    PROVE  /\ conn' \in [Client -> ConnState] /\ Only(c)
           /\ conn'[c].pc = l /\ conn'[c].d = conn[c].d
           /\ conn'[c].s = s /\ conn'[c].up = conn[c].up
<1>1. conn' = [conn EXCEPT ![c] = [conn[c] EXCEPT !.pc = l, !.s = s]]
  BY DEF TypeOK
<1>2. Only(c) /\ conn'[c] = [conn[c] EXCEPT !.pc = l, !.s = s]
  BY <1>1 DEF TypeOK, Only
<1> DEFINE D == Daemon \union {None}
           S == Sid \union {None}
           r == conn[c]
           q == conn'[c]
<1>3. ConnState = [pc : Label, d : D, s : S, up : BOOLEAN]
  BY DEF ConnState, Label
<1>4. r \in [pc : Label, d : D, s : S, up : BOOLEAN] /\ s \in S /\ q = [r EXCEPT !.pc = l, !.s = s]
  BY <1>2, <1>3 DEF TypeOK
<1> HIDE DEF D, S, r, q
<1>5. q.pc = l /\ q.s = s /\ q.d = r.d /\ q.up = r.up
  BY <1>4
<1>6. q \in [pc : Label, d : D, s : S, up : BOOLEAN]
  BY <1>4, Zenon
<1>7. conn'[c] \in ConnState
  BY <1>3, <1>6 DEF q
<1> QED BY <1>1, <1>2, <1>5, <1>7 DEF TypeOK, q, r

\* The client hangs up: the handler stays where it is.
LEMMA HangupFields ==
    ASSUME TypeOK, NEW c \in Client, Hangup(c)
    PROVE  /\ conn' \in [Client -> ConnState] /\ Only(c)
           /\ conn'[c].pc = conn[c].pc /\ conn'[c].d = conn[c].d /\ conn'[c].s = conn[c].s
BY DEF TypeOK, ConnState, Only, Hangup

\* A connection that begins or is over.
LEMMA ResetFields ==
    ASSUME TypeOK, NEW c \in Client, NEW r \in ConnState, conn' = [conn EXCEPT ![c] = r]
    PROVE  conn' \in [Client -> ConnState] /\ Only(c) /\ conn'[c] = r
BY DEF TypeOK, Only

\* The records a connection begins and ends with.
LEMMA UnconnectedFields ==
    ASSUME NEW d \in Daemon
    PROVE  /\ Unconnected("over") \in ConnState
           /\ Unconnected("over").pc = "over" /\ Unconnected("over").d = None
           /\ [Unconnected("idle") EXCEPT !.d = d] \in ConnState
           /\ [Unconnected("idle") EXCEPT !.d = d].pc = "idle"
           /\ [Unconnected("idle") EXCEPT !.d = d].d = d
BY DEF Unconnected, ConnState

\* The end of a daemon is the end of its connections, and of no other.
LEMMA DieFields ==
    ASSUME TypeOK, NEW d \in Daemon, Die(d)
    PROVE  /\ conn' \in [Client -> ConnState]
           /\ \A c \in Client : IF conn[c].d = d
                                THEN conn'[c].pc = "over" /\ conn'[c].d = None
                                ELSE conn'[c] = conn[c]
<1>1. Unconnected("over") \in ConnState
  BY DEF Unconnected, ConnState
<1>2. conn' = [c \in Client |-> IF conn[c].d = d THEN Unconnected("over") ELSE conn[c]]
  BY DEF Die
<1>3. Unconnected("over").pc = "over" /\ Unconnected("over").d = None
  BY DEF Unconnected
<1> QED BY <1>1, <1>2, <1>3 DEF TypeOK

-----------------------------------------------------------------------------
(* Types *)

\* Before the first client runs.
LEMMA InitType == Init => TypeOK
<1> SUFFICES ASSUME Init PROVE TypeOK
  OBVIOUS
<1>1. Unconnected("new") \in ConnState /\ Unconnected("new").d = None
  BY DEF Unconnected, ConnState
<1>2. conn \in [Client -> ConnState] /\ \A c \in Client : conn[c].d = None
  BY <1>1 DEF Init
<1>3. doomed \in [Daemon -> [Closer -> SUBSET Sid]]
  BY DEF Init, NoneDoomed
<1>4. raced \in BOOLEAN
  BY Zenon DEF Init
<1> QED BY <1>2, <1>3, <1>4 DEF Init, TypeOK

\* A handler at work belongs to a daemon, and one that has a session to close
\* knows which.
AtWork ==
    \A c \in Client :
        /\ conn[c].pc \in {"idle", "fork", "insert", "close", "use"} => conn[c].d \in Daemon
        /\ conn[c].pc \in {"insert", "close", "use"} => conn[c].s \in Sid

Serving == {"listen", "sweep", "remove"}

\* Every step keeps the types and the pointers of the handlers at work.
LEMMA NextType ==
    ASSUME TypeOK, AtWork, [Next]_vars
    PROVE  TypeOK' /\ AtWork'
<1> USE AiTmuxAssumption
<1> DEFINE Goal == TypeOK' /\ AtWork'
           ConnOK == /\ conn' \in [Client -> ConnState]
                     /\ \A c \in Client : conn'[c].d # None => dpc'[conn'[c].d] \in Serving
                     /\ AtWork'
           SessOK == /\ table' \in [Daemon -> SUBSET Sid] /\ doomed' \in [Daemon -> [Closer -> SUBSET Sid]]
                     /\ sess' \in [Sid -> {"none", "open", "closed"}]
                     /\ home' \in [Sid -> Daemon \union {None}] /\ old' \subseteq Sid
           DaemonOK == /\ sock' \in Daemon \union {PlainFile, None}
                       /\ dpc' \in [Daemon -> {"off", "lstat", "clear", "bind", "listen", "sweep", "remove",
                                           "failed", "gone"}]
<1>0. raced' \in BOOLEAN
  <2>1. CASE NoteRace
    BY <2>1, Zenon DEF NoteRace
  <2>2. CASE raced' = raced
    BY <2>2 DEF TypeOK
  <2> QED BY <2>1, <2>2 DEF Next, vars
<1>1. ASSUME ConnOK, SessOK, DaemonOK PROVE Goal
  BY <1>0, <1>1 DEF TypeOK, Serving
<1>2. UNCHANGED sessVars => SessOK
  BY DEF sessVars, TypeOK
<1>3. UNCHANGED daemonVars => DaemonOK
  BY DEF daemonVars, TypeOK
<1>4. ASSUME UNCHANGED conn, \A d \in Daemon : dpc[d] \in Serving => dpc'[d] \in Serving PROVE ConnOK
  BY <1>4 DEF TypeOK, ConnState, Serving, AtWork
<1>5. ASSUME NEW c \in Client, Only(c), conn' \in [Client -> ConnState],
             \A d \in Daemon : dpc[d] \in Serving => dpc'[d] \in Serving,
             conn'[c].d # None => dpc'[conn'[c].d] \in Serving,
             conn'[c].pc \in {"idle", "fork", "insert", "close", "use"} => conn'[c].d \in Daemon,
             conn'[c].pc \in {"insert", "close", "use"} => conn'[c].s \in Sid
      PROVE  ConnOK
  <2>1. ASSUME NEW b \in Client, b # c
        PROVE  /\ conn'[b].d # None => dpc'[conn'[b].d] \in Serving
               /\ conn'[b].pc \in {"idle", "fork", "insert", "close", "use"} => conn'[b].d \in Daemon
               /\ conn'[b].pc \in {"insert", "close", "use"} => conn'[b].s \in Sid
    <3>1. conn'[b] = conn[b] /\ conn[b].d \in Daemon \union {None}
      BY <1>5, <2>1 DEF Only, TypeOK, ConnState
    <3> QED BY <1>5, <3>1 DEF TypeOK, AtWork, Serving
  <2> QED BY <1>5, <2>1 DEF AtWork
<1>6. \A c \in Client : /\ conn[c].d \in Daemon \union {None} /\ conn[c].s \in Sid \union {None}
                        /\ conn[c].d # None => dpc[conn[c].d] \in Serving
  BY DEF TypeOK, ConnState, Serving
<1> HIDE DEF Goal, ConnOK, SessOK, DaemonOK
<1>7. ASSUME NEW c \in Client, Probe(c) \/ Retry(c) \/ CheckLimit(c) PROVE Goal
  <2>1. PICK l \in {"dial", "exec", "over", "fork"} : Goto(c, l) /\ (l = "fork" => conn[c].pc = "idle")
    BY <1>7 DEF Probe, Retry, CheckLimit
  <2>2. UNCHANGED <<daemonVars, sessVars>>
    BY <1>7 DEF Probe, Retry, CheckLimit
  <2>3. /\ conn' \in [Client -> ConnState] /\ Only(c)
        /\ conn'[c].pc = l /\ conn'[c].d = conn[c].d
    BY <2>1, GotoFields DEF Label
  <2>4. ConnOK
    BY <1>5, <1>6, <2>1, <2>2, <2>3 DEF daemonVars, AtWork
  <2> QED BY <1>1, <1>2, <1>3, <2>2, <2>4
<1>8. ASSUME NEW c \in Client, Exec(c) PROVE Goal
  <2>1. UNCHANGED <<sock, sessVars>> /\ conn[c].pc = "exec"
    BY <1>8 DEF Exec
  <2>2. DaemonOK /\ \A d \in Daemon : dpc[d] \in Serving => dpc'[d] \in Serving
    BY <1>8 DEF Exec, DaemonOK, TypeOK, Serving
  <2>3. PICK l \in {"retry", "over"} : Goto(c, l)
    BY <1>8 DEF Exec
  <2>4. /\ conn' \in [Client -> ConnState] /\ Only(c)
        /\ conn'[c].pc = l /\ conn'[c].d = conn[c].d
    BY <2>3, GotoFields DEF Label
  <2>5. ConnOK
    BY <1>5, <1>6, <2>2, <2>4
  <2> QED BY <1>1, <1>2, <2>1, <2>2, <2>5
<1>9. ASSUME NEW c \in Client, Connect(c) \/ EndConn(c) PROVE Goal
  <2>1. UNCHANGED <<daemonVars, sessVars>>
    BY <1>9 DEF Connect, EndConn
  <2>2. \/ conn' = [conn EXCEPT ![c] = [Unconnected("idle") EXCEPT !.d = sock]] /\ Answers
        \/ conn' = [conn EXCEPT ![c] = Unconnected("over")]
    BY <1>9 DEF Connect, EndConn
  <2>3. Answers => sock \in Daemon /\ dpc[sock] \in Serving
    BY DEF Answers, Serving
  <2>4. /\ conn' \in [Client -> ConnState] /\ Only(c)
        /\ \/ conn'[c].pc = "idle" /\ conn'[c].d \in Daemon /\ dpc[conn'[c].d] \in Serving
           \/ conn'[c].pc = "over" /\ conn'[c].d = None
    <3>1. CASE conn' = [conn EXCEPT ![c] = [Unconnected("idle") EXCEPT !.d = sock]] /\ Answers
      BY <2>3, <3>1, ResetFields, UnconnectedFields
    <3>2. CASE conn' = [conn EXCEPT ![c] = Unconnected("over")]
      <4>1. Unconnected("over") \in ConnState
        BY DEF Unconnected, ConnState
      <4>2. Unconnected("over").pc = "over" /\ Unconnected("over").d = None
        BY DEF Unconnected
      <4> QED BY <3>2, <4>1, <4>2, ResetFields
    <3> QED BY <2>2, <3>1, <3>2
  <2>5. ConnOK
    BY <1>5, <2>1, <2>4 DEF daemonVars
  <2> QED BY <1>1, <1>2, <1>3, <2>1, <2>5
<1>10. ASSUME NEW c \in Client, Hangup(c) PROVE Goal
  <2>1. UNCHANGED <<daemonVars, sessVars>>
    BY <1>10 DEF Hangup
  <2>2. ConnOK
    BY <1>5, <1>6, <1>10, <2>1, HangupFields DEF daemonVars, AtWork
  <2> QED BY <1>1, <1>2, <1>3, <2>1, <2>2
<1>11. ASSUME NEW d \in Daemon, Lstat(d) \/ Clear(d) \/ Listen(d) PROVE Goal
  <2>1. /\ UNCHANGED <<sessVars, conn>> /\ dpc[d] \in {"lstat", "clear", "bind"}
        /\ \E l \in {"bind", "failed", "clear", "listen"} : dpc' = [dpc EXCEPT ![d] = l]
        /\ sock' \in {sock, None, d}
    BY <1>11 DEF Lstat, Clear, Listen
  <2>2. DaemonOK /\ \A e \in Daemon : dpc[e] \in Serving => dpc'[e] \in Serving
    BY <2>1 DEF DaemonOK, TypeOK, Serving
  <2> QED BY <1>1, <1>2, <1>4, <2>1, <2>2
<1>12. ASSUME NEW d \in Daemon, Signal(d) PROVE Goal
  <2>1. DaemonOK /\ \A e \in Daemon : dpc[e] \in Serving => dpc'[e] \in Serving
    BY <1>12 DEF Signal, DaemonOK, TypeOK, Serving
  <2>2. SessOK
    BY <1>12 DEF Signal, SessOK, TypeOK, Closer
  <2> QED BY <1>1, <1>4, <1>12, <2>1, <2>2 DEF Signal
<1>13. ASSUME NEW d \in Daemon, CloseListener(d) PROVE Goal
  <2>1. DaemonOK /\ \A e \in Daemon : dpc[e] \in Serving => dpc'[e] \in Serving
    BY <1>13 DEF CloseListener, DaemonOK, TypeOK, Serving
  <2> QED BY <1>1, <1>2, <1>4, <1>13, <2>1 DEF CloseListener
<1>14. ASSUME NEW d \in Daemon, Exit(d) \/ Killed(d) PROVE Goal
  <2>1. Die(d) /\ sock' \in {sock, None}
    BY <1>14 DEF Exit, Killed
  <2>2. DaemonOK /\ \A e \in Daemon : e # d => dpc'[e] = dpc[e]
    BY <2>1 DEF Die, DaemonOK, TypeOK
  <2>3. SessOK
    <3>1. NoneDoomed \in [Closer -> SUBSET Sid]
      BY DEF NoneDoomed
    <3> QED BY <2>1, <3>1 DEF Die, SessOK, TypeOK
  <2>4. ConnOK
    <3>1. conn' \in [Client -> ConnState]
      BY <2>1, DieFields
    <3>2. ASSUME NEW c \in Client
          PROVE  /\ conn'[c].d # None => dpc'[conn'[c].d] \in Serving
                 /\ conn'[c].pc \in {"idle", "fork", "insert", "close", "use"} => conn'[c].d \in Daemon
                 /\ conn'[c].pc \in {"insert", "close", "use"} => conn'[c].s \in Sid
      <4>1. CASE conn[c].d = d
        BY <2>1, <4>1, DieFields
      <4>2. CASE conn[c].d # d
        <5>1. conn'[c] = conn[c]
          BY <2>1, <4>2, DieFields
        <5> QED BY <1>6, <2>2, <4>2, <5>1 DEF AtWork
      <4> QED BY <4>1, <4>2
    <3> QED BY <3>1, <3>2 DEF ConnOK, AtWork
  <2> QED BY <1>1, <2>2, <2>3, <2>4
<1>15. ASSUME NEW d \in Daemon, ReapIdle(d) \/ CloseDoomed(d) PROVE Goal
  <2>1. SessOK
    <3>1. CASE ReapIdle(d)
      BY <3>1 DEF ReapIdle, SessOK, TypeOK, Closer
    <3>2. CASE CloseDoomed(d)
      <4>1. PICK k \in Closer, s \in Sid :
                  /\ s \in doomed[d][k]
                  /\ doomed' = [doomed EXCEPT ![d][k] = @ \ {s}]
                  /\ sess' = [sess EXCEPT ![s] = "closed"] /\ old' = old \ {s}
        <5>1. PICK k \in Closer : \E s \in doomed[d][k] :
                    /\ doomed' = [doomed EXCEPT ![d][k] = @ \ {s}]
                    /\ sess' = [sess EXCEPT ![s] = "closed"] /\ old' = old \ {s}
          BY <3>2 DEF CloseDoomed
        <5>2. doomed[d][k] \subseteq Sid
          BY DEF TypeOK
        <5> QED BY <5>1, <5>2
      <4>2. UNCHANGED <<table, home>>
        BY <3>2 DEF CloseDoomed
      <4>3. doomed' \in [Daemon -> [Closer -> SUBSET Sid]]
        BY <4>1 DEF TypeOK
      <4>4. sess' \in [Sid -> {"none", "open", "closed"}] /\ old' \subseteq Sid
        BY <4>1 DEF TypeOK
      <4> QED BY <4>2, <4>3, <4>4 DEF SessOK, TypeOK
    <3> QED BY <1>15, <3>1, <3>2
  <2>2. UNCHANGED <<daemonVars, conn>>
    BY <1>15 DEF ReapIdle, CloseDoomed
  <2> QED BY <1>1, <1>3, <1>4, <2>1, <2>2 DEF daemonVars
<1>16. ASSUME NEW s \in Sid, Age(s) PROVE Goal
  <2>1. SessOK
    BY <1>16 DEF Age, SessOK, TypeOK
  <2> QED BY <1>1, <1>3, <1>4, <1>16, <2>1 DEF daemonVars, Age
\* The requests: the connection stays with its daemon.
<1>17. ASSUME NEW c \in Client, NEW l \in Label, NEW s \in Sid \union {None},
              UNCHANGED daemonVars, conn[c].d \in Daemon, l \in {"insert", "close", "use"} => s \in Sid,
              conn' = [conn EXCEPT ![c].pc = l, ![c].s = s], SessOK
       PROVE  Goal
  <2>1. /\ conn' \in [Client -> ConnState] /\ Only(c)
        /\ conn'[c].pc = l /\ conn'[c].d = conn[c].d /\ conn'[c].s = s
    BY <1>17, MoveFields, ZenonT(60)
  <2>2. ConnOK
    BY <1>5, <1>6, <1>17, <2>1 DEF daemonVars
  <2> QED BY <1>1, <1>3, <1>17, <2>2
<1>18. ASSUME NEW c \in Client, NEW l \in Label, Goto(c, l),
              UNCHANGED daemonVars, conn[c].d \in Daemon,
              l \in {"insert", "close", "use"} => conn[c].s \in Sid, SessOK
       PROVE  Goal
  <2>1. /\ conn' \in [Client -> ConnState] /\ Only(c)
        /\ conn'[c].pc = l /\ conn'[c].d = conn[c].d /\ conn'[c].s = conn[c].s
    BY <1>18, GotoFields
  <2>2. ConnOK
    BY <1>5, <1>6, <1>18, <2>1 DEF daemonVars
  <2> QED BY <1>1, <1>3, <1>18, <2>2
<1>19. ASSUME NEW c \in Client, Fork(c) PROVE Goal
  <2>1. conn[c].pc = "fork" /\ conn[c].d \in Daemon /\ UNCHANGED daemonVars
    BY <1>19 DEF Fork, AtWork
  <2>2. CASE Goto(c, "idle") /\ UNCHANGED <<sess, home>>
    <3>1. SessOK
      BY <1>2, <1>19, <2>2 DEF Fork, sessVars
    <3> QED BY <1>18, <2>1, <2>2, <3>1 DEF Label
  <2>3. ASSUME NEW s \in Sid,
               sess' = [sess EXCEPT ![s] = "open"], home' = [home EXCEPT ![s] = conn[c].d],
               conn' = [conn EXCEPT ![c].pc = "insert", ![c].s = s]
        PROVE  Goal
    <3>1. SessOK
      BY <1>19, <2>1, <2>3 DEF Fork, SessOK, TypeOK
    <3> QED BY <1>17, <2>1, <2>3, <3>1 DEF Label
  <2> QED BY <1>19, <2>2, <2>3 DEF Fork
<1>20. ASSUME NEW c \in Client, Insert(c) PROVE Goal
  <2>1. conn[c].pc = "insert" /\ conn[c].d \in Daemon /\ conn[c].s \in Sid /\ UNCHANGED daemonVars
    BY <1>20 DEF Insert, AtWork
  <2>2. SessOK
    BY <1>20, <2>1 DEF Insert, SessOK, TypeOK
  <2>3. CASE Goto(c, "close")
    BY <1>18, <2>1, <2>2, <2>3 DEF Label
  <2>4. CASE conn' = [conn EXCEPT ![c].pc = "idle", ![c].s = None]
    BY <1>17, <2>1, <2>2, <2>4 DEF Label
  <2> QED BY <1>20, <2>3, <2>4 DEF Insert
<1>21. ASSUME NEW c \in Client, NEW s \in Sid, CloseSession(c, s) \/ GetSession(c, s) PROVE Goal
  <2>1. /\ conn[c].pc = "idle" /\ conn[c].d \in Daemon /\ UNCHANGED daemonVars
        /\ \E l \in {"close", "use"} : conn' = [conn EXCEPT ![c].pc = l, ![c].s = s]
    BY <1>21 DEF CloseSession, GetSession, AtWork
  <2>2. SessOK
    <3>1. CASE CloseSession(c, s)
      <4>1. UNCHANGED <<doomed, sess, home, old>> /\ table' = [table EXCEPT ![conn[c].d] = @ \ {s}]
        BY <3>1 DEF CloseSession
      <4> QED BY <2>1, <4>1 DEF SessOK, TypeOK
    <3>2. CASE GetSession(c, s)
      BY <1>2, <3>2 DEF GetSession
    <3> QED BY <1>21, <3>1, <3>2
  <2> QED BY <1>17, <2>1, <2>2 DEF Label
<1>22. ASSUME NEW c \in Client, CloseHeld(c) \/ \E touches \in BOOLEAN : UseSession(c, touches)
       PROVE  Goal
  <2>1. /\ conn[c].pc \in {"close", "use"} /\ conn[c].d \in Daemon /\ UNCHANGED daemonVars
        /\ conn[c].s \in Sid /\ conn' = [conn EXCEPT ![c].pc = "idle", ![c].s = None]
    BY <1>22 DEF CloseHeld, UseSession, AtWork
  <2>2. SessOK
    BY <1>22, <2>1 DEF CloseHeld, UseSession, SessOK, TypeOK
  <2> QED BY <1>17, <2>1, <2>2 DEF Label
<1>23. ASSUME UNCHANGED vars PROVE Goal
  <2>1. UNCHANGED <<daemonVars, sessVars, conn>>
    BY <1>23 DEF vars
  <2> QED BY <1>1, <1>2, <1>3, <1>4, <2>1 DEF daemonVars
<1> QED
  BY <1>7, <1>8, <1>9, <1>10, <1>11, <1>12, <1>13, <1>14, <1>15, <1>16, <1>19, <1>20,
     <1>21, <1>22, <1>23
  DEF Next, Step, StepServer, StepConn, Request, Goal

-----------------------------------------------------------------------------
(* Ownership *)

\* The handler of c has s to insert or to close.
Holds(c, s) == conn[c].pc \in {"insert", "close"} /\ conn[c].s = s

\* An owner has an open session of its own daemon.
Home(s) ==
    /\ \A d \in Daemon : s \in table[d] => sess[s] = "open" /\ home[s] = d
    /\ \A d \in Daemon : \A k \in Closer : s \in doomed[d][k] => sess[s] = "open" /\ home[s] = d
    /\ \A c \in Client : Holds(c, s) => sess[s] = "open" /\ home[s] = conn[c].d

\* No two of them have the same one.
Apart(s) ==
    /\ \A d \in Daemon : \A k \in Closer : ~(s \in table[d] /\ s \in doomed[d][k])
    /\ \A d \in Daemon : ~(s \in doomed[d]["reaper"] /\ s \in doomed[d]["closeAll"])
    /\ \A c \in Client : Holds(c, s) => /\ \A d \in Daemon : s \notin table[d]
                                        /\ \A d \in Daemon : \A k \in Closer : s \notin doomed[d][k]
    /\ \A b, c \in Client : Holds(b, s) /\ Holds(c, s) => b = c

Owned(s) ==
    sess[s] = "open" => \/ \E d \in Daemon : s \in table[d]
                        \/ \E d \in Daemon : \E k \in Closer : s \in doomed[d][k]
                        \/ \E c \in Client : Holds(c, s)

One(s) == Home(s) /\ Apart(s) /\ Owned(s)

\* closeAll's list is empty until the signal arrives.
Quiet == \A d \in Daemon : dpc[d] \notin {"sweep", "remove"} => doomed[d]["closeAll"] = {}

\* In the beginning there is no session, and so no owner.
LEMMA InitOwned == Init => Quiet /\ \A s \in Sid : One(s)
<1> SUFFICES ASSUME Init PROVE Quiet /\ \A s \in Sid : One(s)
  OBVIOUS
<1>1. \A c \in Client : conn[c].pc = "new"
  BY DEF Init, Unconnected
<1>2. \A d \in Daemon : table[d] = {} /\ \A k \in Closer : doomed[d][k] = {}
  BY DEF Init, NoneDoomed
<1>3. \A s \in Sid : sess[s] = "none"
  BY DEF Init
<1>4. Quiet
  BY <1>2 DEF Quiet, Closer
<1> QED BY <1>1, <1>2, <1>3, <1>4 DEF One, Home, Apart, Owned, Holds, Closer

\* Only the signal fills closeAll's list.
LEMMA NextQuiet ==
    ASSUME TypeOK, Quiet, [Next]_vars
    PROVE  Quiet'
<1>2. ASSUME UNCHANGED <<dpc, doomed>> PROVE Quiet'
  BY <1>2 DEF Quiet
<1>3. ASSUME NEW c \in Client, Exec(c) PROVE Quiet'
  BY <1>3 DEF Quiet, Exec, TypeOK, sessVars
<1>4. ASSUME NEW d \in Daemon, Lstat(d) \/ Clear(d) \/ Listen(d) \/ CloseListener(d) PROVE Quiet'
  BY <1>4 DEF Quiet, Lstat, Clear, Listen, CloseListener, TypeOK, sessVars
<1>5. ASSUME NEW d \in Daemon, Signal(d) PROVE Quiet'
  <2>1. /\ dpc' = [dpc EXCEPT ![d] = "sweep"]
        /\ \A e \in Daemon : e # d => doomed'[e] = doomed[e]
    BY <1>5 DEF Signal, TypeOK
  <2> QED BY <2>1 DEF Quiet, TypeOK
<1>6. ASSUME NEW d \in Daemon, Exit(d) \/ Killed(d) PROVE Quiet'
  <2>1. /\ dpc' = [dpc EXCEPT ![d] = "gone"] /\ doomed' = [doomed EXCEPT ![d] = NoneDoomed]
    BY <1>6 DEF Exit, Killed, Die
  <2>2. NoneDoomed["closeAll"] = {}
    BY DEF NoneDoomed, Closer
  <2> QED BY <2>1, <2>2 DEF Quiet, TypeOK
<1>7. ASSUME NEW d \in Daemon, ReapIdle(d) PROVE Quiet'
  <2>1. UNCHANGED dpc /\ doomed' = [doomed EXCEPT ![d]["reaper"] = table[d] \intersect old]
    BY <1>7 DEF ReapIdle, daemonVars
  <2>2. \A e \in Daemon : doomed'[e]["closeAll"] = doomed[e]["closeAll"]
    BY <2>1 DEF TypeOK, Closer
  <2> QED BY <2>1, <2>2 DEF Quiet
<1>8. ASSUME NEW d \in Daemon, CloseDoomed(d) PROVE Quiet'
  <2>1. PICK k \in Closer, s \in Sid : doomed' = [doomed EXCEPT ![d][k] = @ \ {s}]
    <3>1. PICK k \in Closer : \E s \in doomed[d][k] : doomed' = [doomed EXCEPT ![d][k] = @ \ {s}]
      BY <1>8 DEF CloseDoomed
    <3>2. doomed[d][k] \subseteq Sid
      BY DEF TypeOK
    <3> QED BY <3>1, <3>2
  <2>2. UNCHANGED dpc
    BY <1>8 DEF CloseDoomed, daemonVars
  <2>3. \A e \in Daemon : doomed'[e]["closeAll"] \subseteq doomed[e]["closeAll"]
    BY <2>1 DEF TypeOK, Closer
  <2> QED BY <2>2, <2>3 DEF Quiet
<1>9. ASSUME NEW c \in Client, Request(c) \/ (StepConn(c) /\ ~Exec(c)) PROVE UNCHANGED <<dpc, doomed>>
  BY <1>9 DEF Request, StepConn, Probe, Retry, Connect, Fork, Insert, CloseHeld, EndConn, UseSession,
     CheckLimit, Hangup, CloseSession, GetSession, daemonVars, sessVars
<1>10. \A s \in Sid : Age(s) => UNCHANGED <<dpc, doomed>>
  BY DEF Age, daemonVars
<1>11. UNCHANGED vars => UNCHANGED <<dpc, doomed>>
  BY DEF vars, daemonVars, sessVars
<1> QED
  BY <1>2, <1>3, <1>4, <1>5, <1>6, <1>7, <1>8, <1>9, <1>10, <1>11 DEF Next, Step, StepServer

\* What keeps the owners of a session where they are.
Same(s) ==
    /\ \A d \in Daemon : s \in table'[d] <=> s \in table[d]
    /\ \A d \in Daemon : \A k \in Closer : s \in doomed'[d][k] <=> s \in doomed[d][k]
    /\ \A c \in Client : /\ Holds(c, s)' <=> Holds(c, s)
                         /\ Holds(c, s) => conn'[c].d = conn[c].d
    /\ sess'[s] = sess[s] /\ home'[s] = home[s]

\* A step that leaves the owners of s alone keeps the invariant of s.
LEMMA SameOne == ASSUME NEW s \in Sid, One(s), Same(s) PROVE One(s)'
<1>1. Home(s)'
  BY DEF One, Home, Same
<1>2. Apart(s)'
  BY DEF One, Apart, Same, Closer
<1>3. Owned(s)'
  BY DEF One, Owned, Same
<1> QED BY <1>1, <1>2, <1>3 DEF One

\* A handler that neither begins nor ceases to have s.
LEMMA OnlyHolds ==
    ASSUME NEW s \in Sid, NEW c \in Client, Only(c), Holds(c, s)' <=> Holds(c, s), conn'[c].d = conn[c].d
    PROVE  \A b \in Client : /\ Holds(b, s)' <=> Holds(b, s)
                             /\ Holds(b, s) => conn'[b].d = conn[b].d
BY DEF Only, Holds

\* The steps that leave every owner alone.
LEMMA FrameOwned ==
    ASSUME TypeOK, AtWork, NEW s \in Sid, One(s), UNCHANGED <<table, doomed, sess, home>>,
           \/ UNCHANGED conn
           \/ \E c \in Client : \/ Probe(c) \/ Exec(c) \/ Retry(c) \/ Connect(c) \/ Hangup(c)
                                \/ CheckLimit(c) \/ EndConn(c)
                                \/ \E t \in Sid : GetSession(c, t)
                                \/ \E touches \in BOOLEAN : UseSession(c, touches)
    PROVE  One(s)'
<1> USE AiTmuxAssumption
<1> SUFFICES \A c \in Client : /\ Holds(c, s)' <=> Holds(c, s)
                               /\ Holds(c, s) => conn'[c].d = conn[c].d
  BY SameOne DEF Same
<1>1. CASE UNCHANGED conn
  BY <1>1 DEF Holds
<1>2. ASSUME NEW c \in Client, NEW l \in Label, Goto(c, l), l \notin {"insert", "close"},
             conn[c].pc \notin {"insert", "close"}
      PROVE  \A b \in Client : /\ Holds(b, s)' <=> Holds(b, s)
                               /\ Holds(b, s) => conn'[b].d = conn[b].d
  <2>1. Only(c) /\ conn'[c].pc = l /\ conn'[c].d = conn[c].d
    BY <1>2, GotoFields
  <2> QED BY <1>2, <2>1, OnlyHolds DEF Holds
<1>3. ASSUME NEW c \in Client, NEW l \in Label, NEW t \in Sid \union {None},
             conn' = [conn EXCEPT ![c].pc = l, ![c].s = t], l \notin {"insert", "close"},
             conn[c].pc \notin {"insert", "close"}
      PROVE  \A b \in Client : /\ Holds(b, s)' <=> Holds(b, s)
                               /\ Holds(b, s) => conn'[b].d = conn[b].d
  <2>1. Only(c) /\ conn'[c].pc = l /\ conn'[c].d = conn[c].d
    BY <1>3, MoveFields
  <2> QED BY <1>3, <2>1, OnlyHolds DEF Holds
<1>4. ASSUME NEW c \in Client, Probe(c) \/ Exec(c) \/ Retry(c) \/ CheckLimit(c)
      PROVE  \A b \in Client : /\ Holds(b, s)' <=> Holds(b, s)
                               /\ Holds(b, s) => conn'[b].d = conn[b].d
  <2>1. /\ conn[c].pc \in {"new", "exec", "retry", "idle"}
        /\ \E l \in {"dial", "exec", "retry", "over", "fork"} : Goto(c, l)
    BY <1>4 DEF Probe, Exec, Retry, CheckLimit
  <2> QED BY <1>2, <2>1 DEF Label
<1>5. ASSUME NEW c \in Client, Connect(c) \/ EndConn(c)
      PROVE  \A b \in Client : /\ Holds(b, s)' <=> Holds(b, s)
                               /\ Holds(b, s) => conn'[b].d = conn[b].d
  <2>1. conn[c].pc \in {"dial", "idle"}
    BY <1>5 DEF Connect, EndConn
  <2>2. PICK r : conn' = [conn EXCEPT ![c] = r] /\ r.pc \in {"idle", "over"}
    BY <1>5 DEF Connect, EndConn, Unconnected
  <2>3. conn'[c] = r /\ Only(c)
    BY <2>2 DEF TypeOK, Only
  <2> QED BY <2>1, <2>2, <2>3 DEF Holds, Only
<1>6. ASSUME NEW c \in Client, Hangup(c)
      PROVE  \A b \in Client : /\ Holds(b, s)' <=> Holds(b, s)
                               /\ Holds(b, s) => conn'[b].d = conn[b].d
  <2>1. Only(c) /\ conn'[c].pc = conn[c].pc /\ conn'[c].d = conn[c].d /\ conn'[c].s = conn[c].s
    BY <1>6, HangupFields
  <2> QED BY <2>1, OnlyHolds DEF Holds
<1>7. ASSUME NEW c \in Client, NEW t \in Sid, GetSession(c, t)
      PROVE  \A b \in Client : /\ Holds(b, s)' <=> Holds(b, s)
                               /\ Holds(b, s) => conn'[b].d = conn[b].d
  BY <1>3, <1>7 DEF GetSession, Label
<1>8. ASSUME NEW c \in Client, NEW touches \in BOOLEAN, UseSession(c, touches)
      PROVE  \A b \in Client : /\ Holds(b, s)' <=> Holds(b, s)
                               /\ Holds(b, s) => conn'[b].d = conn[b].d
  BY <1>3, <1>8 DEF UseSession, Label
<1> QED BY <1>1, <1>4, <1>5, <1>6, <1>7, <1>8

\* The signal: what was in the table is now on closeAll's list, which was empty.
LEMMA SignalOwned ==
    ASSUME TypeOK, Quiet, NEW s \in Sid, One(s), NEW d \in Daemon, Signal(d)
    PROVE  One(s)'
<1>1. UNCHANGED <<sess, home, conn>> /\ doomed[d]["closeAll"] = {}
  BY DEF Signal, Quiet
<1>2. /\ table'[d] = {} /\ doomed'[d]["closeAll"] = table[d] /\ doomed'[d]["reaper"] = doomed[d]["reaper"]
      /\ \A e \in Daemon : e # d => table'[e] = table[e] /\ doomed'[e] = doomed[e]
  BY DEF Signal, TypeOK, Closer
<1>3. \A c \in Client : Holds(c, s)' <=> Holds(c, s)
  BY <1>1 DEF Holds
<1>4. CASE s \in table[d]
  <2>1. Home(s)'
    BY <1>1, <1>2, <1>3, <1>4 DEF One, Home, Closer
  <2>2. Apart(s)'
    BY <1>1, <1>2, <1>3, <1>4 DEF One, Home, Apart, Closer
  <2>3. Owned(s)'
    BY <1>2, <1>4 DEF Owned, Closer
  <2> QED BY <2>1, <2>2, <2>3 DEF One
<1>5. CASE s \notin table[d]
  <2>1. Same(s)
    BY <1>1, <1>2, <1>3, <1>5 DEF Same, Closer
  <2> QED BY <2>1, SameOne
<1> QED BY <1>4, <1>5

\* One pass of the reaper, whose list was empty.
LEMMA ReapOwned ==
    ASSUME TypeOK, NEW s \in Sid, One(s), NEW d \in Daemon, ReapIdle(d)
    PROVE  One(s)'
<1>1. UNCHANGED <<sess, home, conn>> /\ doomed[d]["reaper"] = {}
  BY DEF ReapIdle
<1>2. /\ table'[d] = table[d] \ old /\ doomed'[d]["reaper"] = table[d] \intersect old
      /\ doomed'[d]["closeAll"] = doomed[d]["closeAll"]
      /\ \A e \in Daemon : e # d => table'[e] = table[e] /\ doomed'[e] = doomed[e]
  BY DEF ReapIdle, TypeOK, Closer
<1>3. \A c \in Client : Holds(c, s)' <=> Holds(c, s)
  BY <1>1 DEF Holds
<1>4. CASE s \in table[d] /\ s \in old
  <2>1. Home(s)'
    BY <1>1, <1>2, <1>3, <1>4 DEF One, Home, Closer
  <2>2. Apart(s)'
    BY <1>1, <1>2, <1>3, <1>4 DEF One, Home, Apart, Closer
  <2>3. Owned(s)'
    BY <1>2, <1>4 DEF Owned, Closer
  <2> QED BY <2>1, <2>2, <2>3 DEF One
<1>5. CASE ~(s \in table[d] /\ s \in old)
  <2>1. Same(s)
    BY <1>1, <1>2, <1>3, <1>5 DEF Same, Closer
  <2> QED BY <2>1, SameOne
<1> QED BY <1>4, <1>5

\* Nobody but the list had the session that it closes.
LEMMA DoomedOwned ==
    ASSUME TypeOK, NEW s \in Sid, One(s), NEW d \in Daemon, CloseDoomed(d)
    PROVE  One(s)'
<1>1. PICK k \in Closer : \E t \in doomed[d][k] : /\ doomed' = [doomed EXCEPT ![d][k] = @ \ {t}]
                                                  /\ sess' = [sess EXCEPT ![t] = "closed"]
  BY DEF CloseDoomed
<1>2. PICK t \in doomed[d][k] : /\ doomed' = [doomed EXCEPT ![d][k] = @ \ {t}]
                                /\ sess' = [sess EXCEPT ![t] = "closed"]
  BY <1>1
<1>3. UNCHANGED <<table, home, conn>>
  BY DEF CloseDoomed
<1>4. /\ doomed'[d][k] = doomed[d][k] \ {t}
      /\ \A e \in Daemon : \A j \in Closer : e # d \/ j # k => doomed'[e][j] = doomed[e][j]
  BY <1>2 DEF TypeOK
<1>5. \A c \in Client : Holds(c, s)' <=> Holds(c, s)
  BY <1>3 DEF Holds
<1>6. CASE s = t
  <2>1. /\ sess'[s] = "closed" /\ \A e \in Daemon : s \notin table[e]
        /\ \A c \in Client : ~Holds(c, s)
    BY <1>2, <1>6 DEF TypeOK, One, Home, Apart
  <2>2. ASSUME NEW e \in Daemon, NEW j \in Closer PROVE s \notin doomed'[e][j]
    BY <1>2, <1>4, <1>6 DEF One, Home, Apart, Closer
  <2> QED BY <1>3, <1>5, <2>1, <2>2 DEF One, Home, Apart, Owned, Closer
<1>7. CASE s # t
  <2>1. sess'[s] = sess[s]
    BY <1>2, <1>7 DEF TypeOK
  <2>2. \A e \in Daemon : \A j \in Closer : s \in doomed'[e][j] <=> s \in doomed[e][j]
    BY <1>4, <1>7
  <2> QED BY <1>3, <1>5, <2>1, <2>2, SameOne DEF Same
<1> QED BY <1>6, <1>7

\* The process ends: its sessions are closed and all their owners were its own.
LEMMA DieOwned ==
    ASSUME TypeOK, NEW s \in Sid, One(s), NEW d \in Daemon, Die(d)
    PROVE  One(s)'
<1>1. /\ table'[d] = {} /\ \A k \in Closer : doomed'[d][k] = {}
      /\ \A e \in Daemon : e # d => table'[e] = table[e] /\ doomed'[e] = doomed[e]
  BY DEF Die, NoneDoomed, TypeOK
<1>2. sess'[s] = (IF home[s] = d THEN "closed" ELSE sess[s]) /\ home'[s] = home[s]
  BY DEF Die
<1>3. \A c \in Client : IF conn[c].d = d THEN conn'[c].pc = "over" ELSE conn'[c] = conn[c]
  BY DieFields
<1>4. \A c \in Client : Holds(c, s)' => Holds(c, s) /\ conn[c].d # d
  BY <1>3 DEF Holds
<1>5. CASE home[s] = d
  <2>1. sess'[s] = "closed" /\ \A e \in Daemon : s \notin table'[e] /\ \A k \in Closer : s \notin doomed'[e][k]
    BY <1>1, <1>2, <1>5 DEF One, Home
  <2>2. \A c \in Client : ~Holds(c, s)'
    BY <1>4, <1>5 DEF One, Home
  <2> QED BY <2>1, <2>2 DEF One, Home, Apart, Owned, Closer
<1>6. CASE home[s] # d
  <2>1. \A e \in Daemon : /\ s \in table'[e] <=> s \in table[e]
                          /\ \A k \in Closer : s \in doomed'[e][k] <=> s \in doomed[e][k]
    BY <1>1, <1>6 DEF One, Home
  <2>2. \A c \in Client : /\ Holds(c, s)' <=> Holds(c, s)
                          /\ Holds(c, s) => conn'[c].d = conn[c].d
    BY <1>3, <1>4, <1>6 DEF One, Home, Holds
  <2> QED BY <1>2, <1>6, <2>1, <2>2, SameOne DEF Same
<1> QED BY <1>5, <1>6

\* A session that is forked had no owner; the handler is its first.
LEMMA ForkOwned ==
    ASSUME TypeOK, AtWork, NEW s \in Sid, One(s), NEW c \in Client, Fork(c)
    PROVE  One(s)'
<1>1. conn[c].pc = "fork" /\ conn[c].d \in Daemon /\ UNCHANGED <<table, doomed>>
  BY DEF Fork, AtWork
<1>2. CASE Goto(c, "idle") /\ UNCHANGED <<sess, home>>
  <2>1. Only(c) /\ conn'[c].pc = "idle" /\ conn'[c].d = conn[c].d
    BY <1>2, GotoFields DEF Label
  <2>2. \A b \in Client : /\ Holds(b, s)' <=> Holds(b, s)
                          /\ Holds(b, s) => conn'[b].d = conn[b].d
    BY <1>1, <2>1, OnlyHolds DEF Holds
  <2> QED BY <1>1, <1>2, <2>2, SameOne DEF Same
<1>3. ASSUME NEW t \in Sid, sess[t] = "none",
             sess' = [sess EXCEPT ![t] = "open"], home' = [home EXCEPT ![t] = conn[c].d],
             conn' = [conn EXCEPT ![c].pc = "insert", ![c].s = t]
      PROVE  One(s)'
  <2>1. Only(c) /\ conn'[c].pc = "insert" /\ conn'[c].d = conn[c].d /\ conn'[c].s = t
    BY <1>3, MoveFields DEF Label
  <2>2. CASE s = t
    <3>1. sess'[s] = "open" /\ home'[s] = conn'[c].d
      BY <1>3, <2>1, <2>2 DEF TypeOK
    <3>2. \A b \in Client : Holds(b, s)' <=> b = c
      BY <1>1, <1>3, <2>1, <2>2 DEF Only, One, Home, Holds
    <3>3. \A d \in Daemon : s \notin table'[d] /\ \A k \in Closer : s \notin doomed'[d][k]
      BY <1>1, <1>3, <2>2 DEF One, Home
    <3> QED BY <3>1, <3>2, <3>3 DEF One, Home, Apart, Owned, Closer
  <2>3. CASE s # t
    <3>1. sess'[s] = sess[s] /\ home'[s] = home[s]
      BY <1>3, <2>3 DEF TypeOK
    <3>2. \A b \in Client : /\ Holds(b, s)' <=> Holds(b, s)
                            /\ Holds(b, s) => conn'[b].d = conn[b].d
      BY <1>1, <2>1, <2>3, OnlyHolds DEF Holds
    <3> QED BY <1>1, <3>1, <3>2, SameOne DEF Same
  <2> QED BY <2>2, <2>3
<1> QED BY <1>2, <1>3 DEF Fork

\* The handler gives its session to the table, or keeps it to close it.
LEMMA InsertOwned ==
    ASSUME TypeOK, AtWork, NEW s \in Sid, One(s), NEW c \in Client, Insert(c)
    PROVE  One(s)'
<1>1. /\ conn[c].pc = "insert" /\ conn[c].d \in Daemon /\ conn[c].s \in Sid
      /\ UNCHANGED <<doomed, sess, home>>
  BY DEF Insert, AtWork
<1>2. CASE Goto(c, "close") /\ UNCHANGED table
  <2>1. Only(c) /\ conn'[c].pc = "close" /\ conn'[c].d = conn[c].d /\ conn'[c].s = conn[c].s
    BY <1>2, GotoFields DEF Label
  <2>2. \A b \in Client : /\ Holds(b, s)' <=> Holds(b, s)
                          /\ Holds(b, s) => conn'[b].d = conn[b].d
    BY <1>1, <2>1, OnlyHolds DEF Holds
  <2> QED BY <1>1, <1>2, <2>2, SameOne DEF Same
<1>3. ASSUME table' = [table EXCEPT ![conn[c].d] = @ \union {conn[c].s}],
             conn' = [conn EXCEPT ![c].pc = "idle", ![c].s = None]
      PROVE  One(s)'
  <2>1. Only(c) /\ conn'[c].pc = "idle" /\ conn'[c].d = conn[c].d
    BY <1>3, MoveFields DEF Label
  <2>2. /\ table'[conn[c].d] = table[conn[c].d] \union {conn[c].s}
        /\ \A e \in Daemon : e # conn[c].d => table'[e] = table[e]
    BY <1>1, <1>3 DEF TypeOK
  <2>3. CASE s = conn[c].s
    <3>1. Holds(c, s) /\ sess[s] = "open" /\ home[s] = conn[c].d
      BY <1>1, <2>3 DEF One, Home, Holds
    <3>2. \A b \in Client : ~Holds(b, s)'
      BY <2>1, <3>1 DEF Only, One, Apart, Holds
    <3>3. \A e \in Daemon : /\ s \in table'[e] <=> e = conn[c].d
                            /\ \A k \in Closer : s \notin doomed'[e][k]
      BY <1>1, <2>2, <2>3, <3>1 DEF One, Apart
    <3> QED BY <1>1, <3>1, <3>2, <3>3 DEF One, Home, Apart, Owned, Closer
  <2>4. CASE s # conn[c].s
    <3>1. \A b \in Client : /\ Holds(b, s)' <=> Holds(b, s)
                            /\ Holds(b, s) => conn'[b].d = conn[b].d
      BY <1>1, <2>1, <2>4, OnlyHolds DEF Holds
    <3>2. \A e \in Daemon : s \in table'[e] <=> s \in table[e]
      BY <2>2, <2>4
    <3> QED BY <1>1, <3>1, <3>2, SameOne DEF Same
  <2> QED BY <2>3, <2>4
<1> QED BY <1>2, <1>3 DEF Insert

\* close_session: from the table to the handler, in one step under the lock.
LEMMA TakeOwned ==
    ASSUME TypeOK, AtWork, NEW s \in Sid, One(s), NEW c \in Client, NEW t \in Sid, CloseSession(c, t)
    PROVE  One(s)'
<1>1. /\ conn[c].pc = "idle" /\ conn[c].d \in Daemon /\ t \in table[conn[c].d]
      /\ UNCHANGED <<doomed, sess, home>>
  BY DEF CloseSession, AtWork, Table
<1>2. Only(c) /\ conn'[c].pc = "close" /\ conn'[c].d = conn[c].d /\ conn'[c].s = t
  BY MoveFields DEF CloseSession, Label
<1>3. /\ table'[conn[c].d] = table[conn[c].d] \ {t}
      /\ \A e \in Daemon : e # conn[c].d => table'[e] = table[e]
  BY <1>1 DEF CloseSession, TypeOK
<1>4. CASE s = t
  <2>1. sess[s] = "open" /\ home[s] = conn[c].d
    BY <1>1, <1>4 DEF One, Home
  <2>2. \A b \in Client : Holds(b, s)' <=> b = c
    BY <1>1, <1>2, <1>4 DEF Only, One, Apart, Holds
  <2>3. \A e \in Daemon : s \notin table'[e] /\ \A k \in Closer : s \notin doomed'[e][k]
    BY <1>1, <1>3, <1>4 DEF One, Home, Apart
  <2> QED BY <1>1, <1>2, <2>1, <2>2, <2>3 DEF One, Home, Apart, Owned, Closer
<1>5. CASE s # t
  <2>1. \A b \in Client : /\ Holds(b, s)' <=> Holds(b, s)
                          /\ Holds(b, s) => conn'[b].d = conn[b].d
    BY <1>1, <1>2, <1>5, OnlyHolds DEF Holds
  <2>2. \A e \in Daemon : s \in table'[e] <=> s \in table[e]
    BY <1>3, <1>5
  <2> QED BY <1>1, <2>1, <2>2, SameOne DEF Same
<1> QED BY <1>4, <1>5

\* Nobody but the handler had the session that it closes.
LEMMA HeldOwned ==
    ASSUME TypeOK, AtWork, NEW s \in Sid, One(s), NEW c \in Client, CloseHeld(c)
    PROVE  One(s)'
<1>1. /\ conn[c].pc = "close" /\ conn[c].s \in Sid /\ UNCHANGED <<table, doomed, home>>
      /\ sess' = [sess EXCEPT ![conn[c].s] = "closed"]
  BY SMTT(40) DEF CloseHeld, AtWork
<1>2. Only(c) /\ conn'[c].pc = "idle" /\ conn'[c].d = conn[c].d
  BY MoveFields DEF CloseHeld, Label
<1>3. CASE s = conn[c].s
  <2>1. Holds(c, s) /\ sess'[s] = "closed"
    BY <1>1, <1>3 DEF Holds, TypeOK
  <2>2. \A b \in Client : ~Holds(b, s)'
    BY <1>2, <2>1 DEF Only, One, Apart, Holds
  <2>3. \A e \in Daemon : s \notin table'[e] /\ \A k \in Closer : s \notin doomed'[e][k]
    BY <1>1, <2>1 DEF One, Apart
  <2> QED BY <2>1, <2>2, <2>3 DEF One, Home, Apart, Owned, Closer
<1>4. CASE s # conn[c].s
  <2>1. \A b \in Client : /\ Holds(b, s)' <=> Holds(b, s)
                          /\ Holds(b, s) => conn'[b].d = conn[b].d
    BY <1>1, <1>2, <1>4, OnlyHolds DEF Holds
  <2>2. sess'[s] = sess[s]
    BY <1>1, <1>4 DEF TypeOK
  <2> QED BY <1>1, <2>1, <2>2, SameOne DEF Same
<1> QED BY <1>3, <1>4

\* Every step keeps one owner for s, or closes it with the last one.
LEMMA NextOwned ==
    ASSUME TypeOK, AtWork, Quiet, NEW s \in Sid, One(s), [Next]_vars
    PROVE  One(s)'
<1> DEFINE Goal == One(s)'
<1>1. ASSUME NEW c \in Client, StepConn(c) \/ Request(c) PROVE Goal
  <2>1. ASSUME \/ Probe(c) \/ Exec(c) \/ Retry(c) \/ Connect(c) \/ Hangup(c)
               \/ CheckLimit(c) \/ EndConn(c)
               \/ \E t \in Sid : GetSession(c, t)
               \/ \E touches \in BOOLEAN : UseSession(c, touches)
        PROVE  Goal
    <3>1. UNCHANGED <<table, doomed, sess, home>>
      BY <2>1 DEF Probe, Exec, Retry, Connect, Hangup, CheckLimit, EndConn, GetSession, UseSession, sessVars
    <3> QED BY <2>1, <3>1, FrameOwned
  <2> QED BY <1>1, <2>1, ForkOwned, InsertOwned, HeldOwned, TakeOwned DEF StepConn, Request
<1>2. ASSUME NEW d \in Daemon, Lstat(d) \/ Clear(d) \/ Listen(d) \/ CloseListener(d) PROVE Goal
  <2>1. UNCHANGED <<table, doomed, sess, home, conn>>
    BY <1>2 DEF Lstat, Clear, Listen, CloseListener, sessVars
  <2> QED BY <2>1, FrameOwned
<1>3. ASSUME NEW d \in Daemon, Exit(d) \/ Killed(d) PROVE Goal
  BY <1>3, DieOwned DEF Exit, Killed
<1>4. ASSUME NEW t \in Sid, Age(t) PROVE Goal
  <2>1. UNCHANGED <<table, doomed, sess, home, conn>>
    BY <1>4 DEF Age
  <2> QED BY <2>1, FrameOwned
<1>5. ASSUME UNCHANGED vars PROVE Goal
  <2>1. UNCHANGED <<table, doomed, sess, home, conn>>
    BY <1>5 DEF vars, sessVars
  <2> QED BY <2>1, FrameOwned
<1> HIDE DEF Goal
<1>6. ASSUME NEW d \in Daemon, StepServer(d) \/ Signal(d) \/ Killed(d) \/ ReapIdle(d) PROVE Goal
  BY <1>2, <1>3, <1>6, SignalOwned, ReapOwned, DoomedOwned DEF StepServer, Goal
<1> QED BY <1>1, <1>4, <1>5, <1>6 DEF Next, Step, Goal

-----------------------------------------------------------------------------
(* The limit *)

\* A table can be counted.
LEMMA TableFinite == ASSUME TypeOK, NEW d \in Daemon PROVE IsFiniteSet(table[d])
<1>1. IsFiniteSet(Sid)
  BY FS_Interval, AiTmuxAssumption DEF Sid
<1> QED BY <1>1, FS_Subset DEF TypeOK

\* The empty tables are within the limit.
LEMMA InitLimit == Init => WithinLimit
BY FS_EmptySet, AiTmuxAssumption DEF Init, WithinLimit

\* Only Insert makes a table grow, and it has counted under the same lock.
LEMMA NextLimit ==
    ASSUME TypeOK, AtWork, WithinLimit, [Next]_vars
    PROVE  WithinLimit'
<1> USE AiTmuxAssumption
<1>1. ASSUME \A d \in Daemon : table'[d] \subseteq table[d] PROVE WithinLimit'
  <2> SUFFICES ASSUME NEW d \in Daemon PROVE Cardinality(table'[d]) <= MaxSessions
    BY DEF WithinLimit
  <2>1. /\ Cardinality(table'[d]) \in Nat /\ Cardinality(table[d]) \in Nat
        /\ Cardinality(table'[d]) <= Cardinality(table[d])
    BY <1>1, TableFinite, FS_Subset, FS_CardinalityType
  <2> QED BY <2>1 DEF WithinLimit
<1>2. ASSUME NEW c \in Client, Insert(c) PROVE WithinLimit'
  <2>1. conn[c].d \in Daemon /\ conn[c].s \in Sid
    BY <1>2 DEF Insert, AtWork
  <2>2. CASE UNCHANGED table
    BY <1>1, <2>2
  <2>3. ASSUME Cardinality(table[conn[c].d]) < MaxSessions,
               table' = [table EXCEPT ![conn[c].d] = @ \union {conn[c].s}]
        PROVE  WithinLimit'
    <3> DEFINE d == conn[c].d
               s == conn[c].s
    <3>1. /\ Cardinality(table[d]) \in Nat
          /\ Cardinality(table[d] \union {s}) = Cardinality(table[d])
               \/ Cardinality(table[d] \union {s}) = Cardinality(table[d]) + 1
      BY <2>1, TableFinite, FS_AddElement, FS_CardinalityType
    <3>2. table'[d] = table[d] \union {s} /\ \A e \in Daemon : e # d => table'[e] = table[e]
      BY <2>1, <2>3 DEF TypeOK
    <3>0. Cardinality(table[d]) < MaxSessions
      BY <2>3
    <3> HIDE DEF d, s
    <3>3. Cardinality(table'[d]) <= MaxSessions
      BY <3>0, <3>1, <3>2
    <3> QED BY <3>2, <3>3 DEF WithinLimit
  <2> QED BY <1>2, <2>2, <2>3 DEF Insert, Table
<1>3. ASSUME NEW d \in Daemon, Signal(d) \/ Exit(d) \/ Killed(d) \/ ReapIdle(d) PROVE WithinLimit'
  <2>1. \A e \in Daemon : table'[e] \subseteq table[e]
    BY <1>3 DEF Signal, Exit, Killed, Die, ReapIdle, TypeOK
  <2> QED BY <1>1, <2>1
<1>4. ASSUME NEW c \in Client, NEW s \in Sid, CloseSession(c, s) PROVE WithinLimit'
  <2>1. \A e \in Daemon : table'[e] \subseteq table[e]
    BY <1>4 DEF CloseSession, AtWork, TypeOK
  <2> QED BY <1>1, <2>1
<1>5. ASSUME UNCHANGED table PROVE WithinLimit'
  BY <1>1, <1>5
<1>6. ASSUME NEW c \in Client, StepConn(c) \/ Request(c),
             ~Insert(c), \A s \in Sid : ~CloseSession(c, s)
      PROVE  UNCHANGED table
  BY <1>6 DEF StepConn, Request, Probe, Exec, Retry, Connect, Hangup, CheckLimit, EndConn, GetSession,
     UseSession, Fork, CloseHeld, sessVars
<1>7. ASSUME NEW d \in Daemon, StepServer(d), ~Exit(d) PROVE UNCHANGED table
  BY <1>7 DEF StepServer, Lstat, Clear, Listen, CloseListener, CloseDoomed, sessVars
<1>8. \A s \in Sid : Age(s) => UNCHANGED table
  BY DEF Age
<1>9. UNCHANGED vars => UNCHANGED table
  BY DEF vars, sessVars
<1> QED BY <1>2, <1>3, <1>4, <1>5, <1>6, <1>7, <1>8, <1>9 DEF Next, Step

-----------------------------------------------------------------------------
(* One owner each, counted *)

\* The set that OneOwner counts is a singleton, or empty.
LEMMA OwnersCounted ==
    ASSUME TypeOK, NEW s \in Sid, One(s)
    PROVE  Cardinality(Owners(s)) = IF sess[s] = "open" THEN 1 ELSE 0
<1>1. CASE sess[s] # "open"
  <2>1. Owners(s) = {}
    <3>1. /\ \A d \in Daemon : s \notin table[d]
          /\ \A d \in Daemon : \A k \in Closer : s \notin doomed[d][k]
          /\ \A c \in Client : ~Holds(c, s)
      BY <1>1 DEF One, Home
    <3> QED BY <3>1 DEF Owners, Holds
  <2> QED BY <1>1, <2>1, FS_EmptySet
<1>2. CASE sess[s] = "open"
  <2>1. \E o : Owners(s) = {o}
    <3>1. ASSUME NEW d \in Daemon, s \in table[d] PROVE Owners(s) = {<<"table", d>>}
      <4>1. /\ \A e \in Daemon : s \in table[e] <=> e = d
            /\ \A e \in Daemon : \A k \in Closer : s \notin doomed[e][k]
            /\ \A c \in Client : ~Holds(c, s)
        BY <3>1 DEF One, Home, Apart
      <4> QED BY <4>1 DEF Owners, Holds
    <3>2. ASSUME NEW d \in Daemon, NEW k \in Closer, s \in doomed[d][k] PROVE Owners(s) = {<<k, d>>}
      <4>1. /\ \A e \in Daemon : s \notin table[e]
            /\ \A e \in Daemon : \A j \in Closer : s \in doomed[e][j] <=> e = d /\ j = k
            /\ \A c \in Client : ~Holds(c, s)
        BY <3>2 DEF One, Home, Apart, Closer
      <4> QED BY <4>1 DEF Owners, Holds
    <3>3. ASSUME NEW c \in Client, Holds(c, s) PROVE Owners(s) = {<<"handler", c>>}
      <4>1. /\ \A d \in Daemon : s \notin table[d]
            /\ \A d \in Daemon : \A k \in Closer : s \notin doomed[d][k]
            /\ \A b \in Client : Holds(b, s) <=> b = c
        BY <3>3 DEF One, Apart
      <4> QED BY <4>1 DEF Owners, Holds
    <3> QED BY <1>2, <3>1, <3>2, <3>3 DEF One, Owned
  <2> QED BY <1>2, <2>1, FS_Singleton
<1> QED BY <1>1, <1>2

-----------------------------------------------------------------------------
(* The running daemon and the socket path *)

Starting(c) == conn[c].pc = "exec"
Busy(d) == dpc[d] \in {"lstat", "clear", "bind", "sweep", "remove"}

\* At most one start-up or shutdown is under way.
Alone ==
    /\ \A b, c \in Client : Starting(b) /\ Starting(c) => b = c
    /\ \A d, e \in Daemon : Busy(d) /\ Busy(e) => d = e
    /\ \A c \in Client : \A d \in Daemon : ~(Starting(c) /\ Busy(d))

\* A daemon that listens has the path, and nobody is about to take it away.
Reachable ==
    \A d \in Daemon : dpc[d] = "listen" =>
        /\ sock = d
        /\ \A c \in Client : ~Starting(c)
        /\ \A e \in Daemon : ~Busy(e)

\* The path leads to a daemon that has bound it and has not unlinked it, and no
\* daemon is past Lstat while a file that is not a socket is there.
PathKept ==
    /\ sock \in Daemon => dpc[sock] \in {"listen", "sweep", "gone"}
    /\ \A d \in Daemon : dpc[d] \notin {"off", "lstat", "failed", "gone"} => sock # PlainFile

\* A start-up clears a dead daemon's socket and then finds the path free.
PathFree ==
    \A d \in Daemon :
        /\ dpc[d] = "failed" => sock = PlainFile
        /\ dpc[d] = "clear" => sock \in Daemon /\ dpc[sock] = "gone"
        /\ dpc[d] = "bind" => sock = None

Orderly == ~raced => Alone /\ Reachable /\ PathFree

\* No daemon listens in the beginning.
LEMMA InitOrderly == Init => PathKept /\ Orderly
<1> SUFFICES ASSUME Init PROVE PathKept /\ Alone /\ Reachable /\ PathFree
  BY DEF Orderly
<1>1. \A c \in Client : conn[c].pc = "new"
  BY DEF Init, Unconnected
<1>2. \A d \in Daemon : dpc[d] = "off"
  BY DEF Init
<1>3. sock \notin Daemon
  BY AiTmuxAssumption DEF Init, Daemon
<1> QED BY <1>1, <1>2, <1>3 DEF Alone, Reachable, PathKept, PathFree, Starting, Busy

\* What the history variable records.
LEMMA NotRaced == ASSUME NoteRace, ~raced' PROVE ~raced /\ Alone'
<1>1. ~raced /\ \A x, y \in Changing' : x = y
  BY DEF NoteRace
<1>2. \A c \in Client : Starting(c)' => <<"start", c>> \in Changing'
  BY DEF Starting, Changing
<1>3. \A d \in Daemon : Busy(d)' => <<"daemon", d>> \in Changing'
  BY DEF Busy, Changing
<1>4. \A b, c \in Client : Starting(b)' /\ Starting(c)' => b = c
  <2>1. \A b, c \in Client : Starting(b)' /\ Starting(c)' => <<"start", b>> = <<"start", c>>
    BY <1>1, <1>2
  <2> QED BY <2>1
<1>5. \A d, e \in Daemon : Busy(d)' /\ Busy(e)' => d = e
  <2>1. \A d, e \in Daemon : Busy(d)' /\ Busy(e)' => <<"daemon", d>> = <<"daemon", e>>
    BY <1>1, <1>3
  <2> QED BY <2>1
<1>6. \A c \in Client : \A d \in Daemon : ~(Starting(c)' /\ Busy(d)')
  <2>1. \A c \in Client : \A d \in Daemon : Starting(c)' /\ Busy(d)' => <<"start", c>> = <<"daemon", d>>
    BY <1>1, <1>2, <1>3
  <2>2. \A c \in Client : \A d \in Daemon : <<"start", c>> # <<"daemon", d>>
    OBVIOUS
  <2> QED BY <2>1, <2>2
<1> QED BY <1>1, <1>4, <1>5, <1>6 DEF Alone

\* With one start-up or shutdown at a time, the listener keeps its path.
LEMMA StepReachable ==
    ASSUME TypeOK, AtWork, Alone, Reachable, Step
    PROVE  Reachable'
<1> USE AiTmuxAssumption
<1>1. ASSUME UNCHANGED daemonVars, \A c \in Client : Starting(c)' => Starting(c) PROVE Reachable'
  BY <1>1 DEF Reachable, Busy, daemonVars
<1>2. ASSUME NEW c \in Client, NEW l \in Label, Goto(c, l), UNCHANGED daemonVars, l # "exec"
      PROVE  Reachable'
  <2>1. Only(c) /\ conn'[c].pc = l
    BY <1>2, GotoFields
  <2> QED BY <1>1, <1>2, <2>1 DEF Only, Starting
<1>3. ASSUME NEW c \in Client, NEW l \in Label, NEW s \in Sid \union {None},
             conn' = [conn EXCEPT ![c].pc = l, ![c].s = s], UNCHANGED daemonVars, l # "exec"
      PROVE  Reachable'
  <2>1. Only(c) /\ conn'[c].pc = l
    BY <1>3, MoveFields
  <2> QED BY <1>1, <1>3, <2>1 DEF Only, Starting
\* A client that finds nobody at the path may start a daemon: none listens.
<1>4. ASSUME NEW c \in Client, Probe(c) PROVE Reachable'
  <2>1. UNCHANGED daemonVars
    BY <1>4 DEF Probe
  <2>2. CASE Answers
    <3>1. Goto(c, "dial")
      BY <1>4, <2>2 DEF Probe
    <3> QED BY <1>2, <2>1, <3>1 DEF Label
  <2>3. CASE ~Answers
    <3>1. \A d \in Daemon : dpc[d] # "listen"
      BY <2>3 DEF Answers, Reachable
    <3> QED BY <2>1, <3>1 DEF Reachable, daemonVars
  <2> QED BY <2>2, <2>3
<1>5. ASSUME NEW c \in Client, Exec(c) PROVE Reachable'
  <2>1. \A d \in Daemon : dpc[d] # "listen"
    BY <1>5 DEF Exec, Starting, Reachable
  <2>2. \A d \in Daemon : dpc'[d] # "listen"
    BY <1>5, <2>1 DEF Exec, TypeOK
  <2> QED BY <2>2 DEF Reachable
<1>6. ASSUME NEW c \in Client, Retry(c) \/ CheckLimit(c) PROVE Reachable'
  <2>1. UNCHANGED daemonVars /\ \E l \in {"dial", "over", "fork"} : Goto(c, l)
    BY <1>6 DEF Retry, CheckLimit
  <2> QED BY <1>2, <2>1 DEF Label
<1>7. ASSUME NEW c \in Client, Connect(c) \/ EndConn(c) PROVE Reachable'
  <2>1. PICK r : conn' = [conn EXCEPT ![c] = r] /\ r.pc \in {"idle", "over"}
    BY <1>7 DEF Connect, EndConn, Unconnected
  <2>2. \A b \in Client : Starting(b)' => Starting(b)
    BY <2>1 DEF TypeOK, Starting
  <2> QED BY <1>1, <1>7, <2>2 DEF Connect, EndConn
<1>8. ASSUME NEW c \in Client, Hangup(c) PROVE Reachable'
  <2>1. \A b \in Client : Starting(b)' => Starting(b)
    BY <1>8, HangupFields DEF Only, Starting
  <2> QED BY <1>1, <1>8, <2>1 DEF Hangup
<1>9. ASSUME NEW c \in Client, Fork(c) \/ Insert(c) \/ CloseHeld(c) PROVE Reachable'
  <2>1. UNCHANGED daemonVars
    BY <1>9 DEF Fork, Insert, CloseHeld
  <2>2. CASE \E l \in {"idle", "close"} : Goto(c, l)
    BY <1>2, <2>1, <2>2 DEF Label
  <2>3. CASE \E l \in {"idle", "insert"} : \E s \in Sid \union {None} :
                 conn' = [conn EXCEPT ![c].pc = l, ![c].s = s]
    BY <1>3, <2>1, <2>3 DEF Label
  <2> QED BY <1>9, <2>2, <2>3 DEF Fork, Insert, CloseHeld
<1>10. ASSUME NEW c \in Client, NEW s \in Sid, CloseSession(c, s) \/ GetSession(c, s) PROVE Reachable'
  <2>1. UNCHANGED daemonVars /\ \E l \in {"close", "use"} : conn' = [conn EXCEPT ![c].pc = l, ![c].s = s]
    BY <1>10 DEF CloseSession, GetSession
  <2> QED BY <1>3, <2>1 DEF Label
<1>11. ASSUME NEW c \in Client, NEW touches \in BOOLEAN, UseSession(c, touches) PROVE Reachable'
  BY <1>3, <1>11 DEF UseSession, Label
\* A daemon that starts or shuts down is the only one that does, and none listens.
<1>12. ASSUME NEW d \in Daemon, Lstat(d) \/ Clear(d) \/ CloseListener(d) PROVE Reachable'
  <2>1. Busy(d) /\ \E l \in {"bind", "failed", "clear", "remove"} : dpc' = [dpc EXCEPT ![d] = l]
    BY <1>12 DEF Lstat, Clear, CloseListener, Busy
  <2> QED BY <2>1 DEF Reachable, TypeOK
<1>13. ASSUME NEW d \in Daemon, Listen(d) PROVE Reachable'
  <2>1. Busy(d) /\ UNCHANGED conn
    BY <1>13 DEF Listen, Busy
  <2>2. CASE dpc' = [dpc EXCEPT ![d] = "failed"]
    BY <2>1, <2>2 DEF Reachable, TypeOK
  <2>3. CASE sock' = d /\ dpc' = [dpc EXCEPT ![d] = "listen"]
    <3>1. \A e \in Daemon : e # d => dpc'[e] # "listen" /\ ~Busy(e)'
      BY <2>1, <2>3 DEF Reachable, Alone, Busy, TypeOK
    <3>2. ~Busy(d)' /\ \A c \in Client : ~Starting(c)'
      BY <2>1, <2>3 DEF Alone, Starting, Busy, TypeOK
    <3> QED BY <2>3, <3>1, <3>2 DEF Reachable
  <2> QED BY <1>13, <2>2, <2>3 DEF Listen
<1>14. ASSUME NEW d \in Daemon, Signal(d) PROVE Reachable'
  <2>1. dpc[d] = "listen" /\ dpc' = [dpc EXCEPT ![d] = "sweep"]
    BY <1>14 DEF Signal
  <2>2. \A e \in Daemon : dpc[e] = "listen" => e = d
    BY <2>1 DEF Reachable
  <2> QED BY <2>1, <2>2 DEF Reachable, TypeOK
<1>15. ASSUME NEW d \in Daemon, Exit(d) \/ Killed(d) PROVE Reachable'
  <2>1. /\ dpc[d] = "listen" \/ Busy(d)
        /\ dpc' = [dpc EXCEPT ![d] = "gone"]
    BY <1>15 DEF Exit, Killed, Die, Busy, TypeOK
  <2>2. \A e \in Daemon : dpc[e] = "listen" => e = d
    BY <2>1 DEF Reachable
  <2> QED BY <2>1, <2>2 DEF Reachable, TypeOK
<1>16. ASSUME NEW d \in Daemon, ReapIdle(d) \/ CloseDoomed(d) PROVE Reachable'
  BY <1>1, <1>16 DEF ReapIdle, CloseDoomed, Starting
<1>17. ASSUME NEW s \in Sid, Age(s) PROVE Reachable'
  BY <1>1, <1>17 DEF Age, Starting
<1> QED
  BY <1>4, <1>5, <1>6, <1>7, <1>8, <1>9, <1>10, <1>11, <1>12, <1>13, <1>14, <1>15, <1>16, <1>17
  DEF Step, StepServer, StepConn, Request

\* Only RunServer touches the path, and Exec and Die where a daemon is.
LEMMA StepPath ==
    ASSUME TypeOK, Step
    PROVE  \/ UNCHANGED daemonVars
           \/ \E d \in Daemon :
                 \/ dpc[d] = "off" /\ dpc' = [dpc EXCEPT ![d] = "lstat"] /\ sock' = sock
                 \/ Lstat(d) \/ Clear(d) \/ Listen(d) \/ CloseListener(d)
                 \/ dpc[d] = "listen" /\ dpc' = [dpc EXCEPT ![d] = "sweep"] /\ sock' = sock
                 \/ dpc[d] = "remove" /\ dpc' = [dpc EXCEPT ![d] = "gone"] /\ sock' = None
                 \/ /\ dpc[d] \notin {"off", "failed", "gone"}
                    /\ dpc' = [dpc EXCEPT ![d] = "gone"] /\ sock' = sock
<1> DEFINE Goal ==
      \/ UNCHANGED daemonVars
      \/ \E d \in Daemon :
            \/ dpc[d] = "off" /\ dpc' = [dpc EXCEPT ![d] = "lstat"] /\ sock' = sock
            \/ Lstat(d) \/ Clear(d) \/ Listen(d) \/ CloseListener(d)
            \/ dpc[d] = "listen" /\ dpc' = [dpc EXCEPT ![d] = "sweep"] /\ sock' = sock
            \/ dpc[d] = "remove" /\ dpc' = [dpc EXCEPT ![d] = "gone"] /\ sock' = None
            \/ /\ dpc[d] \notin {"off", "failed", "gone"}
               /\ dpc' = [dpc EXCEPT ![d] = "gone"] /\ sock' = sock
<1>1. ASSUME NEW d \in Daemon, StepServer(d) \/ Signal(d) \/ Killed(d) \/ ReapIdle(d) PROVE Goal
  <2>1. CASE ReapIdle(d) \/ CloseDoomed(d)
    BY <2>1 DEF ReapIdle, CloseDoomed
  <2>2. CASE Signal(d)
    BY <2>2 DEF Signal
  <2>3. CASE Exit(d)
    BY <2>3 DEF Exit, Die
  <2>4. CASE Killed(d)
    BY <2>4 DEF Killed, Die
  <2> HIDE DEF Lstat, Clear, Listen, CloseListener
  <2> QED BY <1>1, <2>1, <2>2, <2>3, <2>4 DEF StepServer
<1>2. ASSUME NEW c \in Client, StepConn(c) \/ Request(c) PROVE Goal
  <2>1. CASE Exec(c)
    BY <2>1 DEF Exec, daemonVars
  <2>2. CASE ~Exec(c)
    <3>1. UNCHANGED daemonVars
      BY <1>2, <2>2 DEF StepConn, Request, Probe, Retry, Connect, Fork, Insert, CloseHeld,
        EndConn, UseSession, CheckLimit, Hangup, CloseSession, GetSession
    <3> QED BY <3>1
  <2> QED BY <2>1, <2>2
<1>3. ASSUME NEW s \in Sid, Age(s) PROVE Goal
  BY <1>3 DEF Age
<1> QED BY <1>1, <1>2, <1>3 DEF Step

\* The path and the daemons that have to do with it.
LEMMA StepKept ==
    ASSUME TypeOK, PathKept, Step
    PROVE  PathKept'
<1> USE AiTmuxAssumption DEF TypeOK
<1>0. None \notin Daemon /\ PlainFile \notin Daemon
  BY DEF Daemon
<1>1. CASE UNCHANGED daemonVars
  BY <1>1 DEF daemonVars, PathKept
<1>2. ASSUME NEW d \in Daemon,
             dpc[d] = "off" /\ dpc' = [dpc EXCEPT ![d] = "lstat"] /\ sock' = sock
      PROVE  PathKept'
  BY <1>2 DEF PathKept
<1>3. ASSUME NEW d \in Daemon, Lstat(d) PROVE PathKept'
  <2>1. /\ sock = None => dpc' = [dpc EXCEPT ![d] = "bind"]
        /\ sock = PlainFile => dpc' = [dpc EXCEPT ![d] = "failed"]
        /\ sock \in Daemon => dpc' = [dpc EXCEPT ![d] = "clear"]
    BY <1>0, <1>3 DEF Lstat
  <2>2. dpc[d] = "lstat" /\ sock' = sock
    BY <1>3 DEF Lstat
  <2> QED BY <1>0, <2>1, <2>2 DEF PathKept
<1>4. ASSUME NEW d \in Daemon, Clear(d) \/ CloseListener(d) PROVE PathKept'
  BY <1>0, <1>4 DEF PathKept, Clear, CloseListener
<1>5. ASSUME NEW d \in Daemon, Listen(d) PROVE PathKept'
  BY <1>0, <1>5 DEF PathKept, Listen
<1>6. ASSUME NEW d \in Daemon,
             dpc[d] = "listen" /\ dpc' = [dpc EXCEPT ![d] = "sweep"] /\ sock' = sock
      PROVE  PathKept'
  BY <1>6 DEF PathKept
<1>7. ASSUME NEW d \in Daemon, dpc' = [dpc EXCEPT ![d] = "gone"], sock' = None \/ sock' = sock
      PROVE  PathKept'
  BY <1>0, <1>7 DEF PathKept
<1> QED BY <1>1, <1>2, <1>3, <1>4, <1>5, <1>6, <1>7, StepPath

\* One start-up or shutdown at a time: what it finds at the path stays.
LEMMA StepFree ==
    ASSUME TypeOK, PathKept, Alone, Reachable, PathFree, Step
    PROVE  PathFree'
<1> USE AiTmuxAssumption DEF TypeOK
<1>0. None \notin Daemon /\ PlainFile \notin Daemon
  BY DEF Daemon
<1>1. CASE UNCHANGED daemonVars
  BY <1>1 DEF daemonVars, PathFree
<1>2. ASSUME NEW d \in Daemon,
             dpc[d] = "off" /\ dpc' = [dpc EXCEPT ![d] = "lstat"] /\ sock' = sock
      PROVE  PathFree'
  BY <1>2 DEF PathFree
<1>3. ASSUME NEW d \in Daemon, Lstat(d) PROVE PathFree'
  <2>1. /\ sock = None => dpc' = [dpc EXCEPT ![d] = "bind"]
        /\ sock = PlainFile => dpc' = [dpc EXCEPT ![d] = "failed"]
        /\ sock \in Daemon => dpc' = [dpc EXCEPT ![d] = "clear"]
    BY <1>0, <1>3 DEF Lstat
  <2>2. dpc[d] = "lstat" /\ sock' = sock
    BY <1>3 DEF Lstat
  <2>3. sock \in Daemon => dpc[sock] = "gone" /\ sock # d
    BY <2>2 DEF PathKept, Reachable, Alone, Busy
  <2>4. \A e \in Daemon : e # d => dpc'[e] = dpc[e] /\ dpc[e] \notin {"clear", "bind"}
    BY <2>1, <2>2 DEF Alone, Busy
  <2> QED BY <1>0, <2>1, <2>2, <2>3, <2>4 DEF PathFree
<1>4. ASSUME NEW d \in Daemon, Clear(d) \/ CloseListener(d)
      PROVE  PathFree'
  <2>1. Busy(d) /\ sock' = None /\ sock # PlainFile
        /\ \E l \in {"bind", "remove"} : dpc' = [dpc EXCEPT ![d] = l]
    BY <1>4 DEF Clear, CloseListener, Busy, PathKept
  <2>2. \A e \in Daemon : e # d => dpc'[e] = dpc[e] /\ dpc[e] \notin {"clear", "bind"}
    BY <2>1 DEF Alone, Busy
  <2> QED BY <1>0, <2>1, <2>2 DEF PathFree
<1>5. ASSUME NEW d \in Daemon, Listen(d) PROVE PathFree'
  <2>1. Busy(d) /\ sock = None /\ sock' = d /\ dpc' = [dpc EXCEPT ![d] = "listen"]
    BY <1>5 DEF Listen, Busy, PathFree
  <2>2. \A e \in Daemon : e # d => dpc'[e] = dpc[e] /\ dpc[e] \notin {"clear", "bind"}
    BY <2>1 DEF Alone, Busy
  <2> QED BY <1>0, <2>1, <2>2 DEF PathFree
<1>6. ASSUME NEW d \in Daemon,
             dpc[d] = "listen" /\ dpc' = [dpc EXCEPT ![d] = "sweep"] /\ sock' = sock
      PROVE  PathFree'
  BY <1>6 DEF PathFree, Reachable, Busy
<1>7. ASSUME NEW d \in Daemon,
             dpc[d] = "remove" /\ dpc' = [dpc EXCEPT ![d] = "gone"] /\ sock' = None
      PROVE  PathFree'
  <2>1. \A e \in Daemon : e # d => dpc'[e] = dpc[e] /\ dpc[e] \notin {"clear", "bind"}
    BY <1>7 DEF Alone, Busy
  <2>2. sock # PlainFile
    BY <1>7 DEF PathKept
  <2> QED BY <1>7, <2>1, <2>2 DEF PathFree
<1>8. ASSUME NEW d \in Daemon, dpc' = [dpc EXCEPT ![d] = "gone"] /\ sock' = sock
      PROVE  PathFree'
  BY <1>8 DEF PathFree
<1> QED BY <1>1, <1>2, <1>3, <1>4, <1>5, <1>6, <1>7, <1>8, StepPath

\* Either an overlap is recorded or there is none.
LEMMA NextOrderly ==
    ASSUME TypeOK, AtWork, PathKept, Orderly, [Next]_vars
    PROVE  PathKept' /\ Orderly'
<1>1. CASE UNCHANGED vars
  BY <1>1 DEF vars, daemonVars, Orderly, Alone, Reachable, PathKept, PathFree, Starting, Busy
<1>2. CASE Next /\ ~raced'
  BY <1>2, NotRaced, StepReachable, StepKept, StepFree DEF Next, Orderly
<1>3. CASE Next /\ raced'
  BY <1>3, StepKept DEF Next, Orderly
<1> QED BY <1>1, <1>2, <1>3

-----------------------------------------------------------------------------
(* The theorems *)

\* The inductive invariant: types and pointers of the handlers at work, closeAll's
\* list empty until the signal, one owner of the session's own daemon for every
\* open session, the limit, a path that is bound by a daemon that had bound it, and,
\* before two start-ups or shutdowns overlap, a path that leads to the only daemon
\* that runs and is free, or a dead daemon's, for one that starts.
AInv ==
    /\ TypeOK /\ AtWork /\ Quiet
    /\ \A s \in Sid : One(s)
    /\ WithinLimit
    /\ PathKept /\ Orderly

\* In every behaviour of clients, daemons, reapers and handlers, kills included.
THEOREM Invariant == Spec => []AInv
<1>1. Init => AInv
  <2> SUFFICES ASSUME Init PROVE AInv
    OBVIOUS
  <2>1. AtWork
    BY DEF Init, Unconnected, AtWork
  <2> QED BY <2>1, InitType, InitOwned, InitLimit, InitOrderly DEF AInv
<1>2. ASSUME AInv, [Next]_vars PROVE AInv'
  <2>1. TypeOK /\ AtWork /\ Quiet /\ WithinLimit /\ PathKept /\ Orderly
    BY <1>2 DEF AInv
  <2>2. TypeOK' /\ AtWork'
    BY <1>2, <2>1, NextType
  <2>3. Quiet' /\ WithinLimit' /\ PathKept' /\ Orderly'
    BY <1>2, <2>1, NextQuiet, NextLimit, NextOrderly
  <2>4. ASSUME NEW s \in Sid PROVE One(s)'
    <3>1. One(s)
      BY <1>2 DEF AInv
    <3> QED BY <1>2, <2>1, <3>1, NextOwned
  <2>5. (\A s \in Sid : One(s))'
    BY <2>4 DEF Sid
  <2> QED BY <2>2, <2>3, <2>5 DEF AInv
<1> QED BY <1>1, <1>2, PTL DEF Spec

\* Whatever create, close_session, the idle reaper, shutdown and kills do to one
\* another, every open terminal has exactly one owner that will close it, a
\* closed one has none, and no table exceeds maxAiTmuxSessions.
THEOREM TableCorrect == Spec => []TableExact
<1>1. AInv => TableExact
  BY OwnersCounted DEF AInv, TableExact, OneOwner
<1> QED BY <1>1, Invariant, PTL

\* While start-ups and shutdowns do not overlap, the daemon that runs is the one
\* that the next ai-tmux client reaches, and a kill never hinders the next
\* start-up: RunServer fails only on a file that is not a socket, and such a file
\* is never removed.
THEOREM PathCorrect == Spec => []PathSound
<1>1. AInv => NoOrphan
  BY DEF AInv, Orderly, Reachable, NoOrphan
<1>2. AInv => CleanStart
  BY DEF AInv, Orderly, PathKept, PathFree, CleanStart
<1>3. AInv => PathSound
  BY <1>1, <1>2 DEF PathSound
<1> QED BY <1>3, Invariant, PTL
=============================================================================
