------------------------ MODULE SessionManagerProofs ------------------------
(* Proofs about SessionManager, for every set of sessions and of requests,  *)
(* every limit, and with the reaper on or off.                              *)
EXTENDS SessionManager, FiniteSetTheorems, TLAPS

-----------------------------------------------------------------------------
(* The inductive invariant *)

LockLabels == {"reget", "write", "use", "auto", "judge", "take", "ask", "asking",
               "entered", "stage", "deliver", "unlock"}
CloseLabels == {"delete", "clear", "teardown"}

\* Which tool can be where, and that it has its session, and a secret, there.
Control(r) ==
    /\ pc[r] # "new" => op[r] \in Op
    /\ pc[r] \in {"dial", "made", "add", "added"} => op[r] = "create"
    /\ pc[r] \in CloseLabels => op[r] \in {"create", "close", "detach"}
    /\ pc[r] = "respond" => op[r] \in {"create", "list"}
    /\ pc[r] \in {"get", "lock"} \union LockLabels => op[r] \notin {"create", "list"}
    /\ pc[r] = "lock" => op[r] # "get_session_state"
    /\ pc[r] = "reget" => op[r] \in {"read_output", "prepare_secret", "send_secret"}
    /\ pc[r] \in {"write", "use", "auto", "judge"} => op[r] \in {"send_input", "read_output"}
    /\ pc[r] = "take" => op[r] = "send_secret"
    /\ pc[r] \in {"ask", "asking", "entered"} => op[r] \in {"prepare_secret", "send_secret"}
    /\ pc[r] = "stage" => op[r] = "prepare_secret"
    /\ pc[r] \in Labels \ {"new", "dial", "respond", "done"} => sid[r] \in Id
    /\ pc[r] = "respond" /\ op[r] = "create" => sid[r] \in Id
    /\ held[r] # None <=> pc[r] \in {"judge", "entered", "stage", "deliver"}

ControlOK == \A r \in Request : Control(r)

\* The lock channel of a session has the token of the request that is between
\* LockSession and UnlockSession on it: one at a time.
HasLock(r) == pc[r] \in LockLabels \/ (pc[r] \in CloseLabels /\ op[r] # "create")

LockExact == \A s \in Id, r \in Request : lock[s] = r <=> HasLock(r) /\ sid[r] = s

\* A request that will register or tear down a session has it to itself.
Holds(r, s) == sid[r] = s /\ pc[r] \in {"made", "add", "clear", "teardown"}

OneKeeper ==
    /\ \A s \in sessions \union toClose : obj[s] = "open" /\ \A r \in Request : ~Holds(r, s)
    /\ sessions \intersect toClose = {}
    /\ \A s \in Id, r \in Request : Holds(r, s) =>
          obj[s] = "open" /\ \A q \in Request : Holds(q, s) => q = r

\* Nobody has heard of a session before it exists.
BornFirst ==
    /\ \A s \in known : obj[s] # "unborn"
    /\ \A r \in Request : sid[r] # None => obj[sid[r]] # "unborn"

TInv ==
    /\ TypeOK /\ ControlOK /\ LockExact
    /\ OneKeeper /\ BornFirst /\ NoLeak
    /\ IsFiniteSet(sessions) /\ WithinLimit

-----------------------------------------------------------------------------
\* Before the first call.
LEMMA InitTInv == Init => TInv
<1> SUFFICES ASSUME Init PROVE TInv
  OBVIOUS
<1> USE ManagerAssumption DEF Init
<1>1. TypeOK
  <2>1. old \in [Id -> BOOLEAN] /\ cancelled \in [Request -> BOOLEAN]
    BY Zenon
  <2> QED BY <2>1 DEF TypeOK, Labels
<1>2. ControlOK
  BY DEF ControlOK, Control, LockLabels, CloseLabels
<1>3. LockExact
  BY DEF LockExact, HasLock, LockLabels, CloseLabels
<1>4. OneKeeper /\ BornFirst /\ NoLeak
  BY DEF OneKeeper, BornFirst, NoLeak, Holds
<1>5. IsFiniteSet(sessions) /\ WithinLimit
  BY SMTT(40) DEF WithinLimit
<1> QED BY <1>1, <1>2, <1>3, <1>4, <1>5 DEF TInv

\* Types and control.
LEMMA NextControl ==
    ASSUME TypeOK, ControlOK, [Next]_vars
    PROVE  TypeOK' /\ ControlOK'
<1> USE ManagerAssumption
<1> USE DEF TypeOK, ControlOK, Control, Labels, LockLabels, CloseLabels, Goto, TearDown
<1> DEFINE Goal == TypeOK' /\ ControlOK'
<1>1. ASSUME NEW r \in Request, Arrive(r) PROVE Goal
  BY <1>1 DEF Arrive
<1>2. ASSUME NEW r \in Request, Cancel(r) PROVE Goal
  BY <1>2 DEF Cancel
<1>3. ASSUME NEW r \in Request, Respond(r) PROVE Goal
  BY <1>3 DEF Respond
<1>4. ASSUME NEW r \in Request, DialOk(r) PROVE Goal
  BY <1>4 DEF DialOk
<1>5. ASSUME NEW r \in Request, DialFailed(r) PROVE Goal
  BY <1>5 DEF DialFailed
<1>6. ASSUME NEW r \in Request, CheckBeforeAdd(r) PROVE Goal
  BY <1>6 DEF CheckBeforeAdd
<1>7. ASSUME NEW r \in Request, Add(r) PROVE Goal
  BY <1>7 DEF Add
<1>8. ASSUME NEW r \in Request, CheckAfterAdd(r) PROVE Goal
  BY <1>8 DEF CheckAfterAdd
<1>9. ASSUME NEW r \in Request, FirstGet(r) PROVE Goal
  <2>1. pc' = [pc EXCEPT ![r] = "lock"] \/ pc' = [pc EXCEPT ![r] = "done"]
    BY <1>9 DEF FirstGet, Get, AfterGet
  <2>2. pc'[r] = "lock" => op[r] # "get_session_state"
    BY <1>9 DEF FirstGet, Get, AfterGet
  <2>3. old' \in [Id -> BOOLEAN]
    BY <1>9, ZenonT(60) DEF FirstGet, Get
  <2> QED BY <1>9, <2>1, <2>2, <2>3 DEF FirstGet, Get
<1>10. ASSUME NEW r \in Request, LockSession(r) PROVE Goal
  <2>1. \/ pc' = [pc EXCEPT ![r] = AfterLock(op[r])] \/ pc' = [pc EXCEPT ![r] = "done"]
    BY <1>10 DEF LockSession
  <2>2. /\ op[r] = "send_input" => AfterLock(op[r]) = "write"
        /\ op[r] \in {"close", "detach"} => AfterLock(op[r]) = "delete"
        /\ op[r] \notin {"send_input", "close", "detach"} => AfterLock(op[r]) = "reget"
    BY DEF AfterLock
  <2>3. op[r] \in {"send_input", "read_output", "close", "detach", "prepare_secret",
                   "send_secret"}
    BY <1>10 DEF LockSession
  <2>4. TypeOK'
    BY <1>10, <2>1, <2>2 DEF LockSession
  <2>5. ASSUME NEW q \in Request PROVE Control(q)'
    BY <1>10, <2>1, <2>2, <2>3 DEF LockSession
  <2> QED BY <2>4, <2>5
<1>11. ASSUME NEW r \in Request, Reget(r) PROVE Goal
  <2>1. pc' = [pc EXCEPT ![r] = AfterReget(op[r])] \/ pc' = [pc EXCEPT ![r] = "unlock"]
    BY <1>11 DEF Reget, Get
  <2>2. /\ op[r] = "prepare_secret" => AfterReget(op[r]) = "ask"
        /\ op[r] = "send_secret" => AfterReget(op[r]) = "take"
        /\ op[r] = "read_output" => AfterReget(op[r]) = "use"
    BY DEF AfterReget
  <2>3. old' \in [Id -> BOOLEAN]
    BY <1>11, ZenonT(60) DEF Reget, Get
  <2> QED BY <1>11, <2>1, <2>2, <2>3 DEF Reget, Get
<1>12. ASSUME NEW r \in Request, UnlockSession(r) PROVE Goal
  BY <1>12 DEF UnlockSession
<1>13. ASSUME NEW r \in Request, WriteInput(r) PROVE Goal
  BY <1>13 DEF WriteInput
<1>14. ASSUME NEW r \in Request, Use(r) PROVE Goal
  BY <1>14 DEF Use
<1>15. ASSUME NEW r \in Request, AutoTake(r) PROVE Goal
  BY <1>15 DEF AutoTake, TakeSecret
<1>16. ASSUME NEW r \in Request, AutoSend(r) PROVE Goal
  BY <1>16 DEF AutoSend
<1>17. ASSUME NEW r \in Request, AutoRestore(r) PROVE Goal
  BY <1>17 DEF AutoRestore
<1>18. ASSUME NEW r \in Request, Deliver(r) PROVE Goal
  BY <1>18 DEF Deliver
<1>19. ASSUME NEW r \in Request, SendTake(r) PROVE Goal
  BY <1>19 DEF SendTake, TakeSecret
<1>20. ASSUME NEW r \in Request, AskOperator(r) PROVE Goal
  BY <1>20 DEF AskOperator
<1>21. ASSUME NEW r \in Request, OperatorDone(r) PROVE Goal
  BY <1>21 DEF OperatorDone
<1>22. ASSUME NEW r \in Request, CheckEntered(r) PROVE Goal
  BY <1>22 DEF CheckEntered
<1>23. ASSUME NEW r \in Request, SetPendingSecret(r) PROVE Goal
  BY <1>23 DEF SetPendingSecret
<1>24. ASSUME NEW r \in Request, DeleteEntry(r) PROVE Goal
  BY <1>24 DEF DeleteEntry, AfterClose
<1>25. ASSUME NEW r \in Request, ClearSecret(r) PROVE Goal
  BY <1>25 DEF ClearSecret
<1>26. ASSUME NEW r \in Request, CloseObject(r) PROVE Goal
  BY <1>26 DEF CloseObject, AfterClose
<1>27. ASSUME NEW s \in Id, Age(s) PROVE Goal
  BY <1>27 DEF Age, reqVars
<1>28. CASE Reap
  BY <1>28 DEF Reap, reqVars
<1>29. ASSUME NEW s \in Id, ReaperClose(s) PROVE Goal
  BY <1>29 DEF ReaperClose, reqVars
<1>30. CASE UNCHANGED vars
  BY <1>30 DEF vars, reqVars
<1> QED
  BY <1>1, <1>2, <1>3, <1>4, <1>5, <1>6, <1>7, <1>8, <1>9, <1>10, <1>11, <1>12,
     <1>13, <1>14, <1>15, <1>16, <1>17, <1>18, <1>19, <1>20, <1>21, <1>22, <1>23,
     <1>24, <1>25, <1>26, <1>27, <1>28, <1>29, <1>30
  DEF Next, Handle, Reaper

\* The session locks.
LEMMA NextLock ==
    ASSUME TypeOK, ControlOK, LockExact, [Next]_vars
    PROVE  LockExact'
<1> USE ManagerAssumption DEF TypeOK, Goto
<1>1. ASSUME lock' = lock,
             \A q \in Request : HasLock(q)' <=> HasLock(q),
             \A q \in Request : HasLock(q) => sid'[q] = sid[q]
      PROVE  LockExact'
  BY <1>1 DEF LockExact
<1>2. ASSUME NEW r \in Request, LockSession(r) PROVE LockExact'
  <2>1. /\ sid' = sid /\ op' = op /\ sid[r] \in Id /\ ~HasLock(r)
        /\ op[r] \notin {"create", "list", "get_session_state"}
    BY <1>2 DEF LockSession, ControlOK, Control, Labels, HasLock, LockLabels, CloseLabels
  <2>2. CASE lock[sid[r]] = None /\ lock' = [lock EXCEPT ![sid[r]] = r]
               /\ Goto(r, AfterLock(op[r]))
    <3>1. AfterLock(op[r]) \in {"write", "delete", "reget"}
      BY DEF AfterLock
    <3>2. /\ HasLock(r)'
          /\ \A q \in Request \ {r} : HasLock(q)' <=> HasLock(q)
      BY <2>1, <2>2, <3>1 DEF HasLock, LockLabels, CloseLabels
    <3> QED BY <2>1, <2>2, <3>2 DEF LockExact
  <2>3. CASE lock' = lock /\ Goto(r, "done")
    <3>1. \A q \in Request : HasLock(q)' <=> HasLock(q)
      BY <2>1, <2>3 DEF HasLock, LockLabels, CloseLabels
    <3> QED BY <1>1, <2>1, <2>3, <3>1
  <2> QED BY <1>2, <2>2, <2>3 DEF LockSession
<1>3. ASSUME NEW r \in Request, UnlockSession(r) PROVE LockExact'
  <2>1. /\ sid' = sid /\ op' = op /\ sid[r] \in Id /\ HasLock(r) /\ ~HasLock(r)'
        /\ lock' = [lock EXCEPT ![sid[r]] = None]
        /\ \A q \in Request \ {r} : HasLock(q)' <=> HasLock(q)
    BY <1>3 DEF UnlockSession, ControlOK, Control, Labels, HasLock, LockLabels, CloseLabels
  <2> QED BY <2>1 DEF LockExact
<1> USE DEF HasLock, LockLabels, CloseLabels
<1>4. ASSUME NEW r \in Request, Arrive(r) \/ DialOk(r) PROVE LockExact'
  BY <1>1, <1>4 DEF Arrive, DialOk
<1>5. ASSUME NEW r \in Request,
             Cancel(r) \/ Respond(r) \/ DialFailed(r) \/ CheckBeforeAdd(r) \/ Add(r)
      PROVE  LockExact'
  BY <1>1, <1>5 DEF Cancel, Respond, DialFailed, CheckBeforeAdd, Add
<1>6. ASSUME NEW r \in Request, CheckAfterAdd(r) PROVE LockExact'
  BY <1>1, <1>6 DEF CheckAfterAdd, ControlOK, Control
<1>7. ASSUME NEW r \in Request, FirstGet(r) PROVE LockExact'
  BY <1>1, <1>7 DEF FirstGet, Get, AfterGet
<1>8. ASSUME NEW r \in Request, Reget(r) PROVE LockExact'
  <2>1. AfterReget(op[r]) \in {"ask", "take", "use"}
    BY DEF AfterReget
  <2> QED BY <1>1, <1>8, <2>1 DEF Reget, Get
<1>9. ASSUME NEW r \in Request,
             \/ WriteInput(r) \/ Use(r) \/ AutoTake(r) \/ AutoSend(r) \/ AutoRestore(r)
             \/ Deliver(r) \/ SendTake(r)
      PROVE  LockExact'
  BY <1>1, <1>9 DEF WriteInput, Use, AutoTake, AutoSend, AutoRestore, Deliver, SendTake,
                    TakeSecret
<1>10. ASSUME NEW r \in Request,
              AskOperator(r) \/ OperatorDone(r) \/ CheckEntered(r) \/ SetPendingSecret(r)
       PROVE  LockExact'
  BY <1>1, <1>10 DEF AskOperator, OperatorDone, CheckEntered, SetPendingSecret
<1>11. ASSUME NEW r \in Request, DeleteEntry(r) \/ ClearSecret(r) \/ CloseObject(r)
       PROVE  LockExact'
  BY <1>1, <1>11 DEF DeleteEntry, ClearSecret, CloseObject, AfterClose
<1>12. ASSUME \/ \E s \in Id : Age(s) \/ ReaperClose(s)
              \/ Reap \/ UNCHANGED vars
       PROVE  LockExact'
  BY <1>1, <1>12 DEF Age, ReaperClose, Reap, vars, reqVars
<1> QED
  BY <1>2, <1>3, <1>4, <1>5, <1>6, <1>7, <1>8, <1>9, <1>10, <1>11, <1>12
  DEF Next, Handle, Reaper

\* Who keeps a session.
LEMMA NextKeeper ==
    ASSUME TypeOK, ControlOK, OneKeeper, BornFirst, NoLeak, [Next]_vars
    PROVE  OneKeeper' /\ BornFirst' /\ NoLeak'
<1> USE ManagerAssumption DEF TypeOK, Goto, TearDown
<1> DEFINE Goal == OneKeeper' /\ BornFirst' /\ NoLeak'
<1>1. ASSUME UNCHANGED <<sessions, toClose, obj>>, known' \subseteq known,
             \A q \in Request, s \in Id : Holds(q, s)' <=> Holds(q, s),
             \A q \in Request : sid'[q] # sid[q] => sid'[q] \in known
      PROVE  Goal
  BY <1>1 DEF OneKeeper, BornFirst, NoLeak, Holds
<1> HIDE DEF Goal
<1>2. ASSUME NEW r \in Request, Arrive(r) PROVE Goal
  BY <1>1, <1>2 DEF Arrive, Holds
<1>3. ASSUME NEW r \in Request, Respond(r) PROVE Goal
  BY <1>3 DEF Goal, Respond, OneKeeper, BornFirst, NoLeak, Holds, ControlOK, Control
<1>4. ASSUME NEW r \in Request, DialOk(r) PROVE Goal
  BY <1>4 DEF Goal, DialOk, OneKeeper, BornFirst, NoLeak, Holds
<1>5. ASSUME NEW r \in Request, CheckBeforeAdd(r) PROVE Goal
  BY <1>5, SMTT(40) DEF Goal, CheckBeforeAdd, OneKeeper, BornFirst, NoLeak, Holds, ControlOK, Control, Labels
<1>6. ASSUME NEW r \in Request, Add(r) PROVE Goal
  BY <1>6, SMTT(40) DEF Goal, Add, OneKeeper, BornFirst, NoLeak, Holds, ControlOK, Control, Labels
<1>7. ASSUME NEW r \in Request, DeleteEntry(r) PROVE Goal
  BY <1>7 DEF Goal, DeleteEntry, AfterClose, OneKeeper, BornFirst, NoLeak, Holds, ControlOK, Control, Labels
<1>8. ASSUME NEW r \in Request, CloseObject(r) PROVE Goal
  BY <1>8 DEF Goal, CloseObject, AfterClose, OneKeeper, BornFirst, NoLeak, Holds, ControlOK, Control, Labels
<1>9. ASSUME Reap PROVE Goal
  BY <1>9 DEF Goal, Reap, reqVars, OneKeeper, BornFirst, NoLeak, Holds
<1>10. ASSUME NEW s \in Id, ReaperClose(s) PROVE Goal
  BY <1>10 DEF Goal, ReaperClose, reqVars, OneKeeper, BornFirst, NoLeak, Holds
<1> USE DEF Holds
<1>11. ASSUME NEW r \in Request,
              Cancel(r) \/ DialFailed(r) \/ CheckAfterAdd(r) \/ UnlockSession(r)
       PROVE  Goal
  BY <1>1, <1>11 DEF Cancel, DialFailed, CheckAfterAdd, UnlockSession
<1>12. ASSUME NEW r \in Request, FirstGet(r) PROVE Goal
  BY <1>1, <1>12 DEF FirstGet, Get, AfterGet
<1>13. ASSUME NEW r \in Request, LockSession(r) PROVE Goal
  <2>1. AfterLock(op[r]) \in {"write", "delete", "reget"}
    BY DEF AfterLock
  <2> QED BY <1>1, <1>13, <2>1 DEF LockSession
<1>14. ASSUME NEW r \in Request, Reget(r) PROVE Goal
  <2>1. AfterReget(op[r]) \in {"ask", "take", "use"}
    BY DEF AfterReget
  <2> QED BY <1>1, <1>14, <2>1 DEF Reget, Get
<1>15. ASSUME NEW r \in Request,
              \/ WriteInput(r) \/ Use(r) \/ AutoTake(r) \/ AutoSend(r) \/ AutoRestore(r)
              \/ Deliver(r) \/ SendTake(r)
       PROVE  Goal
  BY <1>1, <1>15 DEF WriteInput, Use, AutoTake, AutoSend, AutoRestore, Deliver, SendTake,
                     TakeSecret
<1>16. ASSUME NEW r \in Request,
              \/ AskOperator(r) \/ OperatorDone(r) \/ CheckEntered(r)
              \/ SetPendingSecret(r) \/ ClearSecret(r)
       PROVE  Goal
  BY <1>1, <1>16 DEF AskOperator, OperatorDone, CheckEntered, SetPendingSecret, ClearSecret
<1>17. ASSUME (\E s \in Id : Age(s)) \/ UNCHANGED vars PROVE Goal
  BY <1>1, <1>17 DEF Age, vars, reqVars
<1> QED
  BY <1>2, <1>3, <1>4, <1>5, <1>6, <1>7, <1>8, <1>9, <1>10, <1>11, <1>12, <1>13,
     <1>14, <1>15, <1>16, <1>17
  DEF Next, Handle, Reaper, Goal

\* The limit: only Add makes the table larger, and it has looked first.
LEMMA NextLimit ==
    ASSUME IsFiniteSet(sessions), WithinLimit, [Next]_vars
    PROVE  IsFiniteSet(sessions') /\ WithinLimit'
<1> USE ManagerAssumption
<1>0. Cardinality(sessions) \in Nat
  BY FS_CardinalityType
<1>1. ASSUME sessions' \subseteq sessions
      PROVE  IsFiniteSet(sessions') /\ WithinLimit'
  <2>1. IsFiniteSet(sessions') /\ Cardinality(sessions') <= Cardinality(sessions)
    BY <1>1, FS_Subset
  <2>2. Cardinality(sessions') \in Nat
    BY <2>1, FS_CardinalityType
  <2> QED BY <1>0, <2>1, <2>2 DEF WithinLimit
<1>2. ASSUME NEW r \in Request, Add(r)
      PROVE  IsFiniteSet(sessions') /\ WithinLimit'
  <2>1. CASE Cardinality(sessions) >= MaxSessions
    BY <1>1, <1>2, <2>1 DEF Add
  <2>2. CASE ~(Cardinality(sessions) >= MaxSessions)
    <3>1. sessions' = sessions \union {sid[r]} /\ Cardinality(sessions) < MaxSessions
      BY <1>0, <1>2, <2>2 DEF Add
    <3>2. /\ IsFiniteSet(sessions')
          /\ \/ Cardinality(sessions') = Cardinality(sessions)
             \/ Cardinality(sessions') = Cardinality(sessions) + 1
      BY <3>1, FS_AddElement
    <3> QED BY <1>0, <3>1, <3>2 DEF WithinLimit
  <2> QED BY <2>1, <2>2
<1>3. ASSUME NEW r \in Request, ~Add(r), Arrive(r) \/ Cancel(r) \/ Handle(r)
      PROVE  sessions' \subseteq sessions
  BY <1>3 DEF Arrive, Cancel, Handle, Respond, DialOk, DialFailed, CheckBeforeAdd,
    CheckAfterAdd, FirstGet, Reget, Get, LockSession, UnlockSession, WriteInput, Use,
    AutoTake, AutoSend, AutoRestore, Deliver, SendTake, TakeSecret, AskOperator,
    OperatorDone, CheckEntered, SetPendingSecret, DeleteEntry, ClearSecret, CloseObject
<1>4. ASSUME (\E s \in Id : Age(s)) \/ Reaper \/ UNCHANGED vars
      PROVE  sessions' \subseteq sessions
  BY <1>4 DEF Age, Reaper, Reap, ReaperClose, vars
<1> QED BY <1>1, <1>2, <1>3, <1>4 DEF Next

\* Every step keeps the invariant of the table.
LEMMA NextTInv == TInv /\ [Next]_vars => TInv'
BY NextControl, NextLock, NextKeeper, NextLimit DEF TInv

\* The invariant of table, locks and keepers holds in every behaviour of the
\* handlers and the reaper.
THEOREM TableInvariant == Spec => []TInv
BY InitTInv, NextTInv, PTL DEF Spec

\* With any number of calls, cancelled at any point, racing closers and the
\* reaper: every running session has a keeper, the table has open sessions
\* only, and not more than the limit.
THEOREM TableCorrect == Spec => []TableExact
<1>1. TInv => TableExact
  BY DEF TInv, OneKeeper, RegisteredIsOpen, TableExact
<1> QED BY <1>1, TableInvariant, PTL

\* No session is closed or detached a second time, by whoever: only its keeper
\* tears a session down, a session has one keeper, and a keeper's session has
\* not been torn down yet.
LEMMA NextTorn == TInv /\ TornDownOnce /\ [Next]_vars => TornDownOnce'
<1> SUFFICES ASSUME TInv, TornDownOnce, [Next]_vars PROVE TornDownOnce'
  OBVIOUS
<1> USE ManagerAssumption DEF TInv, TypeOK
<1>1. ASSUME UNCHANGED <<obj, torn>> PROVE TornDownOnce'
  BY <1>1 DEF TornDownOnce
<1>2. ASSUME NEW s \in Id, obj[s] = "open", TearDown(s, "closed") \/ TearDown(s, "detached")
      PROVE  TornDownOnce'
  <2>1. torn[s] = 0
    BY <1>2 DEF TornDownOnce
  <2> QED BY <1>2, <2>1 DEF TornDownOnce, TearDown
<1>3. ASSUME NEW r \in Request, CheckBeforeAdd(r) \/ Add(r) \/ CloseObject(r)
      PROVE  sid[r] \in Id /\ obj[sid[r]] = "open"
  BY <1>3 DEF CheckBeforeAdd, Add, CloseObject, OneKeeper, Holds, ControlOK, Control, Labels
<1>4. ASSUME NEW r \in Request, CheckBeforeAdd(r) \/ Add(r) \/ CloseObject(r)
      PROVE  TornDownOnce'
  BY <1>1, <1>2, <1>3, <1>4 DEF CheckBeforeAdd, Add, CloseObject
<1>5. ASSUME NEW r \in Request, DialOk(r) PROVE TornDownOnce'
  BY <1>5 DEF DialOk, TornDownOnce
<1>6. ASSUME NEW s \in Id, ReaperClose(s) PROVE TornDownOnce'
  BY <1>2, <1>6 DEF ReaperClose, OneKeeper
<1>7. ASSUME NEW r \in Request, Arrive(r) \/ Cancel(r) \/ Handle(r),
             ~(CheckBeforeAdd(r) \/ Add(r) \/ CloseObject(r) \/ DialOk(r))
      PROVE  UNCHANGED <<obj, torn>>
  BY <1>7 DEF Arrive, Cancel, Handle, Respond, DialFailed,
    CheckAfterAdd, FirstGet, Reget, Get, LockSession, UnlockSession, WriteInput, Use,
    AutoTake, AutoSend, AutoRestore, Deliver, SendTake, TakeSecret, AskOperator,
    OperatorDone, CheckEntered, SetPendingSecret, DeleteEntry, ClearSecret
<1>8. ASSUME (\E s \in Id : Age(s)) \/ Reap \/ UNCHANGED vars PROVE UNCHANGED <<obj, torn>>
  BY <1>8 DEF Age, Reap, vars
<1> QED BY <1>1, <1>4, <1>5, <1>6, <1>7, <1>8 DEF Next, Reaper

\* Close or Detach is called once on every session that ends, and on no other.
THEOREM TornDownCorrect == Spec => []TornDownOnce
<1>1. Init => TornDownOnce
  BY DEF Init, TornDownOnce
<1> QED BY <1>1, NextTorn, TableInvariant, PTL DEF Spec

-----------------------------------------------------------------------------
(* Secrets *)

\* Before the operator is asked there is no secret of the request.
FreshLabels == {"new", "get", "lock", "reget", "take", "ask", "asking"}

\* An entered secret is in one place, a session's staging area or a local
\* variable of one call, and has then not been written yet.
OnePlace ==
    /\ \A r, q \in Request : held[r] # None /\ held[r] = held[q] => r = q
    /\ \A s, t \in Id : secret[s] # None /\ secret[s] = secret[t] => s = t
    /\ \A s \in Id, r \in Request : secret[s] # None => secret[s] # held[r]

NotYetSent ==
    /\ \A r \in Request : sent[r] \in {0, 1}
    /\ \A r \in Request : held[r] # None => sent[held[r]] = 0
    /\ \A s \in Id : secret[s] # None => sent[secret[s]] = 0

Fresh ==
    \A q \in Request : pc[q] \in FreshLabels =>
        /\ sent[q] = 0
        /\ \A s \in Id : secret[s] # q
        /\ \A r \in Request : held[r] # q

SInv == OnePlace /\ NotYetSent /\ Fresh

\* Each action either leaves the secrets alone, or moves one of them.
LEMMA NextSInv == TInv /\ SInv /\ [Next]_vars => SInv'
<1> SUFFICES ASSUME TInv, SInv, [Next]_vars PROVE SInv'
  OBVIOUS
<1> USE ManagerAssumption DEF TypeOK, Goto, Labels
<1>0. TypeOK /\ ControlOK /\ OnePlace /\ NotYetSent /\ Fresh
  BY DEF TInv, SInv
<1>1. ASSUME UNCHANGED <<secret, held, sent>>,
             \A q \in Request : pc'[q] \in FreshLabels => pc[q] \in FreshLabels
      PROVE  SInv'
  BY <1>0, <1>1 DEF SInv, OnePlace, NotYetSent, Fresh
<1>2. ASSUME NEW r \in Request, AutoTake(r) \/ SendTake(r) PROVE SInv'
  <2> DEFINE s == sid[r]
  <2>1. /\ s \in Id /\ held[r] = None
        /\ held' = [held EXCEPT ![r] = secret[s]] /\ secret' = [secret EXCEPT ![s] = None]
        /\ sent' = sent
        /\ \A q \in Request : pc'[q] \in FreshLabels => pc[q] \in FreshLabels
    BY <1>0, <1>2 DEF AutoTake, SendTake, TakeSecret, ControlOK, Control, FreshLabels
  <2> HIDE DEF s
  <2>2. OnePlace'
    BY <1>0, <2>1 DEF OnePlace
  <2>3. NotYetSent'
    BY <1>0, <2>1 DEF NotYetSent
  <2>4. Fresh'
    BY <1>0, <2>1 DEF Fresh
  <2> QED BY <2>2, <2>3, <2>4 DEF SInv
<1>3. ASSUME NEW r \in Request, AutoRestore(r) \/ SetPendingSecret(r) PROVE SInv'
  <2> DEFINE s == sid[r]
  <2>1. /\ s \in Id /\ held[r] # None
        /\ held' = [held EXCEPT ![r] = None] /\ secret' = [secret EXCEPT ![s] = held[r]]
        /\ sent' = sent
        /\ \A q \in Request : pc'[q] \in FreshLabels => pc[q] \in FreshLabels
    BY <1>0, <1>3 DEF AutoRestore, SetPendingSecret, ControlOK, Control, FreshLabels
  <2> HIDE DEF s
  <2>2. OnePlace'
    BY <1>0, <2>1 DEF OnePlace
  <2>3. NotYetSent'
    BY <1>0, <2>1 DEF NotYetSent
  <2>4. Fresh'
    BY <1>0, <2>1 DEF Fresh
  <2> QED BY <2>2, <2>3, <2>4 DEF SInv
<1>4. ASSUME NEW r \in Request, Deliver(r) PROVE SInv'
  <2>1. /\ held[r] \in Request
        /\ held' = [held EXCEPT ![r] = None] /\ secret' = secret
        /\ sent' = sent \/ sent' = [sent EXCEPT ![held[r]] = sent[held[r]] + 1]
        /\ \A q \in Request : pc'[q] \in FreshLabels => pc[q] \in FreshLabels
    BY <1>0, <1>4 DEF Deliver, ControlOK, Control, FreshLabels
  <2>2. OnePlace'
    BY <1>0, <2>1 DEF OnePlace
  <2>3. sent[held[r]] = 0
    BY <1>0, <2>1 DEF NotYetSent
  <2>4. NotYetSent'
    BY <1>0, <2>1, <2>3 DEF NotYetSent, OnePlace
  <2>5. Fresh'
    BY <1>0, <2>1 DEF Fresh
  <2> QED BY <2>2, <2>4, <2>5 DEF SInv
<1>5. ASSUME NEW r \in Request, OperatorDone(r) PROVE SInv'
  <2>1. /\ pc[r] \in FreshLabels /\ pc'[r] \notin FreshLabels /\ held[r] = None
        /\ held' = held \/ held' = [held EXCEPT ![r] = r]
        /\ UNCHANGED <<secret, sent>>
        /\ \A q \in Request : pc'[q] \in FreshLabels => pc[q] \in FreshLabels /\ q # r
    BY <1>0, <1>5 DEF OperatorDone, ControlOK, Control, FreshLabels
  <2>2. OnePlace'
    BY <1>0, <2>1 DEF OnePlace, Fresh
  <2>3. NotYetSent'
    BY <1>0, <2>1 DEF NotYetSent, Fresh
  <2>4. Fresh'
    BY <1>0, <2>1 DEF Fresh
  <2> QED BY <2>2, <2>3, <2>4 DEF SInv
<1>6. ASSUME NEW r \in Request, CheckEntered(r) PROVE SInv'
  <2>1. /\ held' = held \/ held' = [held EXCEPT ![r] = None]
        /\ UNCHANGED <<secret, sent>>
        /\ \A q \in Request : pc'[q] \in FreshLabels => pc[q] \in FreshLabels
    BY <1>0, <1>6 DEF CheckEntered, FreshLabels
  <2> QED BY <1>0, <2>1, SMTT(40) DEF SInv, OnePlace, NotYetSent, Fresh
<1>7. ASSUME NEW r \in Request, ClearSecret(r) PROVE SInv'
  <2>1. /\ secret' = [secret EXCEPT ![sid[r]] = None] /\ UNCHANGED <<held, sent>>
        /\ \A q \in Request : pc'[q] \in FreshLabels => pc[q] \in FreshLabels
    BY <1>0, <1>7 DEF ClearSecret, FreshLabels
  <2> QED BY <1>0, <2>1 DEF SInv, OnePlace, NotYetSent, Fresh
<1> USE <1>0 DEF FreshLabels
<1>8. ASSUME NEW r \in Request,
             \/ Arrive(r) \/ Cancel(r) \/ Respond(r) \/ DialOk(r) \/ DialFailed(r)
             \/ CheckBeforeAdd(r) \/ Add(r) \/ CheckAfterAdd(r)
      PROVE  SInv'
  BY <1>1, <1>8 DEF Arrive, Cancel, Respond, DialOk, DialFailed, CheckBeforeAdd, Add,
                    CheckAfterAdd
<1>9. ASSUME NEW r \in Request, FirstGet(r) PROVE SInv'
  BY <1>1, <1>9 DEF FirstGet, Get, AfterGet
<1>10. ASSUME NEW r \in Request, LockSession(r) PROVE SInv'
  BY <1>1, <1>10 DEF LockSession
<1>11. ASSUME NEW r \in Request, Reget(r) PROVE SInv'
  BY <1>1, <1>11 DEF Reget, Get
<1>12. ASSUME NEW r \in Request,
              UnlockSession(r) \/ WriteInput(r) \/ Use(r) \/ AutoSend(r) \/ AskOperator(r)
       PROVE  SInv'
  BY <1>1, <1>12 DEF UnlockSession, WriteInput, Use, AutoSend, AskOperator
<1>13. ASSUME NEW r \in Request, DeleteEntry(r) \/ CloseObject(r) PROVE SInv'
  BY <1>1, <1>13 DEF DeleteEntry, CloseObject, AfterClose
<1>14. ASSUME (\E s \in Id : Age(s)) \/ Reaper \/ UNCHANGED vars PROVE SInv'
  BY <1>1, <1>14 DEF Age, Reaper, Reap, ReaperClose, vars, reqVars
<1> QED
  BY <1>2, <1>3, <1>4, <1>5, <1>6, <1>7, <1>8, <1>9, <1>10, <1>11, <1>12, <1>13, <1>14
  DEF Next, Handle

\* A secret is staged by a request that has the lock of the session.
LEMMA StagedUnderLock ==
    ASSUME TInv, [Next]_vars, NEW s \in Id, secret'[s] # None, secret[s] = None
    PROVE  \E q \in Request : HasLock(q) /\ sid[q] = s /\ pc[q] \in {"judge", "stage"}
<1> USE ManagerAssumption DEF TInv, TypeOK
<1>1. ASSUME NEW q \in Request, AutoRestore(q) \/ SetPendingSecret(q)
      PROVE  HasLock(q) /\ sid[q] = s /\ pc[q] \in {"judge", "stage"}
  BY <1>1 DEF AutoRestore, SetPendingSecret, HasLock, LockLabels
<1>2. ASSUME NEW q \in Request, AutoTake(q) \/ SendTake(q) \/ ClearSecret(q) PROVE FALSE
  BY <1>2 DEF AutoTake, SendTake, TakeSecret, ClearSecret
<1>3. ASSUME NEW q \in Request, Arrive(q) \/ Cancel(q) \/ Handle(q),
             ~(AutoRestore(q) \/ SetPendingSecret(q)),
             ~(AutoTake(q) \/ SendTake(q) \/ ClearSecret(q))
      PROVE  secret' = secret
  BY <1>3 DEF Arrive, Cancel, Handle, Respond, DialOk, DialFailed, CheckBeforeAdd, Add,
    CheckAfterAdd, FirstGet, Reget, Get, LockSession, UnlockSession, WriteInput, Use,
    AutoSend, Deliver, AskOperator, OperatorDone, CheckEntered, DeleteEntry, CloseObject
<1>4. ASSUME (\E t \in Id : Age(t)) \/ Reaper \/ UNCHANGED vars PROVE secret' = secret
  BY <1>4 DEF Age, Reaper, Reap, ReaperClose, vars
<1> QED BY <1>1, <1>2, <1>3, <1>4 DEF Next

AskLabels == {"ask", "asking", "entered", "deliver"}

\* A send_secret begins to ask, or to deliver, by taking what is staged.
LEMMA AskAfterTake ==
    ASSUME TInv, [Next]_vars, NEW r \in Request, op'[r] = "send_secret", pc'[r] \in AskLabels
    PROVE  /\ op[r] = "send_secret" /\ sid'[r] = sid[r] /\ sid[r] \in Id
           /\ pc[r] \in AskLabels \/ secret'[sid[r]] = None
<1> USE ManagerAssumption DEF TInv, TypeOK, Goto, Labels, AskLabels, ControlOK, Control
<1> DEFINE Goal == /\ op[r] = "send_secret" /\ sid'[r] = sid[r] /\ sid[r] \in Id
                   /\ pc[r] \in AskLabels \/ secret'[sid[r]] = None
<1>1. ASSUME NEW q \in Request, Arrive(q) PROVE Goal
  BY <1>1 DEF Arrive
<1>2. ASSUME NEW q \in Request,
             \/ Cancel(q) \/ Respond(q) \/ DialOk(q) \/ DialFailed(q)
             \/ CheckBeforeAdd(q) \/ Add(q) \/ CheckAfterAdd(q)
      PROVE  Goal
  BY <1>2 DEF Cancel, Respond, DialOk, DialFailed, CheckBeforeAdd, Add, CheckAfterAdd
<1>3. ASSUME NEW q \in Request, FirstGet(q) PROVE Goal
  BY <1>3 DEF FirstGet, Get, AfterGet
<1>4. ASSUME NEW q \in Request, LockSession(q) PROVE Goal
  <2>1. AfterLock(op[q]) \in {"write", "delete", "reget"}
    BY DEF AfterLock
  <2> QED BY <1>4, <2>1 DEF LockSession
<1>5. ASSUME NEW q \in Request, Reget(q) PROVE Goal
  <2>1. op[q] = "send_secret" => AfterReget(op[q]) = "take"
    BY DEF AfterReget
  <2> QED BY <1>5, <2>1 DEF Reget, Get
<1>6. ASSUME NEW q \in Request,
             \/ UnlockSession(q) \/ WriteInput(q) \/ Use(q) \/ AutoSend(q)
             \/ AutoRestore(q) \/ Deliver(q)
      PROVE  Goal
  BY <1>6 DEF UnlockSession, WriteInput, Use, AutoSend, AutoRestore, Deliver
<1>7. ASSUME NEW q \in Request, AutoTake(q) \/ SendTake(q) PROVE Goal
  BY <1>7 DEF AutoTake, SendTake, TakeSecret
<1>8. ASSUME NEW q \in Request,
             AskOperator(q) \/ OperatorDone(q) \/ CheckEntered(q) \/ SetPendingSecret(q)
      PROVE  Goal
  BY <1>8 DEF AskOperator, OperatorDone, CheckEntered, SetPendingSecret
<1>9. ASSUME NEW q \in Request, DeleteEntry(q) \/ ClearSecret(q) \/ CloseObject(q)
      PROVE  Goal
  BY <1>9 DEF DeleteEntry, ClearSecret, CloseObject, AfterClose
<1>10. ASSUME (\E s \in Id : Age(s)) \/ Reaper \/ UNCHANGED vars PROVE Goal
  BY <1>10 DEF Age, Reaper, Reap, ReaperClose, vars, reqVars
<1> QED
  BY <1>1, <1>2, <1>3, <1>4, <1>5, <1>6, <1>7, <1>8, <1>9, <1>10 DEF Next, Handle

\* Two requests do not have the lock of a session, so nobody stages a secret
\* behind a send_secret.
LEMMA NextSendsAlone == TInv /\ SendsAlone /\ [Next]_vars => SendsAlone'
<1> SUFFICES ASSUME TInv, SendsAlone, [Next]_vars,
                    NEW r \in Request, op'[r] = "send_secret", pc'[r] \in AskLabels,
                    secret'[sid'[r]] # None
             PROVE  FALSE
  BY DEF SendsAlone, AskLabels
<1>1. /\ op[r] = "send_secret" /\ sid'[r] = sid[r] /\ sid[r] \in Id
      /\ pc[r] \in AskLabels
  BY AskAfterTake
<1>2. secret[sid[r]] = None
  BY <1>1 DEF SendsAlone, AskLabels
<1>3. PICK q \in Request : HasLock(q) /\ sid[q] = sid[r] /\ pc[q] \in {"judge", "stage"}
  BY <1>1, <1>2, StagedUnderLock
<1>4. HasLock(r)
  BY <1>1 DEF HasLock, LockLabels, AskLabels
<1> QED BY <1>1, <1>3, <1>4 DEF TInv, LockExact, AskLabels

\* A secret the operator entered is written at most once, and never joins
\* another one that a send_secret has asked for.
THEOREM SecretsCorrect == Spec => []SecretsGuarded
<1>1. Init => SInv /\ SendsAlone
  BY ManagerAssumption
  DEF Init, SInv, OnePlace, NotYetSent, Fresh, FreshLabels, SendsAlone
<1>2. TInv /\ SInv /\ SendsAlone /\ [Next]_vars => SInv' /\ SendsAlone'
  BY NextSInv, NextSendsAlone
<1>3. SInv /\ SendsAlone => SecretsGuarded
  BY DEF SInv, NotYetSent, SecretOnce, SecretsGuarded
<1> QED BY <1>1, <1>2, <1>3, TableInvariant, PTL DEF Spec

-----------------------------------------------------------------------------
(* Without the reaper, and with no list_sessions that would let a client name a *)
(* session whose creation may yet be undone, everybody who closes a session     *)
(* has its lock or is the only one to know it.                                  *)

Serialized == ~Reaping /\ "list" \notin Op

CreateLabels == {"made", "add", "added"} \union CloseLabels
OperationLabels == {"use", "auto", "judge", "take", "ask", "asking", "entered", "stage",
                    "deliver"}

\* A session that a create may still undo is known to that call alone.
Undecided(r) == op[r] = "create" /\ pc[r] \in CreateLabels

Private ==
    /\ \A r \in Request : Undecided(r) => sid[r] \notin known
    /\ \A r, q \in Request :
          /\ Undecided(r) \/ (op[r] = "create" /\ pc[r] = "respond")
          /\ Undecided(q) \/ (op[q] = "create" /\ pc[q] = "respond")
          /\ sid[r] = sid[q]
          => r = q

\* All other calls got their session from the client.
Public ==
    \A r \in Request :
        pc[r] \in {"get", "lock"} \union LockLabels \/ (pc[r] \in CloseLabels /\ op[r] # "create")
            => sid[r] \in known

\* An operation on a session, once it has looked, finds it in the table.
InUse == \A r \in Request : pc[r] \in OperationLabels => sid[r] \in sessions

PInv == toClose = {} /\ Private /\ Public /\ InUse /\ SecretHasSession

\* Whoever removes or closes a session does so while no operation uses it.
LEMMA Undisturbed ==
    ASSUME TInv, PInv, NEW r \in Request, NEW q \in Request,
           HasLock(r), sid[q] = sid[r], q # r
    PROVE  ~HasLock(q) /\ ~Undecided(q)
<1>1. sid[r] \in Id /\ sid[r] \in known
  BY DEF TInv, PInv, Public, HasLock, ControlOK, Control, Labels, LockLabels, CloseLabels
<1> QED BY <1>1 DEF TInv, LockExact, PInv, Private

\* The session of a create that is under way is unknown to the clients, and the
\* other calls work on known ones.
LEMMA NextPrivate ==
    ASSUME TInv, PInv, [Next]_vars, Serialized
    PROVE  (toClose = {} /\ Private /\ Public)'
<1> USE ManagerAssumption DEF TInv, TypeOK, Goto, Labels, ControlOK, Control, Serialized
<1>0. toClose = {} /\ Private /\ Public
  BY DEF PInv
<1> DEFINE Goal == (toClose = {} /\ Private /\ Public)'
<1> USE <1>0 DEF Private, Public, Undecided, LockLabels, CloseLabels, CreateLabels
<1>1. ASSUME NEW r \in Request, Arrive(r) PROVE Goal
  BY <1>1 DEF Arrive
<1>2. ASSUME NEW r \in Request, Cancel(r) \/ DialFailed(r) PROVE Goal
  BY <1>2 DEF Cancel, DialFailed
<1>3. ASSUME NEW r \in Request, Respond(r) PROVE Goal
  BY <1>3 DEF Respond
<1>4. ASSUME NEW r \in Request, DialOk(r) PROVE Goal
  BY <1>4 DEF DialOk, BornFirst
<1>5. ASSUME NEW r \in Request, CheckBeforeAdd(r) \/ Add(r) \/ CheckAfterAdd(r) PROVE Goal
  BY <1>5 DEF CheckBeforeAdd, Add, CheckAfterAdd
<1>6. ASSUME NEW r \in Request, FirstGet(r) PROVE Goal
  BY <1>6 DEF FirstGet, Get, AfterGet
<1>7. ASSUME NEW r \in Request, LockSession(r) PROVE Goal
  <2>1. AfterLock(op[r]) \in {"write", "delete", "reget"}
    BY DEF AfterLock
  <2> QED BY <1>7, <2>1 DEF LockSession
<1>8. ASSUME NEW r \in Request, Reget(r) PROVE Goal
  <2>1. AfterReget(op[r]) \in {"ask", "take", "use"}
    BY DEF AfterReget
  <2> QED BY <1>8, <2>1 DEF Reget, Get
<1>9. ASSUME NEW r \in Request,
             \/ UnlockSession(r) \/ WriteInput(r) \/ Use(r) \/ AutoTake(r) \/ AutoSend(r)
             \/ AutoRestore(r) \/ Deliver(r) \/ SendTake(r)
      PROVE  Goal
  BY <1>9 DEF UnlockSession, WriteInput, Use, AutoTake, AutoSend, AutoRestore, Deliver,
              SendTake, TakeSecret
<1>10. ASSUME NEW r \in Request,
              AskOperator(r) \/ OperatorDone(r) \/ CheckEntered(r) \/ SetPendingSecret(r)
       PROVE  Goal
  BY <1>10 DEF AskOperator, OperatorDone, CheckEntered, SetPendingSecret
<1>11. ASSUME NEW r \in Request, DeleteEntry(r) \/ ClearSecret(r) \/ CloseObject(r)
       PROVE  Goal
  BY <1>11 DEF DeleteEntry, ClearSecret, CloseObject, AfterClose
<1>12. ASSUME (\E s \in Id : Age(s)) \/ Reaper \/ UNCHANGED vars PROVE Goal
  BY <1>12 DEF Age, Reaper, Reap, ReaperClose, vars, reqVars
<1> QED
  BY <1>1, <1>2, <1>3, <1>4, <1>5, <1>6, <1>7, <1>8, <1>9, <1>10, <1>11, <1>12
  DEF Next, Handle

\* Under the session lock nobody else closes.
LEMMA NextInUse ==
    ASSUME TInv, PInv, [Next]_vars, Serialized
    PROVE  (InUse /\ SecretHasSession)'
<1> USE ManagerAssumption DEF TInv, TypeOK, Goto, Labels, ControlOK, Control, Serialized
<1>0. toClose = {} /\ InUse /\ SecretHasSession
  BY DEF PInv
<1> DEFINE Goal == (InUse /\ SecretHasSession)'
<1>1. ASSUME sessions \subseteq sessions', UNCHANGED secret,
             \A q \in Request : pc'[q] \in OperationLabels =>
                 pc[q] \in OperationLabels /\ sid'[q] = sid[q],
             \A q \in Request : pc[q] = "clear" => pc'[q] = "clear" /\ sid'[q] = sid[q]
      PROVE  Goal
  BY <1>0, <1>1 DEF InUse, SecretHasSession
<1>2. ASSUME NEW r \in Request, WriteInput(r) PROVE Goal
  <2>1. CASE obj[sid[r]] = "open"
    <3>1. HasLock(r) /\ sid[r] \in Id
      BY <1>2 DEF WriteInput, HasLock, LockLabels
    <3>2. ASSUME NEW q \in Request, Holds(q, sid[r]) PROVE FALSE
      <4>1. q # r
        BY <1>2, <3>2 DEF WriteInput, Holds
      <4>2. HasLock(q) \/ Undecided(q)
        BY <3>2 DEF Holds, HasLock, Undecided, CloseLabels, CreateLabels
      <4> QED BY <3>1, <3>2, <4>1, <4>2, Undisturbed DEF Holds
    <3>3. sid[r] \in sessions
      BY <1>0, <2>1, <3>1, <3>2 DEF NoLeak, Holds
    <3> QED BY <1>0, <1>2, <3>3 DEF WriteInput, InUse, SecretHasSession, OperationLabels
  <2>2. CASE obj[sid[r]] # "open"
    BY <1>1, <1>2, <2>2 DEF WriteInput, OperationLabels
  <2> QED BY <2>1, <2>2
<1>3. ASSUME NEW r \in Request, Reget(r) PROVE Goal
  BY <1>0, <1>3 DEF Reget, Get, InUse, SecretHasSession, OperationLabels
<1>4. ASSUME NEW r \in Request, AutoTake(r) \/ SendTake(r) PROVE Goal
  BY <1>0, <1>4 DEF AutoTake, SendTake, TakeSecret, InUse, SecretHasSession, OperationLabels
<1>5. ASSUME NEW r \in Request, AutoRestore(r) \/ SetPendingSecret(r) PROVE Goal
  BY <1>0, <1>5 DEF AutoRestore, SetPendingSecret, InUse, SecretHasSession, OperationLabels
<1>6. ASSUME NEW r \in Request, DeleteEntry(r) PROVE Goal
  <2>1. HasLock(r) \/ Undecided(r)
    BY <1>6 DEF DeleteEntry, HasLock, Undecided, CloseLabels, CreateLabels
  <2>2. ASSUME NEW q \in Request, pc[q] \in OperationLabels PROVE sid[q] # sid[r]
    <3>1. HasLock(q) /\ q # r
      BY <1>6, <2>2 DEF DeleteEntry, HasLock, LockLabels, OperationLabels
    <3> QED BY <2>1, <3>1, Undisturbed
  <2>3. sessions' = sessions \/ (sessions' = sessions \ {sid[r]} /\ pc'[r] = "clear")
    BY <1>6 DEF DeleteEntry
  <2>4. /\ UNCHANGED <<sid, secret>>
        /\ \A q \in Request : pc'[q] \in OperationLabels => pc[q] \in OperationLabels
        /\ \A q \in Request : pc[q] = "clear" => pc'[q] = "clear"
    BY <1>6 DEF DeleteEntry, AfterClose, OperationLabels
  <2> QED BY <1>0, <2>2, <2>3, <2>4 DEF InUse, SecretHasSession
<1>7. ASSUME NEW r \in Request, ClearSecret(r) PROVE Goal
  BY <1>0, <1>7 DEF ClearSecret, InUse, SecretHasSession, OperationLabels
<1> USE DEF OperationLabels
<1> HIDE DEF Goal
<1>8. ASSUME NEW r \in Request,
             \/ Arrive(r) \/ Cancel(r) \/ Respond(r) \/ DialOk(r) \/ DialFailed(r)
             \/ CheckBeforeAdd(r) \/ Add(r) \/ CheckAfterAdd(r)
      PROVE  Goal
  BY <1>1, <1>8 DEF Arrive, Cancel, Respond, DialOk, DialFailed, CheckBeforeAdd, Add,
                    CheckAfterAdd
<1>9. ASSUME NEW r \in Request, FirstGet(r) PROVE Goal
  BY <1>1, <1>9 DEF FirstGet, Get, AfterGet
<1>10. ASSUME NEW r \in Request, LockSession(r) PROVE Goal
  <2>1. AfterLock(op[r]) \in {"write", "delete", "reget"}
    BY DEF AfterLock
  <2> QED BY <1>1, <1>10, <2>1 DEF LockSession
<1>11. ASSUME NEW r \in Request,
              UnlockSession(r) \/ Use(r) \/ AutoSend(r) \/ Deliver(r)
       PROVE  Goal
  BY <1>1, <1>11 DEF UnlockSession, Use, AutoSend, Deliver
<1>12. ASSUME NEW r \in Request,
              AskOperator(r) \/ OperatorDone(r) \/ CheckEntered(r) \/ CloseObject(r)
       PROVE  Goal
  BY <1>1, <1>12 DEF AskOperator, OperatorDone, CheckEntered, CloseObject, AfterClose
<1>13. ASSUME (\E s \in Id : Age(s)) \/ Reaper \/ UNCHANGED vars PROVE Goal
  BY <1>0, <1>1, <1>13 DEF Age, Reaper, Reap, ReaperClose, vars, reqVars
<1> QED
  BY <1>2, <1>3, <1>4, <1>5, <1>6, <1>7, <1>8, <1>9, <1>10, <1>11, <1>12, <1>13
  DEF Next, Handle, Goal

\* Without the reaper and list_sessions, which close or tell without the lock.
LEMMA PrivateInvariant == ASSUME Serialized PROVE Spec => []PInv
<1>1. Init => PInv
  BY ManagerAssumption
  DEF Init, PInv, Private, Public, InUse, SecretHasSession, Undecided, CreateLabels,
      LockLabels, CloseLabels, OperationLabels
<1>2. TInv /\ PInv /\ [Next]_vars => PInv'
  BY NextPrivate, NextInUse DEF PInv
<1> QED BY <1>1, <1>2, TableInvariant, PTL DEF Spec

\* No secret stays behind for a session that is gone.
THEOREM StagedForLiveSession == ASSUME Serialized PROVE Spec => []SecretHasSession
<1>1. PInv => SecretHasSession
  BY DEF PInv
<1> QED BY <1>1, PrivateInvariant, PTL

\* close_session, detach_session and a create that is undone never close a
\* session under an operation in flight.
THEOREM NoCloseUnderOperation == ASSUME Serialized PROVE Spec => NoCloseInOperation
<1> DEFINE Busy(s) == \E r \in Request : sid[r] = s /\ pc[r] \in OperationLabels \union {"write"}
<1>1. TInv /\ PInv /\ [Next]_vars =>
        [\A s \in Id : obj[s] = "open" /\ obj'[s] # "open" => ~Busy(s)]_vars
  <2> SUFFICES ASSUME TInv, PInv, Next, NEW s \in Id, obj[s] = "open", obj'[s] # "open",
                      NEW r \in Request, sid[r] = s,
                      pc[r] \in OperationLabels \union {"write"}
               PROVE  FALSE
    OBVIOUS
  <2> USE ManagerAssumption DEF TInv, TypeOK, Labels
  <2>1. HasLock(r)
    BY DEF HasLock, LockLabels, OperationLabels
  <2>2. ASSUME NEW q \in Request, CheckBeforeAdd(q) \/ Add(q) \/ CloseObject(q)
        PROVE  FALSE
    <3>1. sid[q] = s
      BY <2>2 DEF CheckBeforeAdd, Add, CloseObject, TearDown
    <3>2. q # r /\ (HasLock(q) \/ Undecided(q))
      BY <2>2 DEF CheckBeforeAdd, Add, CloseObject, HasLock, Undecided, CloseLabels,
                  CreateLabels, OperationLabels, ControlOK, Control
    <3> QED BY <2>1, <3>1, <3>2, Undisturbed
  <2>3. ASSUME NEW q \in Request, DialOk(q) PROVE FALSE
    BY <2>3 DEF DialOk
  <2>4. ~\E t \in Id : ReaperClose(t)
    BY DEF ReaperClose, PInv
  <2>5. ASSUME NEW q \in Request, Arrive(q) \/ Cancel(q) \/ Handle(q),
               ~(CheckBeforeAdd(q) \/ Add(q) \/ CloseObject(q) \/ DialOk(q))
        PROVE  obj' = obj
    BY <2>5 DEF Arrive, Cancel, Handle, Respond, DialFailed,
      CheckAfterAdd, FirstGet, Reget, Get, LockSession, UnlockSession, WriteInput, Use,
      AutoTake, AutoSend, AutoRestore, Deliver, SendTake, TakeSecret, AskOperator,
      OperatorDone, CheckEntered, SetPendingSecret, DeleteEntry, ClearSecret
  <2>6. ASSUME (\E t \in Id : Age(t)) \/ Reap PROVE obj' = obj
    BY <2>6 DEF Age, Reap
  <2> QED BY <2>2, <2>3, <2>4, <2>5, <2>6 DEF Next, Reaper
<1>2. (\A s \in Id : obj[s] = "open" /\ obj'[s] # "open" => ~Busy(s)) =>
        \A s \in Id : obj[s] = "open" /\ obj'[s] # "open" =>
          \A r \in Request : sid[r] = s =>
              pc[r] \notin {"write", "use", "auto", "judge", "take", "ask", "asking",
                          "entered", "stage", "deliver"}
  BY DEF OperationLabels
<1> QED BY <1>1, <1>2, TableInvariant, PrivateInvariant, PTL DEF Spec, NoCloseInOperation
=============================================================================
