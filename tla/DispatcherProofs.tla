-------------------------- MODULE DispatcherProofs --------------------------
(* Proofs about Dispatcher, for every set of requests, also an infinite one, *)
(* every assignment of ids, every number of slots and every channel size.    *)
EXTENDS Dispatcher, SequenceTheorems, FiniteSetTheorems, TLAPS

-----------------------------------------------------------------------------
(* The inductive invariant *)

\* A notification has no response to decide about.
NotificationsSilent == \A r \in Notification : pc[r] \notin {"finish", "send"}

\* A request that is past its decision was cancelled, or its answer is out or
\* was lost in the encoder; nothing is lost before its decision.
Decided ==
    /\ \A r \in Request \ Notification :
          pc[r] \in {"release", "done"} /\ ~cancelled[r] =>
              r \in unsent \/ \E k \in DOMAIN Answers : Answers[k] = r
    /\ \A r \in unsent : pc[r] \in {"release", "done"}

\* respCh is closed once nothing runs any more, and after a clean exit the
\* writer has emptied it.
ClosedIsQuiet ==
    /\ closed => main \in {"flush", "clean"}
    /\ main \in {"flush", "clean"} => \A r \in Request : pc[r] \in {"new", "done"}
    /\ main = "clean" => respCh = <<>> /\ encoding = None

IInv ==
    /\ TypeOK /\ IsFiniteSet(slots)
    /\ RegistryExact /\ SlotsExact
    /\ AnsweredOnce /\ CancelSilences
    /\ NotificationsSilent /\ Decided /\ ClosedIsQuiet

-----------------------------------------------------------------------------
(* Sequences *)

\* Appending a new element keeps a sequence injective.
LEMMA AppendInjects ==
    ASSUME NEW S, NEW s \in Seq(S), NEW e \in S, IsInjective(s),
           \A k \in DOMAIN s : s[k] # e
    PROVE  IsInjective(Append(s, e))
BY DEF IsInjective

\* The response the writer takes from the channel keeps its place.
LEMMA TakeKeepsOrder ==
    ASSUME NEW S, NEW o \in Seq(S), NEW q \in Seq(S), q # <<>>
    PROVE  o \o <<>> \o q = o \o <<Head(q)>> \o Tail(q)
BY SMTT(20)

\* So does the one it writes to stdout.
LEMMA EncodeKeepsOrder ==
    ASSUME NEW S, NEW o \in Seq(S), NEW q \in Seq(S), NEW e \in S
    PROVE  o \o <<e>> \o q = Append(o, e) \o <<>> \o q
BY SMTT(20)

\* Sequence b has the elements of a, each once, except e.
Without(a, b, e) ==
    /\ IsInjective(b)
    /\ \A k \in DOMAIN b : b[k] # e /\ \E i \in DOMAIN a : b[k] = a[i]
    /\ \A i \in DOMAIN a : a[i] = e \/ \E k \in DOMAIN b : b[k] = a[i]

\* A response that cannot be written is lost; the others stay, each once.
LEMMA FailKeepsOthers ==
    ASSUME NEW S, NEW o \in Seq(S), NEW q \in Seq(S), NEW e \in S, IsInjective(o \o <<e>> \o q)
    PROVE  Without(o \o <<e>> \o q, o \o <<>> \o q, e)
<1> DEFINE a == o \o <<e>> \o q
           b == o \o <<>> \o q
           n == Len(o)
           At(k) == IF k <= n THEN k ELSE k + 1
<1>1. /\ n \in Nat /\ Len(q) \in Nat
      /\ DOMAIN a = 1 .. n + 1 + Len(q) /\ DOMAIN b = 1 .. n + Len(q) /\ a[n + 1] = e
      /\ \A k \in 1 .. n + Len(q) : b[k] = a[At(k)]
  BY SMTT(30)
<1>2. IsInjective(a)
  OBVIOUS
<1> HIDE DEF a, b, n
<1>3. \A k \in 1 .. n + Len(q) : At(k) \in 1 .. n + 1 + Len(q) /\ At(k) # n + 1
  BY <1>1
<1>4. \A i \in 1 .. n + 1 + Len(q) : i = n + 1 \/ \E k \in 1 .. n + Len(q) : i = At(k)
  <2> SUFFICES ASSUME NEW i \in 1 .. n + 1 + Len(q), i # n + 1
               PROVE  \E k \in 1 .. n + Len(q) : i = At(k)
    OBVIOUS
  <2>1. CASE i <= n
    BY <1>1, <2>1
  <2>2. CASE i > n + 1
    <3>1. i - 1 \in 1 .. n + Len(q) /\ i = At(i - 1)
      BY <1>1, <2>2
    <3> QED BY <3>1
  <2> QED BY <1>1, <2>1, <2>2
<1>5. \A k, j \in 1 .. n + Len(q) : At(k) = At(j) => k = j
  BY <1>1
<1> HIDE DEF At
<1>6. IsInjective(b)
  BY <1>1, <1>2, <1>3, <1>5 DEF IsInjective
<1>7. \A k \in DOMAIN b : b[k] # e /\ \E i \in DOMAIN a : b[k] = a[i]
  BY <1>1, <1>2, <1>3 DEF IsInjective
<1>8. \A i \in DOMAIN a : a[i] = e \/ \E k \in DOMAIN b : b[k] = a[i]
  BY <1>1, <1>4
<1> QED BY <1>6, <1>7, <1>8 DEF a, b, Without

\* A response that is sent comes last.
LEMMA SendIsLast ==
    ASSUME NEW S, NEW o \in Seq(S), NEW m \in Seq(S), NEW q \in Seq(S), NEW e \in S
    PROVE  o \o m \o Append(q, e) = Append(o \o m \o q, e)
BY SMTT(20)

\* The answers of a behaviour are a sequence of requests.
LEMMA AnswersType == TypeOK => Answers \in Seq(Request)
BY DEF TypeOK, Answers

-----------------------------------------------------------------------------
\* Before the first line is read.
LEMMA InitIInv == Init => IInv
<1> SUFFICES ASSUME Init PROVE IInv
  OBVIOUS
<1> USE DispatcherAssumption
<1>1. TypeOK /\ RegistryExact
  <2>1. respCh \in Seq(Request) /\ out \in Seq(Request) /\ Len(respCh) <= RespCap
    BY DEF Init
  <2>2. cancelled \in [Request -> BOOLEAN] /\ closed \in BOOLEAN
    BY Zenon DEF Init
  <2> QED BY <2>1, <2>2 DEF Init, TypeOK, RegistryExact
<1>2. IsFiniteSet(slots) /\ SlotsExact
  BY FS_EmptySet DEF Init, SlotsExact
<1>3. Answers = <<>>
  BY DEF Init, Answers
<1>4. AnsweredOnce /\ CancelSilences
  BY <1>3 DEF Init, AnsweredOnce, CancelSilences, IsInjective
<1>5. NotificationsSilent /\ Decided /\ ClosedIsQuiet
  BY DEF Init, NotificationsSilent, Decided, ClosedIsQuiet
<1> QED BY <1>1, <1>2, <1>4, <1>5 DEF IInv

\* Every step keeps the types, the registry and the rules of shutdown.
LEMMA NextBasics ==
    ASSUME IInv, [Next]_vars
    PROVE  (TypeOK /\ RegistryExact /\ NotificationsSilent /\ ClosedIsQuiet)'
<1> USE DispatcherAssumption
<1> DEFINE Goal == (TypeOK /\ RegistryExact /\ NotificationsSilent /\ ClosedIsQuiet)'
<1> USE DEF IInv, TypeOK, RegistryExact, NotificationsSilent, ClosedIsQuiet, Running
<1>1. ASSUME NEW r \in Request, Receive(r) PROVE Goal
  BY <1>1 DEF Receive, Goto
<1>2. ASSUME NEW r \in Request, CheckCtx(r) PROVE Goal
  BY <1>2 DEF CheckCtx, Abandon, Goto
<1>3. ASSUME NEW r \in Request, AcquireSlot(r) PROVE Goal
  BY <1>3 DEF AcquireSlot, Goto
<1>4. ASSUME NEW r \in Request, CancelledInSelect(r) PROVE Goal
  BY <1>4 DEF CancelledInSelect, Abandon, Goto
<1>5. ASSUME NEW r \in Request, HandlerReturns(r) PROVE Goal
  BY <1>5 DEF HandlerReturns, Goto
<1>6. ASSUME NEW r \in Request, Finish(r) PROVE Goal
  BY <1>6 DEF Finish, Goto
<1>7. ASSUME NEW r \in Request, SendResponse(r) PROVE Goal
  BY <1>7 DEF SendResponse, Goto
<1>8. ASSUME NEW r \in Request, ReleaseSlot(r) PROVE Goal
  BY <1>8 DEF ReleaseSlot, Goto
<1>9. ASSUME NEW key, HandleCancellation(key) PROVE Goal
  BY <1>9 DEF HandleCancellation
<1>10. CASE Eof
  BY <1>10 DEF Eof
<1>11. CASE TakeResponse
  <2>1. /\ respCh' \in Seq(Request) /\ Len(respCh') = Len(respCh) - 1 /\ encoding' \in Request
        /\ Len(respCh) \in Nat
    BY <1>11 DEF TakeResponse
  <2> QED BY <1>11, <2>1 DEF TakeResponse
<1>12. CASE Encode
  BY <1>12 DEF Encode
<1>17. CASE EncodeFails
  BY <1>17 DEF EncodeFails
<1>13. CASE CloseRespCh
  BY <1>13 DEF CloseRespCh
<1>14. CASE WriterDone
  BY <1>14 DEF WriterDone
<1>15. CASE GraceOver
  BY <1>15 DEF GraceOver
<1>16. CASE UNCHANGED vars
  BY <1>16 DEF vars
<1> QED
  BY <1>1, <1>2, <1>3, <1>4, <1>5, <1>6, <1>7, <1>8, <1>9, <1>10, <1>11, <1>12,
     <1>13, <1>14, <1>15, <1>16, <1>17
  DEF Next, Serve, Write, Shutdown

\* Every step keeps the account of the slots.
LEMMA NextSlots ==
    ASSUME IInv, [Next]_vars
    PROVE  (IsFiniteSet(slots) /\ SlotsExact)'
<1> USE DispatcherAssumption
<1> DEFINE Goal == (IsFiniteSet(slots) /\ SlotsExact)'
<1>0. TypeOK /\ IsFiniteSet(slots) /\ SlotsExact
  BY DEF IInv
<1>1. ASSUME NEW r \in Request, AcquireSlot(r) PROVE Goal
  <2>1. r \notin slots /\ slots' = slots \union {r} /\ Cardinality(slots) < MaxConcurrent
    BY <1>0, <1>1 DEF AcquireSlot, SlotsExact
  <2>2. IsFiniteSet(slots') /\ Cardinality(slots') = Cardinality(slots) + 1
    BY <1>0, <2>1, FS_AddElement
  <2>3. Cardinality(slots) \in Nat
    BY <1>0, FS_CardinalityType
  <2>4. slots' = {q \in Request : pc'[q] \in {"handle", "finish", "send", "release"}}
    BY <1>0, <1>1 DEF AcquireSlot, Goto, SlotsExact, TypeOK
  <2> QED BY <2>1, <2>2, <2>3, <2>4 DEF SlotsExact
<1>2. ASSUME NEW r \in Request, ReleaseSlot(r) PROVE Goal
  <2>1. r \in slots /\ slots' = slots \ {r}
    BY <1>0, <1>2 DEF ReleaseSlot, SlotsExact
  <2>2. IsFiniteSet(slots') /\ Cardinality(slots') = Cardinality(slots) - 1
    BY <1>0, <2>1, FS_RemoveElement
  <2>3. Cardinality(slots) \in Nat /\ Cardinality(slots) <= MaxConcurrent
    BY <1>0, FS_CardinalityType DEF SlotsExact
  <2>4. slots' = {q \in Request : pc'[q] \in {"handle", "finish", "send", "release"}}
    BY <1>0, <1>2 DEF ReleaseSlot, Goto, SlotsExact, TypeOK
  <2> QED BY <2>2, <2>3, <2>4 DEF SlotsExact
<1>3. ASSUME slots' = slots,
             \A q \in Request : pc'[q] \in {"handle", "finish", "send", "release"}
                                  <=> pc[q] \in {"handle", "finish", "send", "release"}
      PROVE  Goal
  BY <1>0, <1>3 DEF SlotsExact
<1> USE <1>0, <1>3 DEF TypeOK, Goto
<1> HIDE DEF Goal
<1>4. ASSUME NEW r \in Request, Receive(r) PROVE Goal
  BY <1>4 DEF Receive
<1>5. ASSUME NEW r \in Request, CheckCtx(r) PROVE Goal
  BY <1>5 DEF CheckCtx, Abandon
<1>6. ASSUME NEW r \in Request, CancelledInSelect(r) PROVE Goal
  BY <1>6 DEF CancelledInSelect, Abandon
<1>7. ASSUME NEW r \in Request, HandlerReturns(r) PROVE Goal
  BY <1>7 DEF HandlerReturns
<1>8. ASSUME NEW r \in Request, Finish(r) PROVE Goal
  BY <1>8 DEF Finish
<1>9. ASSUME NEW r \in Request, SendResponse(r) PROVE Goal
  BY <1>9 DEF SendResponse
<1>10. ASSUME NEW key, HandleCancellation(key) PROVE Goal
  BY <1>10 DEF HandleCancellation
<1>11. ASSUME Eof \/ Write \/ Shutdown \/ UNCHANGED vars PROVE Goal
  <2>1. slots' = slots /\ pc' = pc
    BY <1>11 DEF Eof, Write, TakeResponse, Encode, EncodeFails, Shutdown, CloseRespCh, WriterDone,
                 GraceOver, vars
  <2> QED BY <2>1
<1> QED
  BY <1>1, <1>2, <1>4, <1>5, <1>6, <1>7, <1>8, <1>9, <1>10, <1>11
  DEF Next, Serve, Goal

\* What becomes of the answers: a step sends one at most, and only a request
\* that is about to send, or loses the one the encoder fails on; no step takes one
\* back or changes their order.
LEMMA AnswersNext ==
    ASSUME IInv, [Next]_vars
    PROVE  \/ Answers' = Answers /\ unsent' = unsent
           \/ \E r \in Request : /\ SendResponse(r) /\ unsent' = unsent
                                 /\ Answers' = Append(Answers, r)
           \/ EncodeFails
<1> USE DispatcherAssumption
<1>1. ASSUME NEW r \in Request, SendResponse(r)
      PROVE  Answers' = Append(Answers, r)
  <2> DEFINE m == IF encoding = None THEN <<>> ELSE <<encoding>>
  <2>1. m \in Seq(Request) /\ out \in Seq(Request) /\ respCh \in Seq(Request)
    BY DEF IInv, TypeOK
  <2>2. Answers' = out \o m \o Append(respCh, r) /\ Answers = out \o m \o respCh
    BY <1>1 DEF SendResponse, Answers
  <2> HIDE DEF m
  <2> QED BY <2>1, <2>2, SendIsLast
<1>2. ASSUME TakeResponse PROVE Answers' = Answers
  <2>1. /\ out \in Seq(Request) /\ respCh \in Seq(Request) /\ respCh # <<>>
        /\ Head(respCh) \in Request /\ Head(respCh) # None
    BY <1>2 DEF IInv, TypeOK, TakeResponse
  <2>2. /\ Answers = out \o <<>> \o respCh
        /\ Answers' = out \o <<Head(respCh)>> \o Tail(respCh)
    BY <1>2, <2>1 DEF TakeResponse, Answers
  <2> QED BY <2>1, <2>2, TakeKeepsOrder
<1>3. ASSUME Encode PROVE Answers' = Answers
  <2>1. out \in Seq(Request) /\ respCh \in Seq(Request) /\ encoding \in Request
    BY <1>3 DEF IInv, TypeOK, Encode
  <2>2. /\ Answers = out \o <<encoding>> \o respCh
        /\ Answers' = Append(out, encoding) \o <<>> \o respCh
    BY <1>3, <2>1 DEF Encode, Answers
  <2> QED BY <2>1, <2>2, EncodeKeepsOrder
<1>4. ASSUME UNCHANGED <<out, encoding, respCh, unsent>> PROVE Answers' = Answers /\ unsent' = unsent
  BY <1>4 DEF Answers
<1>5. ASSUME NEW r \in Request, Receive(r) \/ HandlerReturns(r)
      PROVE  Answers' = Answers /\ unsent' = unsent
  BY <1>4, <1>5 DEF Receive, HandlerReturns
<1>6. ASSUME NEW r \in Request,
             CheckCtx(r) \/ AcquireSlot(r) \/ CancelledInSelect(r) \/ Finish(r) \/ ReleaseSlot(r)
      PROVE  Answers' = Answers /\ unsent' = unsent
  BY <1>4, <1>6 DEF CheckCtx, AcquireSlot, CancelledInSelect, Abandon, Finish, ReleaseSlot
<1>7. ASSUME NEW key, HandleCancellation(key) PROVE Answers' = Answers /\ unsent' = unsent
  BY <1>4, <1>7 DEF HandleCancellation
<1>8. CASE Eof \/ Shutdown \/ UNCHANGED vars
  BY <1>4, <1>8 DEF Eof, Shutdown, CloseRespCh, WriterDone, GraceOver, vars
<1>9. ASSUME TakeResponse \/ Encode \/ \E r \in Request : SendResponse(r) PROVE unsent' = unsent
  BY <1>9 DEF TakeResponse, Encode, SendResponse
<1> QED BY <1>1, <1>2, <1>3, <1>5, <1>6, <1>7, <1>8, <1>9 DEF Next, Serve, Write

\* What becomes of a request: what it has reached it keeps, and the decision
\* between answer and cancellation is made once, in Finish.
LEMMA PcNext ==
    ASSUME IInv, [Next]_vars, NEW r \in Request
    PROVE  /\ pc[r] \in {"release", "done"} => pc'[r] \in {"release", "done"}
           /\ cancelled[r] => cancelled'[r]
           /\ cancelled'[r] /\ ~cancelled[r] => r \in inflight /\ pc'[r] = pc[r]
           /\ pc'[r] = "send" /\ pc[r] # "send" => ~cancelled[r] /\ ~cancelled'[r]
           /\ pc'[r] \in {"release", "done"} /\ pc[r] \notin {"release", "done"}
                => r \in Notification \/ cancelled[r] \/ SendResponse(r)
<1> USE DispatcherAssumption DEF IInv, TypeOK, Goto
<1> DEFINE Goal ==
      /\ pc[r] \in {"release", "done"} => pc'[r] \in {"release", "done"}
      /\ cancelled[r] => cancelled'[r]
      /\ cancelled'[r] /\ ~cancelled[r] => r \in inflight /\ pc'[r] = pc[r]
      /\ pc'[r] = "send" /\ pc[r] # "send" => ~cancelled[r] /\ ~cancelled'[r]
      /\ pc'[r] \in {"release", "done"} /\ pc[r] \notin {"release", "done"}
            => r \in Notification \/ cancelled[r] \/ SendResponse(r)
<1>1. ASSUME NEW q \in Request, Receive(q) \/ HandlerReturns(q) PROVE Goal
  BY <1>1 DEF Receive, HandlerReturns
<1>2. ASSUME NEW q \in Request, CheckCtx(q) \/ AcquireSlot(q) \/ CancelledInSelect(q)
      PROVE  Goal
  BY <1>2 DEF CheckCtx, AcquireSlot, CancelledInSelect, Abandon
<1>3. ASSUME NEW q \in Request, Finish(q) PROVE Goal
  BY <1>3 DEF Finish
<1>4. ASSUME NEW q \in Request, SendResponse(q) PROVE Goal
  <2>1. CASE q = r
    BY <1>4, <2>1 DEF SendResponse
  <2>2. CASE q # r
    BY <1>4, <2>2 DEF SendResponse
  <2> QED BY <2>1, <2>2
<1>5. ASSUME NEW q \in Request, ReleaseSlot(q) PROVE Goal
  BY <1>5 DEF ReleaseSlot
<1>6. ASSUME NEW key, HandleCancellation(key) PROVE Goal
  BY <1>6 DEF HandleCancellation
<1>7. CASE Eof \/ Write \/ Shutdown \/ UNCHANGED vars
  BY <1>7 DEF Eof, Write, TakeResponse, Encode, EncodeFails, Shutdown, CloseRespCh, WriterDone,
              GraceOver, vars
<1> QED BY <1>1, <1>2, <1>3, <1>4, <1>5, <1>6, <1>7 DEF Next, Serve

\* Every step keeps the account of the answers.
LEMMA NextAnswers ==
    ASSUME IInv, [Next]_vars
    PROVE  (AnsweredOnce /\ CancelSilences /\ Decided)'
<1> USE DispatcherAssumption
<1>0. /\ Answers \in Seq(Request) /\ DOMAIN Answers = 1 .. Len(Answers)
      /\ Len(Answers) \in Nat
  BY AnswersType DEF IInv
<1>1. CASE Answers' = Answers /\ unsent' = unsent
  <2>1. AnsweredOnce'
    <3>1. \A k \in DOMAIN Answers : Answers[k] \in Request
      BY <1>0
    <3> QED BY <1>1, <3>1, PcNext DEF IInv, AnsweredOnce
  <2>2. CancelSilences'
    <3> SUFFICES ASSUME NEW r \in Request, cancelled'[r]
                 PROVE  pc'[r] # "send" /\ \A k \in DOMAIN Answers : Answers[k] # r
      BY <1>1 DEF CancelSilences
    <3>1. CASE cancelled[r]
      BY <3>1, PcNext DEF IInv, CancelSilences
    <3>2. CASE ~cancelled[r]
      BY <3>2, PcNext DEF IInv, AnsweredOnce, RegistryExact
    <3> QED BY <3>1, <3>2
  <2>3. Decided'
    <3> SUFFICES ASSUME NEW r \in Request \ Notification, pc'[r] \in {"release", "done"},
                        ~cancelled'[r]
                 PROVE  r \in unsent \/ \E k \in DOMAIN Answers : Answers[k] = r
      <4>1. \A r \in unsent : pc'[r] \in {"release", "done"}
        BY PcNext DEF IInv, TypeOK, Decided
      <4> QED BY <1>1, <4>1 DEF Decided
    <3>1. ~cancelled[r] /\ (pc[r] \in {"release", "done"} \/ SendResponse(r))
      BY PcNext
    <3>2. ~SendResponse(r)
      <4> SUFFICES ASSUME SendResponse(r) PROVE FALSE
        OBVIOUS
      <4>1. out' = out /\ encoding' = encoding /\ respCh' = Append(respCh, r)
        BY DEF SendResponse
      <4> DEFINE m == IF encoding = None THEN <<>> ELSE <<encoding>>
      <4>2. m \in Seq(Request) /\ out \in Seq(Request) /\ respCh \in Seq(Request)
        BY DEF IInv, TypeOK
      <4>3. Answers' = out \o m \o Append(respCh, r)
        BY <4>1 DEF Answers
      <4>4. Answers = out \o m \o respCh
        BY DEF Answers
      <4> HIDE DEF m
      <4>5. Len(Answers') = Len(Answers) + 1
        BY <4>2, <4>3, <4>4
      <4> QED BY <1>0, <1>1, <4>5
    <3> QED BY <3>1, <3>2 DEF IInv, Decided
  <2> QED BY <2>1, <2>2, <2>3
<1>2. ASSUME NEW q \in Request, SendResponse(q), Answers' = Append(Answers, q), unsent' = unsent
      PROVE  (AnsweredOnce /\ CancelSilences /\ Decided)'
  <2>1. /\ pc[q] = "send" /\ pc' = [pc EXCEPT ![q] = "release"] /\ cancelled' = cancelled
        /\ q \notin Notification /\ ~cancelled[q]
    BY <1>2 DEF SendResponse, Goto, IInv, NotificationsSilent, CancelSilences
  <2>2. q \notin unsent /\ \A k \in DOMAIN Answers : Answers[k] # q
    BY <2>1 DEF IInv, AnsweredOnce, Decided
  <2>3. /\ DOMAIN Append(Answers, q) = DOMAIN Answers \union {Len(Answers) + 1}
        /\ \A k \in DOMAIN Answers : Append(Answers, q)[k] = Answers[k]
        /\ Append(Answers, q)[Len(Answers) + 1] = q
    BY <1>0
  <2>4. AnsweredOnce'
    <3>1. IsInjective(Append(Answers, q))
      BY <1>0, <2>2, AppendInjects DEF IInv, AnsweredOnce
    <3>2. \A k \in DOMAIN Answers : Answers[k] \in Request
      BY <1>0
    <3>3. \A k \in DOMAIN Append(Answers, q) :
             /\ Append(Answers, q)[k] \notin unsent
             /\ Append(Answers, q)[k] \notin Notification
             /\ pc'[Append(Answers, q)[k]] \in {"release", "done"}
      BY <2>1, <2>2, <2>3, <3>2 DEF IInv, AnsweredOnce, TypeOK
    <3> QED BY <1>2, <3>1, <3>3 DEF AnsweredOnce
  <2>5. CancelSilences'
    BY <1>2, <2>1, <2>3 DEF IInv, CancelSilences, TypeOK
  <2>6. Decided'
    BY <1>2, <2>1, <2>3 DEF IInv, Decided, TypeOK
  <2> QED BY <2>4, <2>5, <2>6
<1>3. CASE EncodeFails
  <2>1. /\ out \in Seq(Request) /\ respCh \in Seq(Request) /\ encoding \in Request
        /\ unsent' = unsent \union {encoding} /\ UNCHANGED <<pc, cancelled>>
    BY <1>3 DEF IInv, TypeOK, EncodeFails
  <2>2. /\ Answers = out \o <<encoding>> \o respCh
        /\ Answers' = out \o <<>> \o respCh
    BY <1>3, <2>1 DEF EncodeFails, Answers
  <2>3. /\ IsInjective(Answers')
        /\ \A k \in DOMAIN Answers' :
              Answers'[k] # encoding /\ \E i \in DOMAIN Answers : Answers'[k] = Answers[i]
        /\ \A i \in DOMAIN Answers :
              Answers[i] = encoding \/ \E k \in DOMAIN Answers' : Answers'[k] = Answers[i]
    <3>1. IsInjective(Answers)
      BY DEF IInv, AnsweredOnce
    <3>2. IsInjective(out \o <<encoding>> \o respCh)
      BY <2>2, <3>1
    <3>3. Without(out \o <<encoding>> \o respCh, out \o <<>> \o respCh, encoding)
      BY <2>1, <3>2, FailKeepsOthers
    <3>4. Without(Answers, Answers', encoding)
      BY <2>2, <3>3
    <3> QED BY <3>4, Zenon DEF Without
  <2>4. \E i \in DOMAIN Answers : Answers[i] = encoding
    <3>1. Len(out) + 1 \in DOMAIN Answers /\ Answers[Len(out) + 1] = encoding
      BY <2>1, <2>2
    <3> QED BY <3>1
  <2>5. AnsweredOnce'
    BY <2>1, <2>3 DEF IInv, AnsweredOnce
  <2>6. CancelSilences'
    BY <2>1, <2>3 DEF IInv, CancelSilences
  <2>7. Decided'
    BY <2>1, <2>3, <2>4 DEF IInv, Decided, AnsweredOnce
  <2> QED BY <2>5, <2>6, <2>7
<1> QED BY <1>1, <1>2, <1>3, AnswersNext

\* Every step keeps the inductive invariant.
LEMMA NextIInv == IInv /\ [Next]_vars => IInv'
BY NextBasics, NextSlots, NextAnswers DEF IInv

-----------------------------------------------------------------------------
\* The inductive invariant holds in every behaviour of the loop, the goroutines,
\* the writer and the shutdown.
THEOREM Invariant == Spec => []IInv
BY InitIInv, NextIInv, PTL DEF Spec

\* On every path of a request, also when it is cancelled while it waits for its
\* slot or shares its id with another, the registry and the semaphore hold
\* exactly what is in flight.
THEOREM LeakFreedom == Spec => []NothingLeaks
<1>1. IInv => NothingLeaks
  BY DEF IInv, NothingLeaks
<1> QED BY <1>1, Invariant, PTL

\* A request is answered once, or cancelled and never answered.
THEOREM SingleOutcome == Spec => []OneOutcome
<1>1. IInv => OneOutcome
  BY DEF IInv, OneOutcome
<1> QED BY <1>1, Invariant, PTL

\* No goroutine sends on the closed channel, and after a clean exit every
\* request that was read and not cancelled has its answer on stdout, unless the
\* encoder failed on it.
THEOREM ShutdownIsClean == Spec => []CleanShutdown
<1>1. IInv => CleanShutdown
  <2> SUFFICES ASSUME IInv PROVE CleanShutdown
    OBVIOUS
  <2>1. NoSendOnClosed
    BY DEF IInv, ClosedIsQuiet, NoSendOnClosed
  <2>2. CleanExitAnswers
    <3> SUFFICES ASSUME main = "clean", NEW r \in Request \ Notification,
                        pc[r] # "new", ~cancelled[r]
                 PROVE  r \in unsent \/ \E k \in DOMAIN out : out[k] = r
      BY DEF CleanExitAnswers
    <3>1. pc[r] = "done" /\ respCh = <<>> /\ encoding = None
      BY DEF IInv, ClosedIsQuiet
    <3>2. Answers = out
      BY <3>1 DEF Answers, IInv, TypeOK
    <3> QED BY <3>1, <3>2 DEF IInv, Decided
  <2> QED BY <2>1, <2>2 DEF CleanShutdown
<1> QED BY <1>1, Invariant, PTL
=============================================================================
