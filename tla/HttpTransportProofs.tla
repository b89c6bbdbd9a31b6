------------------------ MODULE HttpTransportProofs ------------------------
(* Proofs about HttpTransport, for every set of POSTs with batches of every *)
(* length, every set of clients and every number of slots.                  *)
EXTENDS HttpTransport, SequenceTheorems, FiniteSetTheorems, TLAPS

-----------------------------------------------------------------------------
(* The inductive invariant *)

Silent(p, k) == \E c \in Clients : <<p, k, c>> \in silenced

\* Where a POST is in its batch.
Place(p) ==
    /\ post[p].at \in 1 .. Len(Body[p]) + 1
    /\ Pc(p) \in {"select", "handle", "finish", "release"} =>
          /\ post[p].at <= Len(Body[p])
          /\ Msg(p).kind \in {"request", "initialize", "notification"}
    /\ Pc(p) = "finish" => ~IsNotification(p)
    /\ Pc(p) = "done" => post[p].at = Len(Body[p]) + 1
    /\ Pc(p) = "new" => post[p].scope = NoSid

\* A cancellation is recorded for a message that has begun; as long as the
\* message is the current one, its entry says so.
Silence(p) ==
    /\ \A k \in Nat : Silent(p, k) => k <= post[p].at /\ Pc(p) # "new"
    /\ Silent(p, post[p].at) <=> post[p].cancelled
    /\ post[p].cancelled => /\ Pc(p) \in {"select", "handle", "finish", "release"}
                            /\ ~IsNotification(p)

\* The messages that are over and owe an answer.
Due(p) ==
    {k \in Owed(p) : k < post[p].at \/ (k = post[p].at /\ Pc(p) = "release")}

\* The answers so far: to what is due, in order, and to all of it unless the
\* client has left.
Answered(resp, due, all) ==
    /\ \A i, j \in DOMAIN resp : i < j => resp[i] < resp[j]
    /\ \A i \in DOMAIN resp : resp[i] \in due
    /\ all => \A k \in due : \E i \in DOMAIN resp : resp[i] = k

Answers(p) == Answered(post[p].resp, Due(p), ~post[p].gone)

\* A POST under a session comes from the client the session was given to.
Scoped ==
    \A p \in Post : post[p].scope # NoSid =>
        post[p].scope \in DOMAIN owner /\ owner[post[p].scope] = Client[p]

HInv ==
    /\ TypeOK /\ IsFiniteSet(slots)
    /\ RegistryExact /\ SlotsExact /\ EndedStaysEnded
    /\ Scoped /\ CancelledByOwner
    /\ \A p \in Post : Place(p) /\ Silence(p) /\ Answers(p)

-----------------------------------------------------------------------------
\* Before the first POST.
LEMMA InitHInv == Init => HInv
<1> SUFFICES ASSUME Init PROVE HInv
  OBVIOUS
<1> USE HttpAssumption
<1>1. TypeOK
  <2>1. \A p \in Post : post[p] \in PostState
    BY DEF Init, PostState
  <2>2. post \in [Post -> PostState]
    BY <2>1 DEF Init
  <2>3. DOMAIN owner = {}
    BY DEF Init
  <2> QED BY <2>2, <2>3 DEF Init, TypeOK
<1>2. IsFiniteSet(slots) /\ SlotsExact
  BY FS_EmptySet DEF Init, SlotsExact, Pc
<1>3. RegistryExact /\ EndedStaysEnded /\ Scoped /\ CancelledByOwner
  BY DEF Init, RegistryExact, EndedStaysEnded, Scoped, CancelledByOwner, Pc
<1>4. ASSUME NEW p \in Post PROVE Place(p) /\ Silence(p) /\ Answers(p)
  <2>1. Len(Body[p]) \in Nat /\ DOMAIN Body[p] = 1 .. Len(Body[p])
    OBVIOUS
  <2>2. Place(p)
    BY <2>1 DEF Init, Place, Pc
  <2>3. Silence(p)
    BY DEF Init, Silence, Silent, Pc
  <2>4. Answers(p)
    BY <2>1 DEF Init, Answers, Answered, Due, Owed, Pc
  <2> QED BY <2>2, <2>3, <2>4
<1> QED BY <1>1, <1>2, <1>3, <1>4 DEF HInv

-----------------------------------------------------------------------------
(* What the assignments to post do, field by field *)

Labels == {"new", "next", "select", "handle", "finish", "release", "done", "refused"}

\* Only the POST p moves.
Only(p) == \A q \in Post \ {p} : post'[q] = post[q]

\* A POST moves on within a message.
LEMMA GotoFields ==
    ASSUME TypeOK, NEW p \in Post, NEW l \in Labels, Goto(p, l)
    PROVE  /\ post' \in [Post -> PostState] /\ Only(p)
           /\ post'[p].pc = l /\ post'[p].at = post[p].at
           /\ post'[p].scope = post[p].scope /\ post'[p].gone = post[p].gone
           /\ post'[p].cancelled = post[p].cancelled /\ post'[p].resp = post[p].resp
BY DEF TypeOK, PostState, Goto, Only, Labels

\* A POST goes on to its next message; s is what it adds to the response.
LEMMA AdvanceFields ==
    ASSUME TypeOK, NEW p \in Post, NEW s \in Seq(Nat), Advance(p, s)
    PROVE  /\ post' \in [Post -> PostState] /\ Only(p)
           /\ post'[p].pc = "next" /\ post'[p].at = post[p].at + 1
           /\ post'[p].scope = post[p].scope /\ post'[p].gone = post[p].gone
           /\ post'[p].cancelled = FALSE /\ post'[p].resp = post[p].resp \o s
<1>1. /\ post[p].at + 1 \in Nat /\ post[p].resp \o s \in Seq(Nat)
  BY DEF TypeOK, PostState
<1>2. Only(p)
  BY DEF TypeOK, Advance, Only
<1>3. /\ post'[p].pc = "next" /\ post'[p].at = post[p].at + 1
      /\ post'[p].scope = post[p].scope /\ post'[p].gone = post[p].gone
      /\ post'[p].cancelled = FALSE /\ post'[p].resp = post[p].resp \o s
  BY DEF TypeOK, PostState, Advance
<1>4. post'[p] \in PostState
  BY <1>1, ZenonT(60) DEF TypeOK, PostState, Advance
<1> QED BY <1>2, <1>3, <1>4 DEF TypeOK, Advance, Only

\* The handler of a message is done.
LEMMA FinishFields ==
    ASSUME TypeOK, NEW p \in Post, Finish(p)
    PROVE  /\ post' \in [Post -> PostState] /\ Only(p)
           /\ post'[p].pc = "release" /\ post'[p].at = post[p].at
           /\ post'[p].scope = post[p].scope /\ post'[p].gone = post[p].gone
           /\ post'[p].cancelled = post[p].cancelled
           /\ post'[p].resp = IF post[p].cancelled THEN post[p].resp
                              ELSE Append(post[p].resp, post[p].at)
<1> DEFINE r == IF post[p].cancelled THEN post[p].resp
                ELSE Append(post[p].resp, post[p].at)
<1>1. r \in Seq(Nat)
  BY DEF TypeOK, PostState
<1>2. Only(p)
  BY DEF TypeOK, Finish, Only
<1>3. post' = [post EXCEPT ![p] = [post[p] EXCEPT !.pc = "release", !.resp = r]]
  BY DEF TypeOK, Finish
<1> HIDE DEF r
<1>4. /\ post'[p].pc = "release" /\ post'[p].at = post[p].at
      /\ post'[p].scope = post[p].scope /\ post'[p].gone = post[p].gone
      /\ post'[p].cancelled = post[p].cancelled
      /\ post'[p].resp = r
  BY <1>3 DEF TypeOK, PostState
<1>5. post'[p] \in PostState
  BY <1>1, <1>3 DEF TypeOK, PostState
<1> QED BY <1>2, <1>3, <1>4, <1>5 DEF TypeOK, Only, r

\* A POST arrives with its batch.
LEMMA ArriveFields ==
    ASSUME TypeOK, NEW p \in Post, NEW sid \in Sid \union {NoSid},
           post' = [post EXCEPT ![p].pc = "next", ![p].scope = sid]
    PROVE  /\ post' \in [Post -> PostState] /\ Only(p)
           /\ post'[p].pc = "next" /\ post'[p].at = post[p].at
           /\ post'[p].scope = sid /\ post'[p].gone = post[p].gone
           /\ post'[p].cancelled = post[p].cancelled /\ post'[p].resp = post[p].resp
BY ZenonT(60) DEF TypeOK, PostState, Only

\* The client of a POST leaves.
LEMMA DisconnectFields ==
    ASSUME TypeOK, NEW p \in Post, Disconnect(p)
    PROVE  /\ post' \in [Post -> PostState] /\ Only(p)
           /\ post'[p].pc = post[p].pc /\ post'[p].at = post[p].at
           /\ post'[p].scope = post[p].scope /\ post'[p].gone = TRUE
           /\ post'[p].cancelled = post[p].cancelled /\ post'[p].resp = post[p].resp
BY DEF TypeOK, PostState, Only, Disconnect

\* A cancellation reaches the entries of its scope.
LEMMA CancelFields ==
    ASSUME TypeOK, NEW p \in Post, CancelScoped(p)
    PROVE  /\ post' \in [Post -> PostState]
           /\ post'[p].pc = "next" /\ post'[p].at = post[p].at + 1
           /\ post'[p].scope = post[p].scope /\ post'[p].gone = post[p].gone
           /\ post'[p].cancelled = post[p].cancelled /\ post'[p].resp = post[p].resp
           /\ \A q \in Post \ {p} :
                /\ post'[q].pc = post[q].pc /\ post'[q].at = post[q].at
                /\ post'[q].scope = post[q].scope /\ post'[q].gone = post[q].gone
                /\ post'[q].resp = post[q].resp
                /\ post'[q].cancelled <=> post[q].cancelled \/ (q \in inflight /\ Key(q) = Key(p))
<1> DEFINE hit == {q \in inflight : Key(q) = Key(p)}
<1>1. \A q \in hit : q \in inflight /\ Key(q) = Key(p)
  OBVIOUS
<1>2. \A q \in Post \ {p} : post'[q] = [post[q] EXCEPT !.cancelled = @ \/ q \in hit]
  BY DEF CancelScoped, TypeOK
<1>3. post'[p] = [post[p] EXCEPT !.at = @ + 1]
  BY DEF CancelScoped, TypeOK
<1>4. /\ post'[p] \in PostState
      /\ post'[p].pc = "next" /\ post'[p].at = post[p].at + 1
      /\ post'[p].scope = post[p].scope /\ post'[p].gone = post[p].gone
      /\ post'[p].cancelled = post[p].cancelled /\ post'[p].resp = post[p].resp
  BY <1>3 DEF TypeOK, PostState, CancelScoped, Pc
<1>5. ASSUME NEW q \in Post \ {p}
      PROVE /\ post'[q] \in PostState
            /\ post'[q].pc = post[q].pc /\ post'[q].at = post[q].at
            /\ post'[q].scope = post[q].scope /\ post'[q].gone = post[q].gone
            /\ post'[q].resp = post[q].resp
            /\ post'[q].cancelled <=> post[q].cancelled \/ (q \in inflight /\ Key(q) = Key(p))
  <2> DEFINE b == post[q].cancelled \/ q \in hit
  <2>1. b \in BOOLEAN
    BY Zenon
  <2>2. post'[q] = [post[q] EXCEPT !.cancelled = b]
    BY <1>2
  <2>3. b <=> post[q].cancelled \/ (q \in inflight /\ Key(q) = Key(p))
    OBVIOUS
  <2> HIDE DEF b, hit
  <2>4. post[q] \in PostState
    BY DEF TypeOK
  <2> QED BY <2>1, <2>2, <2>3, <2>4 DEF PostState
<1>6. post' = [q \in Post |-> post'[q]]
  BY DEF CancelScoped
<1> QED BY <1>4, <1>5, <1>6

\* Every step keeps the types.
LEMMA NextType ==
    ASSUME TypeOK, [Next]_vars
    PROVE  TypeOK'
<1> USE HttpAssumption
<1>1. ASSUME post' \in [Post -> PostState], inflight' \subseteq Post, slots' \subseteq Post,
             UNCHANGED <<sessVars, silenced>>
      PROVE  TypeOK'
  BY <1>1 DEF TypeOK, sessVars
<1>2. ASSUME NEW p \in Post, Register(p) \/ AcquireSlot(p) \/ HandlerReturns(p) \/ Refuse(p)
      PROVE  TypeOK'
  <2>1. PICK l \in Labels : Goto(p, l)
    BY <1>2 DEF Register, AcquireSlot, HandlerReturns, Refuse, Labels
  <2>2. post' \in [Post -> PostState]
    BY <2>1, GotoFields
  <2>3. inflight' \subseteq Post /\ slots' \subseteq Post /\ UNCHANGED <<sessVars, silenced>>
    BY <1>2 DEF Register, AcquireSlot, HandlerReturns, Refuse, TypeOK
  <2> QED BY <2>2, <2>3, <1>1
<1>3. ASSUME NEW p \in Post, ParseError(p) \/ Abandon(p) \/ ReleaseSlot(p) PROVE TypeOK'
  <2>1. <<post[p].at>> \in Seq(Nat) /\ <<>> \in Seq(Nat)
    BY DEF TypeOK, PostState
  <2>2. PICK s \in Seq(Nat) : Advance(p, s)
    BY <1>3, <2>1 DEF ParseError, Abandon, ReleaseSlot
  <2>3. post' \in [Post -> PostState]
    BY <2>2, AdvanceFields
  <2>4. inflight' \subseteq Post /\ slots' \subseteq Post /\ UNCHANGED <<sessVars, silenced>>
    BY <1>3 DEF ParseError, Abandon, ReleaseSlot, TypeOK
  <2> QED BY <2>3, <2>4, <1>1
<1>4. ASSUME NEW p \in Post, Finish(p) \/ Disconnect(p) PROVE TypeOK'
  <2>1. post' \in [Post -> PostState]
    BY <1>4, FinishFields, DisconnectFields
  <2>2. inflight' \subseteq Post /\ slots' \subseteq Post /\ UNCHANGED <<sessVars, silenced>>
    BY <1>4 DEF Finish, Disconnect, TypeOK
  <2> QED BY <2>1, <2>2, <1>1
<1>5. ASSUME NEW p \in Post, CancelScoped(p) PROVE TypeOK'
  <2>1. post' \in [Post -> PostState]
    BY <1>5, CancelFields
  <2>2. {<<q, post[q].at, Client[p]>> : q \in {q \in inflight : Key(q) = Key(p)}}
          \subseteq Post \X Nat \X Clients
    BY DEF TypeOK, PostState, Clients
  <2>3. silenced' \subseteq Post \X Nat \X Clients
    BY <1>5, <2>2 DEF CancelScoped, TypeOK
  <2> QED BY <1>5, <2>1, <2>3 DEF CancelScoped, TypeOK, sessVars
<1>6. ASSUME NEW p \in Post, EndPost(p) PROVE TypeOK'
  <2>1. post' \in [Post -> PostState]
    BY <1>6, GotoFields DEF EndPost, Labels
  <2>2. CASE UNCHANGED <<table, owner>>
    BY <1>6, <2>1, <2>2 DEF EndPost, TypeOK
  <2>3. CASE ~UNCHANGED <<table, owner>>
    <3> DEFINE s == CHOOSE s \in Sid : s \notin DOMAIN owner
    <3>1. /\ s \in Sid
          /\ table' = (table \ aged) \union {s}
          /\ owner' = [x \in DOMAIN owner \union {s} |->
                          IF x = s THEN Client[p] ELSE owner[x]]
      BY <1>6, <2>3 DEF EndPost
    <3> HIDE DEF s
    <3>2. Client[p] \in Clients
      BY DEF Clients
    <3> QED BY <1>6, <2>1, <3>1, <3>2 DEF EndPost, TypeOK
  <2> QED BY <2>2, <2>3
<1>7. ASSUME NEW p \in Post, NEW sid \in Headers(p), Arrive(p, sid) PROVE TypeOK'
  <2>1. sid \in Sid \union {NoSid} /\ (sid # NoSid => sid \in DOMAIN owner)
    BY <1>7 DEF Headers, TypeOK
  <2>2. post' \in [Post -> PostState]
    <3>1. CASE Goto(p, "refused")
      BY <3>1, GotoFields DEF Labels
    <3>2. CASE post' = [post EXCEPT ![p].pc = "next", ![p].scope = sid]
      BY <2>1, <3>2, ArriveFields
    <3> QED BY <1>7, <3>1, <3>2 DEF Arrive
  <2> QED BY <1>7, <2>1, <2>2 DEF Arrive, TypeOK
<1>8. ASSUME NEW sid \in Sid, HandleDelete(sid) \/ Age(sid) PROVE TypeOK'
  BY <1>8 DEF HandleDelete, Age, TypeOK
<1>9. CASE UNCHANGED vars
  BY <1>9 DEF vars, sessVars, TypeOK
<1> QED
  BY <1>2, <1>3, <1>4, <1>5, <1>6, <1>7, <1>8, <1>9 DEF Next, Serve

\* The id of a new session is new.
LEMMA NewSession ==
    ASSUME TypeOK, NEW p \in Post, EndPost(p), ~UNCHANGED <<table, owner>>
    PROVE  \E s \in Sid \ DOMAIN owner :
             /\ table' = (table \ aged) \union {s}
             /\ owner' = [x \in DOMAIN owner \union {s} |->
                             IF x = s THEN Client[p] ELSE owner[x]]
<1> DEFINE s == CHOOSE s \in Sid : s \notin DOMAIN owner
<1>1. s \in Sid /\ s \notin DOMAIN owner
  BY DEF EndPost
<1>2. /\ table' = (table \ aged) \union {s}
      /\ owner' = [x \in DOMAIN owner \union {s} |->
                      IF x = s THEN Client[p] ELSE owner[x]]
  BY DEF EndPost
<1> HIDE DEF s
<1> QED BY <1>1, <1>2

\* A POST gets its session when it arrives, and keeps it.
LEMMA ScopeKept ==
    ASSUME TypeOK, [Next]_vars
    PROVE  \A q \in Post :
             \/ post'[q].scope = post[q].scope
             \/ \E sid \in Headers(q) : Arrive(q, sid) /\ post'[q].scope = sid
<1> USE HttpAssumption
<1> DEFINE Goal == \A q \in Post :
                     \/ post'[q].scope = post[q].scope
                     \/ \E sid \in Headers(q) : Arrive(q, sid) /\ post'[q].scope = sid
<1>1. ASSUME NEW p \in Post, Only(p), post'[p].scope = post[p].scope PROVE Goal
  BY <1>1 DEF Only
<1>2. ASSUME NEW p \in Post, NEW sid \in Headers(p), Arrive(p, sid) PROVE Goal
  <2>1. sid \in Sid \union {NoSid}
    BY <1>2 DEF Headers, TypeOK
  <2>2. CASE Goto(p, "refused")
    BY <1>1, <2>2, GotoFields DEF Labels
  <2>3. CASE post' = [post EXCEPT ![p].pc = "next", ![p].scope = sid]
    <3>1. post'[p].scope = sid /\ Only(p)
      <4> HIDE DEF Goal
      <4> QED BY <2>1, <2>3, ArriveFields
    <3> QED BY <1>2, <3>1 DEF Only
  <2> QED BY <1>2, <2>2, <2>3 DEF Arrive
<1>3. ASSUME NEW p \in Post, CancelScoped(p) PROVE Goal
  BY <1>3, CancelFields
<1>4. ASSUME post' = post PROVE Goal
  BY <1>4
<1> HIDE DEF Goal
<1>5. ASSUME NEW p \in Post,
             Register(p) \/ AcquireSlot(p) \/ HandlerReturns(p) \/ Refuse(p) \/ EndPost(p)
      PROVE  Goal
  <2>1. PICK l \in Labels : Goto(p, l)
    BY <1>5 DEF Register, AcquireSlot, HandlerReturns, Refuse, EndPost, Labels
  <2> QED BY <1>1, <2>1, GotoFields
<1>6. ASSUME NEW p \in Post, ParseError(p) \/ Abandon(p) \/ ReleaseSlot(p) PROVE Goal
  <2>1. <<post[p].at>> \in Seq(Nat) /\ <<>> \in Seq(Nat)
    BY DEF TypeOK, PostState
  <2>2. PICK s \in Seq(Nat) : Advance(p, s)
    BY <1>6, <2>1 DEF ParseError, Abandon, ReleaseSlot
  <2> QED BY <1>1, <2>2, AdvanceFields
<1>7. ASSUME NEW p \in Post, Finish(p) \/ Disconnect(p) PROVE Goal
  BY <1>1, <1>7, FinishFields, DisconnectFields
<1>8. ASSUME NEW sid \in Sid, HandleDelete(sid) \/ Age(sid) PROVE Goal
  BY <1>4, <1>8 DEF HandleDelete, Age
<1>9. ASSUME UNCHANGED vars PROVE Goal
  BY <1>4, <1>9 DEF vars
<1>10. Goal
  BY <1>2, <1>3, <1>5, <1>6, <1>7, <1>8, <1>9 DEF Next, Serve
<1> QED BY <1>10 DEF Goal

\* The session table: no step brings an ended session back, or gives one to
\* another client.
LEMMA TableNext ==
    ASSUME TypeOK, [Next]_vars, EndedStaysEnded
    PROVE  /\ EndedStaysEnded'
           /\ \A s \in DOMAIN owner : s \in DOMAIN owner' /\ owner'[s] = owner[s]
<1> USE HttpAssumption
<1> DEFINE Goal == /\ EndedStaysEnded'
                   /\ \A s \in DOMAIN owner : s \in DOMAIN owner' /\ owner'[s] = owner[s]
<1>1. ASSUME UNCHANGED sessVars PROVE Goal
  BY <1>1 DEF EndedStaysEnded, sessVars
<1>2. ASSUME NEW p \in Post, NEW sid, Arrive(p, sid) PROVE Goal
  BY <1>2 DEF Arrive, EndedStaysEnded
<1>3. ASSUME NEW p \in Post, EndPost(p) PROVE Goal
  <2>1. CASE UNCHANGED <<table, owner>>
    BY <1>1, <1>3, <2>1 DEF EndPost, sessVars
  <2>2. CASE ~UNCHANGED <<table, owner>>
    <3>1. PICK s \in Sid \ DOMAIN owner :
             /\ table' = (table \ aged) \union {s}
             /\ owner' = [x \in DOMAIN owner \union {s} |->
                             IF x = s THEN Client[p] ELSE owner[x]]
      BY <1>3, <2>2, NewSession
    <3> QED BY <1>3, <3>1 DEF EndPost, EndedStaysEnded, TypeOK
  <2> QED BY <2>1, <2>2
<1>4. ASSUME NEW sid \in Sid, HandleDelete(sid) \/ Age(sid) PROVE Goal
  BY <1>4 DEF HandleDelete, Age, EndedStaysEnded
<1> HIDE DEF Goal
<1>5. ASSUME NEW p \in Post,
             \/ Register(p) \/ AcquireSlot(p) \/ HandlerReturns(p) \/ Refuse(p) \/ ParseError(p)
             \/ Abandon(p) \/ ReleaseSlot(p) \/ Finish(p) \/ Disconnect(p) \/ CancelScoped(p)
      PROVE  Goal
  BY <1>1, <1>5 DEF Register, AcquireSlot, HandlerReturns, Refuse, ParseError, Abandon,
                    ReleaseSlot, Finish, Disconnect, CancelScoped
<1>6. ASSUME UNCHANGED vars PROVE Goal
  BY <1>1, <1>6 DEF vars
<1> QED BY <1>2, <1>3, <1>4, <1>5, <1>6 DEF Next, Serve, Goal

\* A POST keeps the session it came with, which is its client's.
LEMMA NextScoped ==
    ASSUME HInv, [Next]_vars
    PROVE  Scoped'
<1>0. TypeOK /\ EndedStaysEnded /\ Scoped
  BY DEF HInv
<1> SUFFICES ASSUME NEW p \in Post, post'[p].scope # NoSid
             PROVE  post'[p].scope \in DOMAIN owner' /\ owner'[post'[p].scope] = Client[p]
  BY DEF Scoped
<1>1. CASE post'[p].scope = post[p].scope
  BY <1>0, <1>1, TableNext DEF Scoped
<1>2. ASSUME NEW sid \in Headers(p), post'[p].scope = sid
      PROVE  post'[p].scope \in DOMAIN owner' /\ owner'[post'[p].scope] = Client[p]
  BY <1>0, <1>2, TableNext DEF Headers
<1> QED BY <1>0, <1>1, <1>2, ScopeKept

\* The registry follows the goroutines.
LEMMA NextRegistry ==
    ASSUME HInv, [Next]_vars
    PROVE  RegistryExact'
<1> USE HttpAssumption
<1>0. TypeOK /\ RegistryExact
  BY DEF HInv
<1>1. ASSUME inflight' = inflight,
             \A q \in Post : /\ post'[q].pc \in {"select", "handle", "finish"}
                                  <=> post[q].pc \in {"select", "handle", "finish"}
                             /\ post[q].pc \in {"select", "handle", "finish"} =>
                                  post'[q].at = post[q].at
      PROVE  RegistryExact'
  BY <1>0, <1>1 DEF RegistryExact, Pc, IsNotification, Msg
<1>2. ASSUME NEW p \in Post, inflight' = inflight \ {p}, Only(p),
             post'[p].pc \notin {"select", "handle", "finish"}
      PROVE  RegistryExact'
  BY <1>0, <1>2 DEF RegistryExact, Pc, IsNotification, Msg, Only
<1>3. ASSUME NEW p \in Post, Register(p) PROVE RegistryExact'
  <2>1. /\ Only(p) /\ post'[p].pc = "select" /\ post'[p].at = post[p].at
    BY <1>0, <1>3, GotoFields DEF Register, Labels
  <2>2. IsNotification(p)' = IsNotification(p)
    BY <2>1 DEF IsNotification, Msg
  <2>3. inflight' = IF IsNotification(p) THEN inflight ELSE inflight \union {p}
    BY <1>3 DEF Register
  <2>4. Pc(p) = "next"
    BY <1>3 DEF Register
  <2>5. \A q \in Post \ {p} : Pc(q)' = Pc(q) /\ IsNotification(q)' = IsNotification(q)
    BY <2>1 DEF Only, Pc, IsNotification, Msg
  <2> QED BY <1>0, <2>1, <2>2, <2>3, <2>4, <2>5 DEF RegistryExact, Pc
<1>4. ASSUME NEW p \in Post, HandlerReturns(p) PROVE RegistryExact'
  <2>0. inflight' = inflight /\ Pc(p) = "handle"
    BY <1>4 DEF HandlerReturns
  <2>1. CASE IsNotification(p)
    <3>1. /\ Only(p) /\ post'[p].pc = "release"
      BY <1>0, <1>4, <2>1, GotoFields DEF HandlerReturns, Labels
    <3>2. p \notin inflight
      BY <1>0, <2>1 DEF RegistryExact
    <3> QED BY <1>2, <2>0, <3>1, <3>2
  <2>2. CASE ~IsNotification(p)
    <3>1. /\ Only(p) /\ post'[p].pc = "finish" /\ post'[p].at = post[p].at
      BY <1>0, <1>4, <2>2, GotoFields DEF HandlerReturns, Labels
    <3> QED BY <1>1, <2>0, <3>1 DEF Only, Pc
  <2> QED BY <2>1, <2>2
<1>5. ASSUME NEW p \in Post, Abandon(p) PROVE RegistryExact'
  <2>1. <<>> \in Seq(Nat)
    OBVIOUS
  <2>2. Only(p) /\ post'[p].pc = "next"
    BY <1>0, <1>5, <2>1, AdvanceFields DEF Abandon
  <2> QED BY <1>2, <1>5, <2>2 DEF Abandon
<1>6. ASSUME NEW p \in Post, Finish(p) PROVE RegistryExact'
  BY <1>0, <1>2, <1>6, FinishFields DEF Finish
<1>7. ASSUME NEW p \in Post, AcquireSlot(p) PROVE RegistryExact'
  <2>1. Only(p) /\ post'[p].pc = "handle" /\ post'[p].at = post[p].at
    BY <1>0, <1>7, GotoFields DEF AcquireSlot, Labels
  <2> QED BY <1>1, <1>7, <2>1 DEF AcquireSlot, Only, Pc
<1>8. ASSUME NEW p \in Post, Refuse(p) \/ EndPost(p) PROVE RegistryExact'
  <2>1. Only(p) /\ post'[p].pc \in {"refused", "done"}
    BY <1>0, <1>8, GotoFields DEF Refuse, EndPost, Labels
  <2>2. post[p].pc \in {"new", "next"} /\ inflight' = inflight
    BY <1>8 DEF Refuse, EndPost, Pc
  <2> QED BY <1>1, <2>1, <2>2 DEF Only
<1>9. ASSUME NEW p \in Post, ParseError(p) \/ ReleaseSlot(p) PROVE RegistryExact'
  <2>1. <<post[p].at>> \in Seq(Nat) /\ <<>> \in Seq(Nat)
    BY <1>0 DEF TypeOK, PostState
  <2>2. PICK s \in Seq(Nat) : Advance(p, s)
    BY <1>9, <2>1 DEF ParseError, ReleaseSlot
  <2>3. Only(p) /\ post'[p].pc = "next"
    BY <1>0, <2>2, AdvanceFields
  <2>4. post[p].pc \in {"next", "release"} /\ inflight' = inflight
    BY <1>9 DEF ParseError, ReleaseSlot, Pc
  <2> QED BY <1>1, <2>3, <2>4 DEF Only
<1>10. ASSUME NEW p \in Post, NEW sid \in Headers(p), Arrive(p, sid) PROVE RegistryExact'
  <2>0. sid \in Sid \union {NoSid}
    BY <1>0, <1>10 DEF Headers, TypeOK
  <2>1. Only(p) /\ post'[p].pc \in {"refused", "next"}
    <3>1. CASE Goto(p, "refused")
      BY <1>0, <3>1, GotoFields DEF Labels
    <3>2. CASE post' = [post EXCEPT ![p].pc = "next", ![p].scope = sid]
      BY <1>0, <2>0, <3>2, ArriveFields
    <3> QED BY <1>10, <3>1, <3>2 DEF Arrive
  <2>2. post[p].pc = "new" /\ inflight' = inflight
    BY <1>10 DEF Arrive, Pc
  <2> QED BY <1>1, <2>1, <2>2 DEF Only
<1>11. ASSUME NEW p \in Post, Disconnect(p) PROVE RegistryExact'
  BY <1>0, <1>1, <1>11, DisconnectFields DEF Disconnect, Only
<1>12. ASSUME NEW p \in Post, CancelScoped(p) PROVE RegistryExact'
  <2>1. post[p].pc = "next" /\ inflight' = inflight
    BY <1>12 DEF CancelScoped, Pc
  <2> QED BY <1>0, <1>1, <1>12, <2>1, CancelFields
<1>13. ASSUME NEW sid \in Sid, HandleDelete(sid) \/ Age(sid) PROVE RegistryExact'
  BY <1>1, <1>13 DEF HandleDelete, Age
<1>14. CASE UNCHANGED vars
  BY <1>1, <1>14 DEF vars
<1> QED
  BY <1>3, <1>4, <1>5, <1>6, <1>7, <1>8, <1>9, <1>10, <1>11, <1>12, <1>13, <1>14
  DEF Next, Serve

\* The semaphore follows the goroutines.
LEMMA NextSlots ==
    ASSUME HInv, [Next]_vars
    PROVE  (IsFiniteSet(slots) /\ SlotsExact)'
<1> USE HttpAssumption
<1>0. TypeOK /\ IsFiniteSet(slots) /\ SlotsExact
  BY DEF HInv
<1> DEFINE Holding == {"handle", "finish", "release"}
           Goal == (IsFiniteSet(slots) /\ SlotsExact)'
<1>1. ASSUME slots' = slots,
             \A q \in Post : post'[q].pc \in Holding <=> post[q].pc \in Holding
      PROVE  Goal
  BY <1>0, <1>1 DEF SlotsExact, Pc
<1>2. ASSUME NEW p \in Post, AcquireSlot(p) PROVE Goal
  <2>1. Only(p) /\ post'[p].pc = "handle"
    BY <1>0, <1>2, GotoFields DEF AcquireSlot, Labels
  <2>2. p \notin slots /\ slots' = slots \union {p} /\ Cardinality(slots) < MaxConcurrent
    BY <1>0, <1>2 DEF AcquireSlot, SlotsExact
  <2>3. IsFiniteSet(slots') /\ Cardinality(slots') = Cardinality(slots) + 1
    BY <1>0, <2>2, FS_AddElement
  <2>4. Cardinality(slots) \in Nat
    BY <1>0, FS_CardinalityType
  <2>5. slots' = {q \in Post : post'[q].pc \in Holding}
    BY <1>0, <2>1, <2>2 DEF Only, SlotsExact, Pc
  <2> QED BY <2>2, <2>3, <2>4, <2>5 DEF SlotsExact, Pc
<1>3. ASSUME NEW p \in Post, ReleaseSlot(p) PROVE Goal
  <2>0. <<>> \in Seq(Nat)
    OBVIOUS
  <2>1. Only(p) /\ post'[p].pc = "next"
    BY <1>0, <1>3, <2>0, AdvanceFields DEF ReleaseSlot
  <2>2. p \in slots /\ slots' = slots \ {p}
    BY <1>0, <1>3 DEF ReleaseSlot, SlotsExact
  <2>3. IsFiniteSet(slots') /\ Cardinality(slots') = Cardinality(slots) - 1
    BY <1>0, <2>2, FS_RemoveElement
  <2>4. Cardinality(slots) \in Nat /\ Cardinality(slots) <= MaxConcurrent
    BY <1>0, FS_CardinalityType DEF SlotsExact
  <2>5. slots' = {q \in Post : post'[q].pc \in Holding}
    BY <1>0, <2>1, <2>2 DEF Only, SlotsExact, Pc
  <2> QED BY <2>3, <2>4, <2>5 DEF SlotsExact, Pc
<1> HIDE DEF Goal
<1>4. ASSUME NEW p \in Post, Register(p) \/ Refuse(p) \/ EndPost(p) PROVE Goal
  <2>1. Only(p) /\ post'[p].pc \in {"select", "refused", "done"}
    BY <1>0, <1>4, GotoFields DEF Register, Refuse, EndPost, Labels
  <2>2. post[p].pc \in {"new", "next"} /\ slots' = slots
    BY <1>4 DEF Register, Refuse, EndPost, Pc
  <2> QED BY <1>1, <2>1, <2>2 DEF Only
<1>5. ASSUME NEW p \in Post, HandlerReturns(p) PROVE Goal
  <2>1. Only(p) /\ post'[p].pc \in {"release", "finish"}
    BY <1>0, <1>5, GotoFields DEF HandlerReturns, Labels
  <2> QED BY <1>1, <1>5, <2>1 DEF HandlerReturns, Only, Pc
<1>6. ASSUME NEW p \in Post, ParseError(p) \/ Abandon(p) PROVE Goal
  <2>1. <<post[p].at>> \in Seq(Nat) /\ <<>> \in Seq(Nat)
    BY <1>0 DEF TypeOK, PostState
  <2>2. PICK s \in Seq(Nat) : Advance(p, s)
    BY <1>6, <2>1 DEF ParseError, Abandon
  <2>3. Only(p) /\ post'[p].pc = "next"
    BY <1>0, <2>2, AdvanceFields
  <2>4. post[p].pc \in {"next", "select"} /\ slots' = slots
    BY <1>6 DEF ParseError, Abandon, Pc
  <2> QED BY <1>1, <2>3, <2>4 DEF Only
<1>7. ASSUME NEW p \in Post, NEW sid \in Headers(p), Arrive(p, sid) PROVE Goal
  <2>0. sid \in Sid \union {NoSid}
    BY <1>0, <1>7 DEF Headers, TypeOK
  <2>1. Only(p) /\ post'[p].pc \in {"refused", "next"}
    <3>1. CASE Goto(p, "refused")
      BY <1>0, <3>1, GotoFields DEF Labels
    <3>2. CASE post' = [post EXCEPT ![p].pc = "next", ![p].scope = sid]
      BY <1>0, <2>0, <3>2, ArriveFields
    <3> QED BY <1>7, <3>1, <3>2 DEF Arrive
  <2>2. post[p].pc = "new" /\ slots' = slots
    BY <1>7 DEF Arrive, Pc
  <2> QED BY <1>1, <2>1, <2>2 DEF Only
<1>8. ASSUME NEW p \in Post, Finish(p) PROVE Goal
  <2>1. Only(p) /\ post'[p].pc = "release"
    BY <1>0, <1>8, FinishFields
  <2> QED BY <1>1, <1>8, <2>1 DEF Finish, Only, Pc
<1>9. ASSUME NEW p \in Post, Disconnect(p) \/ CancelScoped(p) PROVE Goal
  <2>0. CancelScoped(p) => post[p].pc = "next"
    BY DEF CancelScoped, Pc
  <2>1. \A q \in Post : post'[q].pc = post[q].pc
    BY <1>0, <1>9, <2>0, DisconnectFields, CancelFields, ZenonT(60) DEF Only
  <2> QED BY <1>1, <1>9, <2>1 DEF Disconnect, CancelScoped
<1>10. ASSUME NEW sid \in Sid, HandleDelete(sid) \/ Age(sid) PROVE Goal
  BY <1>1, <1>10 DEF HandleDelete, Age
<1>11. ASSUME UNCHANGED vars PROVE Goal
  BY <1>1, <1>11 DEF vars
<1> QED
  BY <1>2, <1>3, <1>4, <1>5, <1>6, <1>7, <1>8, <1>9, <1>10, <1>11 DEF Next, Serve, Goal

-----------------------------------------------------------------------------
(* The batch of a POST *)

\* One more answer, past all the earlier ones, leaves the answers in order.
LEMMA AnswerOne ==
    ASSUME NEW resp \in Seq(Nat), NEW due \in SUBSET Nat, NEW all, NEW e \in Nat,
           Answered(resp, due, all), \A k \in due : k < e
    PROVE  Answered(Append(resp, e), due \union {e}, all)
<1>1. /\ DOMAIN Append(resp, e) = 1 .. Len(resp) + 1 /\ DOMAIN resp = 1 .. Len(resp)
      /\ Append(resp, e)[Len(resp) + 1] = e /\ Len(resp) \in Nat
      /\ \A i \in 1 .. Len(resp) : Append(resp, e)[i] = resp[i]
  OBVIOUS
<1> DEFINE new == Append(resp, e)
<1>2. ASSUME NEW i \in DOMAIN new, NEW j \in DOMAIN new, i < j PROVE new[i] < new[j]
  BY <1>1, <1>2 DEF Answered
<1>3. \A i \in DOMAIN new : new[i] \in due \union {e}
  BY <1>1 DEF Answered
<1>4. ASSUME all, NEW k \in due \union {e} PROVE \E i \in DOMAIN new : new[i] = k
  <2>1. CASE k = e
    BY <1>1, <2>1
  <2>2. CASE k \in due
    <3>1. PICK i \in DOMAIN resp : resp[i] = k
      BY <1>4, <2>2 DEF Answered
    <3> QED BY <1>1, <3>1
  <2> QED BY <2>1, <2>2
<1> QED BY <1>2, <1>3, <1>4 DEF Answered

\* What a batch is owed, in this state and in the next.
LEMMA OwedIs ==
    ASSUME NEW p \in Post
    PROVE  /\ Owed(p) = {k \in DOMAIN Body[p] :
                            \/ Body[p][k].kind = "bad"
                            \/ Body[p][k].kind \in {"request", "initialize"} /\ ~Silent(p, k)}
           /\ Owed(p)' = {k \in DOMAIN Body[p] :
                            \/ Body[p][k].kind = "bad"
                            \/ Body[p][k].kind \in {"request", "initialize"} /\ ~Silent(p, k)'}
BY DEF Owed, Silent

\* A batch is a sequence of messages.
LEMMA BodyType ==
    ASSUME NEW p \in Post
    PROVE  /\ Len(Body[p]) \in Nat /\ DOMAIN Body[p] = 1 .. Len(Body[p])
           /\ Owed(p) \in SUBSET Nat /\ Due(p) \in SUBSET Nat
BY HttpAssumption DEF Owed, Due

\* Every message is of a known kind.
LEMMA KindType ==
    ASSUME NEW p \in Post, NEW k \in 1 .. Len(Body[p])
    PROVE  Body[p][k].kind \in Kind
<1> DEFINE M == [kind : Kind, id : Nat]
<1>1. Body[p] \in Seq(M)
  BY HttpAssumption
<1> HIDE DEF M
<1>2. Body[p][k] \in M
  BY <1>1
<1> QED BY <1>2 DEF M

\* A POST that is neither moved nor cancelled keeps its part of the invariant.
LEMMA PostFrame ==
    ASSUME NEW p \in Post, Place(p), Silence(p), Answers(p), post'[p] = post[p],
           \A k \in Nat : Silent(p, k)' <=> Silent(p, k), post[p].at \in Nat
    PROVE  (Place(p) /\ Silence(p) /\ Answers(p))'
<1>1. Place(p)'
  BY DEF Place, Pc, Msg, IsNotification
<1>2. Silence(p)'
  BY DEF Silence, Pc, Msg, IsNotification
<1>3. Owed(p)' = Owed(p)
  <2>1. \A k \in DOMAIN Body[p] : Silent(p, k)' <=> Silent(p, k)
    BY BodyType
  <2> DEFINE A(k) == Silent(p, k)
             B(k) == Silent(p, k)'
  <2>2. \A k \in DOMAIN Body[p] : B(k) <=> A(k)
    BY <2>1
  <2>3. /\ Owed(p) = {k \in DOMAIN Body[p] :
                        \/ Body[p][k].kind = "bad"
                        \/ Body[p][k].kind \in {"request", "initialize"} /\ ~A(k)}
        /\ Owed(p)' = {k \in DOMAIN Body[p] :
                        \/ Body[p][k].kind = "bad"
                        \/ Body[p][k].kind \in {"request", "initialize"} /\ ~B(k)}
    BY OwedIs
  <2> HIDE DEF A, B
  <2> QED BY <2>2, <2>3
<1>4. Due(p)' = Due(p)
  BY <1>3 DEF Due, Pc
<1>5. Answers(p)'
  BY <1>4 DEF Answers, Answered
<1> QED BY <1>1, <1>2, <1>5

\* What a POST may do to its own part: it moves, and nobody is cancelled.
LEMMA PostMoves ==
    ASSUME HInv, NEW p \in Post, post' \in [Post -> PostState], Only(p), silenced' = silenced,
           Place(p)', Silence(p)', Answers(p)'
    PROVE  \A q \in Post : (Place(q) /\ Silence(q) /\ Answers(q))'
<1> SUFFICES ASSUME NEW q \in Post \ {p} PROVE (Place(q) /\ Silence(q) /\ Answers(q))'
  OBVIOUS
<1>1. post'[q] = post[q] /\ \A k \in Nat : Silent(q, k)' <=> Silent(q, k)
  BY DEF Only, Silent
<1>2. Place(q) /\ Silence(q) /\ Answers(q) /\ post[q].at \in Nat
  BY DEF HInv, TypeOK, PostState
<1> QED BY <1>1, <1>2, PostFrame

\* Every step keeps the answers of every POST what they should be so far.
LEMMA NextBatch ==
    ASSUME HInv, [Next]_vars
    PROVE  (\A p \in Post : Place(p) /\ Silence(p) /\ Answers(p))'
<1> USE HttpAssumption
<1>0. TypeOK /\ \A p \in Post : Place(p) /\ Silence(p) /\ Answers(p)
  BY DEF HInv
<1> DEFINE Part(p) == Place(p) /\ Silence(p) /\ Answers(p)
           Goal == \A p \in Post : Part(p)'
<1>a. \A p \in Post : /\ post[p].at \in Nat /\ post[p].resp \in Seq(Nat)
                      /\ post[p].cancelled \in BOOLEAN /\ post[p].gone \in BOOLEAN
  BY <1>0 DEF TypeOK, PostState
<1>1. ASSUME NEW p \in Post, silenced' = silenced
      PROVE  /\ Owed(p)' = Owed(p)
             /\ \A k \in Nat : Silent(p, k)' <=> Silent(p, k)
  BY <1>1 DEF Owed, Silent
<1>2. ASSUME NEW p \in Post, Only(p), silenced' = silenced, post' \in [Post -> PostState],
             Part(p)'
      PROVE  Goal
  BY <1>2, PostMoves
\* The message does not end: what is due stays due.
<1>3. ASSUME NEW p \in Post, Only(p), silenced' = silenced, post' \in [Post -> PostState],
             post'[p].at = post[p].at, post'[p].resp = post[p].resp,
             post'[p].cancelled = post[p].cancelled, post[p].gone => post'[p].gone,
             post'[p].pc = "release" <=> post[p].pc = "release",
             Place(p)', post[p].cancelled => post'[p].pc \in {"select", "handle", "finish", "release"},
             \A k \in Nat : Silent(p, k) => post'[p].pc # "new"
      PROVE  Goal
  <2>1. Silence(p)'
    <3>1. \A k \in Nat : Silent(p, k)' <=> Silent(p, k)
      BY <1>1, <1>3
    <3>2. post[p].at \in Nat /\ Silence(p)
      BY <1>0, <1>a
    <3> QED BY <1>3, <3>1, <3>2 DEF Silence, Pc, IsNotification, Msg
  <2>2. Due(p)' = Due(p)
    BY <1>1, <1>3 DEF Due, Pc
  <2>3. Answers(p)'
    BY <1>0, <1>a, <1>3, <2>2 DEF Answers, Answered
  <2> QED BY <1>2, <1>3, <2>1, <2>3
<1> HIDE DEF Goal
<1>4. ASSUME NEW p \in Post, Register(p) PROVE Goal
  <2>1. /\ post' \in [Post -> PostState] /\ Only(p)
        /\ post'[p].pc = "select" /\ post'[p].at = post[p].at
        /\ post'[p].scope = post[p].scope /\ post'[p].gone = post[p].gone
        /\ post'[p].cancelled = post[p].cancelled /\ post'[p].resp = post[p].resp
    BY <1>0, <1>4, GotoFields DEF Register, Labels
  <2>2. Pc(p) = "next" /\ post[p].at <= Len(Body[p]) /\ Msg(p).kind \notin {"cancel", "bad"}
        /\ silenced' = silenced
    BY <1>4 DEF Register
  <2>3. Msg(p).kind \in Kind
    <3>1. post[p].at \in 1 .. Len(Body[p])
      BY <1>0, <2>2, BodyType DEF Place
    <3> QED BY <3>1, KindType DEF Msg
  <2>4. Place(p)'
    BY <1>0, <2>1, <2>2, <2>3 DEF Place, Pc, IsNotification, Msg, Kind
  <2> QED BY <1>3, <2>1, <2>2, <2>4 DEF Pc
<1>5. ASSUME NEW p \in Post, AcquireSlot(p) PROVE Goal
  <2>1. /\ post' \in [Post -> PostState] /\ Only(p)
        /\ post'[p].pc = "handle" /\ post'[p].at = post[p].at
        /\ post'[p].scope = post[p].scope /\ post'[p].gone = post[p].gone
        /\ post'[p].cancelled = post[p].cancelled /\ post'[p].resp = post[p].resp
    BY <1>0, <1>5, GotoFields DEF AcquireSlot, Labels
  <2>2. Pc(p) = "select" /\ silenced' = silenced
    BY <1>5 DEF AcquireSlot
  <2>4. Place(p)'
    BY <1>0, <2>1, <2>2 DEF Place, Pc, IsNotification, Msg
  <2> QED BY <1>3, <2>1, <2>2, <2>4 DEF Pc
<1>6. ASSUME NEW p \in Post, EndPost(p) \/ Refuse(p) PROVE Goal
  <2>1. /\ post' \in [Post -> PostState] /\ Only(p)
        /\ post'[p].pc \in {"done", "refused"} /\ post'[p].at = post[p].at
        /\ post'[p].scope = post[p].scope /\ post'[p].gone = post[p].gone
        /\ post'[p].cancelled = post[p].cancelled /\ post'[p].resp = post[p].resp
        /\ EndPost(p) \/ post'[p].pc = "refused"
    BY <1>0, <1>6, GotoFields DEF EndPost, Refuse, Labels
  <2>2. /\ Pc(p) \in {"new", "next"} /\ silenced' = silenced
        /\ EndPost(p) => post[p].at > Len(Body[p])
    BY <1>6 DEF EndPost, Refuse
  <2>3. ~post[p].cancelled
    BY <1>0, <2>2 DEF Silence
  <2>4. Place(p)'
    BY <1>0, <2>1, <2>2, BodyType DEF Place, Pc, IsNotification, Msg
  <2> QED BY <1>3, <2>1, <2>2, <2>3, <2>4 DEF Pc
<1>7. ASSUME NEW p \in Post, NEW sid \in Headers(p), Arrive(p, sid) PROVE Goal
  <2>0. sid \in Sid \union {NoSid}
    BY <1>0, <1>7 DEF Headers, TypeOK
  <2>1. /\ post' \in [Post -> PostState] /\ Only(p)
        /\ post'[p].pc \in {"refused", "next"} /\ post'[p].at = post[p].at
        /\ post'[p].gone = post[p].gone
        /\ post'[p].cancelled = post[p].cancelled /\ post'[p].resp = post[p].resp
    <3>1. CASE Goto(p, "refused")
      BY <1>0, <3>1, GotoFields DEF Labels
    <3>2. CASE post' = [post EXCEPT ![p].pc = "next", ![p].scope = sid]
      BY <1>0, <2>0, <3>2, ArriveFields
    <3> QED BY <1>7, <3>1, <3>2 DEF Arrive
  <2>2. Pc(p) = "new" /\ silenced' = silenced
    BY <1>7 DEF Arrive
  <2>3. ~post[p].cancelled
    BY <1>0, <2>2 DEF Silence
  <2>4. Place(p)'
    BY <1>0, <2>1, <2>2, BodyType DEF Place, Pc, IsNotification, Msg
  <2> QED BY <1>3, <2>1, <2>2, <2>3, <2>4 DEF Pc
<1>8. ASSUME NEW p \in Post, Disconnect(p) PROVE Goal
  <2>1. /\ post' \in [Post -> PostState] /\ Only(p)
        /\ post'[p].pc = post[p].pc /\ post'[p].at = post[p].at
        /\ post'[p].scope = post[p].scope /\ post'[p].gone = TRUE
        /\ post'[p].cancelled = post[p].cancelled /\ post'[p].resp = post[p].resp
    BY <1>0, <1>8, DisconnectFields
  <2>2. Pc(p) # "new" /\ silenced' = silenced
    BY <1>8 DEF Disconnect
  <2>3. post[p].cancelled => post[p].pc \in {"select", "handle", "finish", "release"}
    BY <1>0 DEF Silence, Pc
  <2>4. Place(p)'
    BY <1>0, <2>1 DEF Place, Pc, IsNotification, Msg
  <2> QED BY <1>3, <2>1, <2>2, <2>3, <2>4 DEF Pc
\* The message is over and owes nothing, or it was answered.
<1>9. ASSUME NEW p \in Post, Only(p), silenced' = silenced, post' \in [Post -> PostState],
             post'[p].gone = post[p].gone, Place(p)', Silence(p)',
             \/ Due(p)' = Due(p) /\ post'[p].resp = post[p].resp
             \/ /\ Due(p)' = Due(p) \union {post[p].at} /\ post[p].pc # "release"
                /\ post'[p].resp = Append(post[p].resp, post[p].at)
      PROVE  Goal
  <2>1. CASE Due(p)' = Due(p) /\ post'[p].resp = post[p].resp
    <3>1. Answers(p)'
      BY <1>0, <1>9, <2>1 DEF Answers
    <3> QED BY <1>2, <1>9, <3>1
  <2>2. CASE /\ Due(p)' = Due(p) \union {post[p].at} /\ post[p].pc # "release"
             /\ post'[p].resp = Append(post[p].resp, post[p].at)
    <3>1. Due(p) \in SUBSET Nat /\ \A k \in Due(p) : k < post[p].at
      BY <2>2, BodyType DEF Due, Pc
    <3>2. Answered(post[p].resp, Due(p), ~post[p].gone)
      BY <1>0 DEF Answers
    <3>3. Answered(Append(post[p].resp, post[p].at), Due(p) \union {post[p].at}, ~post[p].gone)
      BY <1>a, <3>1, <3>2, AnswerOne
    <3>4. Answers(p)'
      BY <1>9, <2>2, <3>3 DEF Answers
    <3> QED BY <1>2, <1>9, <3>4
  <2> QED BY <1>9, <2>1, <2>2
\* The step to the next message leaves no cancellation behind.
<1>10. ASSUME NEW p \in Post, silenced' = silenced,
              post'[p].pc = "next", post'[p].at = post[p].at + 1, post'[p].cancelled = FALSE,
              post[p].pc \in {"next", "select", "handle", "finish", "release"},
              post[p].at <= Len(Body[p])
       PROVE  Place(p)' /\ Silence(p)'
  <2>1. \A k \in Nat : Silent(p, k)' => k <= post[p].at
    BY <1>0, <1>1, <1>10 DEF Silence
  <2>2. Silence(p)'
    BY <1>a, <1>10, <2>1 DEF Silence, Pc
  <2>3. Place(p)'
    BY <1>0, <1>a, <1>10, BodyType DEF Place, Pc
  <2> QED BY <2>2, <2>3
<1>11. ASSUME NEW p \in Post, HandlerReturns(p) PROVE Goal
  <2>0. Pc(p) = "handle" /\ silenced' = silenced
    BY <1>11 DEF HandlerReturns
  <2>1. /\ post' \in [Post -> PostState] /\ Only(p)
        /\ post'[p].pc = IF IsNotification(p) THEN "release" ELSE "finish"
        /\ post'[p].at = post[p].at
        /\ post'[p].scope = post[p].scope /\ post'[p].gone = post[p].gone
        /\ post'[p].cancelled = post[p].cancelled /\ post'[p].resp = post[p].resp
    <3>1. CASE IsNotification(p)
      BY <1>0, <1>11, <3>1, GotoFields DEF HandlerReturns, Labels
    <3>2. CASE ~IsNotification(p)
      BY <1>0, <1>11, <3>2, GotoFields DEF HandlerReturns, Labels
    <3> QED BY <3>1, <3>2
  <2>2. Place(p)'
    BY <1>0, <2>0, <2>1 DEF Place, Pc, IsNotification, Msg
  <2>3. CASE ~IsNotification(p)
    BY <1>3, <2>0, <2>1, <2>2, <2>3 DEF Pc
  <2>4. CASE IsNotification(p)
    <3>1. Silence(p)'
      <4>1. \A k \in Nat : Silent(p, k)' <=> Silent(p, k)
        BY <1>1, <2>0
      <4>2. post[p].at \in Nat /\ Silence(p)
        BY <1>0, <1>a
      <4> QED BY <2>0, <2>1, <2>4, <4>1, <4>2 DEF Silence, Pc, IsNotification, Msg
    <3>2. post[p].at \notin Owed(p)
      BY <2>4 DEF Owed, IsNotification, Msg
    <3>3. Due(p)' = Due(p)
      BY <1>1, <2>0, <2>1, <2>4, <3>2 DEF Due, Pc
    <3> QED BY <1>9, <2>0, <2>1, <2>2, <3>1, <3>3
  <2> QED BY <2>3, <2>4
<1>12. ASSUME NEW p \in Post, Finish(p) PROVE Goal
  <2>0. Pc(p) = "finish" /\ silenced' = silenced
    BY <1>12 DEF Finish
  <2>1. /\ post' \in [Post -> PostState] /\ Only(p)
        /\ post'[p].pc = "release" /\ post'[p].at = post[p].at
        /\ post'[p].scope = post[p].scope /\ post'[p].gone = post[p].gone
        /\ post'[p].cancelled = post[p].cancelled
        /\ post'[p].resp = IF post[p].cancelled THEN post[p].resp
                           ELSE Append(post[p].resp, post[p].at)
    BY <1>0, <1>12, FinishFields
  <2>2. Place(p)'
    BY <1>0, <2>0, <2>1 DEF Place, Pc, IsNotification, Msg
  <2>3. Silence(p)'
    <3>1. \A k \in Nat : Silent(p, k)' <=> Silent(p, k)
      BY <1>1, <2>0
    <3>2. post[p].at \in Nat /\ Silence(p)
      BY <1>0, <1>a
    <3> QED BY <2>0, <2>1, <3>1, <3>2 DEF Silence, Pc, IsNotification, Msg
  <2>4. post[p].at \in Owed(p) <=> ~post[p].cancelled
    <3>1. Silent(p, post[p].at) <=> post[p].cancelled
      BY <1>0 DEF Silence
    <3>2. /\ post[p].at \in DOMAIN Body[p]
          /\ Body[p][post[p].at].kind \in {"request", "initialize"}
      BY <1>0, <1>a, <2>0, BodyType DEF Place, Pc, Msg, IsNotification
    <3> QED BY <3>1, <3>2, OwedIs
  <2>5. CASE post[p].cancelled
    <3>1. Due(p)' = Due(p)
      BY <1>1, <2>0, <2>1, <2>4, <2>5 DEF Due, Pc
    <3> QED BY <1>9, <2>0, <2>1, <2>2, <2>3, <2>5, <3>1
  <2>6. CASE ~post[p].cancelled
    <3>1. Due(p)' = Due(p) \union {post[p].at}
      BY <1>1, <2>0, <2>1, <2>4, <2>6 DEF Due, Pc
    <3> QED BY <1>9, <2>0, <2>1, <2>2, <2>3, <2>6, <3>1 DEF Pc
  <2> QED BY <2>5, <2>6
<1>13. ASSUME NEW p \in Post, ReleaseSlot(p) PROVE Goal
  <2>0. /\ Pc(p) = "release" /\ silenced' = silenced /\ post[p].at <= Len(Body[p])
        /\ <<>> \in Seq(Nat) /\ post[p].resp \o <<>> = post[p].resp
    BY <1>0, <1>a, <1>13 DEF ReleaseSlot, Place
  <2>1. /\ post' \in [Post -> PostState] /\ Only(p)
        /\ post'[p].pc = "next" /\ post'[p].at = post[p].at + 1
        /\ post'[p].scope = post[p].scope /\ post'[p].gone = post[p].gone
        /\ post'[p].cancelled = FALSE /\ post'[p].resp = post[p].resp
    BY <1>0, <1>13, <2>0, AdvanceFields DEF ReleaseSlot
  <2>2. Place(p)' /\ Silence(p)'
    BY <1>10, <2>0, <2>1 DEF Pc
  <2>3. Due(p)' = Due(p)
    BY <1>1, <1>a, <2>0, <2>1, BodyType DEF Due, Pc
  <2> QED BY <1>9, <2>0, <2>1, <2>2, <2>3
<1>14. ASSUME NEW p \in Post, ParseError(p) PROVE Goal
  <2>0. /\ Pc(p) = "next" /\ silenced' = silenced /\ post[p].at <= Len(Body[p])
        /\ Msg(p).kind = "bad"
    BY <1>14 DEF ParseError
  <2>1. /\ <<post[p].at>> \in Seq(Nat)
        /\ post[p].resp \o <<post[p].at>> = Append(post[p].resp, post[p].at)
    BY <1>a
  <2>2. /\ post' \in [Post -> PostState] /\ Only(p)
        /\ post'[p].pc = "next" /\ post'[p].at = post[p].at + 1
        /\ post'[p].scope = post[p].scope /\ post'[p].gone = post[p].gone
        /\ post'[p].cancelled = FALSE
        /\ post'[p].resp = Append(post[p].resp, post[p].at)
    BY <1>0, <1>14, <2>1, AdvanceFields DEF ParseError
  <2>3. Place(p)' /\ Silence(p)'
    BY <1>10, <2>0, <2>2 DEF Pc
  <2>4. post[p].at \in Owed(p)
    BY <1>0, <2>0, BodyType DEF Owed, Msg, Place
  <2>5. Due(p)' = Due(p) \union {post[p].at}
    <3>1. /\ Owed(p)' = Owed(p) /\ Owed(p) \in SUBSET Nat /\ post[p].at \in Nat
          /\ post'[p].pc = "next" /\ post[p].pc = "next" /\ post'[p].at = post[p].at + 1
      BY <1>1, <1>a, <2>0, <2>2, BodyType DEF Pc
    <3>2. /\ Due(p)' = {k \in Owed(p) : k < post[p].at + 1}
          /\ Due(p) = {k \in Owed(p) : k < post[p].at}
      BY <3>1 DEF Due, Pc
    <3> QED BY <2>4, <3>1, <3>2
  <2> QED BY <1>9, <2>0, <2>2, <2>3, <2>5 DEF Pc
<1>15. ASSUME NEW p \in Post, Abandon(p) PROVE Goal
  <2>0. /\ Pc(p) = "select" /\ silenced' = silenced /\ post[p].at <= Len(Body[p])
        /\ <<>> \in Seq(Nat) /\ post[p].resp \o <<>> = post[p].resp /\ CtxDone(p)
    BY <1>0, <1>a, <1>15 DEF Abandon, Place
  <2>1. /\ post' \in [Post -> PostState] /\ Only(p)
        /\ post'[p].pc = "next" /\ post'[p].at = post[p].at + 1
        /\ post'[p].scope = post[p].scope /\ post'[p].gone = post[p].gone
        /\ post'[p].cancelled = FALSE /\ post'[p].resp = post[p].resp
    BY <1>0, <1>15, <2>0, AdvanceFields DEF Abandon
  <2>2. Place(p)' /\ Silence(p)'
    BY <1>10, <2>0, <2>1 DEF Pc
  <2>3. /\ Owed(p) \in SUBSET Nat /\ post[p].at \in Nat
        /\ Due(p)' = {k \in Owed(p) : k < post[p].at + 1}
        /\ Due(p) = {k \in Owed(p) : k < post[p].at}
    <3>1. /\ Owed(p)' = Owed(p) /\ Owed(p) \in SUBSET Nat /\ post[p].at \in Nat
          /\ post'[p].pc = "next" /\ post[p].pc = "select" /\ post'[p].at = post[p].at + 1
      BY <1>1, <1>a, <2>0, <2>1, BodyType DEF Pc
    <3> QED BY <3>1 DEF Due, Pc
  <2>4. CASE post[p].cancelled
    <3>1. Silent(p, post[p].at) /\ Msg(p).kind \in {"request", "initialize", "notification"}
      BY <1>0, <2>0, <2>4 DEF Silence, Place
    <3>2. post[p].at \notin Owed(p)
      BY <3>1, OwedIs DEF Msg
    <3>3. Due(p)' = Due(p)
      BY <2>3, <3>2
    <3> QED BY <1>9, <2>0, <2>1, <2>2, <3>3
  <2>5. CASE ~post[p].cancelled
    <3>1. post[p].gone
      BY <2>0, <2>5 DEF CtxDone
    <3>2. Due(p) \subseteq Due(p)'
      BY <2>3
    <3>3. Answers(p)'
      BY <1>0, <2>1, <3>1, <3>2 DEF Answers, Answered
    <3> QED BY <1>2, <2>0, <2>1, <2>2, <3>3
  <2> QED BY <2>4, <2>5
<1>16. ASSUME NEW p \in Post, CancelScoped(p) PROVE Goal
  <2>0. /\ Pc(p) = "next" /\ post[p].at <= Len(Body[p]) /\ Msg(p).kind = "cancel"
        /\ Client[p] \in Clients
    BY <1>16 DEF CancelScoped, Clients
  <2> DEFINE Hit(q) == q \in inflight /\ Key(q) = Key(p)
  <2>1. \A q \in Post, k \in Nat : Silent(q, k)' <=> Silent(q, k) \/ (Hit(q) /\ k = post[q].at)
    <3>1. silenced' = silenced \union
                        {<<q, post[q].at, Client[p]>> : q \in {q \in inflight : Hit(q)}}
      BY <1>16 DEF CancelScoped
    <3>2. ASSUME NEW q \in Post, NEW k \in Nat, NEW c \in Clients
          PROVE  <<q, k, c>> \in silenced'
                   <=> <<q, k, c>> \in silenced \/ (Hit(q) /\ k = post[q].at /\ c = Client[p])
      BY <3>1
    <3> HIDE DEF Hit
    <3> QED BY <2>0, <3>2 DEF Silent
  <2>2. \A q \in Post : Hit(q) => /\ Pc(q) \in {"select", "handle", "finish"} /\ ~IsNotification(q)
    BY DEF HInv, RegistryExact
  <2>3. ASSUME NEW q \in Post PROVE Part(q)'
    <3>a. /\ Owed(q) \in SUBSET Nat /\ Place(q) /\ Silence(q) /\ Answers(q)
          /\ post[q].at \in Nat /\ DOMAIN Body[q] = 1 .. Len(Body[q]) /\ Len(Body[q]) \in Nat
      BY <1>0, <1>a, BodyType
    <3>b. \A k \in Nat : Silent(q, k)' <=> Silent(q, k) \/ (Hit(q) /\ k = post[q].at)
      BY <2>1
    <3>1. CASE q = p
      <4>1. /\ post'[p].pc = "next" /\ post[p].pc = "next" /\ post'[p].at = post[p].at + 1
            /\ post'[p].gone = post[p].gone /\ post'[p].resp = post[p].resp
            /\ post'[p].cancelled = post[p].cancelled
        BY <1>0, <1>16, <2>0, CancelFields DEF Pc
      <4>2. ~Hit(p) /\ ~post[p].cancelled
        BY <2>0, <2>2, <3>a, <3>1 DEF Silence
      <4> HIDE DEF Hit
      <4>3. \A k \in Nat : Silent(p, k)' <=> Silent(p, k)
        BY <3>b, <3>1, <4>2
      <4>4. Place(p)'
        BY <2>0, <3>a, <3>1, <4>1 DEF Place, Pc
      <4>5. Silence(p)'
        BY <2>0, <3>a, <3>1, <4>1, <4>2, <4>3 DEF Silence, Pc
      <4>6. Owed(p)' = Owed(p)
        <5> DEFINE A(k) == Silent(p, k)
                   B(k) == Silent(p, k)'
        <5>1. \A k \in DOMAIN Body[p] : B(k) <=> A(k)
          BY <3>a, <3>1, <4>3
        <5>2. /\ Owed(p) = {k \in DOMAIN Body[p] :
                              \/ Body[p][k].kind = "bad"
                              \/ Body[p][k].kind \in {"request", "initialize"} /\ ~A(k)}
              /\ Owed(p)' = {k \in DOMAIN Body[p] :
                              \/ Body[p][k].kind = "bad"
                              \/ Body[p][k].kind \in {"request", "initialize"} /\ ~B(k)}
          BY OwedIs
        <5> HIDE DEF A, B
        <5> QED BY <5>1, <5>2
      <4>7. post[p].at \notin Owed(p)
        BY <2>0 DEF Owed, Msg
      <4>8. /\ Due(p)' = {k \in Owed(p) : k < post[p].at + 1}
            /\ Due(p) = {k \in Owed(p) : k < post[p].at}
        BY <3>a, <3>1, <4>1, <4>6 DEF Due, Pc
      <4>9. Due(p)' = Due(p)
        BY <3>a, <3>1, <4>7, <4>8
      <4> QED BY <3>a, <3>1, <4>1, <4>4, <4>5, <4>9 DEF Answers
    <3>2. CASE q # p
      <4>1. /\ post'[q].pc = post[q].pc /\ post'[q].at = post[q].at
            /\ post'[q].scope = post[q].scope /\ post'[q].gone = post[q].gone
            /\ post'[q].resp = post[q].resp
            /\ post'[q].cancelled <=> post[q].cancelled \/ Hit(q)
        BY <1>0, <1>16, <3>2, CancelFields
      <4>2. Hit(q) => Pc(q) \in {"select", "handle", "finish"} /\ ~IsNotification(q)
        BY <2>2
      <4> HIDE DEF Hit
      <4>3. Place(q)'
        BY <3>a, <4>1 DEF Place, Pc, IsNotification, Msg
      <4>4. Silence(q)'
        BY <3>a, <3>b, <4>1, <4>2 DEF Silence, Pc, IsNotification, Msg
      <4>5. /\ Owed(q)' \subseteq Owed(q)
            /\ \A k \in Owed(q) : k # post[q].at \/ ~Hit(q) => k \in Owed(q)'
        <5> DEFINE A(k) == Silent(q, k)
                   B(k) == Silent(q, k)'
        <5>1. \A k \in DOMAIN Body[q] : B(k) <=> A(k) \/ (Hit(q) /\ k = post[q].at)
          BY <3>a, <3>b
        <5>2. /\ Owed(q) = {k \in DOMAIN Body[q] :
                              \/ Body[q][k].kind = "bad"
                              \/ Body[q][k].kind \in {"request", "initialize"} /\ ~A(k)}
              /\ Owed(q)' = {k \in DOMAIN Body[q] :
                              \/ Body[q][k].kind = "bad"
                              \/ Body[q][k].kind \in {"request", "initialize"} /\ ~B(k)}
          BY OwedIs
        <5> HIDE DEF A, B
        <5> QED BY <5>1, <5>2
      <4>6. Due(q)' = Due(q)
        BY <3>a, <4>1, <4>2, <4>5 DEF Due, Pc
      <4> QED BY <3>a, <4>1, <4>3, <4>4, <4>6 DEF Answers
    <3> QED BY <3>1, <3>2
  <2> QED BY <2>3 DEF Goal
<1>17. ASSUME UNCHANGED <<post, silenced>> PROVE Goal
  <2>1. ASSUME NEW q \in Post PROVE Part(q)'
    <3>1. post'[q] = post[q] /\ \A k \in Nat : Silent(q, k)' <=> Silent(q, k)
      BY <1>17 DEF Silent
    <3> QED BY <1>0, <1>a, <3>1, PostFrame
  <2> QED BY <2>1 DEF Goal
<1>18. ASSUME NEW sid \in Sid, HandleDelete(sid) \/ Age(sid) PROVE Goal
  BY <1>17, <1>18 DEF HandleDelete, Age
<1>19. ASSUME UNCHANGED vars PROVE Goal
  BY <1>17, <1>19 DEF vars
<1>20. Goal
  BY <1>4, <1>5, <1>6, <1>7, <1>8, <1>11, <1>12, <1>13, <1>14, <1>15, <1>16, <1>18, <1>19
  DEF Next, Serve
<1> QED BY <1>20 DEF Goal

\* A cancellation comes from the session of its request, whose client owns both.
LEMMA NextCancelled ==
    ASSUME HInv, [Next]_vars
    PROVE  CancelledByOwner'
<1> USE HttpAssumption
<1>0. TypeOK /\ Scoped /\ CancelledByOwner /\ \A p \in Post : Silence(p)
  BY DEF HInv
<1>1. ASSUME NEW t \in silenced PROVE post'[t[1]].scope # NoSid => t[3] = Client[t[1]]
  <2>1. /\ t[1] \in Post /\ t[2] \in Nat /\ t[3] \in Clients /\ t = <<t[1], t[2], t[3]>>
    BY <1>0, <1>1 DEF TypeOK
  <2>2. Pc(t[1]) # "new"
    BY <1>0, <1>1, <2>1 DEF Silence, Silent
  <2>3. post'[t[1]].scope = post[t[1]].scope
    BY <1>0, <2>1, <2>2, ScopeKept DEF Arrive
  <2> QED BY <1>0, <1>1, <2>3 DEF CancelledByOwner
<1>2. ASSUME silenced' = silenced PROVE CancelledByOwner'
  BY <1>1, <1>2 DEF CancelledByOwner
<1>3. ASSUME NEW p \in Post, CancelScoped(p) PROVE CancelledByOwner'
  <2>1. ASSUME NEW t \in silenced' PROVE post'[t[1]].scope # NoSid => t[3] = Client[t[1]]
    <3>1. CASE t \in silenced
      BY <1>1, <3>1
    <3>2. CASE t \notin silenced
      <4>1. PICK q \in inflight : Key(q) = Key(p) /\ t = <<q, post[q].at, Client[p]>>
        BY <1>3, <2>1, <3>2 DEF CancelScoped
      <4>2. q \in Post /\ t[1] = q /\ t[3] = Client[p] /\ post[q].scope = post[p].scope
        BY <1>0, <4>1 DEF Key, TypeOK
      <4>3. post'[q].scope = post[q].scope
        BY <1>0, <1>3, <4>2, CancelFields
      <4> QED BY <1>0, <4>2, <4>3 DEF Scoped
    <3> QED BY <3>1, <3>2
  <2> QED BY <2>1 DEF CancelledByOwner
<1>4. ASSUME NEW p \in Post,
             \/ Register(p) \/ AcquireSlot(p) \/ HandlerReturns(p) \/ Refuse(p) \/ ParseError(p)
             \/ Abandon(p) \/ ReleaseSlot(p) \/ Finish(p) \/ Disconnect(p) \/ EndPost(p)
      PROVE  CancelledByOwner'
  BY <1>2, <1>4 DEF Register, AcquireSlot, HandlerReturns, Refuse, ParseError, Abandon,
                    ReleaseSlot, Finish, Disconnect, EndPost
<1>5. ASSUME NEW p \in Post, NEW sid, Arrive(p, sid) PROVE CancelledByOwner'
  BY <1>2, <1>5 DEF Arrive
<1>6. ASSUME NEW sid \in Sid, HandleDelete(sid) \/ Age(sid) PROVE CancelledByOwner'
  BY <1>2, <1>6 DEF HandleDelete, Age
<1>7. CASE UNCHANGED vars
  BY <1>2, <1>7 DEF vars
<1> QED BY <1>3, <1>4, <1>5, <1>6, <1>7 DEF Next, Serve

-----------------------------------------------------------------------------
(* Theorems *)

\* The inductive invariant holds in every behaviour.
THEOREM Invariant == Spec => []HInv
<1>1. Init => HInv
  BY InitHInv
<1>2. HInv /\ [Next]_vars => HInv'
  <2> SUFFICES ASSUME HInv, [Next]_vars PROVE HInv'
    OBVIOUS
  <2>1. TypeOK /\ EndedStaysEnded
    BY DEF HInv
  <2>2. TypeOK' /\ EndedStaysEnded'
    BY <2>1, NextType, TableNext
  <2>3. (\A p \in Post : Place(p) /\ Silence(p) /\ Answers(p))'
    BY NextBatch
  <2> QED
    BY <2>2, <2>3, NextRegistry, NextSlots, NextScoped, NextCancelled DEF HInv
<1> QED BY <1>1, <1>2, PTL DEF Spec

\* However POSTs, cancellations, disconnections and expiring sessions
\* interleave, the registry holds the messages in flight, the semaphore the
\* handlers that run, and an ended session stays out of the table.
THEOREM LeakFreedom == Spec => []NothingLeaks
<1>1. HInv => NothingLeaks
  BY DEF HInv, NothingLeaks
<1> QED BY <1>1, Invariant, PTL

\* dispatch and handlePost answer every batch what it is owed: in order, each
\* message once, and nothing that was cancelled.
THEOREM BatchCorrect == Spec => []BatchAnswered
<1>1. HInv => BatchAnswered
  <2> SUFFICES ASSUME HInv, NEW p \in Post
               PROVE  /\ \A i, j \in DOMAIN post[p].resp :
                            i < j => post[p].resp[i] < post[p].resp[j]
                      /\ ToSet(post[p].resp) \subseteq Owed(p)
                      /\ Pc(p) = "done" /\ ~post[p].gone => ToSet(post[p].resp) = Owed(p)
    BY DEF BatchAnswered
  <2>1. Answered(post[p].resp, Due(p), ~post[p].gone) /\ Place(p)
    BY DEF HInv, Answers
  <2>2. ToSet(post[p].resp) = {post[p].resp[i] : i \in DOMAIN post[p].resp}
    BY DEF ToSet
  <2>3. Due(p) \subseteq Owed(p)
    BY DEF Due
  <2>4. Pc(p) = "done" => Due(p) = Owed(p)
    BY <2>1, BodyType, SMTT(40) DEF Due, Owed, Place
  <2> QED BY <2>1, <2>2, <2>3, <2>4 DEF Answered
<1> QED BY <1>1, Invariant, PTL

\* cancelScoped never lets one client cancel what another one posted under its
\* session.
THEOREM CancellationScoped == Spec => []CancelledByOwner
<1>1. HInv => CancelledByOwner
  BY DEF HInv
<1> QED BY <1>1, Invariant, PTL
=============================================================================
