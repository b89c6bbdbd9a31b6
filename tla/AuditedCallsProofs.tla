------------------------- MODULE AuditedCallsProofs -------------------------
(* Proofs about AuditedCalls, with the AuditClient under it, for every number *)
(* of calls, bundles and sessions, every queue and every number of attempts.  *)
EXTENDS AuditedCalls, SequenceTheorems, FiniteSetTheorems, TLAPS

-----------------------------------------------------------------------------
(* The entries *)

CmdOf(c) == <<c, "first">>
OutOf(c) == <<c, "last">>
Boxed(k) == <<k, "bundle">>

\* Calls and bundles send entries of their own.
LEMMA Entries ==
    /\ \A c \in Call : CmdOf(c) \in Entry /\ OutOf(c) \in Entry
    /\ \A k \in Bundle : Boxed(k) \in Entry
    /\ \A c, b \in Call : /\ CmdOf(c) = CmdOf(b) => c = b
                          /\ OutOf(c) = OutOf(b) => c = b
                          /\ CmdOf(c) # OutOf(b)
    /\ \A k, j \in Bundle : Boxed(k) = Boxed(j) => k = j
    /\ \A k \in Bundle : \A c \in Call : Boxed(k) # CmdOf(c) /\ Boxed(k) # OutOf(c)
BY CallsAssumption DEF CmdOf, OutOf, Boxed

\* There are finitely many of them.
LEMMA EntryFinite == IsFiniteSet(Entry)
<1>1. IsFiniteSet(Call) /\ IsFiniteSet(Bundle)
  BY FS_Interval, CallsAssumption DEF Call, Bundle
<1>2. IsFiniteSet({"first", "last"}) /\ IsFiniteSet({"bundle"})
  <2>1. IsFiniteSet({"first"}) /\ IsFiniteSet({"bundle"})
    BY FS_Singleton
  <2>2. IsFiniteSet({"first"} \union {"last"})
    BY <2>1, FS_AddElement
  <2>3. {"first"} \union {"last"} = {"first", "last"}
    OBVIOUS
  <2> QED BY <2>1, <2>2, <2>3
<1>3. IsFiniteSet(Call \X {"first", "last"}) /\ IsFiniteSet(Bundle \X {"bundle"})
  BY <1>1, <1>2, FS_Product
<1> QED BY <1>3, FS_Union, CallsAssumption

-----------------------------------------------------------------------------
(* The audit client: types *)

SenderLabel == {"idle", "try", "evict", "again", "post", "sent", "failed"}

\* Only the sender of e moves.
Alone(e) == \A f \in Entry \ {e} : snd'[f] = snd[f]

\* A sender goes on, its attempts stay.
LEMMA GoesFields ==
    ASSUME snd \in [Entry -> SenderState], NEW e \in Entry, NEW l \in SenderLabel,
           snd' = [snd EXCEPT ![e].pc = l]
    PROVE  /\ snd' \in [Entry -> SenderState] /\ Alone(e)
           /\ snd'[e].pc = l /\ snd'[e].tries = snd[e].tries
BY DEF SenderState, SenderLabel, Alone

\* A post ends, or another attempt follows.
LEMMA PostFields ==
    ASSUME snd \in [Entry -> SenderState], NEW e \in Entry, NEW out \in Outcome,
           snd[e].tries < MaxAttempts, StrictPost(e, out)
    PROVE  /\ snd' \in [Entry -> SenderState] /\ Alone(e) /\ snd'[e].tries < MaxAttempts
           /\ \/ snd'[e].pc = "post"
              \/ snd'[e].pc = "sent" /\ Accepted(out)
              \/ snd'[e].pc = "failed" /\ refused' = refused \union {e}
<1> USE AuditAssumption
<1>1. snd[e].tries \in 0 .. MaxAttempts - 1 /\ snd[e].pc = "post"
  BY DEF SenderState, StrictPost
<1>2. CASE Final(out, snd[e].tries)
  <2>1. PICK l \in {"sent", "failed"} : /\ l = IF Accepted(out) THEN "sent" ELSE "failed"
                                        /\ snd' = [snd EXCEPT ![e] = [pc |-> l, tries |-> 0]]
    BY <1>2 DEF StrictPost
  <2>2. [pc |-> l, tries |-> 0] \in SenderState
    BY <2>1 DEF SenderState
  <2>3. snd' \in [Entry -> SenderState] /\ Alone(e) /\ snd'[e] = [pc |-> l, tries |-> 0]
    BY <2>1, <2>2 DEF Alone
  <2>4. ~Accepted(out) => refused' = refused \union {e}
    BY <1>2 DEF StrictPost
  <2> QED BY <2>1, <2>3, <2>4
<1>3. CASE ~Final(out, snd[e].tries)
  <2>1. snd[e].tries + 1 \in 0 .. MaxAttempts - 1
    BY <1>1, <1>3 DEF Final
  <2>2. snd' = [snd EXCEPT ![e] = [pc |-> "post", tries |-> snd[e].tries + 1]]
    BY <1>3 DEF StrictPost
  <2>3. [pc |-> "post", tries |-> snd[e].tries + 1] \in SenderState
    BY <2>1 DEF SenderState
  <2> QED BY <2>1, <2>2, <2>3 DEF Alone
<1> QED BY <1>2, <1>3

\* The sets of entries, and the queue.
EntriesOK ==
    /\ queue \in Seq(Entry) /\ Len(queue) <= QueueCap
    /\ trail \subseteq Entry /\ inflight \subseteq Entry /\ evicted \subseteq Entry
    /\ lost \subseteq Entry /\ refused \subseteq Entry /\ unwritten \subseteq Entry
    /\ worker \in Entry \union {None, Stopped}

FlagsOK ==
    /\ mode \in {"strict", "best-effort", "off"} /\ tries \in 0 .. MaxAttempts - 1
    /\ closed \in BOOLEAN /\ contended \in BOOLEAN

\* AuditTypeOK in parts.
LEMMA AuditTypes == AuditTypeOK <=> EntriesOK /\ FlagsOK /\ snd \in [Entry -> SenderState]
<1>1. {closed, contended} \subseteq BOOLEAN <=> closed \in BOOLEAN /\ contended \in BOOLEAN
  BY Zenon
<1>2. trail \union inflight \union evicted \union lost \union refused \union unwritten \subseteq Entry
        <=> /\ trail \subseteq Entry /\ inflight \subseteq Entry /\ evicted \subseteq Entry
            /\ lost \subseteq Entry /\ refused \subseteq Entry /\ unwritten \subseteq Entry
  BY Zenon
<1> QED BY <1>1, <1>2 DEF AuditTypeOK, EntriesOK, FlagsOK

-----------------------------------------------------------------------------
(* The audit client: where the entries are *)

\* In the queue or with the worker.
OnItsWay(e) == worker = e \/ \E i \in 1 .. Len(queue) : queue[i] = e

\* An entry that its sender has not handed over is nowhere.
Nowhere ==
    \A e \in Entry : snd[e].pc \in {"idle", "try", "evict", "again"} =>
        e \notin trail /\ e \notin inflight /\ ~OnItsWay(e)

\* A sender that has made room finds it, unless somebody else was faster.
Room == ~contended => \A e \in Entry : snd[e].pc = "again" => Len(queue) < QueueCap

\* Accounted, entry by entry.
Found(e) ==
    snd[e].pc \in {"sent", "failed"} =>
        OnItsWay(e) \/ e \in trail \union evicted \union lost \union refused \union unwritten

AuInv ==
    /\ EntriesOK /\ FlagsOK /\ snd \in [Entry -> SenderState]
    /\ \A e \in Entry : snd[e].tries < MaxAttempts
    /\ Nowhere /\ Room /\ LostOnlyContended
    /\ \A e \in Entry : Found(e)

\* What a queue keeps.
LEMMA AppendQueue ==
    ASSUME NEW q \in Seq(Entry), NEW e \in Entry
    PROVE  /\ Append(q, e) \in Seq(Entry) /\ Len(Append(q, e)) = Len(q) + 1 /\ Len(q) \in Nat
           /\ Append(q, e)[Len(q) + 1] = e
           /\ \A i \in 1 .. Len(q) : Append(q, e)[i] = q[i]
OBVIOUS

\* What is behind the head.
LEMMA TailQueue ==
    ASSUME NEW q \in Seq(Entry), q # <<>>
    PROVE  /\ Tail(q) \in Seq(Entry) /\ Len(Tail(q)) = Len(q) - 1 /\ Len(q) \in Nat \ {0}
           /\ Head(q) \in Entry /\ Head(q) = q[1]
           /\ \A i \in 1 .. Len(q) - 1 : Tail(q)[i] = q[i + 1]
OBVIOUS

\* Two senders in enqueue are more than one.
LEMMA TwoContend ==
    ASSUME NEW e \in InEnqueue, NEW f \in InEnqueue, e # f
    PROVE  Cardinality(InEnqueue) > 1
<1>1. IsFiniteSet(InEnqueue)
  BY EntryFinite, FS_Subset DEF InEnqueue
<1>2. IsFiniteSet({e}) /\ Cardinality({e}) = 1
  BY FS_Singleton
<1>3. IsFiniteSet({e} \union {f}) /\ Cardinality({e} \union {f}) = 2
  BY <1>2, FS_AddElement
<1>4. Cardinality({e} \union {f}) <= Cardinality(InEnqueue) /\ Cardinality(InEnqueue) \in Nat
  BY <1>1, FS_Subset, FS_CardinalityType
<1> QED BY <1>3, <1>4

\* An entry at the end of the queue,
LEMMA AppendWay ==
    ASSUME EntriesOK, NEW e \in Entry, queue' = Append(queue, e), worker' = worker
    PROVE  \A f \in Entry : OnItsWay(f)' <=> OnItsWay(f) \/ f = e
<1>1. queue \in Seq(Entry)
  BY DEF EntriesOK
<1>2. /\ Len(queue') = Len(queue) + 1 /\ Len(queue) \in Nat
      /\ queue'[Len(queue) + 1] = e /\ \A i \in 1 .. Len(queue) : queue'[i] = queue[i]
  BY <1>1, AppendQueue
<1> QED BY <1>2 DEF OnItsWay

\* the head that is dropped,
LEMMA TailWay ==
    ASSUME EntriesOK, queue # <<>>, queue' = Tail(queue), worker' = worker
    PROVE  \A f \in Entry : /\ OnItsWay(f)' => OnItsWay(f)
                            /\ OnItsWay(f) => OnItsWay(f)' \/ f = Head(queue)
<1>1. queue \in Seq(Entry)
  BY DEF EntriesOK
<1>2. /\ Len(queue') = Len(queue) - 1 /\ Len(queue) \in Nat \ {0} /\ Head(queue) = queue[1]
      /\ \A i \in 1 .. Len(queue) - 1 : queue'[i] = queue[i + 1]
  BY <1>1, TailQueue
<1>3. \A i \in 1 .. Len(queue) : i = 1 \/ (i - 1 \in 1 .. Len(queue') /\ queue'[i - 1] = queue[i])
  BY <1>2
<1>4. \A i \in 1 .. Len(queue') : i + 1 \in 1 .. Len(queue) /\ queue'[i] = queue[i + 1]
  BY <1>2
<1>5. \A f : (\E i \in 1 .. Len(queue') : queue'[i] = f) => \E i \in 1 .. Len(queue) : queue[i] = f
  BY <1>4
<1>6. \A f : (\E i \in 1 .. Len(queue) : queue[i] = f)
                => f = Head(queue) \/ \E i \in 1 .. Len(queue') : queue'[i] = f
  BY <1>2, <1>3
<1> QED BY <1>5, <1>6 DEF OnItsWay

\* and the head that the worker takes.
LEMMA TakeWay ==
    ASSUME EntriesOK, queue # <<>>, queue' = Tail(queue), worker = None, worker' = Head(queue)
    PROVE  \A f \in Entry : OnItsWay(f)' <=> OnItsWay(f)
<1>1. queue \in Seq(Entry)
  BY DEF EntriesOK
<1>2. /\ Len(queue') = Len(queue) - 1 /\ Len(queue) \in Nat \ {0} /\ Head(queue) = queue[1]
      /\ \A i \in 1 .. Len(queue) - 1 : queue'[i] = queue[i + 1]
  BY <1>1, TailQueue
<1>3. \A i \in 1 .. Len(queue) : i = 1 \/ (i - 1 \in 1 .. Len(queue') /\ queue'[i - 1] = queue[i])
  BY <1>2
<1>4. \A i \in 1 .. Len(queue') : i + 1 \in 1 .. Len(queue) /\ queue'[i] = queue[i + 1]
  BY <1>2
<1>5. \A f : (\E i \in 1 .. Len(queue') : queue'[i] = f) => \E i \in 1 .. Len(queue) : queue[i] = f
  BY <1>4
<1>6. \A f : (\E i \in 1 .. Len(queue) : queue[i] = f)
                => f = Head(queue) \/ \E i \in 1 .. Len(queue') : queue'[i] = f
  BY <1>2, <1>3
<1>7. \E i \in 1 .. Len(queue) : queue[i] = Head(queue)
  BY <1>2
<1> QED BY <1>5, <1>6, <1>7, AuditAssumption DEF OnItsWay

\* A new entry is handed over, or a command's post begins: the rest is as it was.
Woken(e) ==
    /\ snd[e].pc = "idle"
    /\ \E l \in {"try", "post"} : snd' = [snd EXCEPT ![e].pc = l]

\* It keeps the invariant of the client.
LEMMA WakeAudit ==
    ASSUME AuInv, NEW e \in Entry, Woken(e),
           UNCHANGED <<queue, worker, tries, closed, mode, collectorVars, evicted, lost, refused, contended>>
    PROVE  AuInv'
<1>1. PICK l \in {"try", "post"} : snd' = [snd EXCEPT ![e].pc = l]
  BY DEF Woken
<1>2. /\ snd' \in [Entry -> SenderState] /\ Alone(e) /\ snd[e].pc = "idle"
      /\ snd'[e].pc = l /\ snd'[e].tries = snd[e].tries
  BY <1>1, GoesFields DEF AuInv, SenderLabel, Woken
<1>3. EntriesOK' /\ FlagsOK' /\ LostOnlyContended'
  BY DEF AuInv, EntriesOK, FlagsOK, LostOnlyContended, collectorVars
<1>4. \A f \in Entry : OnItsWay(f)' <=> OnItsWay(f)
  BY DEF OnItsWay
<1>5. \A f \in Entry : snd'[f].tries < MaxAttempts
  BY <1>2 DEF AuInv, Alone
<1>6. Nowhere'
  BY <1>2, <1>4 DEF AuInv, Nowhere, Alone, collectorVars
<1>7. Room'
  BY <1>2 DEF AuInv, Room, Alone
<1>8. \A f \in Entry : Found(f)'
  BY <1>2, <1>4 DEF AuInv, Found, Alone, collectorVars
<1> QED BY <1>2, <1>3, <1>5, <1>6, <1>7, <1>8 DEF AuInv

\* enqueue, first and last select: the entry goes in if there is room.
LEMMA SelectAudit ==
    ASSUME AuInv, NEW e \in Entry, FirstSelect(e) \/ Evict(e) \/ LastSelect(e)
    PROVE  AuInv'
<1> USE AuditAssumption
<1>1. /\ UNCHANGED <<mode, worker, tries, closed, collectorVars, refused>>
      /\ contended' = (contended \/ Cardinality(InEnqueue) > 1)
      /\ snd[e].pc \in {"try", "evict", "again"}
      /\ \E l \in {"sent", "evict", "again"} : snd' = [snd EXCEPT ![e].pc = l]
  BY DEF FirstSelect, Evict, LastSelect, Goes
<1>2. PICK l \in {"sent", "evict", "again"} : snd' = [snd EXCEPT ![e].pc = l]
  BY <1>1
<1>3. /\ snd' \in [Entry -> SenderState] /\ Alone(e)
      /\ snd'[e].pc = l /\ snd'[e].tries = snd[e].tries
  BY <1>2, GoesFields DEF AuInv, SenderLabel
<1>4. EntriesOK /\ queue \in Seq(Entry) /\ Len(queue) \in Nat /\ Len(queue) <= QueueCap /\ QueueCap \in Nat
  BY DEF AuInv, EntriesOK
<1>5. FlagsOK'
  <2>1. contended' \in BOOLEAN
    BY <1>1, Zenon
  <2> QED BY <1>1, <2>1 DEF AuInv, FlagsOK
<1>6. \A f \in Entry : snd'[f].tries < MaxAttempts
  BY <1>3 DEF AuInv, Alone
<1>7. contended => contended'
  BY <1>1
<1>8. ASSUME ~contended', NEW f \in Entry, f # e
      PROVE  snd[f].pc \notin {"try", "evict", "again"}
  <2>1. e \in InEnqueue
    BY <1>1 DEF InEnqueue
  <2>2. f \in InEnqueue => Cardinality(InEnqueue) > 1
    BY <1>8, <2>1, TwoContend
  <2> QED BY <1>1, <1>8, <2>2 DEF InEnqueue
\* The entry goes in.
<1>9. ASSUME queue' = Append(queue, e), Len(queue) < QueueCap, l = "sent", UNCHANGED <<evicted, lost>>
      PROVE  AuInv'
  <2>1. \A f \in Entry : OnItsWay(f)' <=> OnItsWay(f) \/ f = e
    BY <1>1, <1>4, <1>9, AppendWay
  <2>2. EntriesOK'
    <3>1. queue' \in Seq(Entry) /\ Len(queue') = Len(queue) + 1
      BY <1>4, <1>9, AppendQueue
    <3> QED BY <1>1, <1>4, <1>9, <3>1 DEF EntriesOK, collectorVars
  <2>3. Nowhere'
    BY <1>1, <1>3, <1>9, <2>1 DEF AuInv, Nowhere, Alone, collectorVars
  <2>4. Room'
    BY <1>3, <1>8, <1>9 DEF Room, Alone
  <2>5. \A f \in Entry : Found(f)'
    BY <1>1, <1>3, <1>9, <2>1 DEF AuInv, Found, Alone, collectorVars
  <2>6. LostOnlyContended'
    BY <1>7, <1>9 DEF AuInv, LostOnlyContended
  <2> QED BY <1>3, <1>5, <1>6, <2>2, <2>3, <2>4, <2>5, <2>6 DEF AuInv
\* It does not, and goes on to the next select.
<1>10. ASSUME UNCHANGED <<queue, evicted, lost>>, l \in {"evict", "again"},
              l = "again" => Len(queue) < QueueCap
       PROVE  AuInv'
  <2>1. \A f \in Entry : OnItsWay(f)' <=> OnItsWay(f)
    BY <1>1, <1>10 DEF OnItsWay
  <2>2. EntriesOK'
    BY <1>1, <1>4, <1>10 DEF EntriesOK, collectorVars
  <2>3. Nowhere'
    BY <1>1, <1>3, <1>10, <2>1 DEF AuInv, Nowhere, Alone, collectorVars
  <2>4. Room'
    BY <1>3, <1>8, <1>10 DEF Room, Alone
  <2>5. \A f \in Entry : Found(f)'
    BY <1>1, <1>3, <1>10, <2>1 DEF AuInv, Found, Alone, collectorVars
  <2>6. LostOnlyContended'
    BY <1>7, <1>10 DEF AuInv, LostOnlyContended
  <2> QED BY <1>3, <1>5, <1>6, <2>2, <2>3, <2>4, <2>5, <2>6 DEF AuInv
\* The oldest one is dropped, and counted.
<1>11. ASSUME queue # <<>>, queue' = Tail(queue), evicted' = evicted \union {Head(queue)},
              UNCHANGED lost, l = "again"
       PROVE  AuInv'
  <2>1. \A f \in Entry : /\ OnItsWay(f)' => OnItsWay(f)
                         /\ OnItsWay(f) => OnItsWay(f)' \/ f = Head(queue)
    BY <1>1, <1>4, <1>11, TailWay
  <2>2. /\ queue' \in Seq(Entry) /\ Len(queue') = Len(queue) - 1
        /\ Len(queue) \in Nat \ {0} /\ Head(queue) \in Entry
    BY <1>4, <1>11, TailQueue
  <2>3. EntriesOK'
    BY <1>1, <1>4, <1>11, <2>2 DEF EntriesOK, collectorVars
  <2>4. Nowhere'
    BY <1>1, <1>3, <1>11, <2>1 DEF AuInv, Nowhere, Alone, collectorVars
  <2>5. Room'
    BY <1>3, <1>4, <1>8, <1>11, <2>2 DEF Room, Alone
  <2>6. \A f \in Entry : Found(f)'
    BY <1>1, <1>3, <1>11, <2>1 DEF AuInv, Found, Alone, collectorVars
  <2>7. LostOnlyContended'
    BY <1>7, <1>11 DEF AuInv, LostOnlyContended
  <2> QED BY <1>3, <1>5, <1>6, <2>3, <2>4, <2>5, <2>6, <2>7 DEF AuInv
\* It is passed over: the room it had made is gone.
<1>12. ASSUME UNCHANGED <<queue, evicted>>, lost' = lost \union {e}, l = "sent",
              snd[e].pc = "again", ~(Len(queue) < QueueCap)
       PROVE  AuInv'
  <2>1. \A f \in Entry : OnItsWay(f)' <=> OnItsWay(f)
    BY <1>1, <1>12 DEF OnItsWay
  <2>2. EntriesOK'
    BY <1>1, <1>4, <1>12 DEF EntriesOK, collectorVars
  <2>3. Nowhere'
    BY <1>1, <1>3, <1>12, <2>1 DEF AuInv, Nowhere, Alone, collectorVars
  <2>4. contended /\ contended'
    BY <1>7, <1>12 DEF AuInv, Room
  <2>5. \A f \in Entry : Found(f)'
    BY <1>1, <1>3, <1>12, <2>1 DEF AuInv, Found, Alone, collectorVars
  <2> QED BY <1>3, <1>5, <1>6, <2>2, <2>3, <2>4, <2>5 DEF AuInv, Room, LostOnlyContended
<1>13. CASE FirstSelect(e)
  <2>1. CASE Len(queue) < QueueCap
    <3>1. queue' = Append(queue, e) /\ snd' = [snd EXCEPT ![e].pc = "sent"] /\ UNCHANGED <<evicted, lost>>
      BY <1>13, <2>1 DEF FirstSelect, Goes
    <3>2. l = "sent"
      BY <1>3, <3>1, GoesFields DEF AuInv, SenderLabel
    <3> QED BY <1>9, <2>1, <3>1, <3>2
  <2>2. CASE ~(Len(queue) < QueueCap)
    <3>1. snd' = [snd EXCEPT ![e].pc = "evict"] /\ UNCHANGED <<queue, evicted, lost>>
      BY <1>13, <2>2 DEF FirstSelect, Goes
    <3>2. l = "evict"
      BY <1>3, <3>1, GoesFields DEF AuInv, SenderLabel
    <3> QED BY <1>10, <3>1, <3>2
  <2> QED BY <2>1, <2>2
<1>14. CASE Evict(e)
  <2>1. snd' = [snd EXCEPT ![e].pc = "again"] /\ UNCHANGED lost
    BY <1>14 DEF Evict, Goes
  <2>2. l = "again"
    BY <1>3, <2>1, GoesFields DEF AuInv, SenderLabel
  <2>3. CASE queue = <<>>
    <3>1. UNCHANGED <<queue, evicted>>
      BY <1>14, <2>3 DEF Evict
    <3>2. Len(queue) < QueueCap
      BY <2>3, EmptySeq
    <3> QED BY <1>10, <2>1, <2>2, <3>1, <3>2
  <2>4. CASE queue # <<>>
    <3>1. queue' = Tail(queue) /\ evicted' = evicted \union {Head(queue)}
      BY <1>14, <2>4 DEF Evict
    <3> QED BY <1>11, <2>1, <2>2, <2>4, <3>1
  <2> QED BY <2>3, <2>4
<1>15. CASE LastSelect(e)
  <2>1. snd' = [snd EXCEPT ![e].pc = "sent"] /\ UNCHANGED evicted /\ snd[e].pc = "again"
    BY <1>15 DEF LastSelect, Goes
  <2>2. l = "sent"
    BY <1>3, <2>1, GoesFields DEF AuInv, SenderLabel
  <2>3. CASE Len(queue) < QueueCap
    <3>1. queue' = Append(queue, e) /\ UNCHANGED lost
      BY <1>15, <2>3 DEF LastSelect
    <3> QED BY <1>9, <2>1, <2>2, <2>3, <3>1
  <2>4. CASE ~(Len(queue) < QueueCap)
    <3>1. lost' = lost \union {e} /\ UNCHANGED queue
      BY <1>15, <2>4 DEF LastSelect
    <3> QED BY <1>12, <2>1, <2>2, <2>4, <3>1
  <2> QED BY <2>3, <2>4
<1> QED BY <1>13, <1>14, <1>15

\* What a post does to the collector: an entry that is accepted is stored or
\* known to be unwritten, and nothing is taken back.
LEMMA PostEffect ==
    ASSUME NEW e, NEW out \in Outcome, Post(e, out)
    PROVE  /\ trail \subseteq trail' /\ trail' \subseteq trail \union {e}
           /\ unwritten \subseteq unwritten' /\ unwritten' \subseteq unwritten \union {e}
           /\ inflight' \subseteq inflight \union {e}
           /\ Accepted(out) => e \in trail' \/ e \in unwritten'
BY DEF Post, Outcome, Accepted

\* A command is posted by its sender.
LEMMA StrictPostAudit ==
    ASSUME AuInv, NEW e \in Entry, NEW out \in Outcome, StrictPost(e, out)
    PROVE  AuInv'
<1>1. /\ UNCHANGED <<mode, queue, worker, tries, closed, evicted, lost, contended>>
      /\ snd[e].pc = "post" /\ Post(e, out) /\ refused \subseteq refused' /\ refused' \subseteq refused \union {e}
  BY DEF StrictPost
<1>2. /\ snd' \in [Entry -> SenderState] /\ Alone(e) /\ snd'[e].tries < MaxAttempts
      /\ \/ snd'[e].pc = "post"
         \/ snd'[e].pc = "sent" /\ Accepted(out)
         \/ snd'[e].pc = "failed" /\ refused' = refused \union {e}
  BY PostFields DEF AuInv
<1>3. /\ trail \subseteq trail' /\ trail' \subseteq trail \union {e}
      /\ unwritten \subseteq unwritten' /\ unwritten' \subseteq unwritten \union {e}
      /\ inflight' \subseteq inflight \union {e}
      /\ Accepted(out) => e \in trail' \/ e \in unwritten'
  BY <1>1, PostEffect
<1>4. EntriesOK' /\ FlagsOK' /\ LostOnlyContended'
  BY <1>1, <1>3 DEF AuInv, EntriesOK, FlagsOK, LostOnlyContended
<1>5. \A f \in Entry : OnItsWay(f)' <=> OnItsWay(f)
  BY <1>1 DEF OnItsWay
<1>6. \A f \in Entry : snd'[f].tries < MaxAttempts
  BY <1>2 DEF AuInv, Alone
<1>7. Nowhere'
  BY <1>1, <1>2, <1>3, <1>5 DEF AuInv, Nowhere, Alone
<1>8. Room'
  BY <1>1, <1>2 DEF AuInv, Room, Alone
<1>9. \A f \in Entry : Found(f)'
  <2> SUFFICES ASSUME NEW f \in Entry PROVE Found(f)'
    OBVIOUS
  <2>1. CASE f = e
    BY <1>2, <1>3, <2>1 DEF Found
  <2>2. CASE f # e
    BY <1>1, <1>2, <1>3, <1>5, <2>2 DEF AuInv, Found, Alone
  <2> QED BY <2>1, <2>2
<1> QED BY <1>2, <1>4, <1>6, <1>7, <1>8, <1>9 DEF AuInv

\* The worker takes the oldest entry, and posts what it has.
LEMMA WorkerAudit ==
    ASSUME AuInv, WorkerTake \/ WorkerStop \/ \E out \in Outcome : WorkerPost(out)
    PROVE  AuInv'
<1> USE AuditAssumption
<1>1. /\ UNCHANGED <<mode, snd, closed, evicted, lost, contended>>
  BY DEF WorkerTake, WorkerStop, WorkerPost
<1>2. /\ snd' \in [Entry -> SenderState] /\ LostOnlyContended'
      /\ \A f \in Entry : snd'[f] = snd[f]
      /\ \A f \in Entry : snd'[f].tries < MaxAttempts
  BY <1>1 DEF AuInv, LostOnlyContended
<1>3. CASE WorkerTake
  <2>1. /\ queue # <<>> /\ worker = None /\ worker' = Head(queue) /\ queue' = Tail(queue)
        /\ UNCHANGED <<tries, collectorVars, refused>>
    BY <1>3 DEF WorkerTake
  <2>2. queue \in Seq(Entry) /\ EntriesOK
    BY DEF AuInv, EntriesOK
  <2>3. /\ queue' \in Seq(Entry) /\ Len(queue') = Len(queue) - 1
        /\ Len(queue) \in Nat \ {0} /\ Head(queue) \in Entry
    BY <2>1, <2>2, TailQueue
  <2>4. \A f \in Entry : OnItsWay(f)' <=> OnItsWay(f)
    BY <2>1, <2>2, TakeWay
  <2>5. EntriesOK' /\ FlagsOK'
    BY <1>1, <2>1, <2>2, <2>3 DEF AuInv, EntriesOK, FlagsOK, collectorVars
  <2>6. Nowhere'
    BY <1>2, <2>1, <2>4 DEF AuInv, Nowhere, collectorVars
  <2>7. Room'
    BY <1>1, <1>2, <2>2, <2>3 DEF AuInv, Room, EntriesOK
  <2>8. \A f \in Entry : Found(f)'
    BY <1>1, <1>2, <2>1, <2>4 DEF AuInv, Found, collectorVars
  <2> QED BY <1>2, <2>5, <2>6, <2>7, <2>8 DEF AuInv
<1>4. CASE WorkerStop
  <2>1. worker = None /\ worker' = Stopped /\ UNCHANGED <<queue, tries, collectorVars, refused>>
    BY <1>4 DEF WorkerStop
  <2>2. \A f \in Entry : OnItsWay(f)' <=> OnItsWay(f)
    BY <2>1 DEF OnItsWay
  <2>3. EntriesOK' /\ FlagsOK'
    BY <1>1, <2>1 DEF AuInv, EntriesOK, FlagsOK, collectorVars
  <2>4. Nowhere' /\ Room'
    BY <1>1, <1>2, <2>1, <2>2 DEF AuInv, Nowhere, Room, collectorVars
  <2>5. \A f \in Entry : Found(f)'
    BY <1>1, <1>2, <2>1, <2>2 DEF AuInv, Found, collectorVars
  <2> QED BY <1>2, <2>3, <2>4, <2>5 DEF AuInv
<1>5. ASSUME NEW out \in Outcome, WorkerPost(out) PROVE AuInv'
  <2>1. worker \in Entry /\ Post(worker, out) /\ UNCHANGED queue
    BY <1>5 DEF WorkerPost
  <2>2. \/ worker' = worker /\ tries' = tries + 1 /\ UNCHANGED refused /\ tries + 1 # MaxAttempts
        \/ worker' = None /\ tries' = 0 /\ refused' = refused \union {worker}
        \/ worker' = None /\ tries' = 0 /\ UNCHANGED refused /\ Accepted(out)
    BY <1>5 DEF WorkerPost, Final
  <2>3. /\ trail \subseteq trail' /\ trail' \subseteq trail \union {worker}
        /\ unwritten \subseteq unwritten' /\ unwritten' \subseteq unwritten \union {worker}
        /\ inflight' \subseteq inflight \union {worker}
        /\ Accepted(out) => worker \in trail' \/ worker \in unwritten'
    BY <2>1, PostEffect
  <2>4. \A f \in Entry : /\ OnItsWay(f)' => OnItsWay(f)
                         /\ OnItsWay(f) => \/ OnItsWay(f)' \/ f \in refused'
                                           \/ f \in trail' \/ f \in unwritten'
    BY <2>1, <2>2, <2>3 DEF OnItsWay
  <2>5. EntriesOK'
    BY <1>1, <2>1, <2>2, <2>3 DEF AuInv, EntriesOK
  <2>6. FlagsOK'
    BY <1>1, <2>2 DEF AuInv, FlagsOK
  <2>7. Nowhere'
    <3>1. OnItsWay(worker)
      BY DEF OnItsWay
    <3> QED BY <1>2, <2>1, <2>3, <2>4, <3>1 DEF AuInv, Nowhere
  <2>8. Room'
    BY <1>1, <1>2, <2>1 DEF AuInv, Room
  <2>9. \A f \in Entry : Found(f)'
    BY <1>1, <1>2, <2>2, <2>3, <2>4 DEF AuInv, Found
  <2> QED BY <1>2, <2>5, <2>6, <2>7, <2>8, <2>9 DEF AuInv
<1> QED BY <1>3, <1>4, <1>5

\* A request that had timed out is stored after all.
LEMMA LateAudit ==
    ASSUME AuInv, NEW e \in Entry, LateStore(e)
    PROVE  AuInv'
<1>1. /\ UNCHANGED <<mode, snd, queue, worker, tries, closed, unwritten, evicted, lost, refused, contended>>
      /\ e \in inflight /\ inflight' = inflight \ {e} /\ trail' = trail \union {e}
  BY DEF LateStore
<1>2. \A f \in Entry : OnItsWay(f)' <=> OnItsWay(f)
  BY <1>1 DEF OnItsWay
<1>3. EntriesOK' /\ FlagsOK' /\ snd' \in [Entry -> SenderState]
  BY <1>1 DEF AuInv, EntriesOK, FlagsOK
<1>4. Nowhere' /\ Room' /\ LostOnlyContended'
  BY <1>1, <1>2 DEF AuInv, Nowhere, Room, LostOnlyContended
<1>5. \A f \in Entry : Found(f)' /\ snd'[f].tries < MaxAttempts
  BY <1>1, <1>2 DEF AuInv, Found
<1> QED BY <1>3, <1>4, <1>5 DEF AuInv

\* Every step of senders, worker and collector.
LEMMA NextAuditInv == ASSUME AuInv, NextAudit PROVE AuInv'
BY SelectAudit, StrictPostAudit, WorkerAudit, LateAudit DEF NextAudit, StepAudit

\* Nothing but Close changes closed.
LEMMA StillAudit ==
    ASSUME AuInv, UNCHANGED <<mode, snd, queue, worker, tries, collectorVars, evicted, lost, refused, contended>>,
           closed' \in BOOLEAN
    PROVE  AuInv'
<1>1. EntriesOK' /\ FlagsOK' /\ snd' \in [Entry -> SenderState]
  BY DEF AuInv, EntriesOK, FlagsOK, collectorVars
<1>2. Nowhere' /\ Room' /\ LostOnlyContended'
  BY DEF AuInv, Nowhere, Room, LostOnlyContended, OnItsWay, collectorVars
<1>3. \A f \in Entry : Found(f)' /\ snd'[f].tries < MaxAttempts
  BY DEF AuInv, Found, OnItsWay, collectorVars
<1> QED BY <1>1, <1>2, <1>3 DEF AuInv

\* Before the first entry.
LEMMA InitAudit == AuditInit => AuInv
<1> SUFFICES ASSUME AuditInit PROVE AuInv
  OBVIOUS
<1> USE AuditAssumption
<1>1. snd \in [Entry -> SenderState] /\ \A e \in Entry : snd[e].pc = "idle" /\ snd[e].tries = 0
  BY DEF AuditInit, SenderState
<1>2. EntriesOK
  BY EmptySeq DEF AuditInit, EntriesOK
<1>3. FlagsOK
  <2>1. closed \in BOOLEAN /\ contended \in BOOLEAN
    BY Zenon DEF AuditInit
  <2> QED BY <2>1 DEF AuditInit, FlagsOK
<1>4. \A e \in Entry : ~OnItsWay(e)
  BY DEF AuditInit, OnItsWay
<1>5. Nowhere /\ Room /\ LostOnlyContended
  BY <1>1, <1>4 DEF AuditInit, Nowhere, Room, LostOnlyContended
<1>6. \A e \in Entry : Found(e) /\ snd[e].tries < MaxAttempts
  BY <1>1 DEF Found
<1> QED BY <1>1, <1>2, <1>3, <1>5, <1>6 DEF AuInv

-----------------------------------------------------------------------------
(* The calls, field by field *)

CallLabel == {"new", "get", "lock", "audit", "exec", "refetch", "take", "open", "write", "done"}
Ending == {None, "run", "error", "early", "unsealed", "late"}

\* Only the call c moves.
Only(c) == \A b \in Call \ {c} : call'[b] = call[b]

\* A new label changes nothing else of the call.
LEMMA GotoFields ==
    ASSUME call \in [Call -> CallState], NEW c \in Call, NEW l \in CallLabel, Goto(c, l)
    PROVE  /\ call' \in [Call -> CallState] /\ Only(c)
           /\ call'[c].pc = l /\ call'[c].op = call[c].op /\ call'[c].k = call[c].k
           /\ call'[c].took = call[c].took /\ call'[c].end = call[c].end
<1> DEFINE O == {"input", "inject", None}
           S == Session \union {None}
           K == Bundle \union {None}
           r == call[c]
           q == call'[c]
<1>1. CallState = [pc : CallLabel, op : O, s : S, k : K, took : BOOLEAN, end : Ending]
  BY DEF CallState, CallLabel, Ending
<1>2. /\ Only(c) /\ r \in [pc : CallLabel, op : O, s : S, k : K, took : BOOLEAN, end : Ending]
      /\ q = [r EXCEPT !.pc = l]
  BY <1>1 DEF Goto, Only
<1> HIDE DEF O, S, K, r, q
<1>3. q.pc = l /\ q.op = r.op /\ q.k = r.k /\ q.took = r.took /\ q.end = r.end
  BY <1>2
<1>4. q \in [pc : CallLabel, op : O, s : S, k : K, took : BOOLEAN, end : Ending]
  BY <1>2, Zenon
<1>5. call'[c] \in CallState
  BY <1>1, <1>4 DEF q
<1> QED BY <1>2, <1>3, <1>5 DEF Goto, q, r

\* The end of a call: what it was about stays.
LEMMA EndFields ==
    ASSUME call \in [Call -> CallState], NEW c \in Call, NEW how \in Ending,
           call' = [call EXCEPT ![c].pc = "done", ![c].end = how, ![c].s = None]
    PROVE  /\ call' \in [Call -> CallState] /\ Only(c)
           /\ call'[c].pc = "done" /\ call'[c].op = call[c].op /\ call'[c].k = call[c].k
           /\ call'[c].took = call[c].took /\ call'[c].end = how
<1> DEFINE O == {"input", "inject", None}
           S == Session \union {None}
           K == Bundle \union {None}
           r == call[c]
           q == call'[c]
<1>1. CallState = [pc : CallLabel, op : O, s : S, k : K, took : BOOLEAN, end : Ending]
  BY DEF CallState, CallLabel, Ending
<1>2. /\ Only(c) /\ r \in [pc : CallLabel, op : O, s : S, k : K, took : BOOLEAN, end : Ending]
      /\ q = [r EXCEPT !.pc = "done", !.end = how, !.s = None]
  BY <1>1 DEF Only
<1>3. "done" \in CallLabel /\ None \in S
  BY DEF CallLabel
<1> HIDE DEF O, S, K, r, q
<1>4. q.pc = "done" /\ q.op = r.op /\ q.k = r.k /\ q.took = r.took /\ q.end = how
  BY <1>2
<1>5. q \in [pc : CallLabel, op : O, s : S, k : K, took : BOOLEAN, end : Ending]
  BY <1>2, <1>3, Zenon
<1>6. call'[c] \in CallState
  BY <1>1, <1>5 DEF q
<1> QED BY <1>2, <1>4, <1>6 DEF q, r

\* The credential is taken.
LEMMA TakeFields ==
    ASSUME call \in [Call -> CallState], NEW c \in Call,
           call' = [call EXCEPT ![c].pc = "open", ![c].took = TRUE]
    PROVE  /\ call' \in [Call -> CallState] /\ Only(c)
           /\ call'[c].pc = "open" /\ call'[c].op = call[c].op /\ call'[c].k = call[c].k
           /\ call'[c].took = TRUE /\ call'[c].end = call[c].end
<1> DEFINE O == {"input", "inject", None}
           S == Session \union {None}
           K == Bundle \union {None}
           r == call[c]
           q == call'[c]
<1>1. CallState = [pc : CallLabel, op : O, s : S, k : K, took : BOOLEAN, end : Ending]
  BY DEF CallState, CallLabel, Ending
<1>2. /\ Only(c) /\ r \in [pc : CallLabel, op : O, s : S, k : K, took : BOOLEAN, end : Ending]
      /\ q = [r EXCEPT !.pc = "open", !.took = TRUE]
  BY <1>1 DEF Only
<1>3. "open" \in CallLabel
  BY DEF CallLabel
<1> HIDE DEF O, S, K, r, q
<1>4. q.pc = "open" /\ q.op = r.op /\ q.k = r.k /\ q.end = r.end
  BY <1>2
<1>5. q.took = TRUE
  BY <1>2, Zenon
<1>6. q \in [pc : CallLabel, op : O, s : S, k : K, took : BOOLEAN, end : Ending]
  BY <1>2, <1>3, Zenon
<1>7. call'[c] \in CallState
  BY <1>1, <1>6 DEF q
<1> QED BY <1>2, <1>4, <1>5, <1>7 DEF q, r

\* A call begins.
LEMMA BeginFields ==
    ASSUME call \in [Call -> CallState], NEW c \in Call, NEW op \in {"input", "inject"},
           NEW s \in Session, NEW k \in Bundle, Begin(c, op, s, k)
    PROVE  /\ call' \in [Call -> CallState] /\ Only(c)
           /\ call'[c].pc = "get" /\ call'[c].op = op /\ (op = "inject" => call'[c].k = k)
           /\ call'[c].took = call[c].took /\ call'[c].end = call[c].end
<1> DEFINE O == {"input", "inject", None}
           S == Session \union {None}
           K == Bundle \union {None}
           r == call[c]
           q == call'[c]
           key == IF op = "inject" THEN k ELSE None
<1>1. CallState = [pc : CallLabel, op : O, s : S, k : K, took : BOOLEAN, end : Ending]
  BY DEF CallState, CallLabel, Ending
<1>2. call' = [call EXCEPT ![c] = [call[c] EXCEPT !.pc = "get", !.op = op, !.s = s, !.k = key]]
  BY DEF Begin
<1>3. /\ Only(c) /\ r \in [pc : CallLabel, op : O, s : S, k : K, took : BOOLEAN, end : Ending]
      /\ q = [r EXCEPT !.pc = "get", !.op = op, !.s = s, !.k = key]
  BY <1>1, <1>2 DEF Only
<1>4. "get" \in CallLabel /\ op \in O /\ s \in S /\ key \in K /\ (op = "inject" => key = k)
  BY DEF CallLabel
<1> HIDE DEF O, S, K, r, q, key
<1>5. q.pc = "get" /\ q.op = op /\ q.k = key /\ q.took = r.took /\ q.end = r.end
  BY <1>3
<1>6. q \in [pc : CallLabel, op : O, s : S, k : K, took : BOOLEAN, end : Ending]
  BY <1>3, <1>4, Zenon
<1>7. call'[c] \in CallState
  BY <1>1, <1>6 DEF q
<1> QED BY <1>2, <1>3, <1>4, <1>5, <1>7 DEF q, r

-----------------------------------------------------------------------------
(* What a call's steps have in common *)

\* The call goes on.
Walk(c) ==
    /\ UNCHANGED <<snd, creds, written>>
    /\ \E l \in CallLabel :
         /\ Goto(c, l)
         /\ \/ call[c].pc = "get" /\ l = "lock"
            \/ call[c].pc = "lock" /\ l = Locked(c)
            \/ call[c].pc = "audit" /\ l = "exec" /\ snd[CmdOf(c)].pc = "sent"
            \/ call[c].pc = "refetch" /\ l = "take"
            \/ call[c].pc = "open" /\ l = "write"

\* It returns, by another way than through the command.
Quit(c) ==
    /\ UNCHANGED creds
    /\ \E how \in Ending :
         /\ End(c, how)
         /\ \/ call[c].pc \in {"get", "lock", "refetch", "take"} /\ how = "early" /\ UNCHANGED written
            \/ call[c].pc = "audit" /\ how = "error" /\ snd[CmdOf(c)].pc = "failed" /\ UNCHANGED written
            \/ call[c].pc = "open" /\ how \in {"unsealed", "late"} /\ UNCHANGED written
            \/ call[c].pc = "write" /\ how = "error" /\ UNCHANGED written
            \/ call[c].pc = "write" /\ how = "run" /\ written' = written \union {<<c, call[c].k>>}

\* It takes the credential.
Takes(c) ==
    /\ call[c].pc = "take" /\ call[c].k \in creds
    /\ call' = [call EXCEPT ![c].pc = "open", ![c].took = TRUE]
    /\ creds' = creds \ {call[c].k}
    /\ UNCHANGED <<snd, written>>

\* The command has run.
Ran(c) ==
    /\ call[c].pc = "exec"
    /\ \E how \in {"run", "error"} :
         call' = [call EXCEPT ![c].pc = "done", ![c].end = how, ![c].s = None]
    /\ StartEnqueue(OutOf(c))
    /\ UNCHANGED <<creds, written>>

\* The command is recorded.
Sends(c) ==
    /\ call[c].pc = "audit" /\ snd[CmdOf(c)].pc = "idle"
    /\ snd' = [snd EXCEPT ![CmdOf(c)].pc = IF mode = "strict" THEN "post" ELSE "try"]
    /\ UNCHANGED <<call, creds, written>>

\* Every step of a call is one of these.
LEMMA Shapes ==
    ASSUME NEW c \in Call, StepCall(c)
    PROVE  /\ AuditRest /\ UNCHANGED <<bundle, keyFile, keyMu, expired>>
           /\ Walk(c) \/ Quit(c) \/ Takes(c) \/ Ran(c) \/ Sends(c)
<1> USE DEF CallLabel, Ending
<1>1. CASE Get(c)
  BY <1>1 DEF Get, Walk, Quit, credVars
<1>2. CASE LockSession(c)
  <2>1. Locked(c) \in CallLabel
    BY DEF Locked
  <2> QED BY <1>2, <2>1 DEF LockSession, Walk, Quit, credVars
<1>3. CASE SendCmd(c)
  BY <1>3 DEF SendCmd, Walk, Quit, Sends, CmdOf, credVars
<1>4. CASE Execute(c)
  BY <1>4 DEF Execute, Ran, OutOf, credVars
<1>5. CASE Refetch(c)
  BY <1>5 DEF Refetch, Walk, Quit, credVars
<1>6. CASE Take(c)
  BY <1>6 DEF Take, Takes, Quit
<1>7. CASE OpenBox(c)
  BY <1>7 DEF OpenBox, Walk, Quit, credVars
<1>8. CASE WriteSecret(c)
  BY <1>8 DEF WriteSecret, Quit, credVars
<1> QED BY <1>1, <1>2, <1>3, <1>4, <1>5, <1>6, <1>7, <1>8 DEF StepCall

\* The lock and the cancellations.
LEMMA StepLock ==
    ASSUME lock \in [Session -> Call \union {None}], cancelled \subseteq Call, NEW c \in Call, StepCall(c)
    PROVE  lock' \in [Session -> Call \union {None}] /\ cancelled' \subseteq Call
<1>1. ASSUME NEW how, End(c, how)
      PROVE  lock' \in [Session -> Call \union {None}] /\ cancelled' \subseteq Call
  BY <1>1 DEF End
<1>2. CASE UNCHANGED <<lock, cancelled>>
  BY <1>2
<1>3. CASE Get(c) \/ SendCmd(c) \/ Refetch(c) \/ Take(c) \/ OpenBox(c) \/ WriteSecret(c)
  <2>1. UNCHANGED <<lock, cancelled>> \/ \E how : End(c, how)
    BY <1>3 DEF Get, SendCmd, Refetch, Take, OpenBox, WriteSecret
  <2> QED BY <1>1, <1>2, <2>1
<1>4. CASE LockSession(c)
  <2>1. \/ lock' = [lock EXCEPT ![call[c].s] = c] /\ UNCHANGED cancelled
        \/ \E how : End(c, how)
    BY <1>4 DEF LockSession
  <2> QED BY <1>1, <2>1
<1>5. CASE Execute(c)
  BY <1>5 DEF Execute
<1> QED BY <1>3, <1>4, <1>5 DEF StepCall

-----------------------------------------------------------------------------
(* Types and control *)

\* Where a call is, what it does, and how it has ended.
Control(c) ==
    /\ call[c].pc \in {"get", "lock"} => call[c].op \in {"input", "inject"}
    /\ call[c].pc \in {"audit", "exec"} => call[c].op = "input"
    /\ call[c].pc \in {"refetch", "take", "open", "write"} => call[c].op = "inject"
    /\ call[c].pc # "done" => call[c].end = None
    /\ call[c].pc \in {"open", "write"} => call[c].took
    /\ call[c].took => /\ call[c].pc \in {"open", "write", "done"} /\ call[c].op = "inject"
                       /\ call[c].end # "early"
    /\ call[c].op = "inject" => call[c].k \in Bundle /\ bundle[call[c].k].pc = "done"

BundleState == [pc : {"new", "load", "generate", "sign", "done", "failed"}, key : Bundle \union {None}]

CallTypeOK ==
    /\ call \in [Call -> CallState] /\ cancelled \subseteq Call
    /\ lock \in [Session -> Call \union {None}]
    /\ bundle \in [Bundle -> BundleState]
    /\ keyFile \in Bundle \union {None} /\ keyMu \in Bundle \union {None}
    /\ creds \subseteq Bundle /\ expired \subseteq Bundle
    /\ written \subseteq Call \X Bundle

CInv == CallTypeOK /\ \A c \in Call : Control(c)

\* A step that touches one call, and no bundle, is safe when that call is.
LEMMA OneCall ==
    ASSUME CInv, NEW c \in Call, Only(c), UNCHANGED bundle, Control(c)'
    PROVE  \A b \in Call : Control(b)'
<1> SUFFICES ASSUME NEW b \in Call PROVE Control(b)'
  OBVIOUS
<1>1. CASE b = c
  BY <1>1
<1>2. CASE b # c
  <2>1. call'[b] = call[b] /\ Control(b)
    BY <1>2 DEF Only, CInv
  <2> QED BY <2>1 DEF Control
<1> QED BY <1>1, <1>2

\* Every step of a call keeps types and control.
LEMMA StepControl ==
    ASSUME CInv, NEW c \in Call, StepCall(c)
    PROVE  CInv'
<1> USE CallsAssumption
<1>0. /\ call \in [Call -> CallState] /\ Control(c) /\ UNCHANGED <<bundle, keyFile, keyMu, expired>>
      /\ lock \in [Session -> Call \union {None}] /\ cancelled \subseteq Call
  BY Shapes DEF CInv, CallTypeOK
<1>1. lock' \in [Session -> Call \union {None}] /\ cancelled' \subseteq Call
  BY <1>0, StepLock
<1>2. ASSUME call' \in [Call -> CallState], Only(c), Control(c)',
             creds' \subseteq creds, written' \subseteq Call \X Bundle
      PROVE  CInv'
  <2>1. \A b \in Call : Control(b)'
    BY <1>0, <1>2, OneCall
  <2> QED BY <1>0, <1>1, <1>2, <2>1 DEF CInv, CallTypeOK
<1>3. written \subseteq Call \X Bundle
  BY DEF CInv, CallTypeOK
<1>4. CASE Walk(c)
  <2>1. PICK l \in CallLabel :
           /\ Goto(c, l)
           /\ \/ call[c].pc = "get" /\ l = "lock"
              \/ call[c].pc = "lock" /\ l = Locked(c)
              \/ call[c].pc = "audit" /\ l = "exec"
              \/ call[c].pc = "refetch" /\ l = "take"
              \/ call[c].pc = "open" /\ l = "write"
    BY <1>4 DEF Walk
  <2>2. /\ call' \in [Call -> CallState] /\ Only(c)
        /\ call'[c].pc = l /\ call'[c].op = call[c].op /\ call'[c].k = call[c].k
        /\ call'[c].took = call[c].took /\ call'[c].end = call[c].end
    BY <1>0, <2>1, GotoFields
  <2>3. /\ Locked(c) \in {"refetch", "exec", "audit"}
        /\ (Locked(c) = "refetch") <=> (call[c].op = "inject")
    BY DEF Locked
  <2>4. Control(c)'
    BY <1>0, <2>1, <2>2, <2>3 DEF Control
  <2> QED BY <1>2, <1>3, <1>4, <2>2, <2>4 DEF Walk
<1>5. CASE Quit(c)
  <2>1. PICK how \in Ending :
          /\ End(c, how)
          /\ \/ call[c].pc \in {"get", "lock", "refetch", "take"} /\ how = "early" /\ UNCHANGED written
             \/ call[c].pc = "audit" /\ how = "error" /\ UNCHANGED written
             \/ call[c].pc = "open" /\ how \in {"unsealed", "late"} /\ UNCHANGED written
             \/ call[c].pc = "write" /\ how = "error" /\ UNCHANGED written
             \/ call[c].pc = "write" /\ how = "run" /\ written' = written \union {<<c, call[c].k>>}
    BY <1>5 DEF Quit
  <2>2. /\ call' \in [Call -> CallState] /\ Only(c)
        /\ call'[c].pc = "done" /\ call'[c].op = call[c].op /\ call'[c].k = call[c].k
        /\ call'[c].took = call[c].took /\ call'[c].end = how
    BY <1>0, <2>1, EndFields DEF End
  <2>3. Control(c)'
    BY <1>0, <2>1, <2>2 DEF Control
  <2>4. written' \subseteq Call \X Bundle
    BY <1>0, <1>3, <2>1 DEF Control
  <2> QED BY <1>2, <1>5, <2>2, <2>3, <2>4 DEF Quit
<1>6. CASE Takes(c)
  <2>1. /\ call' \in [Call -> CallState] /\ Only(c)
        /\ call'[c].pc = "open" /\ call'[c].op = call[c].op /\ call'[c].k = call[c].k
        /\ call'[c].took = TRUE /\ call'[c].end = call[c].end
    BY <1>0, <1>6, TakeFields DEF Takes
  <2>2. Control(c)'
    BY <1>0, <1>6, <2>1 DEF Takes, Control
  <2> QED BY <1>2, <1>3, <1>6, <2>1, <2>2 DEF Takes
<1>7. CASE Ran(c)
  <2>1. PICK how \in {"run", "error"} :
             call' = [call EXCEPT ![c].pc = "done", ![c].end = how, ![c].s = None]
    BY <1>7 DEF Ran
  <2>2. /\ call' \in [Call -> CallState] /\ Only(c)
        /\ call'[c].pc = "done" /\ call'[c].op = call[c].op /\ call'[c].k = call[c].k
        /\ call'[c].took = call[c].took /\ call'[c].end = how
    BY <1>0, <2>1, EndFields DEF Ending
  <2>3. Control(c)'
    BY <1>0, <2>2 DEF Control
  <2> QED BY <1>2, <1>3, <1>7, <2>2, <2>3 DEF Ran
<1>8. CASE Sends(c)
  <2>1. UNCHANGED <<call, creds, written>>
    BY <1>8 DEF Sends
  <2>2. Control(c)'
    BY <1>0, <2>1 DEF Control
  <2> QED BY <1>0, <1>2, <1>3, <2>1, <2>2 DEF Only
<1> QED BY <1>4, <1>5, <1>6, <1>7, <1>8, Shapes


\* A step that moves no call and loses no finished bundle keeps the control.
LEMMA CallsStay ==
    ASSUME CInv, UNCHANGED call,
           \A k \in Bundle : bundle[k].pc = "done" => bundle'[k].pc = "done"
    PROVE  \A c \in Call : Control(c)'
<1> SUFFICES ASSUME NEW c \in Call PROVE Control(c)'
  OBVIOUS
<1>1. Control(c)
  BY DEF CInv
<1> QED BY <1>1 DEF Control

-----------------------------------------------------------------------------
(* The bundles *)

BundleLabel == {"new", "load", "generate", "sign", "done", "failed"}

\* Only the bundle k moves.
OnlyBundle(k) == \A j \in Bundle \ {k} : bundle'[j] = bundle[j]

\* A new label keeps the key.
LEMMA LabelBundle ==
    ASSUME bundle \in [Bundle -> BundleState], NEW k \in Bundle, NEW l \in BundleLabel,
           bundle' = [bundle EXCEPT ![k].pc = l]
    PROVE  /\ bundle' \in [Bundle -> BundleState] /\ OnlyBundle(k)
           /\ bundle'[k].pc = l /\ bundle'[k].key = bundle[k].key
BY DEF BundleState, BundleLabel, OnlyBundle

\* A bundle gets a new label and a key.
LEMMA PutBundle ==
    ASSUME bundle \in [Bundle -> BundleState], NEW k \in Bundle, NEW l \in BundleLabel,
           NEW j \in Bundle \union {None}, bundle' = [bundle EXCEPT ![k] = [pc |-> l, key |-> j]]
    PROVE  /\ bundle' \in [Bundle -> BundleState] /\ OnlyBundle(k)
           /\ bundle'[k].pc = l /\ bundle'[k].key = j
<1>1. [pc |-> l, key |-> j] \in BundleState
  BY DEF BundleState, BundleLabel
<1> QED BY <1>1 DEF OnlyBundle

\* The ways a bundle goes on: from, to, and what it does to the key.
Opens(k) ==
    /\ bundle[k].pc = "new" /\ bundle'[k].pc = "load"
    /\ UNCHANGED <<snd, keyFile, keyMu, creds>>

Waits(k) ==
    /\ bundle[k].pc = "load" /\ keyMu = None /\ keyFile = None
    /\ bundle'[k].pc = "generate" /\ bundle'[k].key = k /\ keyMu' = k
    /\ UNCHANGED <<snd, keyFile, creds>>

Loads(k) ==
    /\ bundle[k].pc = "load" /\ keyMu = None /\ keyFile # None
    /\ bundle'[k].pc = "sign" /\ bundle'[k].key = keyFile
    /\ UNCHANGED <<snd, keyFile, keyMu, creds>>

Makes(k) ==
    /\ bundle[k].pc = "generate" /\ bundle'[k].pc = "sign" /\ bundle'[k].key = bundle[k].key
    /\ keyFile' = bundle[k].key /\ keyMu' = None
    /\ UNCHANGED <<snd, creds>>

Fails(k) ==
    /\ bundle[k].pc \in {"load", "generate", "sign"} /\ bundle'[k].pc = "failed"
    /\ keyMu' = (IF keyMu = k THEN None ELSE keyMu)
    /\ UNCHANGED <<snd, keyFile, creds>>

Keeps(k) ==
    /\ bundle[k].pc = "sign" /\ bundle'[k].pc = "done" /\ bundle'[k].key = bundle[k].key
    /\ creds' = (creds \ expired) \union {k}
    /\ StartEnqueue(Boxed(k))
    /\ UNCHANGED <<keyFile, keyMu>>

\* Every step of a bundle is one of these.
LEMMA BundleShapes ==
    ASSUME CInv, NEW k \in Bundle, StepBundle(k) \/ BeginBundle(k)
    PROVE  /\ AuditRest /\ UNCHANGED <<call, cancelled, lock, written, expired>>
           /\ bundle' \in [Bundle -> BundleState] /\ OnlyBundle(k)
           /\ Opens(k) \/ Waits(k) \/ Loads(k) \/ Makes(k) \/ Fails(k) \/ Keeps(k)
<1> USE DEF auditVars, callVars, BundleLabel
<1>0. bundle \in [Bundle -> BundleState] /\ keyFile \in Bundle \union {None}
  BY DEF CInv, CallTypeOK
<1>1. CASE BeginBundle(k)
  <2>1. /\ bundle' = [bundle EXCEPT ![k].pc = "load"] /\ bundle[k].pc = "new"
        /\ UNCHANGED <<auditVars, callVars, keyFile, keyMu, creds, expired>>
    BY <1>1 DEF BeginBundle
  <2>2. bundle' \in [Bundle -> BundleState] /\ OnlyBundle(k) /\ bundle'[k].pc = "load"
    BY <1>0, <2>1, LabelBundle
  <2> QED BY <2>1, <2>2 DEF Opens, AuditRest
<1>2. CASE LoadKey(k) /\ keyFile = None
  <2>1. /\ bundle' = [bundle EXCEPT ![k] = [pc |-> "generate", key |-> k]] /\ bundle[k].pc = "load"
        /\ UNCHANGED <<auditVars, callVars, keyFile, creds, expired>> /\ keyMu = None /\ keyMu' = k
    BY <1>2 DEF LoadKey
  <2>2. /\ bundle' \in [Bundle -> BundleState] /\ OnlyBundle(k)
        /\ bundle'[k].pc = "generate" /\ bundle'[k].key = k
    BY <1>0, <2>1, PutBundle
  <2> QED BY <1>2, <2>1, <2>2 DEF Waits, AuditRest
<1>3. CASE LoadKey(k) /\ keyFile # None
  <2>1. /\ bundle' = [bundle EXCEPT ![k] = [pc |-> "sign", key |-> keyFile]] /\ bundle[k].pc = "load"
        /\ UNCHANGED <<auditVars, callVars, keyFile, keyMu, creds, expired>> /\ keyMu = None
    BY <1>3 DEF LoadKey
  <2>2. /\ bundle' \in [Bundle -> BundleState] /\ OnlyBundle(k)
        /\ bundle'[k].pc = "sign" /\ bundle'[k].key = keyFile
    BY <1>0, <2>1, PutBundle
  <2> QED BY <1>3, <2>1, <2>2 DEF Loads, AuditRest
<1>4. CASE GenerateKey(k)
  <2>1. /\ bundle' = [bundle EXCEPT ![k].pc = "sign"] /\ bundle[k].pc = "generate"
        /\ UNCHANGED <<auditVars, callVars, creds, expired>> /\ keyFile' = bundle[k].key /\ keyMu' = None
    BY <1>4 DEF GenerateKey
  <2>2. /\ bundle' \in [Bundle -> BundleState] /\ OnlyBundle(k)
        /\ bundle'[k].pc = "sign" /\ bundle'[k].key = bundle[k].key
    BY <1>0, <2>1, LabelBundle
  <2> QED BY <2>1, <2>2 DEF Makes, AuditRest
<1>5. CASE BundleFails(k)
  <2>1. /\ bundle' = [bundle EXCEPT ![k] = [pc |-> "failed", key |-> None]]
        /\ bundle[k].pc \in {"load", "generate", "sign"} /\ keyMu' = (IF keyMu = k THEN None ELSE keyMu)
        /\ UNCHANGED <<auditVars, callVars, keyFile, creds, expired>>
    BY <1>5 DEF BundleFails
  <2>2. bundle' \in [Bundle -> BundleState] /\ OnlyBundle(k) /\ bundle'[k].pc = "failed"
    BY <1>0, <2>1, PutBundle
  <2> QED BY <2>1, <2>2 DEF Fails, AuditRest
<1>6. CASE StoreCred(k)
  <2>1. /\ bundle' = [bundle EXCEPT ![k].pc = "done"] /\ bundle[k].pc = "sign"
        /\ creds' = (creds \ expired) \union {k} /\ StartEnqueue(Boxed(k))
        /\ AuditRest /\ UNCHANGED <<callVars, keyFile, keyMu, expired>>
    BY <1>6 DEF StoreCred, Boxed
  <2>2. /\ bundle' \in [Bundle -> BundleState] /\ OnlyBundle(k)
        /\ bundle'[k].pc = "done" /\ bundle'[k].key = bundle[k].key
    BY <1>0, <2>1, LabelBundle
  <2> QED BY <2>1, <2>2 DEF Keeps
<1> QED BY <1>1, <1>2, <1>3, <1>4, <1>5, <1>6 DEF StepBundle

\* The steps of a bundle keep types and control.
LEMMA BundleControl ==
    ASSUME CInv, NEW k \in Bundle, StepBundle(k) \/ BeginBundle(k)
    PROVE  CInv'
<1>1. /\ UNCHANGED <<call, cancelled, lock, written, expired>>
      /\ bundle' \in [Bundle -> BundleState] /\ OnlyBundle(k)
      /\ Opens(k) \/ Waits(k) \/ Loads(k) \/ Makes(k) \/ Fails(k) \/ Keeps(k)
  BY BundleShapes
<1>2. bundle[k].pc # "done" /\ bundle[k].key \in Bundle \union {None}
  BY <1>1 DEF Opens, Waits, Loads, Makes, Fails, Keeps, CInv, CallTypeOK, BundleState
<1>3. \A j \in Bundle : bundle[j].pc = "done" => bundle'[j].pc = "done"
  BY <1>1, <1>2 DEF OnlyBundle
<1>4. \A c \in Call : Control(c)'
  BY <1>1, <1>3, CallsStay
<1>5. keyFile' \in Bundle \union {None} /\ keyMu' \in Bundle \union {None} /\ creds' \subseteq Bundle
  BY <1>1, <1>2 DEF Opens, Waits, Loads, Makes, Fails, Keeps, CInv, CallTypeOK
<1> QED BY <1>1, <1>4, <1>5 DEF CInv, CallTypeOK

-----------------------------------------------------------------------------
(* Types and control: the other steps *)

\* A call begins: an injection names a bundle that has been handed out.
LEMMA BeginControl ==
    ASSUME CInv, NEW c \in Call, NEW op \in {"input", "inject"}, NEW s \in Session, NEW k \in Bundle,
           Begin(c, op, s, k)
    PROVE  CInv'
<1> USE CallsAssumption
<1>1. /\ call' \in [Call -> CallState] /\ Only(c)
      /\ call'[c].pc = "get" /\ call'[c].op = op /\ (op = "inject" => call'[c].k = k)
      /\ call'[c].took = call[c].took /\ call'[c].end = call[c].end
  BY BeginFields DEF CInv, CallTypeOK
<1>2. /\ call[c].pc = "new" /\ (op = "inject" => bundle[k].pc = "done") /\ Control(c)
      /\ UNCHANGED <<cancelled, lock, written, bundle, keyFile, keyMu, creds, expired>>
  BY DEF Begin, credVars, CInv
<1>3. Control(c)'
  BY <1>1, <1>2 DEF Control
<1>4. \A b \in Call : Control(b)'
  BY <1>1, <1>2, <1>3, OneCall
<1> QED BY <1>1, <1>2, <1>4 DEF CInv, CallTypeOK

\* What leaves calls and bundles alone.
LEMMA StillControl ==
    ASSUME CInv, UNCHANGED <<call, lock, written, bundle, keyFile, keyMu, creds>>,
           cancelled' \subseteq Call, expired' \subseteq Bundle
    PROVE  CInv'
<1>1. \A c \in Call : Control(c)'
  BY CallsStay
<1> QED BY <1>1 DEF CInv, CallTypeOK


-----------------------------------------------------------------------------
(* A call and its entries *)

\* A call's output is sent when it returns, its command while it waits in
\* SendCmd, which it leaves when the entry has been handed over; in strict mode
\* that means accepted.  A command's output is sent after the command.
Linked(c) ==
    /\ call[c].pc # "done" => snd[OutOf(c)].pc = "idle"
    /\ call[c].pc \notin {"audit", "exec", "done"} => snd[CmdOf(c)].pc = "idle"
    /\ snd[CmdOf(c)].pc \in {"try", "evict", "again", "post"} => call[c].pc = "audit"
    /\ snd[OutOf(c)].pc # "post"
    /\ mode = "strict" => snd[CmdOf(c)].pc \in {"idle", "post", "sent", "failed"}
    /\ mode = "strict" /\ snd[CmdOf(c)].pc = "sent" => CmdOf(c) \in trail \union unwritten
    /\ call[c].pc = "exec" \/ (call[c].op = "input" /\ call[c].end = "run")
         => mode = "off" \/ snd[CmdOf(c)].pc = "sent"
    /\ call[c].op = "input" /\ snd[OutOf(c)].pc # "idle" => snd[CmdOf(c)].pc = "sent"

\* A bundle is audited when it is handed out.
LinkedBundle(k) == bundle[k].pc # "done" => snd[Boxed(k)].pc = "idle"

LInv == (\A c \in Call : Linked(c)) /\ (\A k \in Bundle : LinkedBundle(k))

\* What senders, worker and collector do to an entry.
Moved(e) ==
    \/ snd'[e].pc = snd[e].pc
    \/ snd[e].pc \in {"try", "evict", "again"} /\ snd'[e].pc \in {"sent", "evict", "again"}
    \/ /\ snd[e].pc = "post" /\ snd'[e].pc \in {"post", "sent", "failed"}
       /\ snd'[e].pc = "sent" => e \in trail' \union unwritten'

\* Every step of theirs, and none takes an entry back from the collector.
LEMMA AuditMoves ==
    ASSUME AuInv, NextAudit
    PROVE  /\ mode' = mode /\ trail \subseteq trail' /\ unwritten \subseteq unwritten'
           /\ \A e \in Entry : Moved(e)
<1>1. ASSUME NEW e \in Entry, FirstSelect(e) \/ Evict(e) \/ LastSelect(e)
      PROVE  /\ mode' = mode /\ trail \subseteq trail' /\ unwritten \subseteq unwritten'
             /\ \A f \in Entry : Moved(f)
  <2>1. PICK l \in {"sent", "evict", "again"} : snd' = [snd EXCEPT ![e].pc = l]
    BY <1>1 DEF FirstSelect, Evict, LastSelect, Goes
  <2>2. /\ UNCHANGED <<mode, trail, unwritten>> /\ snd[e].pc \in {"try", "evict", "again"}
    BY <1>1 DEF FirstSelect, Evict, LastSelect, collectorVars
  <2>3. Alone(e) /\ snd'[e].pc = l
    BY <2>1, GoesFields DEF AuInv, SenderLabel
  <2> QED BY <2>2, <2>3 DEF Alone, Moved
<1>2. ASSUME NEW e \in Entry, NEW out \in Outcome, StrictPost(e, out)
      PROVE  /\ mode' = mode /\ trail \subseteq trail' /\ unwritten \subseteq unwritten'
             /\ \A f \in Entry : Moved(f)
  <2>1. mode' = mode /\ snd[e].pc = "post" /\ Post(e, out)
    BY <1>2 DEF StrictPost
  <2>2. /\ trail \subseteq trail' /\ unwritten \subseteq unwritten'
        /\ Accepted(out) => e \in trail' \/ e \in unwritten'
    BY <2>1, PostEffect
  <2>3. /\ Alone(e) /\ snd'[e].pc \in {"post", "sent", "failed"}
        /\ snd'[e].pc = "sent" => Accepted(out)
    BY <1>2, PostFields DEF AuInv
  <2> QED BY <2>1, <2>2, <2>3 DEF Alone, Moved
<1>3. ASSUME NEW out \in Outcome, WorkerPost(out)
      PROVE  /\ mode' = mode /\ trail \subseteq trail' /\ unwritten \subseteq unwritten'
             /\ \A f \in Entry : Moved(f)
  <2>1. mode' = mode /\ snd' = snd /\ Post(worker, out)
    BY <1>3 DEF WorkerPost
  <2> QED BY <2>1, PostEffect DEF Moved
<1>4. ASSUME WorkerTake \/ WorkerStop \/ \E e \in Entry : LateStore(e)
      PROVE  /\ mode' = mode /\ trail \subseteq trail' /\ unwritten \subseteq unwritten'
             /\ \A f \in Entry : Moved(f)
  BY <1>4 DEF WorkerTake, WorkerStop, LateStore, collectorVars, Moved
<1> QED BY <1>1, <1>2, <1>3, <1>4 DEF NextAudit, StepAudit

\* So the entries of a call stay where its label says.
LEMMA AuditLinked ==
    ASSUME AuInv, LInv, NextAudit, UNCHANGED <<call, bundle>>
    PROVE  LInv'
<1>1. /\ mode' = mode /\ trail \subseteq trail' /\ unwritten \subseteq unwritten'
      /\ \A e \in Entry : Moved(e)
  BY AuditMoves
<1>2. ASSUME NEW c \in Call PROVE Linked(c)'
  <2>1. Moved(CmdOf(c)) /\ Moved(OutOf(c)) /\ Linked(c)
    BY <1>1, Entries DEF LInv
  <2>2. CmdOf(c)' = CmdOf(c) /\ OutOf(c)' = OutOf(c)
    BY DEF CmdOf, OutOf
  <2> HIDE DEF CmdOf, OutOf
  <2> QED BY <1>1, <2>1, <2>2 DEF Linked, Moved
<1>3. ASSUME NEW k \in Bundle PROVE LinkedBundle(k)'
  <2>1. Moved(Boxed(k)) /\ LinkedBundle(k)
    BY <1>1, Entries DEF LInv
  <2> QED BY <2>1 DEF LinkedBundle, Moved
<1> QED BY <1>2, <1>3 DEF LInv

\* A step that leaves the other calls and their entries alone.
LEMMA OthersLinked ==
    ASSUME LInv, AuditRest, NEW c \in Call, Only(c),
           \A e \in Entry : e \notin {CmdOf(c), OutOf(c)} => snd'[e] = snd[e],
           UNCHANGED bundle, Linked(c)'
    PROVE  LInv'
<1>1. ASSUME NEW b \in Call, b # c PROVE Linked(b)'
  <2>1. /\ CmdOf(b) \in Entry /\ OutOf(b) \in Entry
        /\ CmdOf(b) \notin {CmdOf(c), OutOf(c)} /\ OutOf(b) \notin {CmdOf(c), OutOf(c)}
    BY <1>1, Entries
  <2>2. call'[b] = call[b] /\ Linked(b)
    BY <1>1 DEF Only, LInv
  <2>3. snd'[CmdOf(b)] = snd[CmdOf(b)] /\ snd'[OutOf(b)] = snd[OutOf(b)]
    BY <2>1
  <2> QED BY <2>2, <2>3 DEF Linked, AuditRest, collectorVars
<1>2. ASSUME NEW k \in Bundle PROVE LinkedBundle(k)'
  <2>1. snd'[Boxed(k)] = snd[Boxed(k)] /\ LinkedBundle(k)
    BY Entries DEF LInv
  <2> QED BY <2>1 DEF LinkedBundle
<1> QED BY <1>1, <1>2 DEF LInv

\* An entry is handed to enqueue, unless there is no client.
LEMMA Enqueues ==
    ASSUME AuInv, NEW e \in Entry, StartEnqueue(e)
    PROVE  \/ UNCHANGED snd /\ mode = "off"
           \/ /\ mode # "off" /\ snd' = [snd EXCEPT ![e].pc = "try"]
              /\ snd'[e].pc = "try" /\ Alone(e)
<1>1. CASE mode = "off"
  BY <1>1 DEF StartEnqueue
<1>2. CASE mode # "off"
  <2>1. snd' = [snd EXCEPT ![e].pc = "try"]
    BY <1>2 DEF StartEnqueue
  <2> QED BY <1>2, <2>1, GoesFields DEF AuInv, SenderLabel
<1> QED BY <1>1, <1>2

\* What a step of a call sends, and that its entries follow it.
LEMMA StepLinked ==
    ASSUME AuInv, CInv, LInv, NEW c \in Call, StepCall(c)
    PROVE  /\ UNCHANGED snd \/ Woken(CmdOf(c)) \/ Woken(OutOf(c))
           /\ LInv'
<1> USE CallsAssumption
<1>0. /\ AuditRest /\ UNCHANGED bundle /\ call \in [Call -> CallState] /\ Control(c) /\ Linked(c)
      /\ CmdOf(c) \in Entry /\ OutOf(c) \in Entry /\ CmdOf(c) # OutOf(c)
  BY Shapes, Entries DEF CInv, CallTypeOK, LInv
<1>1. UNCHANGED <<mode, trail, unwritten>>
  BY <1>0 DEF AuditRest, collectorVars
<1> DEFINE Fst == CmdOf(c)
           Lst == OutOf(c)
<1> HIDE DEF Fst, Lst
<1>2. Linked(c) <=>
        /\ call[c].pc # "done" => snd[Lst].pc = "idle"
        /\ call[c].pc \notin {"audit", "exec", "done"} => snd[Fst].pc = "idle"
        /\ snd[Fst].pc \in {"try", "evict", "again", "post"} => call[c].pc = "audit"
        /\ snd[Lst].pc # "post"
        /\ mode = "strict" => snd[Fst].pc \in {"idle", "post", "sent", "failed"}
        /\ mode = "strict" /\ snd[Fst].pc = "sent" => Fst \in trail \union unwritten
        /\ call[c].pc = "exec" \/ (call[c].op = "input" /\ call[c].end = "run")
             => mode = "off" \/ snd[Fst].pc = "sent"
        /\ call[c].op = "input" /\ snd[Lst].pc # "idle" => snd[Fst].pc = "sent"
  BY DEF Linked, Fst, Lst
<1>3. Linked(c)' <=>
        /\ call'[c].pc # "done" => snd'[Lst].pc = "idle"
        /\ call'[c].pc \notin {"audit", "exec", "done"} => snd'[Fst].pc = "idle"
        /\ snd'[Fst].pc \in {"try", "evict", "again", "post"} => call'[c].pc = "audit"
        /\ snd'[Lst].pc # "post"
        /\ mode' = "strict" => snd'[Fst].pc \in {"idle", "post", "sent", "failed"}
        /\ mode' = "strict" /\ snd'[Fst].pc = "sent" => Fst \in trail' \union unwritten'
        /\ call'[c].pc = "exec" \/ (call'[c].op = "input" /\ call'[c].end = "run")
             => mode' = "off" \/ snd'[Fst].pc = "sent"
        /\ call'[c].op = "input" /\ snd'[Lst].pc # "idle" => snd'[Fst].pc = "sent"
  BY DEF Linked, Fst, Lst
<1>4. Fst \in Entry /\ Lst \in Entry /\ Fst # Lst
  BY <1>0 DEF Fst, Lst
\* The frame of every case.
<1>5. ASSUME Only(c), \A e \in Entry : e \notin {Fst, Lst} => snd'[e] = snd[e], Linked(c)',
             UNCHANGED snd \/ Woken(Fst) \/ Woken(Lst)
      PROVE  /\ UNCHANGED snd \/ Woken(CmdOf(c)) \/ Woken(OutOf(c))
             /\ LInv'
  BY <1>0, <1>5, OthersLinked DEF Fst, Lst
<1>6. CASE Walk(c)
  <2>1. PICK l \in CallLabel :
           /\ Goto(c, l)
           /\ \/ call[c].pc = "get" /\ l = "lock"
              \/ call[c].pc = "lock" /\ l = Locked(c)
              \/ call[c].pc = "audit" /\ l = "exec" /\ snd[Fst].pc = "sent"
              \/ call[c].pc = "refetch" /\ l = "take"
              \/ call[c].pc = "open" /\ l = "write"
    BY <1>6 DEF Walk, Fst
  <2>2. /\ Only(c) /\ UNCHANGED snd
        /\ call'[c].pc = l /\ call'[c].op = call[c].op /\ call'[c].end = call[c].end
    BY <1>0, <1>6, <2>1, GotoFields DEF Walk
  <2>3. Locked(c) \in {"refetch", "exec", "audit"} /\ (Locked(c) = "exec" => mode = "off")
    BY DEF Locked
  <2>4. Linked(c)'
    BY <1>0, <1>1, <1>2, <1>3, <2>1, <2>2, <2>3
  <2> QED BY <1>5, <2>2, <2>4
<1>7. CASE Takes(c)
  <2>1. /\ Only(c) /\ UNCHANGED snd /\ call[c].pc = "take"
        /\ call'[c].pc = "open" /\ call'[c].op = call[c].op /\ call'[c].end = call[c].end
    BY <1>0, <1>7, TakeFields DEF Takes
  <2>2. Linked(c)'
    BY <1>0, <1>1, <1>2, <1>3, <2>1
  <2> QED BY <1>5, <2>1, <2>2
<1>8. CASE Sends(c)
  <2>1. /\ UNCHANGED call /\ call[c].pc = "audit" /\ snd[Fst].pc = "idle"
        /\ snd' = [snd EXCEPT ![Fst].pc = IF mode = "strict" THEN "post" ELSE "try"]
    BY <1>8 DEF Sends, Fst
  <2>2. PICK l \in {"try", "post"} : /\ l = IF mode = "strict" THEN "post" ELSE "try"
                                     /\ snd' = [snd EXCEPT ![Fst].pc = l]
    BY <2>1
  <2>3. Alone(Fst) /\ snd'[Fst].pc = l /\ Woken(Fst)
    BY <1>4, <2>1, <2>2, GoesFields DEF AuInv, SenderLabel, Woken
  <2>4. snd'[Lst] = snd[Lst] /\ Only(c) /\ \A e \in Entry : e \notin {Fst, Lst} => snd'[e] = snd[e]
    BY <1>4, <2>1, <2>3 DEF Alone, Only
  <2>5. Linked(c)'
    BY <1>0, <1>1, <1>2, <1>3, <2>1, <2>2, <2>3, <2>4
  <2> QED BY <1>5, <2>3, <2>4, <2>5
\* The call returns, and sends its last entry or not.
<1>9. ASSUME NEW how \in Ending, Only(c),
             call'[c].pc = "done" /\ call'[c].op = call[c].op /\ call'[c].end = how,
             call[c].pc # "done",
             StartEnqueue(Lst) \/ UNCHANGED snd,
             snd[Fst].pc \notin {"try", "evict", "again", "post"},
             call[c].op = "input" /\ how = "run" => call[c].pc = "exec",
             call[c].op = "input" => call[c].pc = "exec" \/ UNCHANGED snd
      PROVE  /\ UNCHANGED snd \/ Woken(CmdOf(c)) \/ Woken(OutOf(c))
             /\ LInv'
  <2>1. \/ UNCHANGED snd
        \/ /\ mode # "off" /\ snd' = [snd EXCEPT ![Lst].pc = "try"]
           /\ snd'[Lst].pc = "try" /\ Alone(Lst)
    BY <1>4, <1>9, Enqueues
  <2>2. snd[Lst].pc = "idle"
    BY <1>0, <1>2, <1>9
  <2>3. /\ UNCHANGED snd \/ Woken(Lst)
        /\ snd'[Fst] = snd[Fst] /\ snd'[Lst].pc \in {"idle", "try"}
        /\ \A e \in Entry : e \notin {Fst, Lst} => snd'[e] = snd[e]
    BY <1>4, <2>1, <2>2 DEF Alone, Woken
  <2>5. call[c].op = "input" /\ snd'[Lst].pc # "idle" => snd'[Fst].pc = "sent"
    BY <1>0, <1>2, <1>9, <2>1, <2>2, <2>3
  <2>4. Linked(c)'
    BY <1>0, <1>1, <1>2, <1>3, <1>9, <2>3, <2>5
  <2> QED BY <1>5, <1>9, <2>3, <2>4
<1>10. CASE Quit(c)
  <2>1. PICK how \in Ending :
          /\ End(c, how)
          /\ \/ call[c].pc \in {"get", "lock", "refetch", "take"} /\ how = "early"
             \/ call[c].pc = "audit" /\ how = "error" /\ snd[Fst].pc = "failed"
             \/ call[c].pc = "open" /\ how \in {"unsealed", "late"}
             \/ call[c].pc = "write" /\ how \in {"run", "error"}
    BY <1>10 DEF Quit, Fst
  <2>2. /\ Only(c) /\ call'[c].pc = "done" /\ call'[c].op = call[c].op /\ call'[c].end = how
    BY <1>0, <2>1, EndFields DEF End
  <2>3. StartEnqueue(Lst) \/ UNCHANGED snd
    BY <2>1 DEF End, Lst, OutOf
  <2>4. /\ call[c].pc # "done" /\ snd[Fst].pc \notin {"try", "evict", "again", "post"}
        /\ call[c].op = "input" /\ how = "run" => call[c].pc = "exec"
    BY <1>0, <1>2, <2>1 DEF Control
  <2>5. call[c].op = "input" => UNCHANGED snd
    BY <2>1 DEF End
  <2> QED BY <1>9, <2>2, <2>3, <2>4, <2>5
<1>11. CASE Ran(c)
  <2>1. PICK how \in {"run", "error"} :
             call' = [call EXCEPT ![c].pc = "done", ![c].end = how, ![c].s = None]
    BY <1>11 DEF Ran
  <2>2. how \in Ending
    BY DEF Ending
  <2>3. /\ Only(c) /\ call'[c].pc = "done" /\ call'[c].op = call[c].op /\ call'[c].end = how
    BY <1>0, <2>1, <2>2, EndFields
  <2>4. StartEnqueue(Lst) /\ call[c].pc = "exec"
    BY <1>11 DEF Ran, Lst
  <2>5. snd[Fst].pc \notin {"try", "evict", "again", "post"}
    BY <1>0, <1>2, <2>4
  <2> QED BY <1>9, <2>2, <2>3, <2>4, <2>5
<1> QED BY <1>6, <1>7, <1>8, <1>10, <1>11, Shapes


\* A step of a bundle: its entry is sent when it is handed out.
LEMMA BundleLinked ==
    ASSUME AuInv, CInv, LInv, NEW k \in Bundle, StepBundle(k) \/ BeginBundle(k)
    PROVE  /\ UNCHANGED snd \/ Woken(Boxed(k))
           /\ LInv'
<1>1. /\ AuditRest /\ UNCHANGED call /\ OnlyBundle(k) /\ Boxed(k) \in Entry
      /\ Opens(k) \/ Waits(k) \/ Loads(k) \/ Makes(k) \/ Fails(k) \/ Keeps(k)
  BY BundleShapes, Entries
<1>2. bundle[k].pc # "done" /\ snd[Boxed(k)].pc = "idle"
  BY <1>1 DEF Opens, Waits, Loads, Makes, Fails, Keeps, LInv, LinkedBundle
<1>3. \/ UNCHANGED snd
      \/ /\ bundle'[k].pc = "done" /\ Alone(Boxed(k))
         /\ snd' = [snd EXCEPT ![Boxed(k)].pc = "try"]
  <2>1. CASE Keeps(k)
    BY <1>1, <2>1, Enqueues DEF Keeps
  <2>2. CASE ~Keeps(k)
    BY <1>1, <2>2 DEF Opens, Waits, Loads, Makes, Fails
  <2> QED BY <2>1, <2>2
<1>4. UNCHANGED snd \/ Woken(Boxed(k))
  BY <1>2, <1>3 DEF Woken
<1>5. \A e \in Entry : e # Boxed(k) => snd'[e] = snd[e]
  BY <1>3 DEF Alone
<1>6. ASSUME NEW c \in Call PROVE Linked(c)'
  <2>1. snd'[CmdOf(c)] = snd[CmdOf(c)] /\ snd'[OutOf(c)] = snd[OutOf(c)] /\ Linked(c)
    BY <1>5, Entries DEF LInv
  <2> QED BY <1>1, <2>1 DEF Linked, AuditRest, collectorVars
<1>7. ASSUME NEW j \in Bundle PROVE LinkedBundle(j)'
  <2>1. CASE j = k
    BY <1>2, <1>3, <2>1 DEF LinkedBundle
  <2>2. CASE j # k
    <3>1. snd'[Boxed(j)] = snd[Boxed(j)] /\ bundle'[j] = bundle[j] /\ LinkedBundle(j)
      BY <1>1, <1>5, <2>2, Entries DEF LInv, OnlyBundle
    <3> QED BY <3>1 DEF LinkedBundle
  <2> QED BY <2>1, <2>2
<1> QED BY <1>4, <1>6, <1>7 DEF LInv

\* A call begins: nothing has been sent for it.
LEMMA BeginLinked ==
    ASSUME CInv, LInv, NEW c \in Call, NEW op \in {"input", "inject"}, NEW s \in Session, NEW k \in Bundle,
           Begin(c, op, s, k)
    PROVE  LInv'
<1> USE CallsAssumption
<1>1. /\ Only(c) /\ call'[c].pc = "get" /\ call'[c].op = op /\ call'[c].end = call[c].end
  BY BeginFields DEF CInv, CallTypeOK
<1>2. call[c].pc = "new" /\ call[c].end = None /\ UNCHANGED <<auditVars, bundle>> /\ Linked(c)
  BY DEF Begin, credVars, CInv, Control, LInv
<1>3. Linked(c)'
  BY <1>1, <1>2 DEF Linked, auditVars, collectorVars
<1>4. AuditRest /\ UNCHANGED snd
  BY <1>2 DEF AuditRest, auditVars
<1> QED BY <1>1, <1>2, <1>3, <1>4, OthersLinked

\* What leaves calls, bundles and senders alone.
LEMMA StillLinked ==
    ASSUME LInv, UNCHANGED <<call, bundle, snd, mode, collectorVars>>
    PROVE  LInv'
<1>1. ASSUME NEW c \in Call PROVE Linked(c)'
  BY DEF LInv, Linked, collectorVars
<1>2. ASSUME NEW k \in Bundle PROVE LinkedBundle(k)'
  BY DEF LInv, LinkedBundle
<1> QED BY <1>1, <1>2 DEF LInv

-----------------------------------------------------------------------------
(* The credentials *)

\* Who has a credential, and what has been written.
Single ==
    /\ \A k \in creds : bundle[k].pc = "done"
    /\ \A c \in Call : call[c].took => call[c].k \notin creds
    /\ \A b, c \in Call : call[b].took /\ call[c].took /\ call[b].k = call[c].k => b = c
    /\ \A w \in written : call[w[1]].took /\ call[w[1]].k = w[2]

\* A credential has not vanished.
Held(k) ==
    bundle[k].pc = "done" /\ k \notin creds \union expired
      => \E c \in Call : call[c].k = k /\ call[c].took

\* The key file is written once, by the bundle that holds the mutex.
Ident ==
    /\ \A k \in Bundle : bundle[k].pc \in {"sign", "done"} => bundle[k].key = keyFile /\ keyFile # None
    /\ \A k \in Bundle : bundle[k].pc = "generate" => keyMu = k /\ keyFile = None /\ bundle[k].key = k

KInv == Single /\ (\A k \in Bundle : Held(k)) /\ Ident

\* A step of a call takes a credential that nobody else has, under the lock.
LEMMA StepCreds ==
    ASSUME CInv, KInv, NEW c \in Call, StepCall(c)
    PROVE  KInv'
<1>0. /\ UNCHANGED <<bundle, keyFile, keyMu, expired>> /\ call \in [Call -> CallState] /\ Control(c)
      /\ written \subseteq Call \X Bundle
  BY Shapes DEF CInv, CallTypeOK
<1>1. Ident'
  BY <1>0 DEF KInv, Ident
\* What a call is about stays, and nothing is taken.
<1>2. ASSUME \A b \in Call : call'[b].k = call[b].k /\ call'[b].took = call[b].took,
             UNCHANGED creds,
             written' \subseteq written \/ (call[c].took /\ written' = written \union {<<c, call[c].k>>})
      PROVE  KInv'
  <2>1. \A k \in Bundle : Held(k)'
    BY <1>0, <1>2 DEF KInv, Held
  <2>2. \A w \in written' : call'[w[1]].took /\ call'[w[1]].k = w[2]
    <3> SUFFICES ASSUME NEW w \in written' PROVE call'[w[1]].took /\ call'[w[1]].k = w[2]
      OBVIOUS
    <3>1. CASE w \in written
      BY <1>0, <1>2, <3>1 DEF KInv, Single
    <3>2. CASE w = <<c, call[c].k>> /\ call[c].took
      BY <1>2, <3>2
    <3> QED BY <1>2, <3>1, <3>2
  <2>3. Single'
    BY <1>0, <1>2, <2>2 DEF KInv, Single
  <2> QED BY <1>1, <2>1, <2>3 DEF KInv
<1>3. CASE Walk(c)
  <2>1. PICK l \in CallLabel : Goto(c, l)
    BY <1>3 DEF Walk
  <2>2. Only(c) /\ call'[c].k = call[c].k /\ call'[c].took = call[c].took
    BY <1>0, <2>1, GotoFields
  <2> QED BY <1>2, <1>3, <2>2 DEF Walk, Only
<1>4. CASE Quit(c)
  <2>1. PICK how \in Ending : End(c, how)
    BY <1>4 DEF Quit
  <2>2. Only(c) /\ call'[c].k = call[c].k /\ call'[c].took = call[c].took
    BY <1>0, <2>1, EndFields DEF End
  <2>3. written' \subseteq written \/ (call[c].took /\ written' = written \union {<<c, call[c].k>>})
    BY <1>0, <1>4 DEF Quit, Control
  <2> QED BY <1>2, <1>4, <2>2, <2>3 DEF Quit, Only
<1>5. CASE Ran(c)
  <2>1. PICK how \in {"run", "error"} :
             call' = [call EXCEPT ![c].pc = "done", ![c].end = how, ![c].s = None]
    BY <1>5 DEF Ran
  <2>2. Only(c) /\ call'[c].k = call[c].k /\ call'[c].took = call[c].took
    BY <1>0, <2>1, EndFields DEF Ending
  <2> QED BY <1>2, <1>5, <2>2 DEF Ran, Only
<1>6. CASE Sends(c)
  BY <1>2, <1>6 DEF Sends
<1>7. CASE Takes(c)
  <2>1. /\ call[c].pc = "take" /\ call[c].k \in creds /\ creds' = creds \ {call[c].k} /\ UNCHANGED written
        /\ Only(c) /\ call'[c].k = call[c].k /\ call'[c].took = TRUE
    BY <1>0, <1>7, TakeFields DEF Takes
  <2>2. ~call[c].took
    BY <1>0, <2>1 DEF Control
  <2>3. \A b \in Call : call'[b].k = call[b].k /\ (call[b].took => call'[b].took)
    BY <2>1 DEF Only
  <2>4. \A b \in Call : call'[b].took => b = c \/ (b # c /\ call[b].took /\ call[b].k # call[c].k)
    BY <2>1 DEF Only, KInv, Single
  <2>5. Single'
    <3>1. \A k \in creds' : bundle'[k].pc = "done"
      BY <1>0, <2>1 DEF KInv, Single
    <3>2. \A b \in Call : call'[b].took => call'[b].k \notin creds'
      BY <2>1, <2>3, <2>4 DEF KInv, Single
    <3>3. \A b, d \in Call : call'[b].took /\ call'[d].took /\ call'[b].k = call'[d].k => b = d
      BY <2>3, <2>4 DEF KInv, Single
    <3>4. \A w \in written' : call'[w[1]].took /\ call'[w[1]].k = w[2]
      BY <1>0, <2>1, <2>3 DEF KInv, Single
    <3> QED BY <3>1, <3>2, <3>3, <3>4 DEF Single
  <2>6. ASSUME NEW k \in Bundle PROVE Held(k)'
    BY <1>0, <2>1, <2>3 DEF KInv, Held
  <2> QED BY <1>1, <2>5, <2>6 DEF KInv
<1> QED BY <1>3, <1>4, <1>5, <1>6, <1>7, Shapes

\* A bundle adds a credential nobody can have, and the key of the file.
LEMMA BundleCreds ==
    ASSUME CInv, KInv, NEW k \in Bundle, StepBundle(k) \/ BeginBundle(k)
    PROVE  KInv'
<1> USE CallsAssumption
<1>0. None \notin Bundle
  BY DEF Bundle
<1>1. /\ UNCHANGED <<call, written, expired>> /\ OnlyBundle(k)
      /\ bundle' \in [Bundle -> BundleState]
      /\ Opens(k) \/ Waits(k) \/ Loads(k) \/ Makes(k) \/ Fails(k) \/ Keeps(k)
  BY BundleShapes
<1>2. bundle[k].pc # "done"
  BY <1>1 DEF Opens, Waits, Loads, Makes, Fails, Keeps
<1>3. k \notin creds /\ creds \subseteq Bundle /\ \A c \in Call : ~(call[c].took /\ call[c].k = k)
  BY <1>2 DEF CInv, CallTypeOK, Control, KInv, Single
<1>4. \A j \in Bundle : bundle[j].pc = "done" => bundle'[j].pc = "done"
  BY <1>1, <1>2 DEF OnlyBundle
<1>5. \A j \in Bundle : bundle'[j].pc = "done" => bundle[j].pc = "done" \/ (j = k /\ Keeps(k))
  BY <1>1 DEF OnlyBundle, Opens, Waits, Loads, Makes, Fails
<1>6. UNCHANGED creds \/ (creds' = (creds \ expired) \union {k} /\ Keeps(k))
  BY <1>1 DEF Opens, Waits, Loads, Makes, Fails, Keeps
<1>7. Keeps(k) => bundle'[k].pc = "done" /\ creds' = (creds \ expired) \union {k}
  BY DEF Keeps
<1>8. Single'
  <2>1. \A j \in creds' : bundle'[j].pc = "done"
    BY <1>3, <1>4, <1>6, <1>7 DEF KInv, Single
  <2>2. \A c \in Call : call'[c].took => call'[c].k \notin creds'
    BY <1>1, <1>3, <1>6 DEF KInv, Single
  <2> QED BY <1>1, <2>1, <2>2 DEF KInv, Single
<1>9. ASSUME NEW j \in Bundle PROVE Held(j)'
  BY <1>1, <1>5, <1>6, <1>7 DEF KInv, Held
<1>10. Ident'
  <2>1. CASE Opens(k)
    BY <1>1, <2>1 DEF KInv, Ident, OnlyBundle, Opens
  <2>2. CASE Waits(k)
    BY <1>0, <1>1, <2>2 DEF KInv, Ident, OnlyBundle, Waits
  <2>3. CASE Loads(k)
    BY <1>0, <1>1, <2>3 DEF KInv, Ident, OnlyBundle, Loads
  <2>4. CASE Makes(k)
    BY <1>0, <1>1, <2>4 DEF KInv, Ident, OnlyBundle, Makes
  <2>5. CASE Fails(k)
    BY <1>0, <1>1, <2>5 DEF KInv, Ident, OnlyBundle, Fails
  <2>6. CASE Keeps(k)
    BY <1>1, <2>6 DEF KInv, Ident, OnlyBundle, Keeps
  <2> QED BY <1>1, <2>1, <2>2, <2>3, <2>4, <2>5, <2>6
<1> QED BY <1>8, <1>9, <1>10 DEF KInv

\* A call begins without a credential.
LEMMA BeginCreds ==
    ASSUME CInv, KInv, NEW c \in Call, NEW op \in {"input", "inject"}, NEW s \in Session, NEW k \in Bundle,
           Begin(c, op, s, k)
    PROVE  KInv'
<1>1. Only(c) /\ call'[c].took = call[c].took
  BY BeginFields DEF CInv, CallTypeOK
<1>2. /\ call[c].pc = "new" /\ ~call[c].took
      /\ UNCHANGED <<written, bundle, keyFile, keyMu, creds, expired>>
  BY DEF Begin, credVars, CInv, Control
<1>3. \A b \in Call : call'[b].took = call[b].took /\ (call[b].took => call'[b].k = call[b].k)
  BY <1>1, <1>2 DEF Only
<1>4. Ident'
  BY <1>2 DEF KInv, Ident
<1>5. Single'
  <2>1. \A w \in written : w[1] \in Call
    BY DEF CInv, CallTypeOK
  <2> QED BY <1>2, <1>3, <2>1 DEF KInv, Single
<1>6. ASSUME NEW j \in Bundle PROVE Held(j)'
  BY <1>2, <1>3 DEF KInv, Held
<1> QED BY <1>4, <1>5, <1>6 DEF KInv

\* What leaves calls, bundles and the store alone; time may pass.
LEMMA StillCreds ==
    ASSUME KInv, UNCHANGED <<call, written, bundle, keyFile, keyMu, creds>>, expired \subseteq expired'
    PROVE  KInv'
<1>1. Single' /\ Ident'
  BY DEF KInv, Single, Ident
<1>2. ASSUME NEW j \in Bundle PROVE Held(j)'
  BY DEF KInv, Held
<1> QED BY <1>1, <1>2 DEF KInv


-----------------------------------------------------------------------------
(* A command is ahead of its output *)

\* In the queue, before the worker, and before the collector.
Ahead(c) ==
    /\ \A i, j \in 1 .. Len(queue) : queue[i] = CmdOf(c) /\ queue[j] = OutOf(c) => i < j
    /\ worker = OutOf(c) => \A i \in 1 .. Len(queue) : queue[i] # CmdOf(c)
    /\ OnItsWay(CmdOf(c)) => OutOf(c) \notin trail /\ OutOf(c) \notin inflight

\* What leaves the queue, the worker and the collector alone.
LEMMA StillAhead ==
    ASSUME NEW c, Ahead(c), UNCHANGED <<queue, worker, collectorVars>>
    PROVE  Ahead(c)'
BY DEF Ahead, OnItsWay, CmdOf, OutOf, collectorVars

\* An entry is posted that is not the output of a command still on its way.
LEMMA PostAhead ==
    ASSUME EntriesOK, NEW c \in Call, Ahead(c), UNCHANGED queue, worker' \in {worker, None, Stopped},
           NEW e, trail' \subseteq trail \union {e}, inflight' \subseteq inflight \union {e},
           e = OutOf(c) => ~OnItsWay(CmdOf(c))
    PROVE  Ahead(c)'
<1>1. None # CmdOf(c) /\ Stopped # CmdOf(c) /\ None # OutOf(c) /\ Stopped # OutOf(c)
  BY Entries, AuditAssumption
<1>2. OnItsWay(CmdOf(c))' => OnItsWay(CmdOf(c))
  BY <1>1 DEF OnItsWay, CmdOf
<1> QED BY <1>1, <1>2 DEF Ahead, CmdOf, OutOf

\* Senders, worker and collector keep the order.
LEMMA AuditAhead ==
    ASSUME AuInv, LInv, NEW c \in Call, Ahead(c), NextAudit
    PROVE  Ahead(c)'
<1> USE AuditAssumption
<1> DEFINE Fst == CmdOf(c)
           Lst == OutOf(c)
<1>1. /\ Fst \in Entry /\ Lst \in Entry /\ Fst # Lst
      /\ None # Fst /\ Stopped # Fst /\ None # Lst /\ Stopped # Lst
  BY Entries
<1>2. /\ queue \in Seq(Entry) /\ Len(queue) \in Nat /\ EntriesOK
      /\ snd[Fst].pc \in {"try", "evict", "again"} =>
            Lst \notin trail /\ Lst \notin inflight /\ ~OnItsWay(Lst)
      /\ snd[Lst].pc \in {"try", "evict", "again"} => ~OnItsWay(Lst) /\ Lst \notin trail /\ Lst \notin inflight
      /\ snd[Lst].pc # "post"
  <2>1. Linked(c)
    BY DEF LInv
  <2>2. snd[Fst].pc \in {"try", "evict", "again"} => snd[Lst].pc = "idle"
    BY <2>1 DEF Linked
  <2> QED BY <1>1, <2>1, <2>2 DEF AuInv, EntriesOK, Nowhere, Linked
<1>3. Ahead(c) <=>
        /\ \A i, j \in 1 .. Len(queue) : queue[i] = Fst /\ queue[j] = Lst => i < j
        /\ worker = Lst => \A i \in 1 .. Len(queue) : queue[i] # Fst
        /\ OnItsWay(Fst) => Lst \notin trail /\ Lst \notin inflight
  BY DEF Ahead
<1>4. Ahead(c)' <=>
        /\ \A i, j \in 1 .. Len(queue') : queue'[i] = Fst /\ queue'[j] = Lst => i < j
        /\ worker' = Lst => \A i \in 1 .. Len(queue') : queue'[i] # Fst
        /\ OnItsWay(Fst)' => Lst \notin trail' /\ Lst \notin inflight'
  BY DEF Ahead, CmdOf, OutOf
<1>5. OnItsWay(Lst) <=> worker = Lst \/ \E i \in 1 .. Len(queue) : queue[i] = Lst
  BY DEF OnItsWay
<1>6. OnItsWay(Fst) <=> worker = Fst \/ \E i \in 1 .. Len(queue) : queue[i] = Fst
  BY DEF OnItsWay
<1>7. OnItsWay(Fst)' <=> worker' = Fst \/ \E i \in 1 .. Len(queue') : queue'[i] = Fst
  BY DEF OnItsWay, CmdOf
<1> HIDE DEF Fst, Lst
\* An entry goes into the queue: after the command, and before its output.
<1>8. ASSUME NEW e \in Entry, snd[e].pc \in {"try", "evict", "again"},
             queue' = Append(queue, e), UNCHANGED <<worker, collectorVars>>
      PROVE  Ahead(c)'
  <2>1. /\ Len(queue') = Len(queue) + 1 /\ queue'[Len(queue) + 1] = e
        /\ \A i \in 1 .. Len(queue) : queue'[i] = queue[i]
    BY <1>2, <1>8, AppendQueue
  <2>2. UNCHANGED <<worker, trail, inflight>>
    BY <1>8 DEF collectorVars
  <2>3. CASE e = Fst
    BY <1>1, <1>2, <1>3, <1>4, <1>5, <1>8, <2>1, <2>2, <2>3
  <2>4. CASE e = Lst
    <3>1. \A i \in 1 .. Len(queue) : queue[i] # Lst
      BY <1>2, <1>5, <1>8, <2>4
    <3> QED BY <1>1, <1>2, <1>3, <1>4, <1>5, <1>6, <1>7, <1>8, <2>1, <2>2, <2>4, <3>1
  <2>5. CASE e # Fst /\ e # Lst
    <3>1. \A i \in 1 .. Len(queue') : queue'[i] \in {Fst, Lst} => i \in 1 .. Len(queue) /\ queue'[i] = queue[i]
      BY <1>2, <2>1, <2>5
    <3> QED BY <1>3, <1>4, <1>6, <1>7, <2>2, <3>1
  <2> QED BY <2>3, <2>4, <2>5
\* The head goes, to the worker or for good.
<1>9. ASSUME queue # <<>>, queue' = Tail(queue), UNCHANGED collectorVars,
             worker' = worker \/ worker' = Head(queue)
      PROVE  Ahead(c)'
  <2>1. /\ Len(queue') = Len(queue) - 1 /\ Len(queue) \in Nat \ {0} /\ Head(queue) = queue[1]
        /\ \A i \in 1 .. Len(queue) - 1 : queue'[i] = queue[i + 1]
    BY <1>2, <1>9, TailQueue
  <2>2. UNCHANGED <<trail, inflight>>
    BY <1>9 DEF collectorVars
  <2>3. \A i \in 1 .. Len(queue') : i + 1 \in 1 .. Len(queue) /\ queue'[i] = queue[i + 1]
    BY <2>1
  <2>4. \A i, j \in 1 .. Len(queue') : queue'[i] = Fst /\ queue'[j] = Lst => i < j
    BY <1>3, <2>3
  <2>5. worker' = Lst => \A i \in 1 .. Len(queue') : queue'[i] # Fst
    <3>1. CASE worker' = worker
      BY <1>3, <2>3, <3>1
    <3>2. CASE worker' = Head(queue) /\ worker' = Lst
      <4>1. 1 \in 1 .. Len(queue) /\ queue[1] = Lst
        BY <2>1, <3>2
      <4>2. \A i \in 1 .. Len(queue) : queue[i] = Fst => i < 1
        BY <1>3, <4>1
      <4> QED BY <2>3, <4>2
    <3> QED BY <1>9, <3>1, <3>2
  <2>6. OnItsWay(Fst)' => OnItsWay(Fst)
    <3>1. 1 \in 1 .. Len(queue)
      BY <2>1
    <3> QED BY <1>6, <1>7, <1>9, <2>1, <2>3, <3>1
  <2> QED BY <1>3, <1>4, <2>2, <2>4, <2>5, <2>6
<1>10. ASSUME NEW e \in Entry, FirstSelect(e) \/ Evict(e) \/ LastSelect(e) PROVE Ahead(c)'
  <2>1. /\ UNCHANGED <<worker, collectorVars>> /\ snd[e].pc \in {"try", "evict", "again"}
        /\ \/ UNCHANGED queue \/ queue' = Append(queue, e)
           \/ queue # <<>> /\ queue' = Tail(queue)
    BY <1>10 DEF FirstSelect, Evict, LastSelect
  <2> QED BY <1>8, <1>9, <2>1, StillAhead
<1>11. ASSUME NEW e \in Entry, NEW out \in Outcome, StrictPost(e, out) PROVE Ahead(c)'
  <2>1. UNCHANGED <<queue, worker>> /\ Post(e, out) /\ e # Lst
    BY <1>2, <1>11 DEF StrictPost
  <2>2. trail' \subseteq trail \union {e} /\ inflight' \subseteq inflight \union {e}
    BY <2>1, PostEffect
  <2> QED BY <1>2, <2>1, <2>2, PostAhead DEF Lst
<1>12. ASSUME NEW out \in Outcome, WorkerPost(out) PROVE Ahead(c)'
  <2>1. UNCHANGED queue /\ worker' \in {worker, None} /\ Post(worker, out)
    BY <1>12 DEF WorkerPost
  <2>2. trail' \subseteq trail \union {worker} /\ inflight' \subseteq inflight \union {worker}
    BY <2>1, PostEffect
  <2>3. worker = Lst => ~OnItsWay(Fst)
    BY <1>1, <1>3, <1>6
  <2> QED BY <1>2, <2>1, <2>2, <2>3, PostAhead DEF Fst, Lst
<1>13. CASE WorkerTake
  <2>1. queue # <<>> /\ queue' = Tail(queue) /\ worker' = Head(queue) /\ UNCHANGED collectorVars
    BY <1>13 DEF WorkerTake
  <2> QED BY <1>9, <2>1
<1>14. CASE WorkerStop
  <2>1. UNCHANGED <<queue, trail, inflight>> /\ worker' = Stopped
    BY <1>14 DEF WorkerStop, collectorVars
  <2>2. Stopped # Lst
    BY <1>1
  <2> QED BY <1>2, <2>1, <2>2, PostAhead DEF Lst
<1>15. ASSUME NEW e \in Entry, LateStore(e) PROVE Ahead(c)'
  <2>1. UNCHANGED <<queue, worker>> /\ e \in inflight /\ trail' = trail \union {e} /\ inflight' = inflight \ {e}
    BY <1>15 DEF LateStore
  <2>2. e = Lst => ~OnItsWay(Fst)
    BY <1>3, <2>1
  <2> QED BY <1>2, <2>1, <2>2, PostAhead DEF Fst, Lst
<1> QED BY <1>10, <1>11, <1>12, <1>13, <1>14, <1>15 DEF NextAudit, StepAudit


-----------------------------------------------------------------------------
(* The invariant *)

Inv == AuInv /\ CInv /\ LInv /\ KInv /\ \A c \in Call : Ahead(c)

\* Before the first call.
LEMMA InitInv == Init => Inv
<1> SUFFICES ASSUME Init PROVE Inv
  OBVIOUS
<1> USE CallsAssumption
<1>1. AuInv
  BY InitAudit DEF Init
<1>2. /\ call \in [Call -> CallState]
      /\ \A c \in Call : /\ call[c].pc = "new" /\ call[c].op = None /\ call[c].end = None
                         /\ call[c].took = FALSE
  <2> DEFINE r == [pc |-> "new", op |-> None, s |-> None, k |-> None, took |-> FALSE, end |-> None]
  <2>1. r \in CallState
    BY Zenon DEF CallState
  <2>2. r.pc = "new" /\ r.op = None /\ r.end = None /\ r.took = FALSE
    OBVIOUS
  <2>3. call = [c \in Call |-> r]
    BY DEF Init
  <2> HIDE DEF r
  <2> QED BY <2>1, <2>2, <2>3
<1>3. bundle \in [Bundle -> BundleState] /\ \A k \in Bundle : bundle[k].pc = "new"
  BY DEF Init, BundleState
<1>4. CallTypeOK
  BY <1>2, <1>3 DEF Init, CallTypeOK
<1>5. \A c \in Call : Control(c)
  BY <1>2 DEF Control
<1>6. \A e \in Entry : snd[e].pc = "idle"
  BY DEF Init, AuditInit
<1>7. LInv
  <2>1. ASSUME NEW c \in Call PROVE Linked(c)
    BY <1>2, <1>6, Entries DEF Linked
  <2>2. ASSUME NEW k \in Bundle PROVE LinkedBundle(k)
    BY <1>6, Entries DEF LinkedBundle
  <2> QED BY <2>1, <2>2 DEF LInv
<1>8. KInv
  BY <1>2, <1>3 DEF Init, KInv, Single, Held, Ident
<1>9. ASSUME NEW c \in Call PROVE Ahead(c)
  <2>1. Len(queue) = 0 /\ ~OnItsWay(CmdOf(c))
    BY Entries, AuditAssumption DEF Init, AuditInit, OnItsWay
  <2> QED BY <2>1 DEF Ahead
<1> QED BY <1>1, <1>4, <1>5, <1>7, <1>8, <1>9 DEF Inv, CInv

\* Every step keeps it.
LEMMA NextInv == Inv /\ [Next]_vars => Inv'
<1> SUFFICES ASSUME Inv, [Next]_vars PROVE Inv'
  OBVIOUS
<1>0. AuInv /\ CInv /\ LInv /\ KInv /\ \A c \in Call : Ahead(c)
  BY DEF Inv
<1>1. cancelled \subseteq Call /\ expired \subseteq Bundle /\ closed \in BOOLEAN
  BY <1>0 DEF CInv, CallTypeOK, AuInv, FlagsOK
\* A step that hands over one entry at most.
<1>2. ASSUME AuditRest, UNCHANGED snd \/ \E e \in Entry : Woken(e)
      PROVE  AuInv' /\ \A c \in Call : Ahead(c)'
  <2>1. UNCHANGED <<mode, queue, worker, tries, closed, collectorVars, evicted, lost, refused, contended>>
    BY <1>2 DEF AuditRest
  <2>2. \A c \in Call : Ahead(c)'
    BY <1>0, <2>1, StillAhead
  <2>3. CASE UNCHANGED snd
    BY <1>0, <1>1, <2>1, <2>2, <2>3, StillAudit
  <2>4. ASSUME NEW e \in Entry, Woken(e) PROVE AuInv'
    BY <1>0, <2>1, <2>4, WakeAudit
  <2> QED BY <1>2, <2>2, <2>3, <2>4
\* One that touches neither calls nor bundles.
<1>3. ASSUME UNCHANGED <<mode, snd, queue, worker, tries, collectorVars, evicted, lost, refused, contended>>,
             UNCHANGED <<call, lock, written, bundle, keyFile, keyMu, creds>>,
             closed' \in BOOLEAN, cancelled' \subseteq Call, expired \subseteq expired', expired' \subseteq Bundle
      PROVE  Inv'
  <2>1. AuInv'
    BY <1>0, <1>3, StillAudit
  <2>2. CInv'
    BY <1>0, <1>3, StillControl
  <2>3. LInv'
    BY <1>0, <1>3, StillLinked
  <2>4. KInv'
    BY <1>0, <1>3, StillCreds
  <2>5. \A c \in Call : Ahead(c)'
    BY <1>0, <1>3, StillAhead
  <2> QED BY <2>1, <2>2, <2>3, <2>4, <2>5 DEF Inv
<1>4. CASE NextAudit /\ UNCHANGED <<callVars, credVars>>
  <2>1. UNCHANGED <<call, cancelled, lock, written, bundle, keyFile, keyMu, creds, expired>>
    BY <1>4 DEF callVars, credVars
  <2>2. AuInv'
    BY <1>0, <1>4, NextAuditInv
  <2>3. CInv'
    BY <1>0, <1>1, <2>1, StillControl
  <2>4. LInv'
    BY <1>0, <1>4, <2>1, AuditLinked
  <2>5. KInv'
    BY <1>0, <2>1, StillCreds
  <2>6. \A c \in Call : Ahead(c)'
    BY <1>0, <1>4, AuditAhead
  <2> QED BY <2>2, <2>3, <2>4, <2>5, <2>6 DEF Inv
<1>5. ASSUME NEW c \in Call, StepCall(c) PROVE Inv'
  <2>1. CInv' /\ KInv'
    BY <1>0, <1>5, StepControl, StepCreds
  <2>2. LInv' /\ (UNCHANGED snd \/ Woken(CmdOf(c)) \/ Woken(OutOf(c)))
    BY <1>0, <1>5, StepLinked
  <2>3. AuditRest
    BY <1>5, Shapes
  <2>4. AuInv' /\ \A b \in Call : Ahead(b)'
    BY <1>2, <2>2, <2>3, Entries
  <2> QED BY <2>1, <2>2, <2>4 DEF Inv
<1>6. ASSUME NEW k \in Bundle, StepBundle(k) \/ BeginBundle(k) PROVE Inv'
  <2>1. CInv' /\ KInv'
    BY <1>0, <1>6, BundleControl, BundleCreds
  <2>2. LInv' /\ (UNCHANGED snd \/ Woken(Boxed(k)))
    BY <1>0, <1>6, BundleLinked
  <2>3. AuditRest
    BY <1>0, <1>6, BundleShapes
  <2>4. AuInv' /\ \A c \in Call : Ahead(c)'
    BY <1>2, <2>2, <2>3, Entries
  <2> QED BY <2>1, <2>2, <2>4 DEF Inv
<1>7. ASSUME NEW c \in Call, NEW op \in {"input", "inject"}, NEW s \in Session, NEW k \in Bundle,
             Begin(c, op, s, k)
      PROVE  Inv'
  <2>1. CInv' /\ KInv' /\ LInv'
    BY <1>0, <1>7, BeginControl, BeginCreds, BeginLinked
  <2>2. AuditRest /\ UNCHANGED snd
    BY <1>7 DEF Begin, auditVars, AuditRest
  <2>3. AuInv' /\ \A b \in Call : Ahead(b)'
    BY <1>2, <2>2
  <2> QED BY <2>1, <2>3 DEF Inv
<1>8. ASSUME NEW c \in Call, Cancel(c) PROVE Inv'
  <2>1. cancelled' = cancelled \union {c} /\ UNCHANGED <<auditVars, call, lock, written, credVars>>
    BY <1>8 DEF Cancel
  <2> QED BY <1>1, <1>3, <2>1 DEF auditVars, credVars
<1>9. ASSUME NEW k \in Bundle, Expire(k) PROVE Inv'
  <2>1. /\ expired' = expired \union {k}
        /\ UNCHANGED <<auditVars, callVars, bundle, keyFile, keyMu, creds>>
    BY <1>9 DEF Expire
  <2> QED BY <1>1, <1>3, <2>1 DEF auditVars, callVars
<1>10. CASE CloseClient
  <2>1. /\ closed' = TRUE /\ UNCHANGED <<callVars, credVars>>
        /\ UNCHANGED <<mode, snd, queue, worker, tries, collectorVars, evicted, lost, refused, contended>>
    BY <1>10 DEF CloseClient, Close
  <2>2. closed' \in BOOLEAN
    BY <2>1, Zenon
  <2> QED BY <1>1, <1>3, <2>1, <2>2 DEF callVars, credVars
<1>11. CASE UNCHANGED vars
  BY <1>1, <1>3, <1>11 DEF vars, auditVars, callVars, credVars
<1> QED BY <1>4, <1>5, <1>6, <1>7, <1>8, <1>9, <1>10, <1>11 DEF Next

\* In every reachable state of the audited calls, whatever senders, worker,
\* collector, calls and bundles do: types, where every entry is, which call it
\* belongs to, who has a credential and which entry is ahead.
THEOREM Invariant == Spec => []Inv
<1>1. Init => Inv
  BY InitInv
<1>2. Inv /\ [Next]_vars => Inv'
  BY NextInv
<1> QED BY <1>1, <1>2, PTL DEF Spec

-----------------------------------------------------------------------------
(* What it means *)

\* Entries are types, accounted for, and passed over under contention only.
LEMMA InvTrail == Inv => TrailAccounted
<1> SUFFICES ASSUME Inv PROVE TrailAccounted
  OBVIOUS
<1>1. AuditTypeOK
  BY AuditTypes DEF Inv, AuInv
<1>2. TypeOK
  <2>1. {keyFile, keyMu} \subseteq Bundle \union {None}
    BY DEF Inv, CInv, CallTypeOK
  <2>2. bundle \in [Bundle -> [pc : {"new", "load", "generate", "sign", "done", "failed"},
                              key : Bundle \union {None}]]
    BY DEF Inv, CInv, CallTypeOK, BundleState
  <2> QED BY <1>1, <2>1, <2>2 DEF TypeOK, Inv, CInv, CallTypeOK
<1>3. Accounted
  <2> SUFFICES ASSUME NEW e \in Entry, snd[e].pc \in {"sent", "failed"}
               PROVE  e \in ToSet(queue) \union trail \union {worker} \union evicted \union lost
                              \union refused \union unwritten
    BY DEF Accounted
  <2>1. queue \in Seq(Entry)
    BY DEF Inv, AuInv, EntriesOK
  <2>2. \A i \in 1 .. Len(queue) : queue[i] \in ToSet(queue)
    BY <2>1 DEF ToSet
  <2>3. Found(e)
    BY DEF Inv, AuInv
  <2> QED BY <2>2, <2>3 DEF Found, OnItsWay
<1> QED BY <1>2, <1>3 DEF TrailAccounted, Inv, AuInv

\* However senders, worker, retries, a late collector and Close interleave, an
\* audit entry never vanishes: it is in the file, on its way, dropped and
\* counted, given up, or was passed over while two goroutines were in enqueue.
THEOREM TrailCorrect == Spec => []TrailAccounted
BY Invariant, InvTrail, PTL

\* In strict mode no command runs before the collector has accepted its record.
THEOREM StrictCorrect == Spec => []StrictRecorded
<1>1. Inv => StrictRecorded
  <2> SUFFICES ASSUME Inv, NEW c \in Call, mode = "strict", call[c].op = "input",
                      call[c].pc = "exec" \/ call[c].end = "run"
               PROVE  CmdOf(c) \in trail \union unwritten
    BY DEF StrictRecorded, CmdOf
  <2>1. Linked(c)
    BY DEF Inv, LInv
  <2> QED BY <2>1 DEF Linked
<1> QED BY <1>1, Invariant, PTL

\* In the queue and at the worker a command's record is ahead of its output's,
\* and an output in the file has its command there too, or accounted for as
\* dropped, passed over, given up or not written.
THEOREM OrderCorrect == Spec => []CmdBeforeOutput
<1>1. ASSUME Inv, NEW c \in Call, NEW n \in DOMAIN Pipeline, Pipeline[n] = CmdOf(c)
      PROVE  OutOf(c) \notin trail \union {Pipeline[m] : m \in 1 .. n}
  <2>1. queue \in Seq(Entry) /\ Len(queue) \in Nat /\ Ahead(c) /\ CmdOf(c) # OutOf(c)
    BY <1>1, Entries DEF Inv, AuInv, EntriesOK
  <2>2. /\ DOMAIN Pipeline = 1 .. Len(queue) + 1 /\ Pipeline[1] = worker
        /\ \A i \in 1 .. Len(queue) + 1 : i = 1 \/ (i - 1 \in 1 .. Len(queue) /\ Pipeline[i] = queue[i - 1])
    <3>1. <<worker>> \in Seq({worker}) /\ Len(<<worker>>) = 1 /\ <<worker>>[1] = worker
      OBVIOUS
    <3> QED BY <2>1, <3>1 DEF Pipeline
  <2>3. n = 1 \/ (n - 1 \in 1 .. Len(queue) /\ queue[n - 1] = CmdOf(c))
    BY <1>1, <2>2
  <2>4. OnItsWay(CmdOf(c))
    BY <1>1, <2>2, <2>3 DEF OnItsWay
  <2>5. OutOf(c) \notin trail
    BY <2>1, <2>4 DEF Ahead
  <2>6. ASSUME NEW m \in 1 .. n, Pipeline[m] = OutOf(c) PROVE FALSE
    <3>1. m \in 1 .. Len(queue) + 1 /\ n \in 1 .. Len(queue) + 1 /\ m # n /\ m < n
      BY <1>1, <2>1, <2>2, <2>6
    <3>2. CASE m = 1
      BY <2>1, <2>2, <2>3, <2>6, <3>1, <3>2 DEF Ahead
    <3>3. CASE m # 1
      <4>1. m - 1 \in 1 .. Len(queue) /\ queue[m - 1] = OutOf(c) /\ n - 1 \in 1 .. Len(queue) /\ queue[n - 1] = CmdOf(c)
        BY <2>2, <2>3, <2>6, <3>1, <3>3
      <4>2. n - 1 < m - 1
        BY <2>1, <4>1 DEF Ahead
      <4> QED BY <3>1, <4>2
    <3> QED BY <3>2, <3>3
  <2> QED BY <2>5, <2>6
<1>2. ASSUME Inv, NEW c \in Call, call[c].op = "input", OutOf(c) \in trail
      PROVE  CmdOf(c) \in trail \union evicted \union lost \union refused \union unwritten
  <2>1. CmdOf(c) \in Entry /\ OutOf(c) \in Entry
    BY Entries
  <2>2. snd[OutOf(c)].pc # "idle"
    BY <1>2, <2>1 DEF Inv, AuInv, Nowhere
  <2>3. snd[CmdOf(c)].pc = "sent"
    BY <1>2, <2>2 DEF Inv, LInv, Linked
  <2>4. Found(CmdOf(c)) /\ Ahead(c)
    BY <1>2, <2>1 DEF Inv, AuInv
  <2>5. ~OnItsWay(CmdOf(c))
    BY <1>2, <2>4 DEF Ahead
  <2> QED BY <2>3, <2>4, <2>5 DEF Found
<1>3. Inv => CmdBeforeOutput
  BY <1>1, <1>2 DEF CmdBeforeOutput, CmdOf, OutOf
<1> QED BY <1>3, Invariant, PTL

\* A credential is written to one terminal at most once, is not burned by a call
\* that gives up before it has taken it, and all bundles speak for one identity.
THEOREM CredentialsCorrect == Spec => []CredentialsSafe
<1>1. Inv => WrittenOnce
  <2> SUFFICES ASSUME Inv, NEW k \in Bundle PROVE Cardinality({w \in written : w[2] = k}) <= 1
    BY DEF WrittenOnce
  <2> DEFINE W == {w \in written : w[2] = k}
  <2>1. \A w \in written : w \in Call \X Bundle /\ call[w[1]].took /\ call[w[1]].k = w[2]
    BY DEF Inv, CInv, CallTypeOK, KInv, Single
  <2>2. \A v, w \in W : v = w
    <3> SUFFICES ASSUME NEW v \in W, NEW w \in W PROVE v = w
      OBVIOUS
    <3>1. v[1] \in Call /\ w[1] \in Call /\ v = <<v[1], v[2]>> /\ w = <<w[1], w[2]>>
      BY <2>1
    <3>2. v[1] = w[1]
      BY <2>1, <3>1 DEF Inv, KInv, Single
    <3> QED BY <3>1, <3>2
  <2>3. CASE W = {}
    BY <2>3, FS_EmptySet
  <2>4. ASSUME NEW w \in W PROVE Cardinality(W) <= 1
    <3>1. W = {w}
      BY <2>2, <2>4
    <3>2. Cardinality({w}) = 1
      BY FS_Singleton
    <3> QED BY <3>1, <3>2
  <2> QED BY <2>3, <2>4
<1>2. Inv => NotBurned
  <2> SUFFICES ASSUME Inv, NEW k \in Bundle, bundle[k].pc = "done", k \notin creds \union expired
               PROVE  \E c \in Call : call[c].k = k /\ call[c].took /\ call[c].end # "early"
    BY DEF NotBurned
  <2>1. PICK c \in Call : call[c].k = k /\ call[c].took
    BY DEF Inv, KInv, Held
  <2>2. Control(c)
    BY DEF Inv, CInv
  <2> QED BY <2>1, <2>2 DEF Control
<1>3. Inv => OneIdentity
  BY DEF Inv, KInv, Ident, OneIdentity
<1> QED BY <1>1, <1>2, <1>3, Invariant, PTL DEF CredentialsSafe
=============================================================================
