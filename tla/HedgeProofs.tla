----------------------------- MODULE HedgeProofs -----------------------------
(***************************************************************************)
(* Proofs about Hedge, for every set of hedges, every assignment of hedges *)
(* to shards, every number of threads and every capacity of the channel.   *)
(***************************************************************************)
EXTENDS Hedge, FiniteSetTheorems, SequenceTheorems, TLAPS

(* The disjuncts of HedgeNext, listed once.                                     *)
LEMMA NextCases ==
  ASSUME [HedgeNext]_hedgeVars
  PROVE  \/ \E h \in Hedge : Record(h)
         \/ \E h \in Hedge, leg \in Leg : Mine(h, leg)
         \/ CloseStream
         \/ \E h \in Hedge : HandleMakerMined(h)
         \/ \E h \in Hedge : HandleTakerMined(h)
         \/ QueueMerge
         \/ \E h \in Hedge : Timer(h)
         \/ WorkerTake
         \/ WorkerMerge
         \/ UNCHANGED hedgeVars
  BY DEF HedgeNext, Listener, Worker

(* What a taker's event does to the channel and the listener.              *)
Sent(h)      == queue' = Append(queue, h) /\ handler' = NoHedge /\ Len(queue) < Capacity
Suspended(h) == queue' = queue /\ handler' = h
Outcome(h)   == \/ UNCHANGED <<handler, queue>>
                \/ mined'[h] = Leg /\ (Sent(h) \/ Suspended(h))

LEMMA MinedOutcome ==
  ASSUME NEW h \in Hedge
  PROVE  /\ HandleMakerMined(h) => NextMined(h, "maker") /\ UNCHANGED <<handler, queue>>
         /\ HandleTakerMined(h) => NextMined(h, "taker") /\ Outcome(h)
  BY DEF HandleMakerMined, HandleTakerMined, SendTask, Outcome, Sent, Suspended

(* Every variable keeps its type; the channel keeps its capacity.          *)
THEOREM TypeCorrect == HedgeSpec => []HedgeTypeOK
<1>1. HedgeInit => HedgeTypeOK
  BY HedgeAssumption DEF HedgeInit, HedgeTypeOK, Leg
<1>2. HedgeTypeOK /\ [HedgeNext]_hedgeVars => HedgeTypeOK'
  <2> SUFFICES ASSUME HedgeTypeOK, [HedgeNext]_hedgeVars PROVE HedgeTypeOK'
    OBVIOUS
  <2>1. ASSUME NEW h \in Hedge, Record(h) PROVE HedgeTypeOK'
    BY <2>1 DEF HedgeTypeOK, Record, chainVars
  <2>2. ASSUME NEW h \in Hedge, NEW leg \in Leg, Mine(h, leg) PROVE HedgeTypeOK'
    <3>1. chain' \in [Hedge -> SUBSET Leg] /\ stream' \in Seq(Hedge \X Leg)
      BY <2>2 DEF HedgeTypeOK, Mine, chainVars
    <3>a. told' \in [Hedge -> [Leg -> Nat]]
      BY <2>2 DEF HedgeTypeOK, Mine, chainVars
    <3>2. QED
      BY <2>2, <3>1, <3>a DEF HedgeTypeOK, Mine, chainVars
  <2>3. ASSUME CloseStream PROVE HedgeTypeOK'
    <3>1. stream' \in Seq(Hedge \X Leg)
      BY <2>3 DEF CloseStream, chainVars
    <3>2. QED
      BY <2>3, <3>1 DEF HedgeTypeOK, CloseStream, chainVars
  <2>4. ASSUME NEW h \in Hedge, HandleMakerMined(h) \/ HandleTakerMined(h)
        PROVE  HedgeTypeOK'
    <3>a. UNCHANGED <<handler, queue>> \/ Sent(h) \/ Suspended(h)
      BY <2>4, MinedOutcome DEF Outcome
    <3>1. handler' \in Hedge \cup {NoHedge} /\ queue' \in Seq(Hedge) /\ Len(queue') <= Capacity
      <4>1. queue \in Seq(Hedge) /\ Len(queue) <= Capacity /\ handler \in Hedge \cup {NoHedge}
        BY DEF HedgeTypeOK
      <4>2. CASE Sent(h)
        BY <4>1, <4>2, HedgeAssumption DEF Sent
      <4>3. CASE Suspended(h)
        BY <4>1, <4>3 DEF Suspended
      <4>4. QED
        BY <3>a, <4>1, <4>2, <4>3
    <3>2. PICK leg \in Leg : NextMined(h, leg)
      BY <2>4, MinedOutcome DEF Leg
    <3>3. mined' \in [Hedge -> SUBSET Leg]
      BY <3>2 DEF HedgeTypeOK, NextMined, chainVars
    <3>4. stream' \in Seq(Hedge \X Leg)
      BY <3>2 DEF HedgeTypeOK, NextMined, chainVars
    <3>5. QED
      BY <3>1, <3>2, <3>3, <3>4 DEF HedgeTypeOK, NextMined, chainVars
  <2>5. ASSUME QueueMerge PROVE HedgeTypeOK'
    <3>1. queue' \in Seq(Hedge) /\ Len(queue') <= Capacity
      BY <2>5, HedgeAssumption DEF HedgeTypeOK, QueueMerge, chainVars
    <3>2. QED
      BY <2>5, <3>1 DEF HedgeTypeOK, QueueMerge, chainVars
  <2>6. ASSUME NEW h \in Hedge, Timer(h) PROVE HedgeTypeOK'
    BY <2>6 DEF HedgeTypeOK, Timer, TimerDue, TimerUnblocks, chainVars
  <2>7. ASSUME WorkerTake PROVE HedgeTypeOK'
    <3>1. Head(queue) \in Hedge /\ Tail(queue) \in Seq(Hedge)
          /\ Len(Tail(queue)) <= Capacity
      BY <2>7, HedgeAssumption DEF HedgeTypeOK, WorkerTake, chainVars
    <3>2. QED
      BY <2>7, <3>1 DEF HedgeTypeOK, WorkerTake, chainVars
  <2>8. ASSUME WorkerMerge PROVE HedgeTypeOK'
    BY <2>8 DEF HedgeTypeOK, WorkerMerge, chainVars
  <2>9. ASSUME UNCHANGED hedgeVars PROVE HedgeTypeOK'
    BY <2>9 DEF HedgeTypeOK, hedgeVars, chainVars
  <2>10. QED
    BY <2>1, <2>2, <2>3, <2>4, <2>5, <2>6, <2>7, <2>8, <2>9, NextCases
<1>3. QED
  BY <1>1, <1>2, PTL DEF HedgeSpec
-----------------------------------------------------------------------------
(* Whatever the listener knows or is about to learn has happened on the    *)
(* chain, and every task, wherever it is, is for a pair mined on both      *)
(* legs.                                                                   *)
KnownIsMined ==
  /\ \A h \in Hedge : mined[h] \subseteq chain[h]
  /\ \A i \in 1..Len(stream) : stream[i][2] \in chain[stream[i][1]]
  /\ handler # NoHedge => chain[handler] = Leg
  /\ \A i \in 1..Len(queue) : chain[queue[i]] = Leg
  /\ worker # NoHedge => chain[worker] = Leg
  /\ \A h \in Hedge : merged[h] > 0 => chain[h] = Leg

LEMMA KnownIsEnough ==
  ASSUME HedgeTypeOK, KnownIsMined
  PROVE  MergeSound
<1> SUFFICES ASSUME NEW h \in Hedge, Asked(h) > 0 PROVE chain[h] = Leg
  BY DEF MergeSound
<1> DEFINE Q == {i \in DOMAIN queue : queue[i] = h}
<1>1. CASE Q = {}
  <2>1. Cardinality(Q) = 0
    BY <1>1, FS_EmptySet
  <2>2. merged[h] \in Nat
    BY DEF HedgeTypeOK
  <2>3. merged[h] > 0 \/ handler = h \/ worker = h
    BY <2>1, <2>2 DEF Asked, Count
  <2>4. QED
    BY <2>3, HedgeAssumption DEF KnownIsMined
<1>2. CASE Q # {}
  <2>1. PICK i \in DOMAIN queue : queue[i] = h
    BY <1>2
  <2>2. i \in 1..Len(queue)
    BY <2>1 DEF HedgeTypeOK
  <2>3. QED
    BY <2>1, <2>2 DEF KnownIsMined
<1>3. QED
  BY <1>1, <1>2

(* The chain only ever gains legs, so a pair once complete stays so.       *)
LEMMA MineKeepsComplete ==
  ASSUME HedgeTypeOK, NEW h \in Hedge, NEW leg \in Leg, Mine(h, leg)
  PROVE  /\ chain' = [chain EXCEPT ![h] = @ \cup {leg}]
         /\ \A g \in Hedge : chain[g] \subseteq chain'[g] /\ chain'[g] \subseteq Leg
  BY DEF Mine, HedgeTypeOK, chainVars

LEMMA KnownCorrect == HedgeSpec => []KnownIsMined
<1>1. HedgeInit => KnownIsMined
  BY HedgeAssumption DEF HedgeInit, KnownIsMined
<1>2. HedgeTypeOK /\ KnownIsMined /\ [HedgeNext]_hedgeVars => KnownIsMined'
  <2> SUFFICES ASSUME HedgeTypeOK, KnownIsMined, [HedgeNext]_hedgeVars PROVE KnownIsMined'
    OBVIOUS
  <2>1. ASSUME NEW h \in Hedge, NEW leg \in Leg, Mine(h, leg) PROVE KnownIsMined'
    <3>1. \A g \in Hedge : chain[g] \subseteq chain'[g] /\ chain'[g] \subseteq Leg
      BY <2>1, MineKeepsComplete
    <3>2. \A g \in Hedge : chain[g] = Leg => chain'[g] = Leg
      BY <3>1
    <3>3. \A i \in 1..Len(stream') :
             \/ stream'[i] = <<h, leg>>
             \/ i \in 1..Len(stream) /\ stream'[i] = stream[i]
      BY <2>1 DEF Mine, HedgeTypeOK, chainVars
    <3>4. leg \in chain'[h]
      BY <2>1 DEF Mine, HedgeTypeOK, chainVars
    <3>5. \A i \in 1..Len(stream) : stream[i][1] \in Hedge
      BY DEF HedgeTypeOK
    <3>6. \A i \in 1..Len(stream') : stream'[i][2] \in chain'[stream'[i][1]]
      BY <3>1, <3>3, <3>4, <3>5 DEF KnownIsMined
    <3>7. \A i \in 1..Len(queue) : queue[i] \in Hedge
      BY DEF HedgeTypeOK
    <3>8. UNCHANGED <<mined, handler, queue, worker, merged>>
      BY <2>1 DEF Mine, chainVars
    <3>9. QED
      BY <3>1, <3>2, <3>6, <3>7, <3>8 DEF KnownIsMined, HedgeTypeOK
  <2>2. ASSUME CloseStream PROVE KnownIsMined'
    BY <2>2 DEF CloseStream, KnownIsMined, chainVars
  <2>3. ASSUME NEW h \in Hedge, NEW leg \in Leg, NextMined(h, leg),
               Outcome(h)
        PROVE  KnownIsMined'
    <3>1. leg \in chain[h]
      <4>1. 1 \in 1..Len(stream) /\ stream[1] = <<h, leg>>
        BY <2>3 DEF NextMined, HedgeTypeOK, chainVars
      <4>2. QED
        BY <4>1 DEF KnownIsMined
    <3>2. \A g \in Hedge : mined'[g] \subseteq chain[g]
      BY <2>3, <3>1 DEF NextMined, HedgeTypeOK, KnownIsMined, chainVars
    <3>3. \A i \in 1..Len(stream') : i + 1 \in 1..Len(stream) /\ stream'[i] = stream[i + 1]
      BY <2>3 DEF NextMined, HedgeTypeOK, chainVars
    <3>4. mined'[h] = Leg => chain[h] = Leg
      BY <2>3, <3>2 DEF HedgeTypeOK
    <3>5. UNCHANGED <<chain, worker, merged>> /\ handler = NoHedge
      BY <2>3 DEF NextMined, chainVars
    <3>6. CASE UNCHANGED <<handler, queue>>
      BY <3>2, <3>3, <3>5, <3>6 DEF KnownIsMined
    <3>7. CASE mined'[h] = Leg /\ Sent(h)
      <4>1. \A i \in 1..Len(queue') :
               queue'[i] = h \/ (i \in 1..Len(queue) /\ queue'[i] = queue[i])
        <5>1. queue' = Append(queue, h) /\ queue \in Seq(Hedge)
          BY <3>7 DEF Sent, HedgeTypeOK
        <5>2. QED
          BY <5>1
      <4>2. \A i \in 1..Len(queue') : chain[queue'[i]] = Leg
        BY <3>4, <3>7, <4>1 DEF KnownIsMined
      <4>3. QED
        BY <3>2, <3>3, <3>5, <3>7, <4>2 DEF KnownIsMined, Sent
    <3>8. CASE mined'[h] = Leg /\ Suspended(h)
      BY <3>2, <3>3, <3>4, <3>5, <3>8 DEF KnownIsMined, Suspended
    <3>9. QED
      BY <2>3, <3>6, <3>7, <3>8 DEF Outcome
  <2>4. ASSUME QueueMerge PROVE KnownIsMined'
    <3>a. queue' = Append(queue, handler) /\ queue \in Seq(Hedge)
      BY <2>4 DEF QueueMerge, HedgeTypeOK
    <3>1. \A i \in 1..Len(queue') :
             queue'[i] = handler \/ (i \in 1..Len(queue) /\ queue'[i] = queue[i])
      BY <3>a
    <3>2. QED
      BY <2>4, <3>1 DEF QueueMerge, KnownIsMined, chainVars
  <2>5. ASSUME WorkerTake PROVE KnownIsMined'
    <3>1. 1 \in 1..Len(queue) /\ worker' = queue[1]
      BY <2>5 DEF WorkerTake, HedgeTypeOK, chainVars
    <3>2. \A i \in 1..Len(queue') : i + 1 \in 1..Len(queue) /\ queue'[i] = queue[i + 1]
      BY <2>5 DEF WorkerTake, HedgeTypeOK, chainVars
    <3>3. QED
      BY <2>5, <3>1, <3>2 DEF WorkerTake, KnownIsMined, chainVars
  <2>6. ASSUME WorkerMerge PROVE KnownIsMined'
    BY <2>6 DEF WorkerMerge, KnownIsMined, HedgeTypeOK, chainVars
  <2>7. ASSUME UNCHANGED <<chain, stream, mined, handler, queue, worker, merged>>
        PROVE  KnownIsMined'
    BY <2>7 DEF KnownIsMined
  <2>8. ASSUME NEW h \in Hedge, HandleMakerMined(h) PROVE KnownIsMined'
    BY <2>3, <2>8, MinedOutcome DEF Outcome, Leg
  <2>9. ASSUME NEW h \in Hedge, HandleTakerMined(h) PROVE KnownIsMined'
    <3>1. NextMined(h, "taker") /\ Outcome(h) /\ "taker" \in Leg
      BY <2>9, MinedOutcome DEF Leg
    <3>2. QED
      BY <2>3, <3>1
  <2>10. QED
    BY <2>1, <2>2, <2>4, <2>5, <2>6, <2>7, <2>8, <2>9, NextCases
       DEF Record, Timer, TimerDue, TimerUnblocks, hedgeVars, chainVars
<1>3. QED
  BY <1>1, <1>2, TypeCorrect, PTL DEF HedgeSpec

(* The relayer is asked to merge a pair only when both legs are mined.     *)
THEOREM MergeCorrect == HedgeSpec => []MergeSound
<1>1. HedgeTypeOK /\ KnownIsMined => MergeSound
  BY KnownIsEnough
<1>2. QED
  BY <1>1, TypeCorrect, KnownCorrect, PTL
-----------------------------------------------------------------------------
(* How many places of a sequence hold an element.                          *)
LEMMA CountType ==
  ASSUME NEW S, NEW s \in Seq(S), NEW e
  PROVE  IsFiniteSet({i \in DOMAIN s : s[i] = e}) /\ Count(s, e) \in Nat
<1>1. DOMAIN s = 1..Len(s) /\ Len(s) \in Int
  OBVIOUS
<1>2. IsFiniteSet(1..Len(s))
  BY <1>1, FS_Interval
<1>3. IsFiniteSet({i \in DOMAIN s : s[i] = e})
  BY <1>1, <1>2, FS_Subset
<1>4. QED
  BY <1>3, FS_CardinalityType DEF Count

LEMMA CountAppend ==
  ASSUME NEW S, NEW s \in Seq(S), NEW x \in S, NEW e
  PROVE  Count(Append(s, x), e) = Count(s, e) + (IF x = e THEN 1 ELSE 0)
<1> DEFINE A == {i \in DOMAIN s : s[i] = e}
           B == {i \in DOMAIN Append(s, x) : Append(s, x)[i] = e}
           n == Len(s) + 1
<1>1. /\ DOMAIN s = 1..Len(s) /\ Len(s) \in Nat /\ DOMAIN Append(s, x) = 1..n
      /\ Append(s, x)[n] = x /\ \A i \in 1..Len(s) : Append(s, x)[i] = s[i]
  OBVIOUS
<1>2. /\ Count(s, e) = Cardinality(A) /\ Count(Append(s, x), e) = Cardinality(B)
  BY DEF Count
<1>3. IsFiniteSet(A) /\ Count(s, e) \in Nat
  BY CountType
<1>4. n \notin A /\ (x = e => B = A \cup {n}) /\ (x # e => B = A)
  BY <1>1
<1> HIDE DEF A, B, n
<1>5. CASE x = e
  <2>1. Cardinality(B) = Cardinality(A) + 1
    BY <1>3, <1>4, <1>5, FS_AddElement
  <2>2. QED
    BY <1>2, <1>5, <2>1
<1>6. CASE x # e
  BY <1>2, <1>3, <1>4, <1>6
<1>7. QED
  BY <1>5, <1>6

LEMMA CountTail ==
  ASSUME NEW S, NEW s \in Seq(S), s # <<>>, NEW e
  PROVE  Count(s, e) = Count(Tail(s), e) + (IF Head(s) = e THEN 1 ELSE 0)
<1> DEFINE A == {i \in DOMAIN Tail(s) : Tail(s)[i] = e}
           B == {i \in DOMAIN s : s[i] = e}
           C == B \ {1}
           f == [i \in A |-> i + 1]
<1>1. /\ DOMAIN s = 1..Len(s) /\ Len(s) \in Nat \ {0} /\ s[1] = Head(s)
      /\ Tail(s) \in Seq(S) /\ DOMAIN Tail(s) = 1..(Len(s) - 1)
      /\ \A i \in 1..(Len(s) - 1) : Tail(s)[i] = s[i + 1]
  BY HeadTailProperties
<1>2. Count(Tail(s), e) = Cardinality(A) /\ Count(s, e) = Cardinality(B)
  BY DEF Count
<1>3. IsFiniteSet(A) /\ Count(Tail(s), e) \in Nat
  <2>1. Tail(s) \in Seq(S)
    BY <1>1
  <2>2. QED
    BY <2>1, CountType
<1>4. IsFiniteSet(B) /\ Count(s, e) \in Nat
  BY CountType
<1>5. /\ \A i \in A : i \in Int /\ i + 1 \in C
      /\ \A j \in C : j \in Int /\ j - 1 \in A
      /\ 1 \in B <=> Head(s) = e
  BY <1>1
<1>6. f \in Bijection(A, C)
  <2> HIDE DEF A, C
  <2>1. f \in [A -> C]
    BY <1>5
  <2>2. \A i, j \in A : f[i] = f[j] => i = j
    BY <1>5
  <2>3. \A j \in C : \E i \in A : f[i] = j
    <3>1. TAKE j \in C
    <3>2. j - 1 \in A /\ f[j - 1] = j
      BY <1>5
    <3>3. QED
      BY <3>2
  <2> HIDE DEF f
  <2>4. QED
    BY <2>1, <2>2, <2>3 DEF Bijection, Injection, Surjection, IsInjective
<1> HIDE DEF A, B, f
<1>7. Cardinality(C) = Cardinality(A)
  BY <1>3, <1>6, FS_Bijection DEF ExistsBijection
<1>8. Cardinality(C) = IF 1 \in B THEN Cardinality(B) - 1 ELSE Cardinality(B)
  BY <1>4, FS_RemoveElement
<1>9. QED
  BY <1>2, <1>3, <1>4, <1>5, <1>7, <1>8

LEMMA CountEmpty == ASSUME NEW e PROVE Count(<<>>, e) = 0
<1>1. {i \in DOMAIN <<>> : <<>>[i] = e} = {}
  OBVIOUS
<1>2. QED
  BY <1>1, FS_EmptySet DEF Count

(* The merges of h that are asked for and those its events under way can   *)
(* still lead to.                                                          *)
Taker(h) == <<h, "taker">>
Owed(h)  == Asked(h) + Count(stream, Taker(h))

LEMMA OwedType ==
  ASSUME HedgeTypeOK, NEW h \in Hedge
  PROVE  /\ Count(queue, h) \in Nat /\ Count(stream, Taker(h)) \in Nat
         /\ merged[h] \in Nat /\ told[h]["taker"] \in Nat
<1>1. queue \in Seq(Hedge) /\ stream \in Seq(Hedge \X Leg)
  BY DEF HedgeTypeOK
<1>2. Count(queue, h) \in Nat /\ Count(stream, Taker(h)) \in Nat
  BY <1>1, CountType
<1>3. QED
  BY <1>2 DEF HedgeTypeOK, Leg

(* A stage hands a merge on, so it is asked for as often as before.        *)
LEMMA AskedHandedOn ==
  ASSUME HedgeTypeOK, QueueMerge \/ WorkerTake \/ WorkerMerge, NEW h \in Hedge
  PROVE  Asked(h)' = Asked(h)
<1>1. h # NoHedge /\ Count(queue, h) \in Nat /\ merged[h] \in Nat
  BY HedgeAssumption, OwedType
<1>2. CASE QueueMerge
  <2>1. /\ handler \in Hedge /\ handler' = NoHedge /\ queue' = Append(queue, handler)
        /\ UNCHANGED <<worker, merged>> /\ queue \in Seq(Hedge)
    BY <1>2 DEF QueueMerge, HedgeTypeOK, chainVars
  <2>2. Count(queue', h) = Count(queue, h) + (IF handler = h THEN 1 ELSE 0)
    BY <2>1, CountAppend
  <2>3. QED
    BY <1>1, <2>1, <2>2 DEF Asked
<1>3. CASE WorkerTake
  <2>1. /\ worker = NoHedge /\ worker' = Head(queue) /\ queue' = Tail(queue)
        /\ queue # <<>> /\ UNCHANGED <<handler, merged>> /\ queue \in Seq(Hedge)
    BY <1>3 DEF WorkerTake, HedgeTypeOK, chainVars
  <2>2. Count(queue, h) = Count(queue', h) + (IF worker' = h THEN 1 ELSE 0)
    BY <2>1, CountTail
  <2>3. Count(queue', h) \in Nat
    <3>1. queue' \in Seq(Hedge)
      BY <2>1, HeadTailProperties
    <3>2. QED
      BY <3>1, CountType
  <2>4. QED
    BY <1>1, <2>1, <2>2, <2>3 DEF Asked
<1>4. CASE WorkerMerge
  <2>1. /\ worker \in Hedge /\ worker' = NoHedge
        /\ merged' = [merged EXCEPT ![worker] = @ + 1]
        /\ UNCHANGED <<handler, queue>>
    BY <1>4 DEF WorkerMerge, HedgeTypeOK, chainVars
  <2>2. merged'[h] = merged[h] + (IF worker = h THEN 1 ELSE 0)
    BY <2>1, <1>1 DEF HedgeTypeOK
  <2>3. Count(queue', h) = Count(queue, h)
    BY <2>1 DEF Count
  <2>4. QED
    BY <1>1, <2>1, <2>2, <2>3 DEF Asked
<1>5. QED
  BY <1>2, <1>3, <1>4

(* What is not asked for meanwhile.                                        *)
LEMMA AskedKept ==
  ASSUME UNCHANGED <<handler, queue, worker, merged>>, NEW h \in Hedge
  PROVE  Asked(h)' = Asked(h)
  BY DEF Asked, Count

LEMMA OwedStep ==
  ASSUME HedgeTypeOK, MergesAnswerEvents, [HedgeNext]_hedgeVars, NEW g \in Hedge
  PROVE  Owed(g)' <= told'[g]["taker"]
<1>0. /\ Asked(g) \in Nat /\ Count(stream, Taker(g)) \in Nat /\ told[g]["taker"] \in Nat
      /\ Owed(g) <= told[g]["taker"] /\ g # NoHedge
  BY OwedType, HedgeAssumption DEF MergesAnswerEvents, Owed, Asked, Taker
<1>1. ASSUME NEW h \in Hedge, NEW leg \in Leg, Mine(h, leg)
      PROVE  Owed(g)' <= told'[g]["taker"]
  <2>1. UNCHANGED <<handler, queue, worker, merged>>
    BY <1>1 DEF Mine, chainVars
  <2>2. Asked(g)' = Asked(g)
    BY <2>1, AskedKept
  <2>3. told'[g]["taker"] = told[g]["taker"] + (IF <<h, leg>> = Taker(g) THEN 1 ELSE 0)
    BY <1>1 DEF Mine, HedgeTypeOK, Leg, Taker, chainVars
  <2>4. CASE ~listening
    <3>1. Count(stream', Taker(g)) = Count(stream, Taker(g))
      BY <1>1, <2>4 DEF Mine, Count, Taker, chainVars
    <3>2. QED
      BY <1>0, <2>2, <2>3, <3>1 DEF Owed
  <2>5. CASE listening
    <3>1. stream' = Append(stream, <<h, leg>>) /\ stream \in Seq(Hedge \X Leg)
          /\ <<h, leg>> \in Hedge \X Leg
      BY <1>1, <2>5 DEF Mine, HedgeTypeOK, chainVars
    <3>2. Count(stream', Taker(g)) = Count(stream, Taker(g))
                                       + (IF <<h, leg>> = Taker(g) THEN 1 ELSE 0)
      BY <3>1, CountAppend
    <3>3. QED
      BY <1>0, <2>2, <2>3, <3>2 DEF Owed
  <2>6. QED
    BY <2>4, <2>5
<1>2. ASSUME CloseStream PROVE Owed(g)' <= told'[g]["taker"]
  <2>1. UNCHANGED <<handler, queue, worker, merged, told>> /\ stream' = <<>>
    BY <1>2 DEF CloseStream, chainVars
  <2>2. Asked(g)' = Asked(g) /\ Count(stream', Taker(g)) = 0
    <3>1. Count(stream', Taker(g)) = Count(<<>>, Taker(g))
      BY <2>1 DEF Count, Taker
    <3>2. QED
      BY <2>1, <3>1, AskedKept, CountEmpty
  <2>3. QED
    BY <1>0, <2>1, <2>2 DEF Owed
<1>3. ASSUME NEW h \in Hedge, NEW leg \in Leg, NextMined(h, leg),
             UNCHANGED <<handler, queue>> \/ (leg = "taker" /\ (Sent(h) \/ Suspended(h)))
      PROVE  Owed(g)' <= told'[g]["taker"]
  <2>1. /\ handler = NoHedge /\ stream # <<>> /\ Head(stream) = <<h, leg>>
        /\ stream' = Tail(stream) /\ UNCHANGED <<told, worker, merged>>
        /\ stream \in Seq(Hedge \X Leg) /\ queue \in Seq(Hedge)
    BY <1>3 DEF NextMined, HedgeTypeOK, chainVars
  <2>2. Count(stream, Taker(g)) = Count(stream', Taker(g))
                                    + (IF <<h, leg>> = Taker(g) THEN 1 ELSE 0)
    BY <2>1, CountTail
  <2>3. Count(stream', Taker(g)) \in Nat
    <3>1. stream' \in Seq(Hedge \X Leg)
      BY <2>1, HeadTailProperties
    <3>2. QED
      BY <3>1, CountType
  <2>4. merged[g] \in Nat /\ Count(queue, g) \in Nat
    BY OwedType
  <2>5. CASE UNCHANGED <<handler, queue>>
    <3>1. Asked(g)' = Asked(g)
      BY <2>1, <2>5, AskedKept
    <3>2. QED
      BY <1>0, <2>1, <2>2, <2>3, <3>1 DEF Owed
  <2>6. CASE leg = "taker" /\ Sent(h)
    <3>1. Count(queue', g) = Count(queue, g) + (IF h = g THEN 1 ELSE 0)
      BY <2>1, <2>6, CountAppend DEF Sent
    <3>2. Asked(g)' = Asked(g) + (IF h = g THEN 1 ELSE 0)
      <4>1. /\ handler = NoHedge /\ handler' = NoHedge /\ g # NoHedge
            /\ worker' = worker /\ merged' = merged
        BY <1>0, <2>1, <2>6 DEF Sent
      <4>2. QED
        BY <2>4, <3>1, <4>1 DEF Asked
    <3>3. h = g <=> <<h, leg>> = Taker(g)
      BY <2>6 DEF Taker
    <3>4. QED
      BY <1>0, <2>1, <2>2, <2>3, <3>2, <3>3 DEF Owed
  <2>7. CASE leg = "taker" /\ Suspended(h)
    <3>1. Count(queue', g) = Count(queue, g)
      BY <2>7 DEF Suspended
    <3>2. Asked(g)' = Asked(g) + (IF h = g THEN 1 ELSE 0)
      BY <1>0, <2>1, <2>4, <2>7, <3>1 DEF Asked, Suspended
    <3>3. h = g <=> <<h, leg>> = Taker(g)
      BY <2>7 DEF Taker
    <3>4. QED
      BY <1>0, <2>1, <2>2, <2>3, <3>2, <3>3 DEF Owed
  <2>8. QED
    BY <1>3, <2>5, <2>6, <2>7
<1>4. ASSUME QueueMerge \/ WorkerTake \/ WorkerMerge PROVE Owed(g)' <= told'[g]["taker"]
  <2>1. Asked(g)' = Asked(g)
    BY <1>4, AskedHandedOn
  <2>2. UNCHANGED <<stream, told>>
    BY <1>4 DEF QueueMerge, WorkerTake, WorkerMerge, chainVars
  <2>3. Count(stream', Taker(g)) = Count(stream, Taker(g))
    BY <2>2 DEF Count, Taker
  <2>4. QED
    BY <1>0, <2>1, <2>2, <2>3 DEF Owed
<1>5. ASSUME UNCHANGED <<stream, told, handler, queue, worker, merged>>
      PROVE  Owed(g)' <= told'[g]["taker"]
  <2>1. Asked(g)' = Asked(g)
    BY <1>5, AskedKept
  <2>2. Count(stream', Taker(g)) = Count(stream, Taker(g))
    BY <1>5 DEF Count, Taker
  <2>3. QED
    BY <1>0, <1>5, <2>1, <2>2 DEF Owed
<1>6. ASSUME NEW h \in Hedge, HandleMakerMined(h) PROVE Owed(g)' <= told'[g]["taker"]
  BY <1>3, <1>6, MinedOutcome DEF Leg
<1>7. ASSUME NEW h \in Hedge, HandleTakerMined(h) PROVE Owed(g)' <= told'[g]["taker"]
  <2>1. /\ NextMined(h, "taker") /\ "taker" \in Leg
        /\ UNCHANGED <<handler, queue>> \/ Sent(h) \/ Suspended(h)
    BY <1>7, MinedOutcome DEF Outcome, Leg
  <2>2. QED
    BY <1>3, <2>1
<1>8. QED
  BY <1>1, <1>2, <1>4, <1>5, <1>6, <1>7, NextCases
     DEF Record, Timer, TimerDue, TimerUnblocks, hedgeVars, chainVars

(* Every merge answers a MINED event of the taker of its own, wherever the *)
(* task has got to: no stage between the stream and the relayer doubles    *)
(* one (user_ws.rs:101-118, merge_worker.rs:35-77).                        *)
THEOREM MergesAnswered == HedgeSpec => []MergesAnswerEvents
<1>1. HedgeInit => MergesAnswerEvents
  <2> SUFFICES ASSUME HedgeInit, NEW h \in Hedge
               PROVE  Asked(h) + Count(stream, <<h, "taker">>) <= told[h]["taker"]
    BY DEF MergesAnswerEvents
  <2>1. /\ stream = <<>> /\ queue = <<>> /\ handler # h /\ worker # h /\ merged[h] = 0
        /\ told[h]["taker"] = 0
    BY HedgeAssumption DEF HedgeInit, Leg
  <2>2. Count(stream, <<h, "taker">>) = 0 /\ Count(queue, h) = 0
    BY <2>1, CountEmpty
  <2>3. QED
    BY <2>1, <2>2 DEF Asked
<1>2. HedgeTypeOK /\ MergesAnswerEvents /\ [HedgeNext]_hedgeVars => MergesAnswerEvents'
  BY OwedStep DEF MergesAnswerEvents, Owed, Taker
<1>3. QED
  BY <1>1, <1>2, TypeCorrect, PTL DEF HedgeSpec
-----------------------------------------------------------------------------
(* Three places, one queue.  What the worker has, then the channel, then   *)
(* what the listener has: only taking on and burning change the whole.     *)

LEMMA IfAnyType ==
  ASSUME NEW h \in Hedge \cup {NoHedge}
  PROVE  IfAny(h) \in Seq(Hedge) /\ (h # NoHedge => IfAny(h) = <<h>>)
         /\ IfAny(NoHedge) = <<>>
  BY HedgeAssumption DEF IfAny

LEMMA FirstAndRest ==
  ASSUME NEW S, NEW e \in S, NEW t \in Seq(S)
  PROVE  <<e>> \o t # <<>> /\ Head(<<e>> \o t) = e /\ Tail(<<e>> \o t) = t
<1> DEFINE s == <<e>> \o t
<1>1. s \in Seq(S) /\ Len(s) = Len(t) + 1 /\ Len(t) \in Nat
      /\ s[1] = e /\ \A i \in 1..Len(t) : s[i + 1] = t[i]
  BY ConcatProperties
<1> HIDE DEF s
<1>2. s # <<>>
  BY <1>1
<1>3. Tail(s) \in Seq(S) /\ Len(Tail(s)) = Len(t) /\ \A i \in 1..Len(t) : Tail(s)[i] = t[i]
  BY <1>1, <1>2, HeadTailProperties
<1>4. Tail(s) = t
  BY <1>3, SeqEqual
<1>5. Head(s) = e
  BY <1>1
<1>6. QED
  BY <1>2, <1>4, <1>5 DEF s

LEMMA SplitHead ==
  ASSUME NEW S, NEW s \in Seq(S), s # <<>>
  PROVE  Head(s) \in S /\ Tail(s) \in Seq(S) /\ <<Head(s)>> \o Tail(s) = s
<1>1. Head(s) \in S /\ Tail(s) \in Seq(S) /\ Len(Tail(s)) = Len(s) - 1
      /\ \A i \in 1..Len(Tail(s)) : Tail(s)[i] = s[i + 1]
  BY HeadTailProperties
<1> DEFINE t == <<Head(s)>> \o Tail(s)
<1>2. t \in Seq(S) /\ Len(t) = 1 + Len(Tail(s)) /\ t[1] = Head(s)
      /\ \A i \in 1..Len(Tail(s)) : t[i + 1] = Tail(s)[i]
  BY <1>1, ConcatProperties
<1> HIDE DEF t
<1>3. Len(s) \in Nat \ {0} /\ s[1] = Head(s)
  OBVIOUS
<1>4. ASSUME NEW i \in 1..Len(t) PROVE t[i] = s[i]
  <2>1. CASE i = 1
    BY <1>2, <1>3, <2>1
  <2>2. CASE i # 1
    <3>1. i - 1 \in 1..Len(Tail(s)) /\ (i - 1) + 1 = i
      BY <1>1, <1>2, <1>3, <2>2
    <3>2. QED
      BY <1>1, <1>2, <3>1
  <2>3. QED
    BY <2>1, <2>2
<1>5. t = s
  BY <1>1, <1>2, <1>3, <1>4, SeqEqual
<1>6. QED
  BY <1>1, <1>5 DEF t

LEMMA DueType ==
  ASSUME HedgeTypeOK
  PROVE  /\ Due \in Seq(Hedge)
         /\ Due = IfAny(worker) \o (queue \o IfAny(handler))
<1> DEFINE w == IfAny(worker)
           l == IfAny(handler)
<1>1. w \in Seq(Hedge) /\ l \in Seq(Hedge) /\ queue \in Seq(Hedge)
  BY IfAnyType DEF HedgeTypeOK
<1> HIDE DEF w, l
<1>2. w \o queue \in Seq(Hedge) /\ (w \o queue) \o l \in Seq(Hedge)
  BY <1>1, ConcatProperties
<1>3. (w \o queue) \o l = w \o (queue \o l)
  BY <1>1, ConcatAssociative
<1>4. QED
  BY <1>2, <1>3 DEF Due, w, l

(* The stages hand a pair on without changing the whole.                   *)
LEMMA HandOver ==
  ASSUME HedgeTypeOK
  PROVE  (QueueMerge => Due' = Due) /\ (WorkerTake => Due' = Due)
<1>0. queue \in Seq(Hedge) /\ IfAny(worker) \in Seq(Hedge) /\ IfAny(handler) \in Seq(Hedge)
      /\ IfAny(NoHedge) = <<>> /\ <<>> \in Seq(Hedge)
  BY IfAnyType DEF HedgeTypeOK
<1>1. ASSUME QueueMerge PROVE Due' = Due
  <2>1. /\ handler \in Hedge /\ IfAny(handler) = <<handler>> /\ handler' = NoHedge
        /\ worker' = worker /\ queue' = queue \o <<handler>>
    BY <1>1, IfAnyType, AppendIsConcat DEF QueueMerge, HedgeTypeOK, chainVars
  <2>2. queue' \in Seq(Hedge)
    BY <1>0, <2>1, ConcatProperties
  <2>3. Due' = (IfAny(worker) \o queue') \o <<>>
    BY <1>0, <2>1 DEF Due
  <2>4. (IfAny(worker) \o queue') \o <<>> = IfAny(worker) \o queue'
    <3>1. IfAny(worker) \o queue' \in Seq(Hedge)
      BY <1>0, <2>2, ConcatProperties
    <3>2. QED
      BY <3>1, ConcatEmptySeq
  <2>5. Due = IfAny(worker) \o (queue \o <<handler>>)
    BY <2>1, DueType
  <2>6. QED
    BY <2>1, <2>3, <2>4, <2>5
<1>2. ASSUME WorkerTake PROVE Due' = Due
  <2>1. queue # <<>> /\ worker = NoHedge /\ worker' = Head(queue) /\ queue' = Tail(queue)
        /\ handler' = handler
    BY <1>2 DEF WorkerTake, chainVars
  <2>2. /\ Head(queue) \in Hedge /\ Tail(queue) \in Seq(Hedge)
        /\ <<Head(queue)>> \o Tail(queue) = queue
    BY <1>0, <2>1, SplitHead
  <2>3. IfAny(worker') = <<Head(queue)>>
    BY <2>1, <2>2, HedgeAssumption DEF IfAny
  <2>4. Due' = (<<Head(queue)>> \o Tail(queue)) \o IfAny(handler)
    BY <2>1, <2>3 DEF Due
  <2>5. <<>> \o queue = queue
    BY <1>0, ConcatEmptySeq
  <2>6. Due = queue \o IfAny(handler)
    BY <1>0, <2>1, <2>5 DEF Due
  <2>7. QED
    BY <2>2, <2>4, <2>6
<1>3. QED
  BY <1>1, <1>2

(* A taker's event with both flags set appends its pair.                   *)
LEMMA TakerTakesOn ==
  ASSUME HedgeTypeOK, KnownIsMined, NEW h \in Hedge, HandleTakerMined(h)
  PROVE  Merges!TakenOn(h) \/ UNCHANGED Merges!pairVars
<1>1. /\ handler = NoHedge /\ stream # <<>> /\ Head(stream) = <<h, "taker">>
      /\ mined' = [mined EXCEPT ![h] = @ \cup {"taker"}]
      /\ UNCHANGED <<chain, worker, merged>> /\ Outcome(h) /\ queue \in Seq(Hedge)
  BY MinedOutcome DEF NextMined, chainVars, HedgeTypeOK
<1> DEFINE w == IfAny(worker)
<1>2. /\ w \in Seq(Hedge) /\ w \o queue \in Seq(Hedge) /\ IfAny(handler) = <<>>
      /\ IfAny(worker') = w /\ Due = w \o queue
  <2>1. w \in Seq(Hedge) /\ IfAny(handler) = <<>> /\ IfAny(worker') = w
    BY <1>1, IfAnyType DEF HedgeTypeOK
  <2>2. w \o queue \in Seq(Hedge)
    BY <1>1, <2>1, ConcatProperties
  <2>3. Due = (w \o queue) \o <<>>
    BY <2>1 DEF Due
  <2>4. QED
    BY <2>1, <2>2, <2>3, ConcatEmptySeq
<1> HIDE DEF w
<1>3. CASE UNCHANGED <<handler, queue>>
  BY <1>1, <1>3 DEF Due, Merges!pairVars
<1>4. CASE mined'[h] = Leg /\ (Sent(h) \/ Suspended(h))
  <2>1. chain[h] = Leg
    <3>1. 1 \in 1..Len(stream) /\ stream[1] = <<h, "taker">>
      BY <1>1 DEF HedgeTypeOK
    <3>2. mined[h] \subseteq chain[h] /\ "taker" \in chain[h] /\ chain[h] \subseteq Leg
      BY <3>1 DEF KnownIsMined, HedgeTypeOK
    <3>3. mined[h] \cup {"taker"} = Leg
      BY <1>1, <1>4 DEF HedgeTypeOK
    <3>4. QED
      BY <3>2, <3>3
  <2>2. Due' = (w \o queue) \o <<h>>
    <3>1. CASE Sent(h)
      <4>1. /\ queue' = queue \o <<h>> /\ IfAny(handler') = <<>>
            /\ queue \o <<h>> \in Seq(Hedge) /\ <<h>> \in Seq(Hedge)
        BY <1>1, <3>1, AppendIsConcat, IfAnyType DEF Sent
      <4>2. Due' = (w \o (queue \o <<h>>)) \o <<>>
        BY <1>2, <4>1 DEF Due
      <4>3. w \o (queue \o <<h>>) \in Seq(Hedge)
        BY <1>2, <4>1, ConcatProperties
      <4>4. (w \o (queue \o <<h>>)) \o <<>> = w \o (queue \o <<h>>)
        BY <4>3, ConcatEmptySeq
      <4>5. w \o (queue \o <<h>>) = (w \o queue) \o <<h>>
        BY <1>1, <1>2, <4>1, ConcatAssociative
      <4>6. QED
        BY <4>2, <4>4, <4>5
    <3>2. CASE Suspended(h)
      <4>1. IfAny(handler') = <<h>> /\ queue' = queue
        BY <3>2, HedgeAssumption DEF Suspended, IfAny
      <4>2. QED
        BY <1>2, <4>1 DEF Due
    <3>3. QED
      BY <1>4, <3>1, <3>2
  <2>3. Due' = Append(Due, h)
    BY <1>2, <2>2, AppendIsConcat
  <2>4. QED
    BY <1>1, <2>1, <2>3 DEF Merges!TakenOn, Merges!BothLegs, Leg
<1>5. QED
  BY <1>1, <1>3, <1>4 DEF Outcome

(* The worker burns the oldest.                                            *)
LEMMA WorkerBurns ==
  ASSUME HedgeTypeOK, WorkerMerge
  PROVE  Merges!Burn
<1>1. /\ worker \in Hedge /\ worker' = NoHedge
      /\ merged' = [merged EXCEPT ![worker] = @ + 1]
      /\ UNCHANGED <<chain, queue, handler>>
  BY DEF WorkerMerge, HedgeTypeOK, chainVars
<1> DEFINE v == queue \o IfAny(handler)
<1>2. /\ queue \in Seq(Hedge) /\ v \in Seq(Hedge)
      /\ IfAny(worker) = <<worker>> /\ IfAny(worker') = <<>>
  <2>1. queue \in Seq(Hedge) /\ IfAny(handler) \in Seq(Hedge)
    BY IfAnyType DEF HedgeTypeOK
  <2>2. QED
    BY <1>1, <2>1, IfAnyType, HedgeAssumption, ConcatProperties
<1>3. Due = <<worker>> \o v
  BY <1>2, DueType
<1>4. Due' = v
  <2>1. Due' = (<<>> \o queue) \o IfAny(handler)
    BY <1>1, <1>2 DEF Due
  <2>2. QED
    BY <1>2, <2>1, ConcatEmptySeq
<1> HIDE DEF v
<1>5. Due # <<>> /\ Head(Due) = worker /\ Tail(Due) = v
  BY <1>1, <1>2, <1>3, FirstAndRest
<1>6. QED
  BY <1>1, <1>4, <1>5 DEF Merges!Burn

(* Listener, channel and worker are one queue of merges: what is taken on  *)
(* is burnt, once, and in that order (user_ws.rs:101-118,                  *)
(* merge_worker.rs:35-77).                                                 *)
THEOREM MergesRefined == HedgeSpec => ImplementsPairMerges
<1>1. HedgeInit => Merges!PairInit
  BY HedgeAssumption DEF HedgeInit, Merges!PairInit, Due, IfAny
<1>2. HedgeTypeOK /\ KnownIsMined /\ [HedgeNext]_hedgeVars
        => [Merges!PairNext]_(Merges!pairVars)
  <2> SUFFICES ASSUME HedgeTypeOK, KnownIsMined, [HedgeNext]_hedgeVars
               PROVE  Merges!PairNext \/ UNCHANGED Merges!pairVars
    OBVIOUS
  <2>1. ASSUME UNCHANGED <<chain, handler, queue, worker, merged>>
        PROVE  UNCHANGED Merges!pairVars
    BY <2>1 DEF Merges!pairVars, Due
  <2>2. ASSUME NEW h \in Hedge, NEW leg \in Leg, Mine(h, leg)
        PROVE  Merges!PairNext
    <3>1. Due' = Due /\ merged' = merged /\ chain' = [chain EXCEPT ![h] = @ \cup {leg}]
      BY <2>2 DEF Mine, Due, chainVars
    <3>2. Merges!LegMined(h, leg)
      BY <3>1 DEF Merges!LegMined
    <3>3. QED
      BY <3>2 DEF Merges!PairNext, Merges!BothLegs, Leg
  <2>3. ASSUME NEW h \in Hedge, HandleTakerMined(h)
        PROVE  Merges!PairNext \/ UNCHANGED Merges!pairVars
    BY <2>3, TakerTakesOn DEF Merges!PairNext
  <2>4. ASSUME QueueMerge \/ WorkerTake PROVE UNCHANGED Merges!pairVars
    <3>1. Due' = Due
      BY <2>4, HandOver
    <3>2. QED
      BY <2>4, <3>1 DEF Merges!pairVars, QueueMerge, WorkerTake, chainVars
  <2>5. ASSUME WorkerMerge PROVE Merges!PairNext
    BY <2>5, WorkerBurns DEF Merges!PairNext
  <2>6. QED
    BY <2>1, <2>2, <2>3, <2>4, <2>5, NextCases
       DEF Record, CloseStream, HandleMakerMined, NextMined, Timer, TimerDue,
           TimerUnblocks, hedgeVars, chainVars
<1>3. QED
  BY <1>1, <1>2, TypeCorrect, KnownCorrect, PTL
     DEF HedgeSpec, ImplementsPairMerges, Merges!PairSpec
-----------------------------------------------------------------------------
(* What SendCompletes and TimersDecide rest on, without fairness.          *)

(* The suspended listener waits for nobody who waits for it, unless all    *)
(* threads are held by timers of its shard: a timer whose shard is free    *)
(* can end, or there is a thread on which the listener can send or the     *)
(* worker go on.                                                           *)
OnlyTimersLockUp ==
  handler # NoHedge =>
    \/ \E h \in Hedge : timer[h] = "blocked" /\ ~Held(h)
    \/ ThreadFree /\ (Len(queue) < Capacity \/ worker # NoHedge \/ queue # <<>>)
    \/ LockedUp

(* Once they are, nothing of the runtime moves any more.                   *)
LockUpIsFinal ==
  [][LockedUp => LockedUp' /\ UNCHANGED <<handler, mined, queue, worker, merged>>]_hedgeVars

(* The worker's steps before the channel is empty and nothing is under way. *)
Backlog == 2 * Len(queue) + (IF worker = NoHedge THEN 0 ELSE 1)

(* While the listener is suspended nothing is added to the channel.        *)
BacklogShrinks ==
  [][handler # NoHedge /\ handler' = handler =>
        (Backlog' = Backlog /\ ~Worker) \/ (Backlog' = Backlog - 1 /\ Worker)]_hedgeVars

Blocked == {h \in Hedge : timer[h] = "blocked"}
Behind  == {h \in Hedge : timer[h] = "blocked" /\ Held(h)}

LEMMA BlockedFinite ==
  /\ IsFiniteSet(Blocked) /\ Cardinality(Blocked) \in Nat
  /\ IsFiniteSet(Behind) /\ Cardinality(Behind) \in Nat
  /\ Cardinality(Behind) <= Cardinality(Blocked)
<1>1. Blocked \subseteq Hedge /\ Behind \subseteq Blocked
  BY DEF Blocked, Behind
<1>2. IsFiniteSet(Blocked) /\ IsFiniteSet(Behind) /\ Cardinality(Behind) <= Cardinality(Blocked)
  BY <1>1, HedgeAssumption, FS_Subset
<1>3. QED
  BY <1>2, FS_CardinalityType

LEMMA GoesOn ==
  ASSUME HedgeTypeOK
  PROVE  OnlyTimersLockUp
<1> SUFFICES ASSUME handler # NoHedge,
                    \A h \in Hedge : timer[h] = "blocked" => Held(h),
                    ~LockedUp
             PROVE  ThreadFree /\ (Len(queue) < Capacity \/ queue # <<>>)
  BY DEF OnlyTimersLockUp
<1>1. Blocked = Behind
  BY DEF Blocked, Behind
<1>2. ThreadFree
  BY <1>1, BlockedFinite, HedgeAssumption DEF LockedUp, ThreadFree, Blocked, Behind
<1>3. queue = <<>> => Len(queue) < Capacity
  BY HedgeAssumption
<1>4. QED
  BY <1>2, <1>3

LEMMA LockUpStep ==
  ASSUME HedgeTypeOK, [HedgeNext]_hedgeVars, LockedUp
  PROVE  LockedUp' /\ UNCHANGED <<handler, mined, queue, worker, merged>>
<1>1. ~ThreadFree
  BY BlockedFinite, HedgeAssumption DEF LockedUp, ThreadFree, Blocked, Behind
<1>2. handler # NoHedge
  <2>1. SUFFICES ASSUME handler = NoHedge PROVE FALSE
    OBVIOUS
  <2>2. Behind = {}
    BY <2>1 DEF Behind, Held
  <2>3. Cardinality(Behind) = 0
    BY <2>2, FS_EmptySet
  <2>4. QED
    BY <2>3, HedgeAssumption DEF LockedUp, Behind
<1>3. ASSUME UNCHANGED handler, \A h \in Hedge : timer[h] = "blocked" /\ Held(h) => timer'[h] = "blocked",
             UNCHANGED <<mined, queue, worker, merged>>
      PROVE  LockedUp'
  <2>1. Behind \subseteq Behind'
    BY <1>3 DEF Behind, Held
  <2>2. IsFiniteSet(Behind') /\ Cardinality(Behind') \in Nat
    <3>1. Behind' \subseteq Hedge
      BY DEF Behind
    <3>2. QED
      BY <3>1, HedgeAssumption, FS_Subset, FS_CardinalityType
  <2>3. Cardinality(Behind) <= Cardinality(Behind')
    BY <2>1, <2>2, FS_Subset
  <2>4. Cardinality(Behind) >= Threads /\ Cardinality(Behind) \in Nat
    BY BlockedFinite DEF LockedUp, Behind
  <2>5. Cardinality(Behind') >= Threads
    BY <2>2, <2>3, <2>4, HedgeAssumption
  <2>6. QED
    BY <2>5 DEF LockedUp, Behind
<1>4. ASSUME NEW h \in Hedge, Record(h) \/ TimerDue(h) \/ TimerUnblocks(h)
      PROVE  /\ UNCHANGED <<handler, mined, queue, worker, merged>>
             /\ \A g \in Hedge : timer[g] = "blocked" /\ Held(g) => timer'[g] = "blocked"
  BY <1>4 DEF Record, TimerDue, TimerUnblocks, Pending, HedgeTypeOK, chainVars
<1>5. ASSUME NEW h \in Hedge, NEW leg \in Leg, Mine(h, leg)
      PROVE  UNCHANGED <<handler, mined, queue, worker, merged, timer>>
  BY <1>5 DEF Mine, chainVars
<1>6. /\ ~CloseStream /\ ~QueueMerge /\ ~WorkerTake /\ ~WorkerMerge
      /\ \A h \in Hedge : ~HandleMakerMined(h) /\ ~HandleTakerMined(h)
  BY <1>1, <1>2 DEF CloseStream, QueueMerge, WorkerTake, WorkerMerge, HandleMakerMined,
                    HandleTakerMined, NextMined, chainVars
<1>7. UNCHANGED hedgeVars => UNCHANGED <<handler, mined, queue, worker, merged, timer>>
  BY DEF hedgeVars, chainVars
<1>8. /\ UNCHANGED <<handler, mined, queue, worker, merged>>
      /\ \A g \in Hedge : timer[g] = "blocked" /\ Held(g) => timer'[g] = "blocked"
  BY <1>4, <1>5, <1>6, <1>7, NextCases DEF Timer
<1>9. QED
  BY <1>3, <1>8

LEMMA BacklogStep ==
  ASSUME HedgeTypeOK, [HedgeNext]_hedgeVars, handler # NoHedge, handler' = handler
  PROVE  \/ UNCHANGED hedgeVars
         \/ Backlog' = Backlog /\ ~Worker
         \/ Backlog' = Backlog - 1 /\ Worker
<1>1. Len(queue) \in Nat
  BY DEF HedgeTypeOK
<1>2. ASSUME WorkerTake PROVE Backlog' = Backlog - 1
  <2>1. /\ worker = NoHedge /\ worker' \in Hedge
        /\ Len(queue') = Len(queue) - 1
    BY <1>2 DEF WorkerTake, HedgeTypeOK, chainVars
  <2>2. worker' # NoHedge
    BY <2>1, HedgeAssumption
  <2>3. QED
    BY <1>1, <2>1, <2>2 DEF Backlog
<1>3. ASSUME WorkerMerge PROVE Backlog' = Backlog - 1
  BY <1>1, <1>3 DEF WorkerMerge, Backlog, chainVars
<1>4. ASSUME UNCHANGED <<queue, worker>> PROVE Backlog' = Backlog /\ ~Worker
  <2>1. ~WorkerTake
    BY <1>4, HedgeAssumption DEF WorkerTake, HedgeTypeOK, chainVars
  <2>2. ~WorkerMerge
    BY <1>4 DEF WorkerMerge, chainVars
  <2>3. QED
    BY <1>4, <2>1, <2>2 DEF Backlog, Worker
<1>5. ~QueueMerge /\ ~CloseStream
      /\ \A h \in Hedge, leg \in Leg : ~NextMined(h, leg)
  BY DEF QueueMerge, CloseStream, NextMined, chainVars
<1>6. \A h \in Hedge : ~HandleMakerMined(h) /\ ~HandleTakerMined(h)
  BY <1>5 DEF HandleMakerMined, HandleTakerMined, Leg, chainVars
<1>7. QED
  BY <1>2, <1>3, <1>4, <1>5, <1>6, NextCases
     DEF Worker, Record, Mine, Timer, TimerDue, TimerUnblocks, chainVars

(* The only circular wait is that of timers which hold all threads and     *)
(* wait for the shard of the suspended listener, and nothing ends it; in   *)
(* every other state some task the listener depends on can go on, and      *)
(* after as many of the worker's steps as the backlog counts, at the       *)
(* latest, there is room to send (user_ws.rs:107-117,                      *)
(* merge_worker.rs:35-77, stop_loss.rs:34-59).                             *)
THEOREM LockUpExplained == HedgeSpec => []OnlyTimersLockUp /\ LockUpIsFinal /\ BacklogShrinks
<1> DEFINE S == handler # NoHedge /\ handler' = handler =>
                  (Backlog' = Backlog /\ ~Worker) \/ (Backlog' = Backlog - 1 /\ Worker)
           F == LockedUp => LockedUp' /\ UNCHANGED <<handler, mined, queue, worker, merged>>
<1>1. HedgeTypeOK => OnlyTimersLockUp
  BY GoesOn
<1>2. HedgeTypeOK /\ [HedgeNext]_hedgeVars => [S]_hedgeVars
  BY BacklogStep
<1>3. HedgeTypeOK /\ [HedgeNext]_hedgeVars => [F]_hedgeVars
  BY LockUpStep
<1>4. QED
  BY <1>1, <1>2, <1>3, TypeCorrect, PTL DEF HedgeSpec, BacklogShrinks, LockUpIsFinal
=============================================================================
