------------------------ MODULE ProductionGuardProofs ------------------------
(***************************************************************************)
(* Proofs about ProductionGuard, for any number of callers, any limits and *)
(* any length of the run.                                                  *)
(***************************************************************************)
EXTENDS ProductionGuard, FoldLemmas

(* The actions a step can be, listed once.                                 *)
LEMMA NextCases ==
  ASSUME [GuardNext]_guardVars
  PROVE  \/ Tick
         \/ \E c \in Caller, r \in TradeResult : Trade(c, r)
         \/ \E c \in Caller : Park(c) \/ LeaveOpen(c)
         \/ \E c \in Caller : Ask(c) \/ CheckBreak(c) \/ CheckRate(c)
         \/ \E c \in Caller : CheckSlots(c)
         \/ \E c \in Caller : CheckLoss(c)
         \/ \E c \in Caller : StampTrade(c)
         \/ \E c \in Caller : WriteSlots(c)
         \/ \E c \in Caller : AddLoss(c)
         \/ \E c \in Caller : CountTotal(c) \/ CountWin(c)
         \/ \E c \in Caller : ReleaseTrade(c)
         \/ \E c \in Caller : CircuitBreak(c)
         \/ \E c \in Caller : Stats(c)
         \/ UNCHANGED guardVars
  BY DEF GuardNext, Call, CanTrade, RecordTrade

(* A write moves the caller, lets the lock go and keeps guards and time.   *)
LEMMA WritesTyped ==
  ASSUME GuardTypeOK, NEW c \in Caller, NEW l \in Lock, NEW from, NEW to \in Place,
         Writes(c, from, l, to)
  PROVE  /\ pc' \in [Caller -> Place]
         /\ parked' \in [Lock -> Caller \cup {NoCaller}]
         /\ guards' = guards /\ now' = now
  BY DEF GuardTypeOK, Writes, Goes

(* What a counter may become, and what a call may read of it.              *)
LEMMA CountersTyped ==
  ASSUME GuardTypeOK
  PROVE  /\ now \in 0..MaxTime
         /\ [minute EXCEPT ![now] = @ + 1] \in [0..MaxTime -> Nat]
         /\ [taken EXCEPT ![now] = @ + 1] \in [0..MaxTime -> Nat]
         /\ slots + 1 \in Nat
         /\ total + 1 \in Nat /\ profitable + 1 \in Nat
<1> now \in 0..MaxTime /\ minute[now] \in Nat /\ taken[now] \in Nat
  BY DEF GuardTypeOK
<1>1. now \in 0..MaxTime /\ minute[now] + 1 \in Nat /\ taken[now] + 1 \in Nat
  OBVIOUS
<1>2. [minute EXCEPT ![now] = @ + 1] \in [0..MaxTime -> Nat]
  BY <1>1 DEF GuardTypeOK
<1>3. [taken EXCEPT ![now] = @ + 1] \in [0..MaxTime -> Nat]
  BY <1>1 DEF GuardTypeOK
<1>4. QED
  BY <1>1, <1>2, <1>3 DEF GuardTypeOK

LEMMA ReadTyped ==
  ASSUME GuardTypeOK, NEW c \in Caller, NEW k \in Nat
  PROVE  LET R == [Caller -> [total : Nat, profitable : Nat, slots : Nat]]
         IN  /\ [read EXCEPT ![c].slots = k] \in R
             /\ [read EXCEPT ![c].total = k] \in R
             /\ [read EXCEPT ![c].profitable = k] \in R
             /\ [read EXCEPT ![c] = Nothing] \in R
  BY DEF GuardTypeOK, Nothing

(* Every variable keeps its type.                                          *)
THEOREM TypeCorrect == GuardSpec => []GuardTypeOK
<1>1. GuardInit => GuardTypeOK
  BY GuardAssumption DEF GuardInit, GuardTypeOK, Place, Wants, TradeResult, Nothing, Lock
<1>2. GuardTypeOK /\ [GuardNext]_guardVars => GuardTypeOK'
  <2> SUFFICES ASSUME GuardTypeOK, [GuardNext]_guardVars PROVE GuardTypeOK'
    OBVIOUS
  <2> DEFINE Q == {"idle", "break", "slots", "loss", "allowed", "open", "s_profitable",
                   "s_again", "s_rate", "s_slots", "s_minute", "s_loss", "s_break",
                   "trip", "rate", "stamp", "count", "lose", "total", "win", "release"}
  <2>0. Place = Q
    BY DEF Place, Wants
  <2>1. ASSUME Tick PROVE GuardTypeOK'
    BY <2>1, GuardAssumption DEF GuardTypeOK, Tick, counters
  <2>2. ASSUME NEW c \in Caller, NEW r \in TradeResult, Trade(c, r) PROVE GuardTypeOK'
    BY <2>0, <2>2 DEF GuardTypeOK, Trade, Goes, counters
  <2>3. ASSUME NEW c \in Caller, Park(c) \/ LeaveOpen(c) PROVE GuardTypeOK'
    <3>1. CASE Park(c)
      <4>1. pc[c] \in DOMAIN Wants /\ Wants[pc[c]] \in Lock
        BY <3>1 DEF Park, Wants, Lock
      <4>2. QED
        BY <4>1, <3>1 DEF GuardTypeOK, Park, counters
    <3>2. CASE LeaveOpen(c)
      BY <2>0, <3>2 DEF GuardTypeOK, LeaveOpen, Goes, counters
    <3>3. QED
      BY <2>3, <3>1, <3>2
  <2>4. ASSUME NEW c \in Caller, Ask(c) \/ CheckBreak(c) \/ CheckRate(c) PROVE GuardTypeOK'
    <3>1. CASE Ask(c)
      BY <2>0, <3>1 DEF GuardTypeOK, Ask, Goes, counters
    <3>2. CASE CheckBreak(c)
      BY <2>0, <3>2 DEF GuardTypeOK, CheckBreak, Reads, Goes, counters
    <3>3. CASE CheckRate(c)
      <4>1. minute' \in [0..MaxTime -> Nat]
        BY <3>3 DEF GuardTypeOK, CheckRate, LastMinute
      <4>2. \E to \in Place : Writes(c, "rate", "minute", to)
        BY <2>0, <3>3 DEF CheckRate
      <4>3. QED
        BY <3>3, <4>1, <4>2, WritesTyped DEF GuardTypeOK, CheckRate, Lock
    <3>4. QED
      BY <2>4, <3>1, <3>2, <3>3
  <2>5. ASSUME NEW c \in Caller, CheckSlots(c) PROVE GuardTypeOK'
    BY <2>0, <2>5 DEF GuardTypeOK, CheckSlots, Reads, Goes, counters
  <2>6. ASSUME NEW c \in Caller, CheckLoss(c) PROVE GuardTypeOK'
    BY <2>0, <2>6 DEF GuardTypeOK, CheckLoss, Reads, Goes, counters
  <2>7. ASSUME NEW c \in Caller, StampTrade(c) PROVE GuardTypeOK'
    <3>1. minute' \in [0..MaxTime -> Nat] /\ taken' \in [0..MaxTime -> Nat]
      BY <2>7, CountersTyped DEF StampTrade
    <3>2. \E to \in Place : Writes(c, "stamp", "minute", to)
      BY <2>0, <2>7 DEF StampTrade
    <3>3. QED
      BY <2>7, <3>1, <3>2, WritesTyped DEF GuardTypeOK, StampTrade, Lock
  <2>8. ASSUME NEW c \in Caller, WriteSlots(c) PROVE GuardTypeOK'
    <3>1. slots' \in Nat
      BY <2>8 DEF GuardTypeOK, WriteSlots
    <3>2. \E to \in Place : Writes(c, pc[c], "slots", to)
      <4>1. CASE pc[c] = "release"
        BY <2>0, <2>8, <4>1 DEF WriteSlots
      <4>2. CASE pc[c] # "release" /\ result[c] = "lose"
        BY <2>0, <2>8, <4>2 DEF WriteSlots
      <4>3. CASE pc[c] # "release" /\ result[c] # "lose"
        BY <2>0, <2>8, <4>3 DEF WriteSlots
      <4>4. QED
        BY <4>1, <4>2, <4>3
    <3>3. QED
      BY <2>8, <3>1, <3>2, WritesTyped DEF GuardTypeOK, WriteSlots, Lock
  <2>9. ASSUME NEW c \in Caller, AddLoss(c) PROVE GuardTypeOK'
    <3>1. \E to \in Place : Writes(c, "lose", "loss", to)
      BY <2>0, <2>9 DEF AddLoss
    <3>2. QED
      <4>1. loss' \in Nat
        BY <2>9, GuardAssumption DEF GuardTypeOK, AddLoss
      <4>2. QED
        BY <2>9, <3>1, <4>1, WritesTyped DEF GuardTypeOK, AddLoss, Lock
  <2>10. ASSUME NEW c \in Caller, CountTotal(c) \/ CountWin(c) PROVE GuardTypeOK'
    <3>1. \/ \E to \in Place : Writes(c, "total", "total", to)
          \/ \E to \in Place : Writes(c, "win", "profitable", to)
      BY <2>0, <2>10 DEF CountTotal, CountWin
    <3>2. pc' \in [Caller -> Place] /\ parked' \in [Lock -> Caller \cup {NoCaller}]
          /\ guards' = guards /\ now' = now
      BY <3>1, WritesTyped DEF Lock
    <3>3. total' \in Nat /\ profitable' \in Nat
      BY <2>10, CountersTyped DEF GuardTypeOK, CountTotal, CountWin
    <3>4. QED
      BY <2>10, <3>2, <3>3 DEF GuardTypeOK, CountTotal, CountWin
  <2>11. ASSUME NEW c \in Caller, ReleaseTrade(c) PROVE GuardTypeOK'
    <3>1. read' \in [Caller -> [total : Nat, profitable : Nat, slots : Nat]]
      <4>1. (IF slots = 0 THEN 0 ELSE slots - 1) \in Nat
        BY DEF GuardTypeOK
      <4>2. QED
        BY <2>11, <4>1, ReadTyped DEF ReleaseTrade
    <3>2. pc' \in [Caller -> Place] /\ guards' \in [Caller -> SUBSET Lock]
      BY <2>0, <2>11 DEF GuardTypeOK, ReleaseTrade, Goes, Lock
    <3>3. QED
      BY <2>11, <3>1, <3>2 DEF GuardTypeOK, ReleaseTrade, counters
  <2>12. ASSUME NEW c \in Caller, CircuitBreak(c) PROVE GuardTypeOK'
    <3>1. CASE Goes(c, "idle", "trip")
      <4>1. pc' \in [Caller -> Place]
        BY <2>0, <3>1 DEF GuardTypeOK, Goes
      <4>2. UNCHANGED <<result, read, guards, parked, counters, now>>
        BY <2>12, <3>1 DEF CircuitBreak, Writes, Goes
      <4>3. entry' \in [Caller -> 0..MaxTime]
        BY <2>12, <3>1 DEF CircuitBreak, Writes, Goes, GuardTypeOK
      <4>4. QED
        BY <4>1, <4>2, <4>3 DEF GuardTypeOK, counters
    <3>2. CASE Writes(c, "trip", "break", "idle")
      <4>1. lastBreak' \in 0..MaxTime /\ brokenAt' \in 0..MaxTime
        <5>1. lastBreak' = entry[c] /\ brokenAt' = now
          BY <2>12, <3>2 DEF CircuitBreak, Writes, Goes
        <5>2. QED
          BY <5>1 DEF GuardTypeOK
      <4>2. UNCHANGED <<entry, result, read, minute, slots, loss, total, profitable, taken>>
        BY <2>12, <3>2 DEF CircuitBreak, Writes, Goes
      <4>3. pc' \in [Caller -> Place] /\ parked' \in [Lock -> Caller \cup {NoCaller}]
            /\ guards' = guards /\ now' = now
        BY <2>0, <3>2, WritesTyped DEF Lock
      <4>4. QED
        BY <4>1, <4>2, <4>3 DEF GuardTypeOK
    <3>3. QED
      BY <2>12, <3>1, <3>2 DEF CircuitBreak
  <2>13. ASSUME NEW c \in Caller, Stats(c) PROVE GuardTypeOK'
    <3> DEFINE R == [Caller -> [total : Nat, profitable : Nat, slots : Nat]]
    <3>1. ASSUME NEW from \in Place, NEW l \in Lock, NEW to \in Place,
                 StatsRead(c, from, l, to)
          PROVE  /\ pc' \in [Caller -> Place] /\ guards' \in [Caller -> SUBSET Lock]
                 /\ UNCHANGED <<entry, result, parked, counters, now>>
      BY <3>1 DEF GuardTypeOK, StatsRead, Goes
    <3>2. ASSUME StatsTotal(c)
          PROVE  StatsRead(c, "idle", "total", "s_profitable") /\ read' \in R
      BY <3>2, ReadTyped DEF StatsTotal, GuardTypeOK
    <3>3. ASSUME StatsProfitable(c)
          PROVE  StatsRead(c, "s_profitable", "profitable", "s_again") /\ read' \in R
      BY <3>3, ReadTyped DEF StatsProfitable, GuardTypeOK
    <3>4. ASSUME StatsAgain(c)
          PROVE  /\ \/ StatsRead(c, "s_again", "total", "s_rate")
                    \/ StatsRead(c, "s_again", "total", "s_slots")
                 /\ read' \in R
      BY <3>4 DEF StatsAgain, GuardTypeOK
    <3>5. ASSUME StatsRate(c)
          PROVE  StatsRead(c, "s_rate", "profitable", "s_slots") /\ read' \in R
      BY <3>5 DEF StatsRate, GuardTypeOK
    <3>6. ASSUME StatsSlots(c) \/ StatsMinute(c) \/ StatsLoss(c)
          PROVE  /\ \/ StatsRead(c, "s_slots", "slots", "s_minute")
                    \/ StatsRead(c, "s_minute", "minute", "s_loss")
                    \/ StatsRead(c, "s_loss", "loss", "s_break")
                 /\ read' \in R
      BY <3>6 DEF StatsSlots, StatsMinute, StatsLoss, GuardTypeOK
    <3>7. ASSUME StatsReturn(c)
          PROVE  /\ pc' \in [Caller -> Place] /\ guards' \in [Caller -> SUBSET Lock]
                 /\ UNCHANGED <<entry, result, parked, counters, now>>
                 /\ read' \in R
      BY <2>0, <3>7, ReadTyped DEF StatsReturn, Goes, GuardTypeOK
    <3>8. read' \in R
      BY <2>13, <3>2, <3>3, <3>4, <3>5, <3>6, <3>7 DEF Stats
    <3>9. CASE StatsReturn(c)
      BY <3>7, <3>9 DEF GuardTypeOK, counters
    <3>10. CASE ~StatsReturn(c)
      <4>1. \/ StatsRead(c, "idle", "total", "s_profitable")
            \/ StatsRead(c, "s_profitable", "profitable", "s_again")
            \/ StatsRead(c, "s_again", "total", "s_rate")
            \/ StatsRead(c, "s_again", "total", "s_slots")
            \/ StatsRead(c, "s_rate", "profitable", "s_slots")
            \/ StatsRead(c, "s_slots", "slots", "s_minute")
            \/ StatsRead(c, "s_minute", "minute", "s_loss")
            \/ StatsRead(c, "s_loss", "loss", "s_break")
        BY <2>13, <3>2, <3>3, <3>4, <3>5, <3>6, <3>10 DEF Stats
      <4>2. \E from \in Place, l \in Lock, to \in Place : StatsRead(c, from, l, to)
        BY <2>0, <4>1 DEF Lock
      <4>3. QED
        BY <3>1, <3>8, <4>2 DEF GuardTypeOK, counters
    <3>11. QED
      BY <3>9, <3>10
  <2>14. ASSUME UNCHANGED guardVars PROVE GuardTypeOK'
    BY <2>14 DEF GuardTypeOK, guardVars, counters
  <2>15. QED
    BY <2>1, <2>2, <2>3, <2>4, <2>5, <2>6, <2>7, <2>8, <2>9, <2>10, <2>11, <2>12,
       <2>13, <2>14, NextCases
<1>3. QED
  BY <1>1, <1>2, PTL DEF GuardSpec
-----------------------------------------------------------------------------
(* Whoever has passed a check and not yet counted its trade may still      *)
(* raise the counter by one.                                               *)
At(P) == {d \in Caller : pc[d] \in P}

PastSlots == {"loss", "allowed", "stamp", "count"}
PastLoss  == {"allowed", "stamp", "count", "lose"}

(* A caller that moves leaves its place and enters another, alone.         *)
LEMMA MoveCounts ==
  ASSUME GuardTypeOK, NEW c \in Caller, NEW from, NEW to, Goes(c, from, to), NEW P
  PROVE  /\ Cardinality(At(P)) \in Nat /\ Cardinality(At(P))' \in Nat
         /\ Cardinality(At(P)) <= Cardinality(Caller)
         /\ Cardinality(At(P))' <= Cardinality(Caller)
         /\ Cardinality(At(P))' = Cardinality(At(P))
                                    + (IF to \in P THEN 1 ELSE 0)
                                    - (IF from \in P THEN 1 ELSE 0)
<1> DEFINE S == At(P)
           T == S \ {c}
<1>1. IsFiniteSet(Caller)
  BY GuardAssumption
<1>2. S \in SUBSET Caller /\ S' \in SUBSET Caller
  BY DEF At
<1>3. IsFiniteSet(S) /\ IsFiniteSet(S') /\ IsFiniteSet(T)
  BY <1>1, <1>2, FS_Subset, FS_RemoveElement
<1>4. /\ Cardinality(S) \in Nat /\ Cardinality(S') \in Nat /\ Cardinality(T) \in Nat
      /\ Cardinality(S) <= Cardinality(Caller) /\ Cardinality(S') <= Cardinality(Caller)
  BY <1>1, <1>2, <1>3, FS_Subset, FS_CardinalityType
<1>5. pc[c] = from /\ pc'[c] = to /\ \A d \in Caller \ {c} : pc'[d] = pc[d]
  BY DEF GuardTypeOK, Goes
<1>6. S = IF from \in P THEN T \cup {c} ELSE T
  BY <1>5 DEF At
<1>7. S' = IF to \in P THEN T \cup {c} ELSE T
  BY <1>5 DEF At
<1>8. Cardinality(T \cup {c}) = Cardinality(T) + 1
  BY <1>3, FS_AddElement
<1>9. Cardinality(S) = Cardinality(T) + (IF from \in P THEN 1 ELSE 0)
  <2> HIDE DEF S, T
  <2>1. CASE from \in P
    BY <1>6, <1>8, <2>1
  <2>2. CASE from \notin P
    BY <1>4, <1>6, <2>2
  <2>3. QED
    BY <2>1, <2>2
<1>10. Cardinality(S') = Cardinality(T) + (IF to \in P THEN 1 ELSE 0)
  BY <1>4, <1>7, <1>8
<1>11. QED
  BY <1>4, <1>9, <1>10

SlotsInv == slots + Cardinality(At(PastSlots)) <= MaxConcurrent + Cardinality(Caller) - 1
LossInv  == loss + Cardinality(At(PastLoss)) * WorstLoss
              < MaxLoss + Cardinality(Caller) * WorstLoss

(* What more of them may lose is more.                                     *)
LEMMA MoreLoseMore ==
  ASSUME NEW m \in Nat, NEW n \in Nat, m <= n, NEW w \in Nat
  PROVE  m * w \in Nat /\ n * w \in Nat /\ m * w <= n * w
  OBVIOUS

LEMMA OneLosesLess ==
  ASSUME NEW n \in Nat, n # 0, NEW w \in Nat
  PROVE  (n - 1) * w \in Nat /\ n * w = ((n - 1) * w) + w
  OBVIOUS

(* A caller in release_trade keeps the read guard it waits for.            *)
ReleaseHolds == \A c \in Caller : pc[c] = "release" => "slots" \in guards[c]

(* A caller that gives a guard up or writes the slots is not releasing.    *)
LEMMA ReleaseHoldsStep ==
  ASSUME GuardTypeOK, ReleaseHolds, [GuardNext]_guardVars
  PROVE  /\ ReleaseHolds'
         /\ \A c \in Caller : pc[c] = "release" => pc'[c] = "release" /\ slots' = slots
<1> DEFINE Kept == /\ ReleaseHolds'
                   /\ \A d \in Caller :
                        pc[d] = "release" => pc'[d] = "release" /\ slots' = slots
<1>1. ASSUME NEW c \in Caller, NEW from, NEW to, Goes(c, from, to),
             from # "release", to = "release" => "slots" \in guards'[c],
             \A d \in Caller \ {c} : guards[d] \subseteq guards'[d]
      PROVE  /\ ReleaseHolds'
             /\ \A d \in Caller : pc[d] = "release" => pc'[d] = "release"
  BY <1>1 DEF GuardTypeOK, ReleaseHolds, Goes
<1>2. ASSUME Tick \/ UNCHANGED guardVars PROVE Kept
  BY <1>2 DEF Tick, guardVars, counters, ReleaseHolds
<1>3. ASSUME NEW c \in Caller, NEW r \in TradeResult, Trade(c, r) PROVE Kept
  BY <1>1, <1>3 DEF Trade, counters
<1>4. ASSUME NEW c \in Caller, Park(c) PROVE Kept
  BY <1>4 DEF Park, counters, ReleaseHolds
<1>5. ASSUME NEW c \in Caller, LeaveOpen(c) PROVE Kept
  BY <1>1, <1>5 DEF LeaveOpen, counters
<1>6. ASSUME NEW c \in Caller, Ask(c) PROVE Kept
  BY <1>1, <1>6 DEF Ask, counters
<1>7. ASSUME NEW c \in Caller, CheckBreak(c) PROVE Kept
  BY <1>1, <1>7 DEF CheckBreak, Reads, counters
<1>8. ASSUME NEW c \in Caller, CheckRate(c) PROVE Kept
  BY <1>1, <1>8 DEF CheckRate, Writes
<1>9. ASSUME NEW c \in Caller, CheckSlots(c) PROVE Kept
  BY <1>1, <1>9 DEF CheckSlots, Reads, counters
<1>10. ASSUME NEW c \in Caller, CheckLoss(c) PROVE Kept
  BY <1>1, <1>10 DEF CheckLoss, Reads, counters
<1>11. ASSUME NEW c \in Caller, StampTrade(c) PROVE Kept
  BY <1>1, <1>11 DEF StampTrade, Writes
<1>12. ASSUME NEW c \in Caller, WriteSlots(c) PROVE Kept
  <2>1. guards' = guards /\ Unread("slots")
    BY <1>12 DEF WriteSlots, Writes
  <2>2. \A d \in Caller : pc[d] # "release"
    BY <2>1 DEF ReleaseHolds, Unread
  <2>3. \E to : Goes(c, "count", to) /\ to # "release"
    BY <1>12, <2>2 DEF WriteSlots, Writes
  <2>4. QED
    BY <1>1, <2>1, <2>2, <2>3
<1>13. ASSUME NEW c \in Caller, AddLoss(c) PROVE Kept
  BY <1>1, <1>13 DEF AddLoss, Writes
<1>14. ASSUME NEW c \in Caller, CountTotal(c) \/ CountWin(c) PROVE Kept
  BY <1>1, <1>14 DEF CountTotal, CountWin, Writes
<1>15. ASSUME NEW c \in Caller, ReleaseTrade(c) PROVE Kept
  <2>1. Goes(c, "open", "release") /\ slots' = slots
    BY <1>15 DEF ReleaseTrade, counters
  <2>2. "slots" \in guards'[c] /\ \A d \in Caller \ {c} : guards[d] \subseteq guards'[d]
    BY <1>15 DEF ReleaseTrade, GuardTypeOK
  <2>3. QED
    BY <1>1, <2>1, <2>2
<1>16. ASSUME NEW c \in Caller, CircuitBreak(c) PROVE Kept
  BY <1>1, <1>16 DEF CircuitBreak, Writes, counters
<1>17. ASSUME NEW c \in Caller, Stats(c) PROVE Kept
  <2>1. \E from, to : Goes(c, from, to) /\ from # "release" /\ to # "release"
    BY <1>17 DEF Stats, StatsRead, StatsTotal, StatsProfitable, StatsAgain, StatsRate,
                 StatsSlots, StatsMinute, StatsLoss, StatsReturn
  <2>2. slots' = slots /\ \A d \in Caller \ {c} : guards[d] \subseteq guards'[d]
    BY <1>17 DEF Stats, StatsRead, StatsTotal, StatsProfitable, StatsAgain, StatsRate,
                 StatsSlots, StatsMinute, StatsLoss, StatsReturn, GuardTypeOK, counters
  <2>3. QED
    BY <1>1, <2>1, <2>2
<1>18. QED
  BY <1>2, <1>3, <1>4, <1>5, <1>6, <1>7, <1>8, <1>9, <1>10, <1>11, <1>12, <1>13,
     <1>14, <1>15, <1>16, <1>17, NextCases

LEMMA ReleaseHeld == GuardSpec => []ReleaseHolds
<1>1. GuardInit => ReleaseHolds
  BY DEF GuardInit, ReleaseHolds
<1>2. GuardTypeOK /\ ReleaseHolds /\ [GuardNext]_guardVars => ReleaseHolds'
  BY ReleaseHoldsStep
<1>3. QED
  BY <1>1, <1>2, TypeCorrect, PTL DEF GuardSpec

(* release_trade never comes back and frees no slot.                       *)
THEOREM ReleaseStuck == GuardSpec => ReleaseNeverReturns
<1> DEFINE A == \A c \in Caller : pc[c] = "release" => pc'[c] = "release" /\ slots' = slots
<1>1. GuardTypeOK /\ ReleaseHolds /\ [GuardNext]_guardVars => [A]_guardVars
  BY ReleaseHoldsStep
<1>2. QED
  BY <1>1, TypeCorrect, ReleaseHeld, PTL DEF GuardSpec, ReleaseNeverReturns
-----------------------------------------------------------------------------
(* Steps that neither pass a check nor count a trade keep both bounds.     *)
LEMMA QuietKeeps ==
  ASSUME GuardTypeOK, SlotsInv, LossInv, NEW c \in Caller, NEW from, NEW to,
         Goes(c, from, to), slots' = slots, loss' = loss,
         to \in PastSlots => from \in PastSlots,
         to \in PastLoss => from \in PastLoss
  PROVE  SlotsInv' /\ LossInv'
<1>1. Cardinality(At(PastSlots))' <= Cardinality(At(PastSlots))
  BY MoveCounts
<1>2. Cardinality(At(PastLoss))' <= Cardinality(At(PastLoss))
  BY MoveCounts
<1>3. /\ Cardinality(At(PastSlots)) \in Nat /\ Cardinality(At(PastSlots))' \in Nat
      /\ Cardinality(At(PastLoss)) \in Nat /\ Cardinality(At(PastLoss))' \in Nat
  BY MoveCounts
<1>4. slots \in Nat /\ loss \in Nat /\ Cardinality(Caller) \in Nat
  BY GuardAssumption, FS_CardinalityType DEF GuardTypeOK
<1>5. QED
  <2>1. SlotsInv'
    BY <1>1, <1>3, <1>4, GuardAssumption DEF SlotsInv
  <2>2. LossInv'
    BY <1>2, <1>3, <1>4, MoreLoseMore, GuardAssumption DEF LossInv
  <2>3. QED
    BY <2>1, <2>2

(* The sets of callers do not move with a step that moves none.            *)
LEMMA StillKeeps ==
  ASSUME SlotsInv, LossInv, UNCHANGED <<pc, slots, loss>>
  PROVE  SlotsInv' /\ LossInv'
  BY DEF SlotsInv, LossInv, At

LEMMA BoundsStep ==
  ASSUME GuardTypeOK, ReleaseHolds, SlotsInv, LossInv, [GuardNext]_guardVars
  PROVE  SlotsInv' /\ LossInv'
<1> USE DEF PastSlots, PastLoss
<1>0. slots \in Nat /\ loss \in Nat /\ Cardinality(Caller) \in Nat
      /\ MaxConcurrent \in Nat /\ MaxLoss \in Nat
  BY GuardAssumption, FS_CardinalityType DEF GuardTypeOK
<1>1. ASSUME Tick \/ UNCHANGED guardVars PROVE SlotsInv' /\ LossInv'
  BY <1>1, StillKeeps DEF Tick, guardVars, counters
<1>2. ASSUME NEW c \in Caller, NEW r \in TradeResult, Trade(c, r) PROVE SlotsInv' /\ LossInv'
  BY <1>2, QuietKeeps DEF Trade, counters
<1>3. ASSUME NEW c \in Caller, Park(c) \/ LeaveOpen(c) PROVE SlotsInv' /\ LossInv'
  BY <1>3, StillKeeps, QuietKeeps DEF Park, LeaveOpen, counters
<1>4. ASSUME NEW c \in Caller, Ask(c) \/ CheckBreak(c) \/ CheckRate(c)
      PROVE  SlotsInv' /\ LossInv'
  <2>1. \/ Goes(c, "idle", "break") \/ Goes(c, "break", "idle") \/ Goes(c, "break", "rate")
        \/ Goes(c, "rate", "idle") \/ Goes(c, "rate", "slots")
    BY <1>4 DEF Ask, CheckBreak, CheckRate, Reads, Writes
  <2>2. slots' = slots /\ loss' = loss
    BY <1>4 DEF Ask, CheckBreak, CheckRate, counters
  <2>3. QED
    BY <2>1, <2>2, QuietKeeps
<1>5. ASSUME NEW c \in Caller, CheckSlots(c) PROVE SlotsInv' /\ LossInv'
  <2>1. slots' = slots /\ loss' = loss
    BY <1>5 DEF CheckSlots, counters
  <2>2. CASE slots >= MaxConcurrent
    <3>1. Goes(c, "slots", "idle")
      BY <1>5, <2>2 DEF CheckSlots, Reads
    <3>2. QED
      BY <2>1, <3>1, QuietKeeps
  <2>3. CASE slots < MaxConcurrent
    <3>1. Goes(c, "slots", "loss")
      BY <1>0, <1>5, <2>3 DEF CheckSlots, Reads
    <3>2. Cardinality(At(PastSlots))' \in Nat /\ Cardinality(At(PastSlots))' <= Cardinality(Caller)
      BY <3>1, MoveCounts
    <3>3. SlotsInv'
      BY <1>0, <2>1, <2>3, <3>2 DEF SlotsInv
    <3>4. Cardinality(At(PastLoss))' = Cardinality(At(PastLoss)) /\ Cardinality(At(PastLoss)) \in Nat
      BY <3>1, MoveCounts
    <3>5. QED
      BY <1>0, <2>1, <3>3, <3>4 DEF LossInv
  <2>4. QED
    BY <1>0, <2>2, <2>3
<1>6. ASSUME NEW c \in Caller, CheckLoss(c) PROVE SlotsInv' /\ LossInv'
  <2>1. slots' = slots /\ loss' = loss
    BY <1>6 DEF CheckLoss, counters
  <2>2. CASE loss >= MaxLoss
    <3>1. Goes(c, "loss", "idle")
      BY <1>6, <2>2 DEF CheckLoss, Reads
    <3>2. QED
      BY <2>1, <3>1, QuietKeeps
  <2>3. CASE loss < MaxLoss
    <3>1. Goes(c, "loss", "allowed")
      BY <1>0, <1>6, <2>3 DEF CheckLoss, Reads
    <3>2. Cardinality(At(PastLoss))' \in Nat /\ Cardinality(At(PastLoss))' <= Cardinality(Caller)
      BY <3>1, MoveCounts
    <3>3. LossInv'
      BY <1>0, <2>1, <2>3, <3>2, MoreLoseMore, GuardAssumption DEF LossInv
    <3>4. /\ Cardinality(At(PastSlots))' = Cardinality(At(PastSlots))
          /\ Cardinality(At(PastSlots)) \in Nat
      BY <3>1, MoveCounts
    <3>5. QED
      BY <1>0, <2>1, <3>3, <3>4 DEF SlotsInv
  <2>4. QED
    BY <1>0, <2>2, <2>3
<1>7. ASSUME NEW c \in Caller, StampTrade(c) PROVE SlotsInv' /\ LossInv'
  BY <1>7, QuietKeeps DEF StampTrade, Writes
<1>8. ASSUME NEW c \in Caller, WriteSlots(c) PROVE SlotsInv' /\ LossInv'
  <2>1. pc[c] = "count"
    BY <1>8 DEF WriteSlots, Writes, ReleaseHolds, Unread
  <2>2. Goes(c, "count", "lose") \/ Goes(c, "count", "total")
    BY <1>8, <2>1 DEF WriteSlots, Writes
  <2>3. slots' = slots + 1 /\ loss' = loss
    BY <1>8, <2>1 DEF WriteSlots
  <2>4. /\ Cardinality(At(PastSlots))' = Cardinality(At(PastSlots)) - 1
        /\ Cardinality(At(PastSlots)) \in Nat
    BY <2>2, MoveCounts
  <2>5. /\ Cardinality(At(PastLoss))' <= Cardinality(At(PastLoss))
        /\ Cardinality(At(PastLoss)) \in Nat /\ Cardinality(At(PastLoss))' \in Nat
    BY <2>2, MoveCounts
  <2>6. SlotsInv'
    BY <1>0, <2>3, <2>4 DEF SlotsInv
  <2>7. LossInv'
    BY <1>0, <2>3, <2>5, MoreLoseMore, GuardAssumption DEF LossInv
  <2>8. QED
    BY <2>6, <2>7
<1>9. ASSUME NEW c \in Caller, AddLoss(c) PROVE SlotsInv' /\ LossInv'
  <2>1. Goes(c, "lose", "total") /\ slots' = slots
    BY <1>9 DEF AddLoss, Writes
  <2>2. PICK d \in 1..WorstLoss : loss' = loss + d
    BY <1>9 DEF AddLoss
  <2> DEFINE n == Cardinality(At(PastLoss))
  <2>3. /\ n' = n - 1 /\ n \in Nat /\ n' \in Nat
        /\ Cardinality(At(PastSlots))' = Cardinality(At(PastSlots))
        /\ Cardinality(At(PastSlots)) \in Nat
    BY <2>1, MoveCounts
  <2>4. n * WorstLoss = (n' * WorstLoss) + WorstLoss /\ n' * WorstLoss \in Nat
    <3> HIDE DEF n
    <3>1. n # 0
      BY <2>3
    <3>2. QED
      BY <2>3, <3>1, OneLosesLess, GuardAssumption
  <2>5. loss + (n * WorstLoss) < MaxLoss + (Cardinality(Caller) * WorstLoss)
    BY DEF LossInv
  <2>6. loss' + (n' * WorstLoss) < MaxLoss + (Cardinality(Caller) * WorstLoss)
    <3> HIDE DEF n
    <3>1. Cardinality(Caller) * WorstLoss \in Nat
      BY <1>0, MoreLoseMore, GuardAssumption
    <3>2. QED
      BY <1>0, <2>2, <2>4, <2>5, <3>1, GuardAssumption
  <2>7. QED
    BY <1>0, <2>1, <2>3, <2>6 DEF SlotsInv, LossInv
<1>10. ASSUME NEW c \in Caller, CountTotal(c) \/ CountWin(c) PROVE SlotsInv' /\ LossInv'
  <2>1. \/ Goes(c, "total", "win") \/ Goes(c, "total", "open") \/ Goes(c, "win", "open")
    BY <1>10 DEF CountTotal, CountWin, Writes
  <2>2. slots' = slots /\ loss' = loss
    BY <1>10 DEF CountTotal, CountWin
  <2>3. QED
    BY <2>1, <2>2, QuietKeeps
<1>11. ASSUME NEW c \in Caller, ReleaseTrade(c) PROVE SlotsInv' /\ LossInv'
  BY <1>11, QuietKeeps DEF ReleaseTrade, counters
<1>12. ASSUME NEW c \in Caller, CircuitBreak(c) PROVE SlotsInv' /\ LossInv'
  BY <1>12, QuietKeeps DEF CircuitBreak, Writes, counters
<1>13. ASSUME NEW c \in Caller, Stats(c) PROVE SlotsInv' /\ LossInv'
  <2>1. \E from, to : Goes(c, from, to) /\ to \notin PastSlots /\ to \notin PastLoss
    BY <1>13 DEF Stats, StatsRead, StatsTotal, StatsProfitable, StatsAgain, StatsRate,
                 StatsSlots, StatsMinute, StatsLoss, StatsReturn
  <2>2. slots' = slots /\ loss' = loss
    BY <1>13 DEF Stats, StatsRead, StatsTotal, StatsProfitable, StatsAgain, StatsRate,
                 StatsSlots, StatsMinute, StatsLoss, StatsReturn, counters
  <2>3. QED
    BY <2>1, <2>2, QuietKeeps
<1>14. QED
  BY <1>1, <1>2, <1>3, <1>4, <1>5, <1>6, <1>7, <1>8, <1>9, <1>10, <1>11, <1>12,
     <1>13, NextCases

(* At the start nobody has passed a check, and there is a caller.          *)
LEMMA BoundsInit ==
  ASSUME GuardInit
  PROVE  SlotsInv /\ LossInv
<1>1. At(PastSlots) = {} /\ At(PastLoss) = {}
  BY DEF GuardInit, At, PastSlots, PastLoss
<1>2. Cardinality(Caller) \in Nat /\ Cardinality(Caller) # 0
  BY GuardAssumption, FS_CardinalityType, FS_EmptySet
<1>3. 1 * WorstLoss <= Cardinality(Caller) * WorstLoss
      /\ Cardinality(Caller) * WorstLoss \in Nat /\ 1 * WorstLoss = WorstLoss
      /\ 0 * WorstLoss = 0
  BY <1>2, MoreLoseMore, GuardAssumption
<1>4. Cardinality(At(PastSlots)) = 0 /\ Cardinality(At(PastLoss)) = 0
  BY <1>1, FS_EmptySet
<1>5. SlotsInv
  BY <1>2, <1>4, GuardAssumption DEF GuardInit, SlotsInv
<1>6. LossInv
  BY <1>3, <1>4, GuardAssumption DEF GuardInit, LossInv
<1>7. QED
  BY <1>5, <1>6

LEMMA BoundsCorrect == GuardSpec => [](SlotsInv /\ LossInv)
<1>1. GuardInit => SlotsInv /\ LossInv
  BY BoundsInit
<1>2. GuardTypeOK /\ ReleaseHolds /\ SlotsInv /\ LossInv /\ [GuardNext]_guardVars => SlotsInv' /\ LossInv'
  BY BoundsStep
<1>3. QED
  BY <1>1, <1>2, TypeCorrect, ReleaseHeld, PTL DEF GuardSpec

(* No more trades are open at once than the limit and one for every other  *)
(* caller, however many callers check together.                            *)
THEOREM SlotsCorrect == GuardSpec => []SlotsOvershoot
<1>1. SlotsInv /\ GuardTypeOK => SlotsOvershoot
  <2> SUFFICES ASSUME SlotsInv, GuardTypeOK PROVE SlotsOvershoot
    OBVIOUS
  <2>1. IsFiniteSet(At(PastSlots)) /\ Cardinality(At(PastSlots)) \in Nat
        /\ Cardinality(Caller) \in Nat
    BY GuardAssumption, FS_Subset, FS_CardinalityType DEF At
  <2>2. QED
    BY <2>1, GuardAssumption DEF SlotsInv, SlotsOvershoot, GuardTypeOK
<1>2. QED
  BY <1>1, TypeCorrect, BoundsCorrect, PTL

(* The limit on the loss is passed by what one trade of each caller loses, *)
(* however much that is.                                                   *)
THEOREM LossCorrect == GuardSpec => []LossOvershoot
<1>1. LossInv /\ GuardTypeOK => LossOvershoot
  <2> SUFFICES ASSUME LossInv, GuardTypeOK PROVE LossOvershoot
    OBVIOUS
  <2>1. IsFiniteSet(At(PastLoss)) /\ Cardinality(At(PastLoss)) \in Nat
        /\ Cardinality(Caller) \in Nat
    BY GuardAssumption, FS_Subset, FS_CardinalityType DEF At
  <2>2. Cardinality(At(PastLoss)) * WorstLoss \in Nat
        /\ Cardinality(Caller) * WorstLoss \in Nat
    BY <2>1, MoreLoseMore, GuardAssumption
  <2>3. QED
    BY <2>2, GuardAssumption DEF LossInv, LossOvershoot, GuardTypeOK
<1>2. QED
  BY <1>1, TypeCorrect, BoundsCorrect, PTL
-----------------------------------------------------------------------------
(* No caller took its time in the future, so a break is written later than *)
(* every ask under way and concerns none of them, and a break is never     *)
(* stamped later than it is written.                                       *)
AskedBefore == /\ \A c \in Caller : entry[c] <= now
               /\ lastBreak <= brokenAt

Checked == {"rate", "slots", "loss", "allowed"}

LEMMA CooldownStep ==
  ASSUME GuardTypeOK, AskedBefore, CooldownKept, [GuardNext]_guardVars
  PROVE  AskedBefore' /\ CooldownKept'
<1> DEFINE Kept == AskedBefore' /\ CooldownKept'
<1>0. /\ now \in Nat /\ lastBreak \in Int /\ brokenAt \in Int
      /\ \A c \in Caller : entry[c] \in Nat
  BY GuardAssumption DEF GuardTypeOK, NoBreak
<1>1. ASSUME NEW c \in Caller, NEW from, NEW to, Goes(c, from, to),
             to \in Checked => from \in Checked,
             UNCHANGED <<entry, lastBreak, brokenAt, now>>
      PROVE  Kept
  BY <1>1 DEF GuardTypeOK, Goes, AskedBefore, CooldownKept, Checked
<1>2. ASSUME pc' = pc, entry' = entry, lastBreak' = lastBreak, brokenAt' = brokenAt,
             now' = now \/ now' = now + 1
      PROVE  Kept
  BY <1>0, <1>2 DEF AskedBefore, CooldownKept
<1>3. ASSUME Tick \/ UNCHANGED guardVars PROVE Kept
  BY <1>2, <1>3 DEF Tick, guardVars, counters
<1>4. ASSUME NEW c \in Caller, NEW r \in TradeResult, Trade(c, r) PROVE Kept
  BY <1>1, <1>4 DEF Trade, counters, Checked
<1>5. ASSUME NEW c \in Caller, Park(c) \/ LeaveOpen(c) PROVE Kept
  BY <1>1, <1>2, <1>5 DEF Park, LeaveOpen, counters, Checked
<1>6. ASSUME NEW c \in Caller, Ask(c) PROVE Kept
  <2>1. /\ entry' = [entry EXCEPT ![c] = now] /\ pc'[c] = "break"
        /\ \A d \in Caller \ {c} : pc'[d] = pc[d]
        /\ lastBreak' = lastBreak /\ brokenAt' = brokenAt /\ now' = now
    BY <1>6 DEF Ask, Goes, GuardTypeOK, counters
  <2>2. \A d \in Caller : d # c => entry'[d] = entry[d]
    BY <2>1 DEF GuardTypeOK
  <2>3. entry'[c] = now
    BY <2>1 DEF GuardTypeOK
  <2>4. AskedBefore'
    BY <1>0, <2>1, <2>2, <2>3 DEF AskedBefore
  <2>5. CooldownKept'
    BY <2>1, <2>2 DEF CooldownKept
  <2>6. QED
    BY <2>4, <2>5
<1>7. ASSUME NEW c \in Caller, CheckBreak(c) PROVE Kept
  <2>1. UNCHANGED <<entry, lastBreak, brokenAt, now>>
    BY <1>7 DEF CheckBreak, Reads, counters
  <2>2. CASE Cooling(c)
    BY <1>1, <1>7, <2>1, <2>2 DEF CheckBreak, Reads, Checked
  <2>3. CASE ~Cooling(c)
    <3>1. lastBreak # NoBreak /\ brokenAt < entry[c] => entry[c] - lastBreak >= Cooldown
      BY <1>0, <2>3, GuardAssumption DEF Cooling, AskedBefore
    <3>2. \A d \in Caller \ {c} : pc'[d] = pc[d]
      BY <1>7 DEF CheckBreak, Reads, Goes, GuardTypeOK
    <3>3. QED
      BY <2>1, <3>1, <3>2 DEF AskedBefore, CooldownKept
  <2>4. QED
    BY <2>2, <2>3
<1>8. ASSUME NEW c \in Caller, CheckRate(c) \/ CheckSlots(c) \/ CheckLoss(c) PROVE Kept
  <2>1. UNCHANGED <<entry, lastBreak, brokenAt, now>>
    BY <1>8 DEF CheckRate, CheckSlots, CheckLoss, Reads, Writes, counters
  <2>2. \E from \in Checked : \E to : Goes(c, from, to)
    BY <1>8 DEF CheckRate, CheckSlots, CheckLoss, Reads, Writes, Checked
  <2>3. QED
    BY <1>1, <2>1, <2>2
<1>9. ASSUME NEW c \in Caller,
             \/ StampTrade(c) \/ WriteSlots(c) \/ AddLoss(c) \/ CountTotal(c)
             \/ CountWin(c) \/ ReleaseTrade(c) \/ Stats(c)
      PROVE  Kept
  <2>1. UNCHANGED <<entry, lastBreak, brokenAt, now>>
    BY <1>9 DEF StampTrade, WriteSlots, AddLoss, CountTotal, CountWin, ReleaseTrade, Writes,
                Stats, StatsRead, StatsTotal, StatsProfitable, StatsAgain, StatsRate,
                StatsSlots, StatsMinute, StatsLoss, StatsReturn, counters
  <2>2. \E from, to : Goes(c, from, to) /\ to \notin Checked
    <3>1. CASE WriteSlots(c)
      <4>1. \/ Goes(c, pc[c], "idle") \/ Goes(c, pc[c], "lose") \/ Goes(c, pc[c], "total")
        BY <3>1 DEF WriteSlots, Writes
      <4>2. QED
        BY <4>1 DEF Checked
    <3>2. CASE ~WriteSlots(c)
      BY <1>9, <3>2
      DEF StampTrade, AddLoss, CountTotal, CountWin, ReleaseTrade, Writes,
          Stats, StatsRead, StatsTotal, StatsProfitable, StatsAgain, StatsRate,
          StatsSlots, StatsMinute, StatsLoss, StatsReturn, Checked
    <3>3. QED
      BY <3>1, <3>2
  <2>3. QED
    BY <1>1, <2>1, <2>2
<1>10. ASSUME NEW c \in Caller, CircuitBreak(c) PROVE Kept
  <2>1. CASE Goes(c, "idle", "trip")
    <3>1. /\ entry' = [entry EXCEPT ![c] = now] /\ pc'[c] = "trip"
          /\ \A d \in Caller \ {c} : pc'[d] = pc[d]
          /\ UNCHANGED <<lastBreak, brokenAt, now>>
      BY <1>10, <2>1 DEF CircuitBreak, Writes, Goes, GuardTypeOK, counters
    <3>2. /\ \A d \in Caller : d # c => entry'[d] = entry[d]
          /\ entry'[c] = now
      BY <3>1 DEF GuardTypeOK
    <3>3. AskedBefore'
      BY <1>0, <3>1, <3>2 DEF AskedBefore
    <3>4. CooldownKept'
      BY <3>1, <3>2 DEF CooldownKept
    <3>5. QED
      BY <3>3, <3>4
  <2>2. CASE Writes(c, "trip", "break", "idle")
    <3>1. now' = now /\ entry' = entry /\ lastBreak' = entry[c] /\ brokenAt' = now
      BY <1>10, <2>2 DEF CircuitBreak, Writes, Goes
    <3>2. \A d \in Caller : ~(brokenAt' < entry'[d])
      BY <1>0, <3>1 DEF AskedBefore
    <3>3. CooldownKept'
      BY <3>2 DEF CooldownKept
    <3>4. AskedBefore'
      BY <3>1 DEF AskedBefore
    <3>5. QED
      BY <3>3, <3>4
  <2>3. QED
    BY <1>10, <2>1, <2>2 DEF CircuitBreak
<1>11. QED
  BY <1>3, <1>4, <1>5, <1>6, <1>7, <1>8, <1>9, <1>10, NextCases

(* Whoever asks after a break was written is refused until the cool-down   *)
(* is over.                                                                *)
THEOREM CooldownCorrect == GuardSpec => []CooldownKept
<1>1. GuardInit => AskedBefore /\ CooldownKept
  BY DEF GuardInit, NoBreak, AskedBefore, CooldownKept
<1>2. GuardTypeOK /\ AskedBefore /\ CooldownKept /\ [GuardNext]_guardVars => AskedBefore' /\ CooldownKept'
  BY CooldownStep
<1>3. QED
  BY <1>1, <1>2, TypeCorrect, PTL DEF GuardSpec
-----------------------------------------------------------------------------
(* Whoever has passed the rate check and not yet stamped its trade may     *)
(* still add one to the last minute.  The list that is checked agrees with *)
(* the trades recorded wherever the last minute reaches: it is pruned by   *)
(* an ask that is not later than now.                                      *)
PastRate == {"slots", "loss", "allowed", "stamp"}

Window(t)  == {i \in 0..t : i > t - Minute}
Rate(f, t) == SumFunctionOnSet(f, Window(t))
Ceiling    == MaxPerMinute + Cardinality(Caller) - 1

RateInv ==
  /\ \A i \in 0..MaxTime : i > now => taken[i] = 0
  /\ \A i \in 0..MaxTime : i > now - Minute => minute[i] = taken[i]
  /\ Rate(taken, now) + Cardinality(At(PastRate)) <= Ceiling
  /\ \A t \in 0..now : Rate(taken, t) <= Ceiling

LEMMA WindowFinite ==
  ASSUME NEW t \in 0..MaxTime
  PROVE  IsFiniteSet(Window(t)) /\ Window(t) \subseteq 0..MaxTime
<1>1. MaxTime \in Nat
  BY GuardAssumption
<1>2. Window(t) \subseteq 0..t /\ 0..t \subseteq 0..MaxTime
  BY <1>1 DEF Window
<1>3. IsFiniteSet(0..t)
  BY <1>1, FS_Interval
<1>4. QED
  BY <1>2, <1>3, FS_Subset

LEMMA RateNat ==
  ASSUME NEW f \in [0..MaxTime -> Nat], NEW t \in 0..MaxTime
  PROVE  Rate(f, t) \in Nat
<1>1. IsFiniteSet(Window(t)) /\ \A i \in Window(t) : f[i] \in Nat
  BY WindowFinite
<1>2. QED
  BY <1>1, SumNat DEF Rate

LEMMA CallersCounted ==
  ASSUME NEW P
  PROVE  /\ Cardinality(At(P)) \in Nat /\ Cardinality(At(P)) <= Cardinality(Caller)
         /\ Cardinality(Caller) \in Nat /\ Ceiling \in Int
<1>1. IsFiniteSet(Caller) /\ At(P) \subseteq Caller
  BY GuardAssumption DEF At
<1>2. QED
  BY <1>1, GuardAssumption, FS_Subset, FS_CardinalityType DEF Ceiling

(* A step that records no trade and lets nobody past the check.            *)
LEMMA QuietRate ==
  ASSUME GuardTypeOK, RateInv, UNCHANGED <<taken, now>>,
         minute' = minute,
         \/ pc' = pc
         \/ \E c \in Caller : \E from, to :
               Goes(c, from, to) /\ (to \in PastRate => from \in PastRate)
  PROVE  RateInv'
<1>1. Cardinality(At(PastRate))' <= Cardinality(At(PastRate))
      /\ Cardinality(At(PastRate)) \in Nat /\ Cardinality(At(PastRate))' \in Nat
  <2>1. CASE pc' = pc
    <3>1. At(PastRate)' = At(PastRate)
      BY <2>1 DEF At
    <3>2. Cardinality(At(PastRate)) \in Nat
      BY CallersCounted
    <3>3. QED
      BY <3>1, <3>2
  <2>2. ASSUME NEW c \in Caller, NEW from, NEW to, Goes(c, from, to),
               to \in PastRate => from \in PastRate
        PROVE  /\ Cardinality(At(PastRate))' <= Cardinality(At(PastRate))
               /\ Cardinality(At(PastRate)) \in Nat /\ Cardinality(At(PastRate))' \in Nat
    BY <2>2, MoveCounts
  <2>3. QED
    BY <2>1, <2>2
<1>2. Rate(taken, now) \in Nat /\ Ceiling \in Int
  BY RateNat, CallersCounted DEF GuardTypeOK
<1>3. Rate(taken', now') = Rate(taken, now)
      /\ \A t \in 0..now : Rate(taken', t) = Rate(taken, t)
  OBVIOUS
<1>4. QED
  BY <1>1, <1>2, <1>3 DEF RateInv

(* What the check counts is at least what the last minute has, whatever    *)
(* has been stamped since its ask.                                         *)
LEMMA RateSeen ==
  ASSUME GuardTypeOK, AskedBefore, RateInv, NEW c \in Caller
  PROVE  LET kept == LastMinute(minute, entry[c])
         IN  /\ \A i \in 0..MaxTime : i > now - Minute => kept[i] = taken[i]
             /\ TradesIn(kept) \in Nat /\ Rate(taken, now) <= TradesIn(kept)
<1> DEFINE kept == LastMinute(minute, entry[c])
<1>1. /\ taken \in [0..MaxTime -> Nat] /\ minute \in [0..MaxTime -> Nat]
      /\ now \in 0..MaxTime /\ entry[c] \in 0..MaxTime /\ entry[c] <= now
      /\ MaxTime \in Nat /\ Minute \in Nat
  BY GuardAssumption DEF GuardTypeOK, AskedBefore
<1>2. /\ DOMAIN kept = 0..MaxTime
      /\ \A i \in 0..MaxTime : kept[i] \in Nat /\ (i > now - Minute => kept[i] = taken[i])
  BY <1>1 DEF LastMinute, RateInv
<1> HIDE DEF kept
<1>3. TradesIn(kept) \in Nat /\ Rate(kept, now) <= TradesIn(kept)
  <2>1. IsFiniteSet(0..MaxTime)
    BY <1>1, FS_Interval
  <2>2. IsFiniteSet(0..MaxTime) /\ \A i \in 0..MaxTime : kept[i] \in Nat
    BY <1>2, <2>1
  <2>3. Window(now) \in SUBSET (0..MaxTime)
    BY <1>1, WindowFinite
  <2>4. TradesIn(kept) = SumFunctionOnSet(kept, 0..MaxTime)
    BY <1>2 DEF TradesIn
  <2>5. SumFunctionOnSet(kept, 0..MaxTime) \in Nat
    BY <2>2, SumNat
  <2>6. SumFunctionOnSet(kept, Window(now)) <= SumFunctionOnSet(kept, 0..MaxTime)
    BY <2>2, <2>3, SumSubset
  <2>7. QED
    BY <2>4, <2>5, <2>6 DEF Rate
<1>4. Rate(taken, now) = Rate(kept, now)
  <2>1. IsFiniteSet(Window(now))
    BY <1>1, WindowFinite
  <2>2. \A i \in Window(now) : taken[i] \in Int /\ taken[i] = kept[i]
    BY <1>1, <1>2 DEF Window
  <2>3. QED
    BY <2>1, <2>2, SumSame DEF Rate
<1>5. QED
  BY <1>2, <1>3, <1>4 DEF kept

(* The check passes fewer than the limit in the last minute.               *)
LEMMA CheckedRate ==
  ASSUME GuardTypeOK, AskedBefore, RateInv, NEW c \in Caller, CheckRate(c)
  PROVE  RateInv'
<1> DEFINE kept == LastMinute(minute, entry[c])
<1>1. minute' = kept /\ taken' = taken /\ now' = now /\ MaxPerMinute \in Nat
  BY GuardAssumption DEF CheckRate, Writes
<1>2. /\ \A i \in 0..MaxTime : i > now - Minute => kept[i] = taken[i]
      /\ TradesIn(kept) \in Nat /\ Rate(taken, now) <= TradesIn(kept)
  BY RateSeen
<1>3. /\ Cardinality(At(PastRate)) \in Nat /\ Cardinality(At(PastRate))' \in Nat
      /\ Cardinality(At(PastRate))' <= Cardinality(Caller) /\ Cardinality(Caller) \in Nat
  <2>1. \E to : Goes(c, "rate", to)
    BY DEF CheckRate, Writes
  <2>2. QED
    BY <2>1, MoveCounts, CallersCounted
<1>4. Rate(taken, now) \in Nat
  BY RateNat DEF GuardTypeOK
<1>5. Rate(taken, now) + Cardinality(At(PastRate))' <= Ceiling
  <2>1. CASE TradesIn(kept) >= MaxPerMinute
    <3>1. Goes(c, "rate", "idle")
      BY <2>1 DEF CheckRate, Writes
    <3>2. Cardinality(At(PastRate))' <= Cardinality(At(PastRate))
      BY <3>1, MoveCounts DEF PastRate
    <3>3. QED
      BY <1>3, <1>4, <3>2, CallersCounted DEF RateInv
  <2>2. CASE ~(TradesIn(kept) >= MaxPerMinute)
    <3> HIDE DEF kept
    <3>1. QED
      BY <1>1, <1>2, <1>3, <1>4, <2>2 DEF Ceiling
  <2>3. QED
    BY <2>1, <2>2
<1> HIDE DEF kept
<1>6. QED
  BY <1>1, <1>2, <1>5 DEF RateInv

(* A stamped trade is one more in the last minute.                         *)
LEMMA RateStamped ==
  ASSUME GuardTypeOK, NEW c \in Caller, StampTrade(c)
  PROVE  Rate(taken', now) = Rate(taken, now) + 1 /\ now' = now
<1>1. /\ taken \in [0..MaxTime -> Nat] /\ now \in 0..MaxTime
      /\ MaxTime \in Nat /\ Minute \in Nat \ {0}
  BY GuardAssumption DEF GuardTypeOK
<1>2. taken' = [taken EXCEPT ![now] = @ + 1] /\ now' = now
  BY DEF StampTrade, Writes
<1>3. now \in Window(now)
  BY <1>1 DEF Window
<1>4. IsFiniteSet(Window(now)) /\ Window(now) \subseteq 0..MaxTime
  BY <1>1, WindowFinite
<1>5. /\ \A i \in Window(now) : taken[i] \in Int /\ taken'[i] \in Int
      /\ \A i \in Window(now) \ {now} : taken[i] = taken'[i]
      /\ taken'[now] = taken[now] + 1
  BY <1>1, <1>2, <1>4
<1>6. SumFunctionOnSet(taken', Window(now))
        = SumFunctionOnSet(taken, Window(now)) + taken'[now] - taken[now]
  BY <1>3, <1>4, <1>5, SumExcept
<1>7. taken[now] \in Nat /\ Rate(taken, now) \in Nat
  BY <1>1, RateNat
<1>8. QED
  BY <1>2, <1>5, <1>6, <1>7 DEF Rate

(* A stamped trade is one more in the last minute and one fewer to come.   *)
LEMMA StampedRate ==
  ASSUME GuardTypeOK, RateInv, NEW c \in Caller, StampTrade(c)
  PROVE  RateInv'
<1>1. /\ taken \in [0..MaxTime -> Nat] /\ minute \in [0..MaxTime -> Nat]
      /\ now \in 0..MaxTime /\ MaxTime \in Nat /\ Minute \in Nat \ {0}
  BY GuardAssumption DEF GuardTypeOK
<1>2. /\ taken' = [taken EXCEPT ![now] = @ + 1] /\ minute' = [minute EXCEPT ![now] = @ + 1]
      /\ now' = now /\ Goes(c, "stamp", "count")
  BY DEF StampTrade, Writes
<1>3. /\ Cardinality(At(PastRate)) \in Nat
      /\ Cardinality(At(PastRate))' = Cardinality(At(PastRate)) - 1
  BY <1>2, MoveCounts DEF PastRate
<1>4. Rate(taken', now) = Rate(taken, now) + 1
  BY RateStamped
<1>5. ASSUME NEW t \in 0..now, t # now
      PROVE  Rate(taken', t) = Rate(taken, t)
  <2>1. t \in 0..MaxTime /\ now \notin Window(t)
    BY <1>1, <1>5 DEF Window
  <2>2. IsFiniteSet(Window(t)) /\ \A i \in Window(t) : taken'[i] \in Int /\ taken'[i] = taken[i]
    BY <1>1, <1>2, <2>1, WindowFinite
  <2>3. QED
    BY <2>2, SumSame DEF Rate
<1>6. Rate(taken, now) \in Nat /\ Ceiling \in Int
  BY <1>1, RateNat, CallersCounted
<1>7. /\ \A i \in 0..MaxTime : i > now => taken'[i] = 0
      /\ \A i \in 0..MaxTime : i > now - Minute => minute'[i] = taken'[i]
  BY <1>1, <1>2 DEF RateInv
<1>8. Rate(taken', now) + Cardinality(At(PastRate))' <= Ceiling
  BY <1>3, <1>4, <1>6 DEF RateInv
<1>9. ASSUME NEW t \in 0..now PROVE Rate(taken', t) <= Ceiling
  <2>1. CASE t = now
    <3>1. Rate(taken, now) + 1 <= Ceiling
      <4>1. At(PastRate) # {} /\ IsFiniteSet(At(PastRate))
        BY <1>2, GuardAssumption, FS_Subset DEF At, Goes, PastRate
      <4>2. Cardinality(At(PastRate)) >= 1
        BY <1>3, <4>1, FS_EmptySet
      <4>3. QED
        BY <1>3, <1>6, <4>2 DEF RateInv
    <3>2. QED
      BY <1>4, <2>1, <3>1
  <2>2. CASE t # now
    BY <1>5, <2>2 DEF RateInv
  <2>3. QED
    BY <2>1, <2>2
<1>10. QED
  BY <1>2, <1>7, <1>8, <1>9 DEF RateInv

(* The clock enters an instant with no trades and leaves others behind.    *)
LEMMA RateFades ==
  ASSUME GuardTypeOK, RateInv, Tick
  PROVE  /\ Rate(taken, now + 1) \in Nat
         /\ Rate(taken, now + 1) <= Rate(taken, now)
<1>1. /\ taken \in [0..MaxTime -> Nat] /\ now \in 0..MaxTime /\ now + 1 \in 0..MaxTime
      /\ MaxTime \in Nat /\ Minute \in Nat
  BY GuardAssumption DEF GuardTypeOK, Tick
<1> DEFINE W == Window(now + 1)
           R == W \ {now + 1}
<1>2. /\ IsFiniteSet(W) /\ (\A i \in W : taken[i] \in Nat)
      /\ IsFiniteSet(R) /\ (\A i \in R : taken[i] \in Nat) /\ taken[now + 1] = 0
  <2>1. IsFiniteSet(W) /\ W \subseteq 0..MaxTime
    BY <1>1, WindowFinite
  <2>2. taken[now + 1] = 0
    BY <1>1 DEF RateInv
  <2> HIDE DEF W
  <2>3. IsFiniteSet(R)
    BY <2>1, FS_RemoveElement
  <2>4. \A i \in W : taken[i] \in Nat
    BY <1>1, <2>1
  <2>5. QED
    BY <2>1, <2>2, <2>3, <2>4
<1>3. R \in SUBSET Window(now)
  BY <1>1 DEF Window
<1>4. SumFunctionOnSet(taken, R) <= Rate(taken, now)
  <2>1. IsFiniteSet(Window(now)) /\ \A i \in Window(now) : taken[i] \in Nat
    BY <1>1, WindowFinite
  <2>2. QED
    BY <1>3, <2>1, SumSubset DEF Rate
<1>5. SumFunctionOnSet(taken, R) \in Nat
  BY <1>2, SumNat
<1> HIDE DEF W
<1>6. SumFunctionOnSet(taken, W) = SumFunctionOnSet(taken, R)
  <2>1. CASE now + 1 \in W
    <3>1. SumFunctionOnSet(taken, W) = taken[now + 1] + SumFunctionOnSet(taken, R)
      BY <1>2, <2>1, SumRemove
    <3>2. QED
      BY <1>2, <1>5, <3>1
  <2>2. CASE now + 1 \notin W
    <3>1. R = W
      BY <2>2
    <3>2. QED
      BY <3>1
  <2>3. QED
    BY <2>1, <2>2
<1>7. QED
  BY <1>4, <1>5, <1>6 DEF Rate, W

(* So the clock gives nobody room that the limit would not.                *)
LEMMA TickedRate ==
  ASSUME GuardTypeOK, RateInv, Tick
  PROVE  RateInv'
<1>1. now \in 0..MaxTime /\ now + 1 \in 0..MaxTime /\ MaxTime \in Nat /\ Minute \in Nat
  BY GuardAssumption DEF GuardTypeOK, Tick
<1>2. now' = now + 1 /\ UNCHANGED <<taken, minute, pc>>
  BY DEF Tick, counters
<1>3. Rate(taken, now + 1) <= Rate(taken, now) /\ Rate(taken, now + 1) \in Nat
  BY RateFades
<1>4. /\ Cardinality(At(PastRate)) \in Nat /\ Ceiling \in Int /\ Rate(taken, now) \in Nat
      /\ At(PastRate)' = At(PastRate)
  BY <1>1, <1>2, CallersCounted, RateNat DEF At, GuardTypeOK
<1>5. Rate(taken, now + 1) + Cardinality(At(PastRate)) <= Ceiling
  BY <1>3, <1>4 DEF RateInv
<1>6. \A t \in 0..(now + 1) : Rate(taken, t) <= Ceiling
  BY <1>1, <1>3, <1>4 DEF RateInv
<1>7. /\ \A i \in 0..MaxTime : i > now' => taken'[i] = 0
      /\ \A i \in 0..MaxTime : i > now' - Minute => minute'[i] = taken'[i]
  BY <1>1, <1>2 DEF RateInv
<1>8. /\ Rate(taken', now') + Cardinality(At(PastRate))' <= Ceiling
      /\ \A t \in 0..now' : Rate(taken', t) <= Ceiling
  BY <1>2, <1>4, <1>5, <1>6
<1>9. QED
  BY <1>2, <1>7, <1>8 DEF RateInv

LEMMA RateStep ==
  ASSUME GuardTypeOK, AskedBefore, RateInv, [GuardNext]_guardVars
  PROVE  RateInv'
<1>1. ASSUME NEW c \in Caller, NEW r \in TradeResult, Trade(c, r) PROVE RateInv'
  BY <1>1, QuietRate DEF Trade, counters, PastRate
<1>2. ASSUME NEW c \in Caller, Park(c) \/ LeaveOpen(c) PROVE RateInv'
  BY <1>2, QuietRate DEF Park, LeaveOpen, counters, PastRate
<1>3. ASSUME NEW c \in Caller, Ask(c) \/ CheckBreak(c) PROVE RateInv'
  <2>1. \E from, to : Goes(c, from, to) /\ to \notin PastRate
    BY <1>3 DEF Ask, CheckBreak, Reads, PastRate
  <2>2. UNCHANGED <<taken, now, minute>>
    BY <1>3 DEF Ask, CheckBreak, Reads, counters
  <2>3. QED
    BY <2>1, <2>2, QuietRate
<1>4. ASSUME NEW c \in Caller, CheckSlots(c) \/ CheckLoss(c) PROVE RateInv'
  <2>1. \E from \in PastRate : \E to : Goes(c, from, to)
    BY <1>4 DEF CheckSlots, CheckLoss, Reads, PastRate
  <2>2. UNCHANGED <<taken, now, minute>>
    BY <1>4 DEF CheckSlots, CheckLoss, Reads, counters
  <2>3. QED
    BY <2>1, <2>2, QuietRate
<1>5. ASSUME NEW c \in Caller, WriteSlots(c) PROVE RateInv'
  <2>1. \/ Goes(c, pc[c], "idle") \/ Goes(c, pc[c], "lose") \/ Goes(c, pc[c], "total")
    BY <1>5 DEF WriteSlots, Writes
  <2>2. UNCHANGED <<taken, now, minute>>
    BY <1>5 DEF WriteSlots, Writes
  <2>3. QED
    BY <2>1, <2>2, QuietRate DEF PastRate
<1>6. ASSUME NEW c \in Caller,
             \/ AddLoss(c) \/ CountTotal(c) \/ CountWin(c)
             \/ ReleaseTrade(c) \/ CircuitBreak(c)
      PROVE  RateInv'
  <2>1. \E from, to : Goes(c, from, to) /\ to \notin PastRate
    BY <1>6 DEF AddLoss, CountTotal, CountWin, ReleaseTrade, CircuitBreak, Writes, PastRate
  <2>2. UNCHANGED <<taken, now, minute>>
    BY <1>6 DEF AddLoss, CountTotal, CountWin, ReleaseTrade, CircuitBreak, Writes, counters
  <2>3. QED
    BY <2>1, <2>2, QuietRate
<1>7. ASSUME NEW c \in Caller, Stats(c) PROVE RateInv'
  <2>1. \E from, to : Goes(c, from, to) /\ to \notin PastRate
    BY <1>7 DEF Stats, StatsRead, StatsTotal, StatsProfitable, StatsAgain, StatsRate,
                StatsSlots, StatsMinute, StatsLoss, StatsReturn, PastRate
  <2>2. UNCHANGED <<taken, now, minute>>
    BY <1>7 DEF Stats, StatsRead, StatsTotal, StatsProfitable, StatsAgain, StatsRate,
                StatsSlots, StatsMinute, StatsLoss, StatsReturn, counters
  <2>3. QED
    BY <2>1, <2>2, QuietRate
<1>8. CASE UNCHANGED guardVars
  BY <1>8, QuietRate DEF guardVars, counters
<1>9. QED
  BY <1>1, <1>2, <1>3, <1>4, <1>5, <1>6, <1>7, <1>8, CheckedRate, StampedRate,
     TickedRate, NextCases

(* At the start no trade is taken.                                         *)
LEMMA NothingTaken ==
  ASSUME GuardInit
  PROVE  Rate(taken, now) = 0
<1>1. /\ now = 0 /\ MaxTime \in Nat
      /\ \A i \in 0..MaxTime : taken[i] = 0
  BY GuardAssumption DEF GuardInit
<1>2. IsFiniteSet(Window(0)) /\ \A i \in Window(0) : taken[i] = 0
  BY <1>1, WindowFinite
<1>3. QED
  BY <1>1, <1>2, SumZero DEF Rate

LEMMA RateHeld == GuardSpec => [](AskedBefore /\ RateInv)
<1>1. GuardInit => AskedBefore /\ RateInv
  <2> SUFFICES ASSUME GuardInit PROVE AskedBefore /\ RateInv
    OBVIOUS
  <2>1. now = 0 /\ MaxTime \in Nat /\ \A i \in 0..MaxTime : taken[i] = 0 /\ minute[i] = 0
    BY GuardAssumption DEF GuardInit
  <2>2. Rate(taken, now) = 0 /\ Rate(taken, 0) = 0
    BY <2>1, NothingTaken
  <2>3. Cardinality(At(PastRate)) = 0
    <3>1. At(PastRate) = {}
      BY DEF GuardInit, At, PastRate
    <3>2. QED
      BY <3>1, FS_EmptySet
  <2>4. Ceiling \in Nat
    <3>1. Cardinality(Caller) \in Nat /\ Cardinality(Caller) # 0
      BY GuardAssumption, FS_CardinalityType, FS_EmptySet
    <3>2. QED
      BY <3>1, GuardAssumption DEF Ceiling
  <2>5. \A t \in 0..now : t = 0
    BY <2>1
  <2>6. QED
    BY <2>1, <2>2, <2>3, <2>4, <2>5 DEF NoBreak, GuardInit, AskedBefore, RateInv
<1>2. GuardTypeOK /\ AskedBefore /\ CooldownKept /\ RateInv /\ [GuardNext]_guardVars
        => AskedBefore' /\ RateInv'
  BY CooldownStep, RateStep
<1>3. QED
  BY <1>1, <1>2, TypeCorrect, CooldownCorrect, PTL DEF GuardSpec

(* No minute of the clock has more trades than the limit and one for every *)
(* other caller (production.rs:97-107, 176-184).                           *)
THEOREM RateCorrect == GuardSpec => []RateOvershoot
<1>1. RateInv => RateOvershoot
  BY DEF RateInv, RateOvershoot, Rate, Window, Ceiling
<1>2. QED
  BY <1>1, RateHeld, PTL
-----------------------------------------------------------------------------
(* Every profitable trade is in the total before it is among the           *)
(* profitable, and whoever is about to read the profitable ones keeps the  *)
(* total it has read from moving.                                          *)
WinsCounted == profitable + Cardinality(At({"win"})) <= total

TotalKept ==
  \A c \in Caller : pc[c] = "s_profitable" => "total" \in guards[c] /\ read[c].total = total

ReadConsistent ==
  \A c \in Caller : pc[c] # "s_profitable" => read[c].profitable <= read[c].total

StatsInv == WinsCounted /\ TotalKept /\ ReadConsistent

(* A step that counts no trade and reads no statistic.                     *)
LEMMA QuietStats ==
  ASSUME GuardTypeOK, StatsInv, NEW c \in Caller, NEW from, NEW to, Goes(c, from, to),
         from \notin {"win", "s_profitable"}, to \notin {"win", "s_profitable"},
         UNCHANGED <<total, profitable>>,
         read'[c].profitable <= read'[c].total,
         \A d \in Caller \ {c} : guards[d] \subseteq guards'[d] /\ read'[d] = read[d]
  PROVE  StatsInv'
<1>1. WinsCounted'
  <2>1. Cardinality(At({"win"}))' = Cardinality(At({"win"}))
    <3>1. /\ Cardinality(At({"win"})) \in Nat
          /\ Cardinality(At({"win"}))' = Cardinality(At({"win"}))
                  + (IF to \in {"win"} THEN 1 ELSE 0) - (IF from \in {"win"} THEN 1 ELSE 0)
      BY MoveCounts
    <3>2. to \notin {"win"} /\ from \notin {"win"}
      OBVIOUS
    <3>3. QED
      BY <3>1, <3>2
  <2>2. QED
    BY <2>1 DEF StatsInv, WinsCounted
<1>2. pc'[c] = to /\ \A d \in Caller \ {c} : pc'[d] = pc[d]
  BY DEF Goes, GuardTypeOK
<1>3. TotalKept' /\ ReadConsistent'
  BY <1>2 DEF StatsInv, TotalKept, ReadConsistent
<1>4. QED
  BY <1>1, <1>3 DEF StatsInv

(* A trade counted finds no reader of the total about to go on.            *)
LEMMA CountStats ==
  ASSUME GuardTypeOK, StatsInv, NEW c \in Caller, CountTotal(c) \/ CountWin(c)
  PROVE  StatsInv'
<1> DEFINE W == Cardinality(At({"win"}))
<1>1. read' = read /\ guards' = guards /\ total \in Nat /\ profitable \in Nat
  BY DEF CountTotal, CountWin, Writes, GuardTypeOK
<1>2. CASE CountTotal(c)
  <2>1. PICK to \in {"win", "open"} : Goes(c, "total", to)
    BY <1>2 DEF CountTotal, Writes
  <2>2. total' = total + 1 /\ profitable' = profitable /\ Unread("total")
    BY <1>2 DEF CountTotal, Writes
  <2>3. W \in Nat /\ W' \in Nat /\ W' <= W + 1
    <3>1. /\ W \in Nat /\ W' \in Nat
          /\ W' = W + (IF to \in {"win"} THEN 1 ELSE 0) - (IF "total" \in {"win"} THEN 1 ELSE 0)
      BY <2>1, MoveCounts
    <3>2. QED
      BY <3>1
  <2>4. WinsCounted'
    BY <1>1, <2>2, <2>3 DEF StatsInv, WinsCounted
  <2>5. \A d \in Caller : pc[d] # "s_profitable" /\ pc'[d] # "s_profitable"
    BY <2>1, <2>2 DEF Unread, StatsInv, TotalKept, Goes, GuardTypeOK
  <2>6. QED
    BY <1>1, <2>4, <2>5 DEF StatsInv, TotalKept, ReadConsistent
<1>3. CASE CountWin(c)
  <2>1. Goes(c, "win", "open") /\ total' = total /\ profitable' = profitable + 1
    BY <1>3 DEF CountWin, Writes
  <2>2. W \in Nat /\ W' \in Nat /\ W' = W - 1
    <3>1. /\ W \in Nat /\ W' \in Nat
          /\ W' = W + (IF "open" \in {"win"} THEN 1 ELSE 0) - (IF "win" \in {"win"} THEN 1 ELSE 0)
      BY <2>1, MoveCounts
    <3>2. QED
      BY <3>1
  <2>3. WinsCounted'
    BY <1>1, <2>1, <2>2 DEF StatsInv, WinsCounted
  <2>4. \A d \in Caller : pc'[d] = "s_profitable" <=> pc[d] = "s_profitable"
    BY <2>1 DEF Goes, GuardTypeOK
  <2>5. QED
    BY <1>1, <2>1, <2>3, <2>4 DEF StatsInv, TotalKept, ReadConsistent
<1>4. QED
  BY <1>2, <1>3

(* The reads of stats().                                                   *)
LEMMA ReadStats ==
  ASSUME GuardTypeOK, StatsInv, NEW c \in Caller, Stats(c)
  PROVE  StatsInv'
<1>1. UNCHANGED <<total, profitable>>
  BY DEF Stats, StatsRead, StatsTotal, StatsProfitable, StatsAgain, StatsRate,
         StatsSlots, StatsMinute, StatsLoss, StatsReturn, counters
<1>2. /\ total \in Nat /\ profitable \in Nat
      /\ read[c] \in [total : Nat, profitable : Nat, slots : Nat]
  BY DEF GuardTypeOK
<1>3. profitable <= total
  <2>1. Cardinality(At({"win"})) \in Nat
    <3>1. IsFiniteSet(At({"win"}))
      BY GuardAssumption, FS_Subset DEF At
    <3>2. QED
      BY <3>1, FS_CardinalityType
  <2>2. QED
    BY <1>2, <2>1 DEF StatsInv, WinsCounted
<1>4. ASSUME NEW from, NEW to, Goes(c, from, to), from # "win", to # "win"
      PROVE  WinsCounted'
  <2>1. /\ Cardinality(At({"win"})) \in Nat
        /\ Cardinality(At({"win"}))' = Cardinality(At({"win"}))
                + (IF to \in {"win"} THEN 1 ELSE 0) - (IF from \in {"win"} THEN 1 ELSE 0)
    BY <1>4, MoveCounts
  <2>2. to \notin {"win"} /\ from \notin {"win"}
    BY <1>4
  <2>3. Cardinality(At({"win"}))' = Cardinality(At({"win"}))
    BY <2>1, <2>2
  <2>4. QED
    BY <1>1, <2>3 DEF StatsInv, WinsCounted
<1>5. CASE StatsTotal(c)
  <2>1. /\ Goes(c, "idle", "s_profitable")
        /\ guards' = [guards EXCEPT ![c] = @ \cup {"total"}]
        /\ read' = [read EXCEPT ![c].total = total]
    BY <1>5 DEF StatsTotal, StatsRead
  <2>2. WinsCounted'
    BY <1>4, <2>1
  <2>3. /\ pc'[c] = "s_profitable" /\ "total" \in guards'[c] /\ read'[c].total = total
        /\ \A d \in Caller \ {c} :
              pc'[d] = pc[d] /\ guards'[d] = guards[d] /\ read'[d] = read[d]
    BY <2>1 DEF Goes, GuardTypeOK
  <2>4. QED
    BY <1>1, <2>2, <2>3 DEF StatsInv, TotalKept, ReadConsistent
<1>6. CASE StatsProfitable(c)
  <2>1. /\ Goes(c, "s_profitable", "s_again")
        /\ guards' = [guards EXCEPT ![c] = @ \cup {"profitable"}]
        /\ read' = [read EXCEPT ![c].profitable = profitable]
    BY <1>6 DEF StatsProfitable, StatsRead
  <2>2. WinsCounted'
    BY <1>4, <2>1
  <2>3. /\ pc'[c] = "s_again" /\ pc[c] = "s_profitable"
        /\ read'[c].profitable = profitable /\ read'[c].total = read[c].total
        /\ \A d \in Caller \ {c} :
              pc'[d] = pc[d] /\ guards'[d] = guards[d] /\ read'[d] = read[d]
    BY <2>1 DEF Goes, GuardTypeOK
  <2>4. read'[c].profitable <= read'[c].total
    BY <1>3, <2>3 DEF StatsInv, TotalKept
  <2>5. QED
    BY <1>1, <2>2, <2>3, <2>4 DEF StatsInv, TotalKept, ReadConsistent
<1>7. CASE StatsAgain(c) \/ StatsRate(c) \/ StatsSlots(c) \/ StatsMinute(c) \/ StatsLoss(c)
  <2>1. /\ read' = read /\ \A d \in Caller \ {c} : guards[d] \subseteq guards'[d]
        /\ \E from \in {"s_again", "s_rate", "s_slots", "s_minute", "s_loss"},
              to \in {"s_rate", "s_slots", "s_minute", "s_loss", "s_break"} : Goes(c, from, to)
    BY <1>7 DEF StatsRead, StatsAgain, StatsRate, StatsSlots, StatsMinute, StatsLoss, GuardTypeOK
  <2>2. read'[c].profitable <= read'[c].total
    BY <2>1 DEF StatsInv, ReadConsistent, Goes
  <2>3. QED
    BY <1>1, <2>1, <2>2, QuietStats
<1>8. CASE StatsReturn(c)
  <2>1. /\ Goes(c, "s_break", "idle") /\ read'[c] = Nothing
        /\ \A d \in Caller \ {c} : guards[d] \subseteq guards'[d] /\ read'[d] = read[d]
    BY <1>8 DEF StatsReturn, GuardTypeOK
  <2>2. read'[c].profitable <= read'[c].total
    BY <2>1 DEF Nothing
  <2>3. QED
    BY <1>1, <2>1, <2>2, QuietStats
<1>9. QED
  BY <1>5, <1>6, <1>7, <1>8 DEF Stats

LEMMA StatsStep ==
  ASSUME GuardTypeOK, StatsInv, [GuardNext]_guardVars
  PROVE  StatsInv'
<1>0. ASSUME NEW c \in Caller, NEW from, NEW to, Goes(c, from, to),
             from \notin {"win", "s_profitable"}, to \notin {"win", "s_profitable"},
             UNCHANGED <<total, profitable, guards, read>>
      PROVE  StatsInv'
  <2>1. read[c].profitable <= read[c].total
    BY <1>0 DEF Goes, StatsInv, ReadConsistent
  <2>2. QED
    BY <1>0, <2>1, QuietStats
<1>1. ASSUME UNCHANGED <<pc, total, profitable, guards, read>> PROVE StatsInv'
  BY <1>1 DEF StatsInv, WinsCounted, TotalKept, ReadConsistent, At
<1>2. ASSUME NEW c \in Caller, NEW r \in TradeResult, Trade(c, r) PROVE StatsInv'
  BY <1>0, <1>2 DEF Trade, counters
<1>3. ASSUME NEW c \in Caller, LeaveOpen(c) PROVE StatsInv'
  BY <1>0, <1>3 DEF LeaveOpen, counters
<1>4. ASSUME NEW c \in Caller, Ask(c) \/ CheckBreak(c) \/ CheckRate(c) PROVE StatsInv'
  <2>1. \E from \in {"idle", "break", "rate"}, to \in {"idle", "break", "rate", "slots"} :
           Goes(c, from, to)
    BY <1>4 DEF Ask, CheckBreak, CheckRate, Reads, Writes
  <2>2. UNCHANGED <<total, profitable, guards, read>>
    BY <1>4 DEF Ask, CheckBreak, CheckRate, Reads, Writes, counters
  <2>3. QED
    BY <1>0, <2>1, <2>2
<1>5. ASSUME NEW c \in Caller, CheckSlots(c) \/ CheckLoss(c) PROVE StatsInv'
  <2>1. \E from \in {"slots", "loss"}, to \in {"idle", "loss", "allowed"} : Goes(c, from, to)
    BY <1>5 DEF CheckSlots, CheckLoss, Reads
  <2>2. UNCHANGED <<total, profitable, guards, read>>
    BY <1>5 DEF CheckSlots, CheckLoss, Reads, counters
  <2>3. QED
    BY <1>0, <2>1, <2>2
<1>6. ASSUME NEW c \in Caller, StampTrade(c) \/ AddLoss(c) PROVE StatsInv'
  <2>1. \E from \in {"stamp", "lose"}, to \in {"count", "total"} : Goes(c, from, to)
    BY <1>6 DEF StampTrade, AddLoss, Writes
  <2>2. UNCHANGED <<total, profitable, guards, read>>
    BY <1>6 DEF StampTrade, AddLoss, Writes
  <2>3. QED
    BY <1>0, <2>1, <2>2
<1>7. ASSUME NEW c \in Caller, WriteSlots(c) PROVE StatsInv'
  <2>1. \E from \in {"count", "release"}, to \in {"idle", "lose", "total"} : Goes(c, from, to)
    BY <1>7 DEF WriteSlots, Writes
  <2>2. UNCHANGED <<total, profitable, guards, read>>
    BY <1>7 DEF WriteSlots, Writes
  <2>3. QED
    BY <1>0, <2>1, <2>2
<1>8. ASSUME NEW c \in Caller, CircuitBreak(c) PROVE StatsInv'
  <2>1. \E from \in {"idle", "trip"}, to \in {"idle", "trip"} : Goes(c, from, to)
    BY <1>8 DEF CircuitBreak, Writes
  <2>2. UNCHANGED <<total, profitable, guards, read>>
    BY <1>8 DEF CircuitBreak, Writes, counters
  <2>3. QED
    BY <1>0, <2>1, <2>2
<1>9. ASSUME NEW c \in Caller, ReleaseTrade(c) PROVE StatsInv'
  <2>1. /\ Goes(c, "open", "release") /\ UNCHANGED <<total, profitable>>
        /\ \A d \in Caller \ {c} : guards[d] \subseteq guards'[d] /\ read'[d] = read[d]
        /\ read'[c].profitable = read[c].profitable /\ read'[c].total = read[c].total
    BY <1>9 DEF ReleaseTrade, counters, GuardTypeOK
  <2>2. read'[c].profitable <= read'[c].total
    BY <2>1 DEF Goes, StatsInv, ReadConsistent
  <2>3. QED
    BY <2>1, <2>2, QuietStats
<1>10. QED
  BY <1>1, <1>2, <1>3, <1>4, <1>5, <1>6, <1>7, <1>8, <1>9, CountStats, ReadStats, NextCases
     DEF Tick, Park, guardVars, counters

(* The win rate of stats() is one at the most, whatever trades are         *)
(* recorded while it reads (production.rs:205-215, 327-341).               *)
THEOREM StatsCorrect == GuardSpec => []StatsConsistent
<1>1. GuardInit => StatsInv
  <2> SUFFICES ASSUME GuardInit PROVE StatsInv
    OBVIOUS
  <2>1. At({"win"}) = {}
    BY DEF GuardInit, At
  <2>2. Cardinality(At({"win"})) = 0
    BY <2>1, FS_EmptySet
  <2>3. QED
    BY <2>2 DEF GuardInit, StatsInv, WinsCounted, TotalKept, ReadConsistent, Nothing
<1>2. GuardTypeOK /\ StatsInv /\ [GuardNext]_guardVars => StatsInv'
  BY StatsStep
<1>3. StatsInv => StatsConsistent
  BY DEF StatsInv, ReadConsistent, StatsConsistent
<1>4. QED
  BY <1>1, <1>2, <1>3, TypeCorrect, PTL DEF GuardSpec
-----------------------------------------------------------------------------
(* Who keeps whom waiting.  A caller in stats() or release_trade() keeps   *)
(* guards while it asks for the next lock.                                 *)
Keeping == {"release", "s_profitable", "s_again", "s_rate", "s_slots", "s_minute",
            "s_loss", "s_break"}

NeedsRead(c, l) ==
  <<pc[c], l>> \in
    {<<"break", "break">>, <<"slots", "slots">>, <<"loss", "loss">>,
     <<"s_profitable", "profitable">>, <<"s_again", "total">>, <<"s_rate", "total">>,
     <<"s_rate", "profitable">>, <<"s_slots", "slots">>, <<"s_minute", "minute">>,
     <<"s_loss", "loss">>, <<"s_break", "break">>}

NeedsWrite(c, l) == pc[c] \in DOMAIN Wants /\ Wants[pc[c]] = l

KeptWaiting(c, l) ==
  \/ NeedsRead(c, l) /\ ~CanRead(l)
  \/ NeedsWrite(c, l) /\ ~(Unread(l) /\ Claimable(c, l))

GoesOn(c) == \A l \in Lock : ~KeptWaiting(c, l)

(* Whoever is kept waiting waits for a caller in stats() or release_trade  *)
(* that keeps a guard of that lock, or for a writer that can go on.        *)
OnlyKeepersBlock ==
  \A c \in Caller, l \in Lock :
     KeptWaiting(c, l) =>
       \/ \E d \in Caller : l \in guards[d] /\ pc[d] \in Keeping
       \/ \E d \in Caller \ {c} : parked[l] = d /\ NeedsWrite(d, l) /\ GoesOn(d)

(* A claim is of a writer that still waits at its lock, and a guard of a   *)
(* caller inside one of the two calls.                                     *)
ClaimInv ==
  /\ \A l \in Lock : parked[l] # NoCaller => NeedsWrite(parked[l], l)
  /\ \A c \in Caller : guards[c] # {} => pc[c] \in Keeping

LEMMA WantsPlaces ==
  /\ DOMAIN Wants = {"trip", "rate", "stamp", "count", "lose", "total", "win", "release"}
  /\ Wants["trip"] = "break" /\ Wants["rate"] = "minute" /\ Wants["stamp"] = "minute"
  /\ Wants["count"] = "slots" /\ Wants["lose"] = "loss" /\ Wants["total"] = "total"
  /\ Wants["win"] = "profitable" /\ Wants["release"] = "slots"
  BY DEF Wants

LEMMA KeepersFromClaims ==
  ASSUME GuardTypeOK, ClaimInv
  PROVE  OnlyKeepersBlock
<1> SUFFICES ASSUME NEW c \in Caller, NEW l \in Lock, KeptWaiting(c, l), Unread(l)
             PROVE  \E d \in Caller \ {c} : parked[l] = d /\ NeedsWrite(d, l) /\ GoesOn(d)
  BY DEF OnlyKeepersBlock, ClaimInv, Unread
<1> DEFINE d == parked[l]
<1>1. NeedsRead(c, l) => pc[c] \notin DOMAIN Wants
  BY WantsPlaces DEF NeedsRead
<1>2. d # NoCaller /\ d # c
  BY <1>1 DEF KeptWaiting, CanRead, Claimable, NeedsWrite, ClaimInv
<1>3. d \in Caller /\ NeedsWrite(d, l)
  BY <1>2 DEF GuardTypeOK, ClaimInv
<1>4. ASSUME NEW k \in Lock PROVE ~KeptWaiting(d, k)
  <2>1. ~NeedsRead(d, k)
    BY <1>3, WantsPlaces DEF NeedsRead, NeedsWrite
  <2>2. NeedsWrite(d, k) => k = l
    BY <1>3 DEF NeedsWrite
  <2>3. Unread(l) /\ Claimable(d, l)
    BY DEF Claimable
  <2>4. QED
    BY <2>1, <2>2, <2>3 DEF KeptWaiting
<1>5. QED
  BY <1>2, <1>3, <1>4 DEF GoesOn

(* A caller moves: nothing is claimed at the place it leaves any more, and *)
(* what it holds fits the place it enters.                                 *)
LEMMA ClaimMoves ==
  ASSUME GuardTypeOK, ClaimInv, NEW c \in Caller, NEW from, NEW to, Goes(c, from, to),
         \/ from \notin DOMAIN Wants /\ parked' = parked
         \/ from \in DOMAIN Wants /\ Claimable(c, Wants[from])
            /\ parked' = [parked EXCEPT ![Wants[from]] = NoCaller],
         \A d \in Caller \ {c} : guards'[d] = guards[d],
         guards'[c] = {} \/ to \in Keeping
  PROVE  ClaimInv'
<1>1. pc[c] = from /\ pc'[c] = to /\ \A d \in Caller \ {c} : pc'[d] = pc[d]
  BY DEF Goes, GuardTypeOK
<1>2. ASSUME NEW l \in Lock, parked'[l] # NoCaller
      PROVE  parked'[l] = parked[l] /\ parked[l] # c /\ parked[l] \in Caller
  <2>1. CASE from \notin DOMAIN Wants /\ parked' = parked
    BY <1>1, <1>2, <2>1 DEF ClaimInv, NeedsWrite, GuardTypeOK
  <2>2. CASE from \in DOMAIN Wants /\ Claimable(c, Wants[from])
             /\ parked' = [parked EXCEPT ![Wants[from]] = NoCaller]
    <3>1. Wants[from] \in Lock
      BY <2>2, WantsPlaces DEF Lock
    <3>2. l # Wants[from] /\ parked'[l] = parked[l]
      BY <1>2, <2>2, <3>1 DEF GuardTypeOK
    <3>3. parked[l] = c => Wants[from] = l
      BY <1>1, <1>2, <3>2 DEF ClaimInv, NeedsWrite
    <3>4. QED
      BY <1>2, <3>2, <3>3 DEF GuardTypeOK
  <2>3. QED
    BY <2>1, <2>2
<1>3. \A l \in Lock : parked'[l] # NoCaller => NeedsWrite(parked[l], l)' /\ parked'[l] = parked[l]
  BY <1>1, <1>2 DEF ClaimInv, NeedsWrite
<1>4. \A d \in Caller : guards'[d] # {} => pc'[d] \in Keeping
  BY <1>1 DEF ClaimInv
<1>5. QED
  BY <1>3, <1>4 DEF ClaimInv, NeedsWrite

LEMMA ClaimStep ==
  ASSUME GuardTypeOK, ReleaseHolds, ClaimInv, [GuardNext]_guardVars
  PROVE  ClaimInv'
<1>0. \A c \in Caller : pc[c] \notin Keeping => guards[c] = {}
  BY DEF ClaimInv
<1>1. ASSUME Tick \/ UNCHANGED guardVars PROVE ClaimInv'
  BY <1>1 DEF Tick, guardVars, counters, ClaimInv, NeedsWrite
<1>2. ASSUME NEW c \in Caller, NEW from, NEW to, Goes(c, from, to),
             from \notin DOMAIN Wants, from \notin Keeping,
             UNCHANGED <<guards, parked>>
      PROVE  ClaimInv'
  <2>1. guards'[c] = {}
    BY <1>0, <1>2 DEF Goes
  <2>2. QED
    BY <1>2, <2>1, ClaimMoves
<1>3. ASSUME NEW c \in Caller, NEW from, NEW l, NEW to, Writes(c, from, l, to),
             from \in DOMAIN Wants, Wants[from] = l, from \notin Keeping
      PROVE  ClaimInv'
  <2>1. guards' = guards /\ guards[c] = {}
    BY <1>0, <1>3 DEF Writes, Goes
  <2>2. QED
    BY <1>3, <2>1, ClaimMoves DEF Writes
<1>4. ASSUME NEW c \in Caller, NEW r \in TradeResult, Trade(c, r) PROVE ClaimInv'
  BY <1>2, <1>4, WantsPlaces DEF Trade, Keeping
<1>5. ASSUME NEW c \in Caller, Park(c) PROVE ClaimInv'
  <2>1. /\ pc[c] \in DOMAIN Wants /\ UNCHANGED <<pc, guards>>
        /\ parked' = [parked EXCEPT ![Wants[pc[c]]] = c]
    BY <1>5 DEF Park
  <2>2. Wants[pc[c]] \in Lock
    BY <2>1, WantsPlaces DEF Lock
  <2>3. \A l \in Lock : parked'[l] = IF l = Wants[pc[c]] THEN c ELSE parked[l]
    BY <2>1, <2>2 DEF GuardTypeOK
  <2>4. QED
    BY <2>1, <2>3 DEF ClaimInv, NeedsWrite
<1>6. ASSUME NEW c \in Caller, Ask(c) \/ LeaveOpen(c) PROVE ClaimInv'
  BY <1>2, <1>6, WantsPlaces DEF Ask, LeaveOpen, Keeping
<1>7. ASSUME NEW c \in Caller, CheckBreak(c) \/ CheckSlots(c) \/ CheckLoss(c)
      PROVE  ClaimInv'
  BY <1>2, <1>7, WantsPlaces DEF CheckBreak, CheckSlots, CheckLoss, Reads, Keeping
<1>8. ASSUME NEW c \in Caller, CheckRate(c) PROVE ClaimInv'
  BY <1>3, <1>8, WantsPlaces DEF CheckRate, Keeping
<1>9. ASSUME NEW c \in Caller, StampTrade(c) \/ AddLoss(c) PROVE ClaimInv'
  BY <1>3, <1>9, WantsPlaces DEF StampTrade, AddLoss, Keeping
<1>10. ASSUME NEW c \in Caller, CountTotal(c) \/ CountWin(c) PROVE ClaimInv'
  BY <1>3, <1>10, WantsPlaces DEF CountTotal, CountWin, Keeping
<1>11. ASSUME NEW c \in Caller, WriteSlots(c) PROVE ClaimInv'
  <2>1. Unread("slots") /\ pc[c] \in {"count", "release"}
    BY <1>11 DEF WriteSlots, Writes
  <2>2. pc[c] = "count"
    BY <2>1 DEF ReleaseHolds, Unread
  <2>3. \E to : Writes(c, "count", "slots", to)
    BY <1>11, <2>2 DEF WriteSlots
  <2>4. QED
    BY <1>3, <2>3, WantsPlaces DEF Keeping
<1>12. ASSUME NEW c \in Caller, ReleaseTrade(c) PROVE ClaimInv'
  <2>1. Goes(c, "open", "release") /\ parked' = parked
        /\ \A d \in Caller \ {c} : guards'[d] = guards[d]
    BY <1>12 DEF ReleaseTrade, GuardTypeOK
  <2>2. QED
    BY <2>1, ClaimMoves, WantsPlaces DEF Keeping
<1>13. ASSUME NEW c \in Caller, CircuitBreak(c) PROVE ClaimInv'
  <2>1. CASE Goes(c, "idle", "trip") /\ UNCHANGED <<guards, parked>>
    BY <1>2, <2>1, WantsPlaces DEF Keeping
  <2>2. CASE Writes(c, "trip", "break", "idle")
    BY <1>3, <2>2, WantsPlaces DEF Keeping
  <2>3. QED
    BY <1>13, <2>1, <2>2 DEF CircuitBreak
<1>14. ASSUME NEW c \in Caller, Stats(c) PROVE ClaimInv'
  <2>1. CASE StatsReturn(c)
    <3>1. /\ Goes(c, "s_break", "idle") /\ parked' = parked /\ guards'[c] = {}
          /\ \A d \in Caller \ {c} : guards'[d] = guards[d]
      BY <2>1 DEF StatsReturn, GuardTypeOK
    <3>2. QED
      BY <3>1, ClaimMoves, WantsPlaces
  <2>2. CASE ~StatsReturn(c)
    <3>1. \E from, l, to : /\ StatsRead(c, from, l, to)
                           /\ from \notin DOMAIN Wants /\ to \in Keeping
      BY <1>14, <2>2, WantsPlaces
         DEF Stats, StatsTotal, StatsProfitable, StatsAgain, StatsRate, StatsSlots,
             StatsMinute, StatsLoss, Keeping
    <3>2. PICK from, l, to : /\ StatsRead(c, from, l, to)
                             /\ from \notin DOMAIN Wants /\ to \in Keeping
      BY <3>1
    <3>3. /\ Goes(c, from, to) /\ parked' = parked
          /\ \A d \in Caller \ {c} : guards'[d] = guards[d]
      BY <3>2 DEF StatsRead, GuardTypeOK
    <3>4. QED
      BY <3>2, <3>3, ClaimMoves
  <2>3. QED
    BY <2>1, <2>2
<1>15. QED
  BY <1>1, <1>4, <1>5, <1>6, <1>7, <1>8, <1>9, <1>10, <1>11, <1>12, <1>13, <1>14, NextCases

(* The guard locks up through stats() and release_trade() only: can_trade, *)
(* record_trade and circuit_break keep no guard over another lock, so a    *)
(* caller that waits for none of the two waits for one that goes on        *)
(* (production.rs:166-236, 327-341).                                       *)
THEOREM WaitersCorrect == GuardSpec => []OnlyKeepersBlock
<1>1. GuardInit => ClaimInv
  BY DEF GuardInit, ClaimInv
<1>2. GuardTypeOK /\ ReleaseHolds /\ ClaimInv /\ [GuardNext]_guardVars => ClaimInv'
  BY ClaimStep
<1>3. GuardTypeOK /\ ClaimInv => OnlyKeepersBlock
  BY KeepersFromClaims
<1>4. QED
  BY <1>1, <1>2, <1>3, TypeCorrect, ReleaseHeld, PTL DEF GuardSpec
-----------------------------------------------------------------------------
(* Each of the three limits by itself is an Allowance: the slots and the   *)
(* loss are counters that only grow, since release_trade never gets to     *)
(* lower the slots, and the rate is one that fades with the minute.        *)
SlotsLimit == INSTANCE Allowance
                WITH Client <- Caller, Limit <- MaxConcurrent, Most <- 1,
                     used <- slots, passed <- At(PastSlots)
LossLimit  == INSTANCE Allowance
                WITH Client <- Caller, Limit <- MaxLoss, Most <- WorstLoss,
                     used <- loss, passed <- At(PastLoss)
RateLimit  == INSTANCE Allowance
                WITH Client <- Caller, Limit <- MaxPerMinute, Most <- 1,
                     used <- Rate(taken, now), passed <- At(PastRate)

SlotsMoves == [SlotsLimit!AllowanceNext]_<<slots, At(PastSlots)>>
LossMoves  == [LossLimit!AllowanceNext]_<<loss, At(PastLoss)>>
RateMoves  == [RateLimit!AllowanceNext \/ RateLimit!Fade]_<<Rate(taken, now), At(PastRate)>>

(* Which callers are at a place after one of them moved.                   *)
LEMMA MoveSets ==
  ASSUME GuardTypeOK, NEW c \in Caller, NEW from, NEW to, Goes(c, from, to), NEW P
  PROVE  /\ c \in At(P) <=> from \in P
         /\ At(P)' = IF to \in P THEN At(P) \cup {c} ELSE At(P) \ {c}
<1>1. pc[c] = from /\ pc'[c] = to /\ \A d \in Caller \ {c} : pc'[d] = pc[d]
  BY DEF GuardTypeOK, Goes
<1>2. QED
  BY <1>1 DEF At

(* A caller that moves without entering a limit's places stays in them or  *)
(* gives up.                                                               *)
LEMMA QuietMove ==
  ASSUME GuardTypeOK, NEW c \in Caller, NEW from, NEW to, Goes(c, from, to), NEW P,
         to \in P => from \in P
  PROVE  \/ At(P)' = At(P)
         \/ c \in At(P) /\ At(P)' = At(P) \ {c}
  BY MoveSets

(* The callers a step may move, and how: who counts a trade, who finds     *)
(* room, and who does neither.                                             *)
LEMMA QuietSlots ==
  ASSUME GuardTypeOK, NEW c \in Caller, NEW from, NEW to, Goes(c, from, to),
         to \in PastSlots => from \in PastSlots, slots' = slots
  PROVE  SlotsMoves
<1>1. \/ At(PastSlots)' = At(PastSlots)
      \/ c \in At(PastSlots) /\ At(PastSlots)' = At(PastSlots) \ {c}
  BY QuietMove
<1>2. QED
  BY <1>1 DEF SlotsMoves, SlotsLimit!AllowanceNext, SlotsLimit!GiveUp

LEMMA QuietLoss ==
  ASSUME GuardTypeOK, NEW c \in Caller, NEW from, NEW to, Goes(c, from, to),
         to \in PastLoss => from \in PastLoss, loss' = loss
  PROVE  LossMoves
<1>1. \/ At(PastLoss)' = At(PastLoss)
      \/ c \in At(PastLoss) /\ At(PastLoss)' = At(PastLoss) \ {c}
  BY QuietMove
<1>2. QED
  BY <1>1 DEF LossMoves, LossLimit!AllowanceNext, LossLimit!GiveUp

LEMMA QuietRateMove ==
  ASSUME GuardTypeOK, NEW c \in Caller, NEW from, NEW to, Goes(c, from, to),
         to \in PastRate => from \in PastRate, taken' = taken, now' = now
  PROVE  RateMoves
<1>1. \/ At(PastRate)' = At(PastRate)
      \/ c \in At(PastRate) /\ At(PastRate)' = At(PastRate) \ {c}
  BY QuietMove
<1>2. Rate(taken', now') = Rate(taken, now)
  OBVIOUS
<1>3. QED
  BY <1>1, <1>2 DEF RateMoves, RateLimit!AllowanceNext, RateLimit!GiveUp

(* A step of the guard is a step of the limit on slots, or none.           *)
LEMMA SlotsStep ==
  ASSUME GuardTypeOK, ReleaseHolds, [GuardNext]_guardVars
  PROVE  SlotsMoves
<1> USE DEF PastSlots
<1>1. ASSUME UNCHANGED <<pc, slots>> PROVE SlotsMoves
  BY <1>1 DEF SlotsMoves, At
<1>2. ASSUME Tick \/ UNCHANGED guardVars PROVE SlotsMoves
  BY <1>1, <1>2 DEF Tick, guardVars, counters
<1>3. ASSUME NEW c \in Caller, NEW r \in TradeResult, Trade(c, r) PROVE SlotsMoves
  BY <1>3, QuietSlots DEF Trade, counters
<1>4. ASSUME NEW c \in Caller, Park(c) \/ LeaveOpen(c) PROVE SlotsMoves
  BY <1>1, <1>4, QuietSlots DEF Park, LeaveOpen, counters
<1>5. ASSUME NEW c \in Caller, Ask(c) \/ CheckBreak(c) \/ CheckRate(c) PROVE SlotsMoves
  <2>1. slots' = slots /\ \E from, to : Goes(c, from, to) /\ to \notin PastSlots
    BY <1>5 DEF Ask, CheckBreak, CheckRate, Reads, Writes, counters
  <2>2. QED
    BY <2>1, QuietSlots
<1>6. ASSUME NEW c \in Caller, CheckSlots(c) PROVE SlotsMoves
  <2>1. slots' = slots /\ slots \in Nat /\ MaxConcurrent \in Nat
    BY <1>6, GuardAssumption DEF CheckSlots, counters, GuardTypeOK
  <2>2. CASE slots >= MaxConcurrent
    <3>1. Goes(c, "slots", "idle")
      BY <1>6, <2>2 DEF CheckSlots, Reads
    <3>2. QED
      BY <2>1, <3>1, QuietSlots
  <2>3. CASE slots < MaxConcurrent
    <3>1. Goes(c, "slots", "loss")
      BY <1>6, <2>1, <2>3 DEF CheckSlots, Reads
    <3>2. c \notin At(PastSlots) /\ At(PastSlots)' = At(PastSlots) \cup {c}
      BY <3>1, MoveSets
    <3>3. SlotsLimit!FindRoom(c)
      BY <2>1, <2>3, <3>2 DEF SlotsLimit!FindRoom
    <3>4. QED
      BY <3>3 DEF SlotsMoves, SlotsLimit!AllowanceNext
  <2>4. QED
    BY <2>1, <2>2, <2>3
<1>7. ASSUME NEW c \in Caller, CheckLoss(c) PROVE SlotsMoves
  <2>1. slots' = slots /\ \E to : Goes(c, "loss", to)
    BY <1>7 DEF CheckLoss, Reads, counters
  <2>2. QED
    BY <2>1, QuietSlots
<1>8. ASSUME NEW c \in Caller, StampTrade(c) PROVE SlotsMoves
  BY <1>8, QuietSlots DEF StampTrade, Writes
<1>9. ASSUME NEW c \in Caller, WriteSlots(c) PROVE SlotsMoves
  <2>1. pc[c] = "count"
    BY <1>9 DEF WriteSlots, Writes, ReleaseHolds, Unread
  <2>2. Goes(c, "count", "lose") \/ Goes(c, "count", "total")
    BY <1>9, <2>1 DEF WriteSlots, Writes
  <2>3. slots' = slots + 1
    BY <1>9, <2>1 DEF WriteSlots
  <2>4. c \in At(PastSlots) /\ At(PastSlots)' = At(PastSlots) \ {c}
    BY <2>2, MoveSets
  <2>5. SlotsLimit!Count(c)
    BY <2>3, <2>4 DEF SlotsLimit!Count
  <2>6. QED
    BY <2>5 DEF SlotsMoves, SlotsLimit!AllowanceNext
<1>10. ASSUME NEW c \in Caller,
              \/ AddLoss(c) \/ CountTotal(c) \/ CountWin(c)
              \/ ReleaseTrade(c) \/ CircuitBreak(c)
       PROVE  SlotsMoves
  <2>1. slots' = slots /\ \E from, to : Goes(c, from, to) /\ to \notin PastSlots
    BY <1>10 DEF AddLoss, CountTotal, CountWin, ReleaseTrade, CircuitBreak, Writes, counters
  <2>2. QED
    BY <2>1, QuietSlots
<1>11. ASSUME NEW c \in Caller, Stats(c) PROVE SlotsMoves
  <2>1. slots' = slots /\ \E from, to : Goes(c, from, to) /\ to \notin PastSlots
    BY <1>11 DEF Stats, StatsRead, StatsTotal, StatsProfitable, StatsAgain, StatsRate,
                 StatsSlots, StatsMinute, StatsLoss, StatsReturn, counters
  <2>2. QED
    BY <2>1, QuietSlots
<1>12. QED
  BY <1>2, <1>3, <1>4, <1>5, <1>6, <1>7, <1>8, <1>9, <1>10, <1>11, NextCases

(* The same of the limit on the loss, which only a trade that lost raises. *)
LEMMA LossStep ==
  ASSUME GuardTypeOK, [GuardNext]_guardVars
  PROVE  LossMoves
<1> USE DEF PastLoss
<1>1. ASSUME UNCHANGED <<pc, loss>> PROVE LossMoves
  BY <1>1 DEF LossMoves, At
<1>2. ASSUME Tick \/ UNCHANGED guardVars PROVE LossMoves
  BY <1>1, <1>2 DEF Tick, guardVars, counters
<1>3. ASSUME NEW c \in Caller, NEW r \in TradeResult, Trade(c, r) PROVE LossMoves
  BY <1>3, QuietLoss DEF Trade, counters
<1>4. ASSUME NEW c \in Caller, Park(c) \/ LeaveOpen(c) PROVE LossMoves
  BY <1>1, <1>4, QuietLoss DEF Park, LeaveOpen, counters
<1>5. ASSUME NEW c \in Caller, Ask(c) \/ CheckBreak(c) \/ CheckRate(c) \/ CheckSlots(c)
      PROVE  LossMoves
  <2>1. loss' = loss /\ \E from, to : Goes(c, from, to) /\ to \notin PastLoss
    BY <1>5 DEF Ask, CheckBreak, CheckRate, CheckSlots, Reads, Writes, counters
  <2>2. QED
    BY <2>1, QuietLoss
<1>6. ASSUME NEW c \in Caller, CheckLoss(c) PROVE LossMoves
  <2>1. loss' = loss /\ loss \in Nat /\ MaxLoss \in Nat
    BY <1>6, GuardAssumption DEF CheckLoss, counters, GuardTypeOK
  <2>2. CASE loss >= MaxLoss
    <3>1. Goes(c, "loss", "idle")
      BY <1>6, <2>2 DEF CheckLoss, Reads
    <3>2. QED
      BY <2>1, <3>1, QuietLoss
  <2>3. CASE loss < MaxLoss
    <3>1. Goes(c, "loss", "allowed")
      BY <1>6, <2>1, <2>3 DEF CheckLoss, Reads
    <3>2. c \notin At(PastLoss) /\ At(PastLoss)' = At(PastLoss) \cup {c}
      BY <3>1, MoveSets
    <3>3. LossLimit!FindRoom(c)
      BY <2>1, <2>3, <3>2 DEF LossLimit!FindRoom
    <3>4. QED
      BY <3>3 DEF LossMoves, LossLimit!AllowanceNext
  <2>4. QED
    BY <2>1, <2>2, <2>3
<1>7. ASSUME NEW c \in Caller, StampTrade(c) PROVE LossMoves
  BY <1>7, QuietLoss DEF StampTrade, Writes
<1>8. ASSUME NEW c \in Caller, WriteSlots(c) PROVE LossMoves
  <2>1. loss' = loss
    BY <1>8 DEF WriteSlots
  <2>2. CASE pc[c] = "release"
    <3>1. Goes(c, "release", "idle")
      BY <1>8, <2>2 DEF WriteSlots, Writes
    <3>2. QED
      BY <2>1, <3>1, QuietLoss
  <2>3. CASE pc[c] = "count"
    <3>1. Goes(c, "count", "lose") \/ Goes(c, "count", "total")
      BY <1>8, <2>3 DEF WriteSlots, Writes
    <3>2. QED
      BY <2>1, <3>1, QuietLoss
  <2>4. QED
    BY <1>8, <2>2, <2>3 DEF WriteSlots
<1>9. ASSUME NEW c \in Caller, AddLoss(c) PROVE LossMoves
  <2>1. Goes(c, "lose", "total") /\ \E d \in 1..WorstLoss : loss' = loss + d
    BY <1>9 DEF AddLoss, Writes
  <2>2. c \in At(PastLoss) /\ At(PastLoss)' = At(PastLoss) \ {c}
    BY <2>1, MoveSets
  <2>3. LossLimit!Count(c)
    BY <2>1, <2>2 DEF LossLimit!Count
  <2>4. QED
    BY <2>3 DEF LossMoves, LossLimit!AllowanceNext
<1>10. ASSUME NEW c \in Caller,
              CountTotal(c) \/ CountWin(c) \/ ReleaseTrade(c) \/ CircuitBreak(c)
       PROVE  LossMoves
  <2>1. loss' = loss /\ \E from, to : Goes(c, from, to) /\ to \notin PastLoss
    BY <1>10 DEF CountTotal, CountWin, ReleaseTrade, CircuitBreak, Writes, counters
  <2>2. QED
    BY <2>1, QuietLoss
<1>11. ASSUME NEW c \in Caller, Stats(c) PROVE LossMoves
  <2>1. loss' = loss /\ \E from, to : Goes(c, from, to) /\ to \notin PastLoss
    BY <1>11 DEF Stats, StatsRead, StatsTotal, StatsProfitable, StatsAgain, StatsRate,
                 StatsSlots, StatsMinute, StatsLoss, StatsReturn, counters
  <2>2. QED
    BY <2>1, QuietLoss
<1>12. QED
  BY <1>2, <1>3, <1>4, <1>5, <1>6, <1>7, <1>8, <1>9, <1>10, <1>11, NextCases

(* The same of the limit on the rate: the check sees at least the trades   *)
(* of the minute that ends now, and the clock only forgets some.           *)
LEMMA RateLimitStep ==
  ASSUME GuardTypeOK, AskedBefore, RateInv, [GuardNext]_guardVars
  PROVE  RateMoves
<1>1. ASSUME UNCHANGED <<pc, taken, now>> PROVE RateMoves
  <2>1. Rate(taken', now') = Rate(taken, now) /\ At(PastRate)' = At(PastRate)
    BY <1>1 DEF At
  <2>2. QED
    BY <2>1 DEF RateMoves
<1>2. CASE UNCHANGED guardVars
  BY <1>1, <1>2 DEF guardVars, counters
<1>3. CASE Tick
  <2>1. Rate(taken', now') = Rate(taken, now + 1) /\ At(PastRate)' = At(PastRate)
    BY <1>3 DEF Tick, counters, At
  <2>2. /\ Rate(taken, now + 1) \in Nat /\ Rate(taken, now) \in Nat
        /\ Rate(taken, now + 1) <= Rate(taken, now)
    BY <1>3, RateFades, RateNat DEF GuardTypeOK
  <2>3. RateLimit!Fade
    BY <2>1, <2>2 DEF RateLimit!Fade
  <2>4. QED
    BY <2>3 DEF RateMoves
<1>4. ASSUME NEW c \in Caller, NEW r \in TradeResult, Trade(c, r) PROVE RateMoves
  BY <1>4, QuietRateMove DEF Trade, counters, PastRate
<1>5. ASSUME NEW c \in Caller, Park(c) \/ LeaveOpen(c) PROVE RateMoves
  BY <1>1, <1>5, QuietRateMove DEF Park, LeaveOpen, counters, PastRate
<1>6. ASSUME NEW c \in Caller, Ask(c) \/ CheckBreak(c) PROVE RateMoves
  <2>1. UNCHANGED <<taken, now>> /\ \E from, to : Goes(c, from, to) /\ to \notin PastRate
    BY <1>6 DEF Ask, CheckBreak, Reads, counters, PastRate
  <2>2. QED
    BY <2>1, QuietRateMove
<1>7. ASSUME NEW c \in Caller, CheckRate(c) PROVE RateMoves
  <2> DEFINE seen == TradesIn(LastMinute(minute, entry[c]))
  <2>1. /\ seen \in Nat /\ Rate(taken, now) \in Nat /\ MaxPerMinute \in Nat
        /\ Rate(taken, now) <= seen
    BY RateSeen, RateNat, GuardAssumption DEF GuardTypeOK
  <2>2. UNCHANGED <<taken, now>> /\ Rate(taken', now') = Rate(taken, now)
    BY <1>7 DEF CheckRate, Writes
  <2>3. CASE seen >= MaxPerMinute
    <3>1. Goes(c, "rate", "idle")
      BY <1>7, <2>3 DEF CheckRate, Writes
    <3>2. QED
      BY <2>2, <3>1, QuietRateMove DEF PastRate
  <2>4. CASE ~(seen >= MaxPerMinute)
    <3>1. Goes(c, "rate", "slots")
      BY <1>7, <2>4 DEF CheckRate, Writes
    <3>2. c \notin At(PastRate) /\ At(PastRate)' = At(PastRate) \cup {c}
      BY <3>1, MoveSets DEF PastRate
    <3> HIDE DEF seen
    <3>3. RateLimit!FindRoom(c)
      BY <2>1, <2>2, <2>4, <3>2 DEF RateLimit!FindRoom
    <3>4. QED
      BY <3>3 DEF RateMoves, RateLimit!AllowanceNext
  <2>5. QED
    BY <2>3, <2>4
<1>8. ASSUME NEW c \in Caller, CheckSlots(c) \/ CheckLoss(c) PROVE RateMoves
  <2>1. UNCHANGED <<taken, now>> /\ \E from \in PastRate : \E to : Goes(c, from, to)
    BY <1>8 DEF CheckSlots, CheckLoss, Reads, counters, PastRate
  <2>2. QED
    BY <2>1, QuietRateMove
<1>9. ASSUME NEW c \in Caller, StampTrade(c) PROVE RateMoves
  <2>1. Goes(c, "stamp", "count")
    BY <1>9 DEF StampTrade, Writes
  <2>2. c \in At(PastRate) /\ At(PastRate)' = At(PastRate) \ {c}
    BY <2>1, MoveSets DEF PastRate
  <2>3. Rate(taken', now') = Rate(taken, now) + 1
    BY <1>9, RateStamped
  <2>4. RateLimit!Count(c)
    BY <2>2, <2>3 DEF RateLimit!Count
  <2>5. QED
    BY <2>4 DEF RateMoves, RateLimit!AllowanceNext
<1>10. ASSUME NEW c \in Caller, WriteSlots(c) PROVE RateMoves
  <2>1. \/ Goes(c, pc[c], "idle") \/ Goes(c, pc[c], "lose") \/ Goes(c, pc[c], "total")
    BY <1>10 DEF WriteSlots, Writes
  <2>2. UNCHANGED <<taken, now>>
    BY <1>10 DEF WriteSlots, Writes
  <2>3. QED
    BY <2>1, <2>2, QuietRateMove DEF PastRate
<1>11. ASSUME NEW c \in Caller,
              \/ AddLoss(c) \/ CountTotal(c) \/ CountWin(c)
              \/ ReleaseTrade(c) \/ CircuitBreak(c)
       PROVE  RateMoves
  <2>1. \E from, to : Goes(c, from, to) /\ to \notin PastRate
    BY <1>11 DEF AddLoss, CountTotal, CountWin, ReleaseTrade, CircuitBreak, Writes, PastRate
  <2>2. UNCHANGED <<taken, now>>
    BY <1>11 DEF AddLoss, CountTotal, CountWin, ReleaseTrade, CircuitBreak, Writes, counters
  <2>3. QED
    BY <2>1, <2>2, QuietRateMove
<1>12. ASSUME NEW c \in Caller, Stats(c) PROVE RateMoves
  <2>1. \E from, to : Goes(c, from, to) /\ to \notin PastRate
    BY <1>12 DEF Stats, StatsRead, StatsTotal, StatsProfitable, StatsAgain, StatsRate,
                 StatsSlots, StatsMinute, StatsLoss, StatsReturn, PastRate
  <2>2. UNCHANGED <<taken, now>>
    BY <1>12 DEF Stats, StatsRead, StatsTotal, StatsProfitable, StatsAgain, StatsRate,
                 StatsSlots, StatsMinute, StatsLoss, StatsReturn, counters
  <2>3. QED
    BY <2>1, <2>2, QuietRateMove
<1>13. QED
  BY <1>2, <1>3, <1>4, <1>5, <1>6, <1>7, <1>8, <1>9, <1>10, <1>11, <1>12, NextCases

(* Each limit of the guard implements the abstract one: only who passed    *)
(* its check raises a counter, once, whatever the order in which the locks *)
(* are taken; nothing lowers the slots or the loss, not even release_trade *)
(* (production.rs:165-230).                                                *)
THEOREM LimitsRefined ==
  GuardSpec => SlotsLimit!KeptSpec /\ LossLimit!KeptSpec /\ RateLimit!FadingSpec
<1>1. GuardInit => SlotsLimit!AllowanceInit /\ LossLimit!AllowanceInit /\ RateLimit!AllowanceInit
  <2> SUFFICES ASSUME GuardInit
               PROVE  /\ SlotsLimit!AllowanceInit /\ LossLimit!AllowanceInit
                      /\ RateLimit!AllowanceInit
    OBVIOUS
  <2>1. At(PastSlots) = {} /\ At(PastLoss) = {} /\ At(PastRate) = {}
    BY DEF GuardInit, At, PastSlots, PastLoss, PastRate
  <2>2. slots = 0 /\ loss = 0 /\ Rate(taken, now) = 0
    BY NothingTaken DEF GuardInit
  <2>3. QED
    BY <2>1, <2>2 DEF SlotsLimit!AllowanceInit, LossLimit!AllowanceInit, RateLimit!AllowanceInit
<1>2. GuardTypeOK /\ ReleaseHolds /\ AskedBefore /\ RateInv /\ [GuardNext]_guardVars
        => SlotsMoves /\ LossMoves /\ RateMoves
  BY SlotsStep, LossStep, RateLimitStep
<1>3. QED
  BY <1>1, <1>2, TypeCorrect, ReleaseHeld, RateHeld, PTL
     DEF SlotsMoves, LossMoves, RateMoves, SlotsLimit!KeptSpec, LossLimit!KeptSpec,
         RateLimit!FadingSpec, SlotsLimit!allowanceVars, LossLimit!allowanceVars,
         RateLimit!allowanceVars, GuardSpec
====
