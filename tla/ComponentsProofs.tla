-------------------------- MODULE ComponentsProofs --------------------------
(* Proofs about the small components, for every value of their constants.  *)
EXTENDS Gabagool, Submission, Pnl, MarketLocks, TradeLog, MakerHybrid, FastBook,
        Rollover, RiskChecks, FoldLemmas

-----------------------------------------------------------------------------
(* Gabagool: positions and signals.                                        *)

GabagoolInv ==
  /\ shares \in [Sides -> Nat] /\ inFlight \in [Sides -> Nat] /\ waiting \in [Sides -> Nat]
  /\ FillsCountTwice

(* An edge that the branches after the arbitrage ask for is an arbitrage.  *)
LEMMA KindsThatOccur ==
  ASSUME NEW yes \in Nat, NEW no \in Nat, NEW confident \in BOOLEAN
  PROVE  Kind(yes, no, confident) \in {"None", "Arbitrage", "TopUp"}
  BY DEF Kind

LEMMA GabagoolInvStep == GabagoolInv /\ [GabagoolNext]_gabagoolVars => GabagoolInv'
<1> SUFFICES ASSUME GabagoolInv, [GabagoolNext]_gabagoolVars
             PROVE  GabagoolInv'
  OBVIOUS
<1> USE GabagoolAssumption DEF GabagoolInv, FillsCountTwice
<1>1. ASSUME NEW s \in Sides, NEW n \in OrderShares, lock_position(s, n)
      PROVE  GabagoolInv'
  <2>1. n \in Nat
    OBVIOUS
  <2>2. QED
    BY <1>1, <2>1 DEF lock_position
<1>2. ASSUME NEW s \in Sides, NEW n \in OrderShares, update_position(s, n, TRUE)
      PROVE  GabagoolInv'
  <2>1. n \in Nat /\ n <= waiting[s]
    BY <1>2 DEF update_position
  <2>2. QED
    BY <1>2, <2>1 DEF update_position, Fill
<1>3. ASSUME NEW s \in Sides, NEW n \in OrderShares, update_position(s, n, FALSE)
      PROVE  GabagoolInv'
  <2>1. n \in Nat /\ n <= waiting[s] /\ inFlight[s] >= n
    BY <1>3 DEF update_position
  <2>2. /\ inFlight' = [inFlight EXCEPT ![s] = inFlight[s] - n]
        /\ waiting' = [waiting EXCEPT ![s] = waiting[s] - n]
        /\ UNCHANGED <<shares, signal>>
    BY <1>3, <2>1 DEF update_position, Unfilled
  <2>3. QED
    BY <2>1, <2>2
<1>4. ASSUME NEW yes \in QuotedPrice, NEW no \in QuotedPrice, evaluate_prices(yes, no)
      PROVE  GabagoolInv'
  <2>1. PICK confident \in BOOLEAN :
          IF Kind(yes, no, confident) = "TopUp" THEN UNCHANGED signal
          ELSE signal' = Kind(yes, no, confident)
    BY <1>4 DEF evaluate_prices, calculate_confidence
  <2>2. signal' \in {"None", "Arbitrage", "TopUpYes", "TopUpNo"}
    BY <2>1, KindsThatOccur
  <2>3. QED
    BY <1>4, <2>2 DEF evaluate_prices
<1>5. CASE TopUp
  BY <1>5 DEF TopUp
<1>6. CASE UNCHANGED gabagoolVars
  BY <1>6 DEF gabagoolVars
<1>7. QED
  BY <1>1, <1>2, <1>3, <1>4, <1>5, <1>6 DEF GabagoolNext

(* An order without a result is in flight, for any sizes and prices; so is *)
(* every filled share, and no directional or taker signal ever comes out   *)
(* (gabagool_strategy.rs:291-333, 358-374).                                *)
THEOREM FlightCorrect == GabagoolSpec => [](WaitingInFlight /\ FillsCountTwice)
<1>1. GabagoolInit => GabagoolInv
  BY DEF GabagoolInit, GabagoolInv, FillsCountTwice, Sides
<1>2. GabagoolInv => WaitingInFlight /\ FillsCountTwice
  BY DEF GabagoolInv, FillsCountTwice, WaitingInFlight
<1>3. QED
  BY <1>1, <1>2, GabagoolInvStep, PTL DEF GabagoolSpec
-----------------------------------------------------------------------------
(* Submission: what the caller is told.                                    *)

(* An order is taken just when its latest request was; the request of a    *)
(* call that is not out yet, or has its answer, is settled.                *)
SubmissionInv ==
  /\ call \in [OrderId -> {"new", "dry", "waiting", "sleeping", "ok", "rejected", "limited",
                           "error", "queued", "processing", "logged"}]
  /\ attempt \in [OrderId -> Nat]
  /\ request \in [OrderId -> {"none", "sent"} \cup Answers]
  /\ accepted \in [OrderId -> Nat]
  /\ queue \in Seq(OrderId)
  /\ \A o \in OrderId :
        /\ accepted[o] <= 1
        /\ accepted[o] = 1 <=> request[o] = "ok"
        /\ call[o] \in {"new", "dry", "queued"} => request[o] = "none"
        /\ call[o] = "sleeping" => request[o] = "limited"
        /\ call[o] = "ok" => request[o] = "ok"
        /\ call[o] = "rejected" => request[o] = "refused"
        /\ call[o] = "limited" => request[o] = "limited"
  /\ \A i \in 1..Len(queue) : call[queue[i]] = "queued"
  /\ \A i, j \in 1..Len(queue) : queue[i] = queue[j] => i = j

(* The queued orders other than the head are still queued when it is taken *)
(* off.                                                                    *)
LEMMA QueueTail ==
  ASSUME NEW S, NEW q \in Seq(S), q # <<>>
  PROVE  /\ Head(q) = q[1] /\ 1 \in 1..Len(q) /\ Head(q) \in S
         /\ Tail(q) \in Seq(S) /\ Len(Tail(q)) = Len(q) - 1
         /\ \A i \in 1..Len(Tail(q)) : Tail(q)[i] = q[i + 1]
  OBVIOUS

LEMMA SubmissionInvStep == SubmissionInv /\ [SubmissionNext]_submissionVars => SubmissionInv'
<1> SUFFICES ASSUME SubmissionInv, [SubmissionNext]_submissionVars
             PROVE  SubmissionInv'
  OBVIOUS
<1> USE SubmissionAssumption DEF SubmissionInv, Answers
<1>1. ASSUME NEW o \in OrderId, ServeOrder(o) PROVE SubmissionInv'
  <2>1. /\ request[o] = "sent" /\ accepted[o] = 0
        /\ UNCHANGED <<call, attempt, queue>>
    BY <1>1 DEF ServeOrder
  <2>2. CASE /\ request' = [request EXCEPT ![o] = "ok"]
             /\ accepted' = [accepted EXCEPT ![o] = accepted[o] + 1]
    BY <2>1, <2>2
  <2>3. CASE \E a \in {"limited", "refused"} :
               request' = [request EXCEPT ![o] = a] /\ accepted' = accepted
    BY <2>1, <2>3
  <2>4. QED
    BY <1>1, <2>2, <2>3 DEF ServeOrder
<1>2. ASSUME NEW o \in OrderId, DryRun(o) PROVE SubmissionInv'
  BY <1>2 DEF DryRun
<1>3. ASSUME NEW o \in OrderId, Send(o) PROVE SubmissionInv'
  BY <1>3 DEF Send
<1>4. ASSUME NEW o \in OrderId, RequestError(o) PROVE SubmissionInv'
  BY <1>4 DEF RequestError
<1>5. ASSUME NEW o \in OrderId, ReadAnswer(o) PROVE SubmissionInv'
  <2>1. /\ call[o] = "waiting" /\ UNCHANGED <<request, accepted, queue>>
    BY <1>5 DEF ReadAnswer
  <2>2. PICK result \in {"ok", "error", "rejected", "limited", "sleeping"} :
          /\ call' = [call EXCEPT ![o] = result]
          /\ attempt' = [attempt EXCEPT ![o] = IF result = "sleeping" THEN @ + 1 ELSE @]
          /\ result = "ok" => request[o] = "ok"
          /\ result = "rejected" => request[o] = "refused"
          /\ result \in {"limited", "sleeping"} => request[o] = "limited"
    <3>1. CASE request[o] = "ok"
      BY <1>5, <3>1 DEF ReadAnswer
    <3>2. CASE request[o] = "refused"
      BY <1>5, <3>2 DEF ReadAnswer
    <3>3. CASE request[o] = "limited"
      BY <1>5, <3>3 DEF ReadAnswer
    <3>4. QED
      BY <1>5, <3>1, <3>2, <3>3 DEF ReadAnswer
  <2>3. attempt' \in [OrderId -> Nat]
    BY <2>2
  <2>4. QED
    BY <2>1, <2>2, <2>3
<1>6. ASSUME NEW o \in OrderId, Enqueue(o) PROVE SubmissionInv'
  <2>1. /\ call[o] = "new" /\ call' = [call EXCEPT ![o] = "queued"]
        /\ queue' = Append(queue, o) /\ UNCHANGED <<attempt, request, accepted>>
    BY <1>6 DEF Enqueue
  <2>2. /\ queue' \in Seq(OrderId) /\ Len(queue') = Len(queue) + 1
        /\ \A i \in 1..Len(queue) : queue'[i] = queue[i]
        /\ queue'[Len(queue) + 1] = o
    BY <2>1
  <2>3. \A i \in 1..Len(queue) : queue[i] # o
    BY <2>1
  <2>4. \A i \in 1..Len(queue') : call'[queue'[i]] = "queued"
    BY <2>1, <2>2, <2>3
  <2>5. ASSUME NEW i \in 1..Len(queue'), NEW j \in 1..Len(queue'), queue'[i] = queue'[j]
        PROVE  i = j
    <3>1. Len(queue) \in Nat
      BY <2>2
    <3>2. i = Len(queue) + 1 \/ i \in 1..Len(queue)
      BY <2>2, <3>1
    <3>3. j = Len(queue) + 1 \/ j \in 1..Len(queue)
      BY <2>2, <3>1
    <3>4. CASE i \in 1..Len(queue) /\ j \in 1..Len(queue)
      <4>1. queue[i] = queue[j]
        BY <2>2, <2>5, <3>4
      <4>2. QED
        BY <3>4, <4>1
    <3>5. CASE i = Len(queue) + 1 /\ j \in 1..Len(queue)
      <4>1. queue[j] = o
        BY <2>2, <2>5, <3>5
      <4>2. QED
        BY <2>3, <3>5, <4>1
    <3>6. CASE j = Len(queue) + 1 /\ i \in 1..Len(queue)
      <4>1. queue[i] = o
        BY <2>2, <2>5, <3>6
      <4>2. QED
        BY <2>3, <3>6, <4>1
    <3>7. QED
      BY <3>2, <3>3, <3>4, <3>5, <3>6
  <2>6. QED
    BY <2>1, <2>2, <2>4, <2>5
<1>7. ASSUME NEW o \in OrderId, Processed(o) PROVE SubmissionInv'
  BY <1>7 DEF Processed
<1>8. CASE Process
  <2> DEFINE o == Head(queue)
  <2>1. /\ queue # <<>> /\ queue' = Tail(queue) /\ UNCHANGED <<attempt, accepted>>
        /\ call' = [call EXCEPT ![o] = "processing"]
        /\ request' = [request EXCEPT ![o] = "sent"]
    BY <1>8 DEF Process
  <2>2. /\ o = queue[1] /\ 1 \in 1..Len(queue) /\ o \in OrderId
        /\ queue' \in Seq(OrderId) /\ Len(queue') = Len(queue) - 1
        /\ \A i \in 1..Len(queue') : queue'[i] = queue[i + 1]
    BY <2>1, QueueTail
  <2>3. call[o] = "queued" /\ request[o] = "none" /\ accepted[o] = 0
    BY <2>2
  <2> HIDE DEF o
  <2>4. ASSUME NEW i \in 1..Len(queue')
        PROVE  i + 1 \in 1..Len(queue) /\ queue'[i] # o
    <3>1. Len(queue) \in Nat /\ i \in Nat /\ i >= 1 /\ i <= Len(queue) - 1
      BY <2>2
    <3>2. i + 1 \in 1..Len(queue) /\ i + 1 # 1
      BY <3>1
    <3>3. queue'[i] = queue[i + 1] /\ queue[i + 1] # queue[1]
      BY <2>2, <3>2
    <3>4. QED
      BY <2>2, <3>2, <3>3
  <2>5. ASSUME NEW i \in 1..Len(queue')
        PROVE  call'[queue'[i]] = "queued"
    <3>1. i + 1 \in 1..Len(queue) /\ queue'[i] = queue[i + 1] /\ queue'[i] # o
      BY <2>2, <2>4
    <3>2. call[queue'[i]] = "queued" /\ queue'[i] \in OrderId
      BY <3>1
    <3>3. QED
      BY <2>1, <3>1, <3>2
  <2>6. ASSUME NEW i \in 1..Len(queue'), NEW j \in 1..Len(queue'), queue'[i] = queue'[j]
        PROVE  i = j
    <3>1. i + 1 \in 1..Len(queue) /\ j + 1 \in 1..Len(queue) /\ queue[i + 1] = queue[j + 1]
      BY <2>2, <2>4, <2>6
    <3>2. i + 1 = j + 1 /\ i \in Int /\ j \in Int
      BY <3>1
    <3>3. QED
      BY <3>2
  <2>7. QED
    BY <2>1, <2>2, <2>3, <2>5, <2>6
<1>9. CASE UNCHANGED submissionVars
  BY <1>9 DEF submissionVars
<1>10. QED
  BY <1>1, <1>2, <1>3, <1>4, <1>5, <1>6, <1>7, <1>8, <1>9 DEF SubmissionNext

(* What submit_order returns is true of the exchange, with any number of   *)
(* orders and retries (execution.rs:157-197, clob_executor.rs:85-88).      *)
THEOREM SubmissionCorrect == SubmissionSpec => []AnswersTrue
<1>1. SubmissionInit => SubmissionInv
  BY DEF SubmissionInit, SubmissionInv, Answers
<1>2. SubmissionInv => AnswersTrue
  BY DEF SubmissionInv, AnswersTrue
<1>3. QED
  BY <1>1, <1>2, SubmissionInvStep, PTL DEF SubmissionSpec
-----------------------------------------------------------------------------
(* Profit and loss: what the report shows.                                 *)

PnlInv ==
  /\ pnl \in [trades : Int, wins : Int, losses : Int, won : Int, lost : Int,
               cumulative : Int, fees : Nat, executed : Int]
  /\ gas \in Int
  /\ earned = pnl.cumulative - gas
  /\ ReportUnderstates

LEMMA PnlInvStep == PnlInv /\ [PnlNext]_pnlVars => PnlInv'
<1> SUFFICES ASSUME PnlInv, [PnlNext]_pnlVars
             PROVE  PnlInv'
  OBVIOUS
<1> USE PnlAssumption DEF PnlInv, ReportUnderstates, ReportedNet, Entry
<1>1. ASSUME NEW yes \in PnlPrice, NEW no \in PnlPrice, record_pnl_trade(yes, no)
      PROVE  PnlInv'
  <2> DEFINE t   == create_trade_result(yes, no)
             net == t.gross - t.fee
             win == net > 0
  <2>1. /\ t.gross \in Int /\ t.fee \in Nat /\ net \in Int
        /\ t.arb \in {0, 1} /\ (t.arb = 1 => win)
    <3>1. yes \in Nat /\ no \in Nat
      OBVIOUS
    <3>2. /\ t.gross = 10000 - 100 * (yes + no) /\ t.fee = 2 * (yes + no)
          /\ t.arb = IF yes + no < 98 THEN 1 ELSE 0
      BY DEF create_trade_result
    <3> HIDE DEF t
    <3>3. t.gross \in Int /\ t.fee \in Nat
      BY <3>1, <3>2
    <3>4. net \in Int
      BY <3>3
    <3>5. t.arb \in {0, 1} /\ (t.arb = 1 => net > 0)
      BY <3>1, <3>2
    <3>6. QED
      BY <3>3, <3>4, <3>5
  <2>2. /\ pnl' = [pnl EXCEPT !.trades = @ + 1,
                              !.wins   = IF win THEN @ + 1 ELSE @,
                              !.won    = IF win THEN @ + net ELSE @,
                              !.losses = IF win THEN @ ELSE @ + 1,
                              !.lost   = IF win THEN @ ELSE @ + net,
                              !.cumulative = @ + net,
                              !.fees = @ + t.fee,
                              !.executed = @ + t.arb]
        /\ earned' = earned + net /\ gas' = gas
    BY <1>1 DEF record_pnl_trade
  <2> HIDE DEF t, net, win
  <2>3. /\ pnl'.trades = pnl.trades + 1
        /\ pnl'.wins   = IF win THEN pnl.wins + 1 ELSE pnl.wins
        /\ pnl'.won    = IF win THEN pnl.won + net ELSE pnl.won
        /\ pnl'.losses = IF win THEN pnl.losses ELSE pnl.losses + 1
        /\ pnl'.lost   = IF win THEN pnl.lost ELSE pnl.lost + net
        /\ pnl'.cumulative = pnl.cumulative + net
        /\ pnl'.fees = pnl.fees + t.fee
        /\ pnl'.executed = pnl.executed + t.arb
    BY <2>2
  <2>4. pnl' \in [trades : Int, wins : Int, losses : Int, won : Int, lost : Int,
                  cumulative : Int, fees : Nat, executed : Int]
    <3>1. pnl.trades + 1 \in Int /\ pnl.cumulative + net \in Int /\ pnl.fees + t.fee \in Nat
          /\ pnl.executed + t.arb \in Int
      BY <2>1
    <3>2. /\ (IF win THEN pnl.wins + 1 ELSE pnl.wins) \in Int
          /\ (IF win THEN pnl.won + net ELSE pnl.won) \in Int
          /\ (IF win THEN pnl.losses ELSE pnl.losses + 1) \in Int
          /\ (IF win THEN pnl.lost ELSE pnl.lost + net) \in Int
      BY <2>1
    <3>3. QED
      BY <2>2, <3>1, <3>2, Zenon
  <2>5. CASE win
    BY <2>1, <2>2, <2>3, <2>4, <2>5
  <2>6. CASE ~win
    BY <2>1, <2>2, <2>3, <2>4, <2>6
  <2>7. QED
    BY <2>5, <2>6
<1>2. CASE record_arb_opportunity
  BY <1>2 DEF record_arb_opportunity
<1>3. ASSUME NEW filled \in BOOLEAN, record_fill_result(filled)
      PROVE  PnlInv'
  BY <1>3 DEF record_fill_result
<1>4. ASSUME NEW cost \in GasCost, record_gas(cost)
      PROVE  PnlInv'
  BY <1>4 DEF record_gas
<1>5. CASE UNCHANGED pnlVars
  BY <1>5 DEF pnlVars
<1>6. QED
  BY <1>1, <1>2, <1>3, <1>4, <1>5 DEF PnlNext

(* The report deducts fees twice, at any prices, and no arbitrage is a     *)
(* loss (pnl.rs:142-163, 250-286, 350-373).                                *)
THEOREM ReportCorrect == PnlSpec => []ReportUnderstates
<1>1. PnlInit => PnlInv
  BY DEF PnlInit, PnlInv, ReportUnderstates, ReportedNet
<1>2. PnlInv => ReportUnderstates
  BY DEF PnlInv
<1>3. QED
  BY <1>1, <1>2, PnlInvStep, PTL DEF PnlSpec
-----------------------------------------------------------------------------
(* Market locks: who trades a market.                                      *)

(* A worker whose lock is not old holds the lock of its market, of the     *)
(* same age, unless the market was unlocked late; and no two such hold one *)
(* lock.                                                                   *)
LockInv ==
  /\ DOMAIN locks \subseteq LockMarket
  /\ \A m \in DOMAIN locks : locks[m] \in 0..LockTtl
  /\ DOMAIN holding = Worker
  /\ \A w \in Worker : \A m \in DOMAIN holding[w] :
        /\ holding[w][m] \in 0..LockTtl
        /\ holding[w][m] < LockTtl /\ m \notin lateUnlock =>
              m \in DOMAIN locks /\ locks[m] = holding[w][m]
  /\ LocksExclusive

LEMMA LockedBegins ==
  ASSUME NEW f, NEW m
  PROVE  /\ DOMAIN Locked(f, m) = DOMAIN f \cup {m}
         /\ Locked(f, m)[m] = 0
         /\ \A k \in DOMAIN f \ {m} : Locked(f, m)[k] = f[k]
  BY DEF Locked

LEMMA GrownOlder ==
  ASSUME NEW f, \A x \in DOMAIN f : f[x] \in 0..LockTtl
  PROVE  /\ DOMAIN Older(f) = DOMAIN f
         /\ \A x \in DOMAIN f :
               /\ Older(f)[x] \in 0..LockTtl
               /\ f[x] < LockTtl  => Older(f)[x] = f[x] + 1
               /\ f[x] >= LockTtl => Older(f)[x] = f[x]
  BY LockAssumption DEF Older

LEMMA LockInvStep == LockInv /\ [LockNext]_lockVars => LockInv'
<1> SUFFICES ASSUME LockInv, [LockNext]_lockVars
             PROVE  LockInv'
  OBVIOUS
<1> USE LockAssumption DEF LockInv, LocksExclusive
<1>1. ASSUME NEW w \in Worker, NEW m \in LockMarket, try_lock_market(w, m)
      PROVE  LockInv'
  <2>1. /\ m \notin DOMAIN holding[w] /\ m \notin DOMAIN locks
        /\ locks' = Locked(locks, m)
        /\ holding' = [holding EXCEPT ![w] = Locked(holding[w], m)]
        /\ UNCHANGED lateUnlock
    BY <1>1 DEF try_lock_market
  <2>2. /\ DOMAIN locks' = DOMAIN locks \cup {m} /\ locks'[m] = 0
        /\ \A k \in DOMAIN locks : locks'[k] = locks[k]
    <3>1. \A k \in DOMAIN locks : k \in DOMAIN locks \ {m}
      BY <2>1
    <3> HIDE DEF LockInv
    <3>2. QED
      BY <2>1, <3>1, LockedBegins
  <2>3. /\ DOMAIN holding' = Worker
        /\ DOMAIN holding'[w] = DOMAIN holding[w] \cup {m} /\ holding'[w][m] = 0
        /\ \A k \in DOMAIN holding[w] : holding'[w][k] = holding[w][k]
        /\ \A v \in Worker \ {w} : holding'[v] = holding[v]
    <3>1. /\ \A k \in DOMAIN holding[w] : k \in DOMAIN holding[w] \ {m}
          /\ DOMAIN holding = Worker
      BY <2>1
    <3> HIDE DEF LockInv
    <3>2. holding'[w] = Locked(holding[w], m)
      BY <2>1, <3>1
    <3>3. /\ DOMAIN holding'[w] = DOMAIN holding[w] \cup {m} /\ holding'[w][m] = 0
          /\ \A k \in DOMAIN holding[w] \ {m} : holding'[w][k] = holding[w][k]
      <4> DEFINE h == holding[w]
                 g == holding'[w]
      <4>1. g = Locked(h, m)
        BY <3>2
      <4> HIDE DEF g, h
      <4>2. DOMAIN g = DOMAIN h \cup {m} /\ g[m] = 0 /\ \A k \in DOMAIN h \ {m} : g[k] = h[k]
        BY <4>1, LockedBegins
      <4>3. QED
        BY <4>2 DEF g, h
    <3>4. DOMAIN holding' = Worker /\ \A v \in Worker \ {w} : holding'[v] = holding[v]
      BY <2>1, <3>1
    <3>5. QED
      BY <3>1, <3>3, <3>4, Zenon
  <2>4. \A v \in Worker \ {w} : m \in DOMAIN holding[v] =>
          holding[v][m] >= LockTtl \/ m \in lateUnlock
    BY <2>1
  <2> HIDE DEF LockInv
  <2>5. (\A m_1 \in DOMAIN locks : locks[m_1] \in 0..LockTtl)'
    BY <2>2 DEF LockInv
  <2>6. (\A v \in Worker : \A k \in DOMAIN holding[v] :
            /\ holding[v][k] \in 0..LockTtl
            /\ holding[v][k] < LockTtl /\ k \notin lateUnlock =>
                  k \in DOMAIN locks /\ locks[k] = holding[v][k])'
    <3> SUFFICES ASSUME NEW v \in Worker, NEW k \in DOMAIN holding'[v]
                 PROVE  /\ holding'[v][k] \in 0..LockTtl
                        /\ holding'[v][k] < LockTtl /\ k \notin lateUnlock' =>
                              k \in DOMAIN locks' /\ locks'[k] = holding'[v][k]
      OBVIOUS
    <3>1. CASE v = w /\ k = m
      BY <2>2, <2>3, <3>1
    <3>2. CASE v = w /\ k # m
      BY <2>1, <2>2, <2>3, <3>2 DEF LockInv
    <3>3. CASE v # w
      BY <2>1, <2>2, <2>3, <2>4, <3>3 DEF LockInv
    <3>4. QED
      BY <3>1, <3>2, <3>3
  <2>7. LocksExclusive'
    <3> SUFFICES ASSUME NEW u \in Worker, NEW v \in Worker, u # v,
                        NEW k \in DOMAIN holding'[u] \cap DOMAIN holding'[v]
                 PROVE  \/ holding'[u][k] >= LockTtl \/ holding'[v][k] >= LockTtl
                        \/ k \in lateUnlock'
      OBVIOUS
    <3>1. CASE k = m /\ u = w
      BY <2>1, <2>3, <2>4, <3>1
    <3>2. CASE k = m /\ v = w
      BY <2>1, <2>3, <2>4, <3>2
    <3>3. CASE k # m \/ (u # w /\ v # w)
      <4>1. /\ k \in DOMAIN holding[u] /\ holding'[u][k] = holding[u][k]
            /\ k \in DOMAIN holding[v] /\ holding'[v][k] = holding[v][k]
        BY <2>3, <3>3
      <4>2. QED
        BY <2>1, <4>1 DEF LockInv
    <3>4. QED
      BY <3>1, <3>2, <3>3
  <2>8. QED
    BY <2>2, <2>3, <2>5, <2>6, <2>7 DEF LockInv
<1>2. ASSUME NEW w \in Worker, NEW m \in LockMarket, unlock_market(w, m)
      PROVE  LockInv'
  <2>1. /\ m \in DOMAIN holding[w]
        /\ locks' = [k \in DOMAIN locks \ {m} |-> locks[k]]
        /\ lateUnlock' = IF holding[w][m] >= LockTtl THEN lateUnlock \cup {m} ELSE lateUnlock
        /\ holding' = [holding EXCEPT ![w] =
                           [k \in DOMAIN holding[w] \ {m} |-> holding[w][k]]]
    BY <1>2 DEF unlock_market, Unlocked
  <2>2. /\ DOMAIN holding' = Worker
        /\ \A v \in Worker : \A k \in DOMAIN holding'[v] :
              /\ k \in DOMAIN holding[v] /\ holding'[v][k] = holding[v][k]
              /\ v = w => k # m
    BY <2>1
  <2>3. ASSUME NEW v \in Worker, v # w, m \in DOMAIN holding[v]
        PROVE  holding[v][m] >= LockTtl \/ m \in lateUnlock'
    <3>1. holding[w][m] >= LockTtl \/ holding[v][m] >= LockTtl \/ m \in lateUnlock
      BY <2>1, <2>3
    <3>2. QED
      BY <2>1, <3>1
  <2>4. lateUnlock \subseteq lateUnlock'
    BY <2>1
  <2> HIDE DEF LockInv
  <2>5. /\ DOMAIN locks' \subseteq LockMarket
        /\ \A k \in DOMAIN locks' : locks'[k] \in 0..LockTtl
    BY <2>1 DEF LockInv
  <2>6. ASSUME NEW v \in Worker, NEW k \in DOMAIN holding'[v]
        PROVE  /\ holding'[v][k] \in 0..LockTtl
               /\ holding'[v][k] < LockTtl /\ k \notin lateUnlock' =>
                     k \in DOMAIN locks' /\ locks'[k] = holding'[v][k]
    <3>1. /\ holding[v][k] \in 0..LockTtl /\ holding'[v][k] = holding[v][k]
          /\ holding[v][k] < LockTtl /\ k \notin lateUnlock =>
                k \in DOMAIN locks /\ locks[k] = holding[v][k]
      BY <2>2 DEF LockInv
    <3>2. CASE k = m
      BY <2>2, <2>3, <3>1, <3>2
    <3>3. CASE k # m
      BY <2>1, <2>4, <3>1, <3>3
    <3>4. QED
      BY <3>2, <3>3
  <2>7. LocksExclusive'
    <3>1. \A u, v \in Worker : \A k \in DOMAIN holding'[u] \cap DOMAIN holding'[v] :
            u # v => \/ holding'[u][k] >= LockTtl \/ holding'[v][k] >= LockTtl
                     \/ k \in lateUnlock
      BY <2>2 DEF LockInv
    <3>2. QED
      BY <2>4, <3>1
  <2>8. QED
    BY <2>2, <2>5, <2>6, <2>7 DEF LockInv
<1>3. CASE cleanup_expired_locks
  BY <1>3 DEF cleanup_expired_locks
<1>4. CASE LockTick
  <2>1. /\ locks' = Older(locks) /\ UNCHANGED lateUnlock
        /\ DOMAIN holding' = Worker
        /\ \A w \in Worker : holding'[w] = Older(holding[w])
    BY <1>4 DEF LockTick
  <2>2. /\ DOMAIN locks' = DOMAIN locks
        /\ \A m \in DOMAIN locks :
              /\ locks'[m] \in 0..LockTtl
              /\ locks[m] < LockTtl => locks'[m] = locks[m] + 1
    BY <2>1, GrownOlder
  <2>3. ASSUME NEW w \in Worker
        PROVE  /\ DOMAIN holding'[w] = DOMAIN holding[w]
               /\ \A m \in DOMAIN holding[w] :
                     /\ holding'[w][m] \in 0..LockTtl
                     /\ holding[w][m] < LockTtl  => holding'[w][m] = holding[w][m] + 1
                     /\ holding[w][m] >= LockTtl => holding'[w][m] = holding[w][m]
    BY <2>1, GrownOlder
  <2> HIDE DEF LockInv
  <2>4. ASSUME NEW w \in Worker, NEW m \in DOMAIN holding'[w]
        PROVE  /\ holding'[w][m] \in 0..LockTtl
               /\ holding'[w][m] < LockTtl /\ m \notin lateUnlock' =>
                     m \in DOMAIN locks' /\ locks'[m] = holding'[w][m]
    BY <2>1, <2>2, <2>3 DEF LockInv
  <2>5. LocksExclusive'
    <3>1. ASSUME NEW w \in Worker, NEW m \in DOMAIN holding'[w], holding[w][m] >= LockTtl
          PROVE  holding'[w][m] >= LockTtl
      BY <2>3, <3>1
    <3>2. QED
      BY <2>1, <2>3, <3>1 DEF LockInv
  <2>6. QED
    BY <2>1, <2>2, <2>4, <2>5 DEF LockInv
<1>5. CASE UNCHANGED lockVars
  BY <1>5 DEF lockVars
<1>6. QED
  BY <1>1, <1>2, <1>3, <1>4, <1>5 DEF LockNext

(* Two workers trade one market only after one has outlived its lock, for  *)
(* any number of workers and markets (hot_switchover.rs:146-173).          *)
THEOREM LocksCorrect == LockSpec => []LocksExclusive
<1>1. LockInit => LockInv
  BY DEF LockInit, LockInv, LocksExclusive
<1>2. LockInv => LocksExclusive
  BY DEF LockInv
<1>3. QED
  BY <1>1, <1>2, LockInvStep, PTL DEF LockSpec
-----------------------------------------------------------------------------
(* The event store.                                                        *)

LogInv ==
  /\ writing \in [LogWriter -> [pc : {"idle", "inserting", "counting"},
                                events : Seq(TradeEvent)]]
  /\ rows \in [Stored -> Nat] /\ found \in [Stored -> Nat] /\ counted \in [Stored -> Nat]
  /\ StatsFollowRows

(* The writers with rows that are committed and not counted, and how many. *)
Counting         == {w \in LogWriter : writing[w].pc = "counting"}
EventsWritten(k) == [w \in LogWriter |-> EventsOf(writing[w].events, k)]

LEMMA EventsNat ==
  ASSUME NEW events \in Seq(TradeEvent), NEW k
  PROVE  EventsOf(events, k) \in Nat
<1>1. IsFiniteSet(1..Len(events))
  BY FS_Interval
<1>2. {i \in DOMAIN events : events[i] = k} \subseteq 1..Len(events)
  OBVIOUS
<1>3. QED
  BY <1>1, <1>2, FS_Subset, FS_CardinalityType DEF EventsOf

LEMMA WrittenFacts ==
  ASSUME LogInv, NEW k
  PROVE  /\ IsFiniteSet(Counting)
         /\ \A w \in LogWriter : /\ EventsWritten(k)[w] = EventsOf(writing[w].events, k)
                                 /\ EventsWritten(k)[w] \in Nat
<1>1. Counting \subseteq LogWriter
  BY DEF Counting
<1>2. IsFiniteSet(Counting)
  BY <1>1, TradeLogAssumption, FS_Subset
<1>3. ASSUME NEW w \in LogWriter PROVE EventsOf(writing[w].events, k) \in Nat
  <2>1. writing[w].events \in Seq(TradeEvent)
    BY DEF LogInv
  <2>2. QED
    BY <2>1, EventsNat
<1>4. QED
  BY <1>2, <1>3 DEF EventsWritten

(* Whoever is not counting, before and after a step, matters to no sum.    *)
LEMMA SumsKept ==
  ASSUME LogInv, Counting' = Counting, UNCHANGED <<rows, found, counted>>,
         \A w \in Counting : writing'[w] = writing[w]
  PROVE  StatsFollowRows'
<1> SUFFICES ASSUME NEW k \in Stored
             PROVE  rows[k] = found[k] + counted[k]
                                + SumFunctionOnSet(EventsWritten(k)', Counting)
  BY DEF StatsFollowRows, EventsWritten, Counting
<1>1. \A w \in Counting : EventsWritten(k)'[w] = EventsWritten(k)[w]
                          /\ EventsWritten(k)[w] \in Int
  <2>1. \A w \in Counting : w \in LogWriter
    BY DEF Counting
  <2>2. \A w \in LogWriter : EventsWritten(k)[w] \in Int
    BY WrittenFacts
  <2>3. ASSUME NEW w \in Counting PROVE EventsWritten(k)'[w] = EventsWritten(k)[w]
    BY <2>1 DEF EventsWritten
  <2>4. QED
    BY <2>1, <2>2, <2>3
<1>2. SumFunctionOnSet(EventsWritten(k)', Counting) = SumFunctionOnSet(EventsWritten(k), Counting)
  BY <1>1, WrittenFacts, SumSame
<1>3. QED
  BY <1>2 DEF LogInv, StatsFollowRows, EventsWritten, Counting

LEMMA LogInvStep == LogInv /\ [TradeLogNext]_logVars => LogInv'
<1> SUFFICES ASSUME LogInv, [TradeLogNext]_logVars
             PROVE  LogInv'
  OBVIOUS
<1> DEFINE Typed == /\ writing' \in [LogWriter -> [pc : {"idle", "inserting", "counting"},
                                                   events : Seq(TradeEvent)]]
                    /\ rows' \in [Stored -> Nat] /\ found' \in [Stored -> Nat]
                    /\ counted' \in [Stored -> Nat]
<1>1. ASSUME NEW w \in LogWriter, NEW events \in Seq(TradeEvent), Begin(w, events)
      PROVE  LogInv'
  <2>1. Typed
    BY <1>1 DEF LogInv, Begin
  <2>2. /\ Counting' = Counting /\ UNCHANGED <<rows, found, counted>>
        /\ \A v \in Counting : writing'[v] = writing[v]
    BY <1>1 DEF LogInv, Begin, Counting, AtRest
  <2>3. QED
    BY <2>1, <2>2, SumsKept DEF LogInv
<1>2. ASSUME NEW w \in LogWriter, Fail(w) PROVE LogInv'
  <2>1. Typed
    BY <1>2 DEF LogInv, Fail, AtRest
  <2>2. /\ Counting' = Counting /\ UNCHANGED <<rows, found, counted>>
        /\ \A v \in Counting : writing'[v] = writing[v]
    BY <1>2 DEF LogInv, Fail, Counting, AtRest
  <2>3. QED
    BY <2>1, <2>2, SumsKept DEF LogInv
<1>3. ASSUME NEW w \in LogWriter, NEW f \in [Stored -> Nat]
      PROVE  /\ Added(f, writing[w].events) \in [Stored -> Nat]
             /\ \A k \in Stored : Added(f, writing[w].events)[k] = f[k] + EventsWritten(k)[w]
  <2>1. \A k \in Stored : EventsWritten(k)[w] = EventsOf(writing[w].events, k)
                          /\ EventsOf(writing[w].events, k) \in Nat
    BY WrittenFacts
  <2>2. QED
    BY <2>1 DEF Added
<1>4. ASSUME NEW w \in LogWriter, Commit(w) PROVE LogInv'
  <2>1. /\ rows' = Added(rows, writing[w].events)
        /\ counted' = counted /\ found' = found
    BY <1>4 DEF Commit
  <2>2. Typed
    <3>1. writing' \in [LogWriter -> [pc : {"idle", "inserting", "counting"},
                                      events : Seq(TradeEvent)]]
      BY <1>4 DEF LogInv, Commit
    <3>2. QED
      BY <1>3, <2>1, <3>1 DEF LogInv
  <2>3. /\ w \notin Counting /\ Counting' = Counting \cup {w}
        /\ \A v \in LogWriter : writing'[v].events = writing[v].events
    BY <1>4 DEF LogInv, Commit, Counting
  <2>4. ASSUME NEW k \in Stored
        PROVE  rows'[k] = found'[k] + counted'[k] + SumFunctionOnSet(EventsWritten(k)', Counting')
    <3>1. EventsWritten(k)' = EventsWritten(k)
      BY <2>3 DEF EventsWritten
    <3>2. /\ IsFiniteSet(Counting)
          /\ \A x \in Counting \cup {w} : EventsWritten(k)[x] \in Int
      BY WrittenFacts DEF Counting
    <3>3. SumFunctionOnSet(EventsWritten(k), Counting \cup {w})
            = EventsWritten(k)[w] + SumFunctionOnSet(EventsWritten(k), Counting)
      BY <2>3, <3>2, SumAdd
    <3>4. SumFunctionOnSet(EventsWritten(k), Counting) \in Int
      BY <3>2, SumInt
    <3>5. rows[k] = found[k] + counted[k] + SumFunctionOnSet(EventsWritten(k), Counting)
      BY DEF LogInv, StatsFollowRows, EventsWritten, Counting
    <3>6. rows'[k] = rows[k] + EventsWritten(k)[w] /\ EventsWritten(k)[w] \in Int
      BY <1>3, <2>1, <3>2 DEF LogInv
    <3>7. counted[k] \in Nat /\ rows[k] \in Nat /\ found[k] \in Nat
      BY DEF LogInv
    <3>8. rows'[k] = found[k] + counted[k]
                     + (EventsWritten(k)[w] + SumFunctionOnSet(EventsWritten(k), Counting))
      BY <3>4, <3>5, <3>6, <3>7
    <3>9. QED
      BY <2>1, <2>3, <3>1, <3>3, <3>8
  <2>5. QED
    BY <2>2, <2>4 DEF LogInv, StatsFollowRows, EventsWritten, Counting
<1>5. ASSUME NEW w \in LogWriter, CountStats(w) PROVE LogInv'
  <2>1. /\ counted' = Added(counted, writing[w].events)
        /\ rows' = rows /\ found' = found
    BY <1>5 DEF CountStats
  <2>2. Typed
    <3>1. writing' \in [LogWriter -> [pc : {"idle", "inserting", "counting"},
                                      events : Seq(TradeEvent)]]
      BY <1>5 DEF LogInv, CountStats, AtRest
    <3>2. QED
      BY <1>3, <2>1, <3>1 DEF LogInv
  <2>3. /\ w \in Counting /\ Counting' = Counting \ {w}
        /\ \A v \in LogWriter \ {w} : writing'[v].events = writing[v].events
    BY <1>5 DEF LogInv, CountStats, Counting, AtRest
  <2>4. ASSUME NEW k \in Stored
        PROVE  rows'[k] = found'[k] + counted'[k] + SumFunctionOnSet(EventsWritten(k)', Counting')
    <3>0. IsFiniteSet(Counting) /\ \A x \in Counting : EventsWritten(k)[x] \in Int
      BY WrittenFacts DEF Counting
    <3>1. /\ IsFiniteSet(Counting) /\ IsFiniteSet(Counting \ {w})
          /\ \A x \in Counting : EventsWritten(k)[x] \in Int
      BY <3>0, FS_RemoveElement
    <3>2. SumFunctionOnSet(EventsWritten(k), Counting)
            = EventsWritten(k)[w] + SumFunctionOnSet(EventsWritten(k), Counting \ {w})
      BY <2>3, <3>1, SumRemove
    <3>3. SumFunctionOnSet(EventsWritten(k)', Counting \ {w})
            = SumFunctionOnSet(EventsWritten(k), Counting \ {w})
      <4>1. \A x \in Counting \ {w} : x \in LogWriter \ {w}
        BY DEF Counting
      <4>2. \A x \in Counting \ {w} : EventsWritten(k)'[x] = EventsWritten(k)[x]
        BY <2>3, <4>1 DEF EventsWritten
      <4>3. QED
        BY <3>1, <4>2, SumSame
    <3>4. SumFunctionOnSet(EventsWritten(k), Counting \ {w}) \in Int
      BY <3>1, SumInt
    <3>5. rows[k] = found[k] + counted[k] + SumFunctionOnSet(EventsWritten(k), Counting)
      BY DEF LogInv, StatsFollowRows, EventsWritten, Counting
    <3>6. counted'[k] = counted[k] + EventsWritten(k)[w] /\ EventsWritten(k)[w] \in Int
      BY <1>3, <2>1, <2>3, <3>1 DEF LogInv
    <3>7. counted[k] \in Nat /\ found[k] \in Nat
      BY DEF LogInv
    <3>8. rows[k] = found[k] + counted'[k] + SumFunctionOnSet(EventsWritten(k), Counting \ {w})
      BY <3>2, <3>4, <3>5, <3>6, <3>7
    <3>9. QED
      BY <2>1, <2>3, <3>3, <3>8
  <2>5. QED
    BY <2>2, <2>4 DEF LogInv, StatsFollowRows, EventsWritten, Counting
<1>6. CASE LoggerPanics \/ UNCHANGED logVars
  BY <1>6 DEF LogInv, StatsFollowRows, LoggerPanics, logVars
<1>7. ASSUME NEW w \in LogWriter, insert_event(w) \/ insert_batch(w)
      PROVE  \E events \in Seq(TradeEvent) : Begin(w, events)
  <2>1. \A e \in TradeEvent : <<e>> \in Seq(TradeEvent)
    OBVIOUS
  <2>2. \A n \in 1..MaxBatch : \A events \in [1..n -> TradeEvent] : events \in Seq(TradeEvent)
    BY TradeLogAssumption
  <2>3. CASE insert_event(w)
    BY <2>1, <2>3 DEF insert_event
  <2>4. CASE insert_batch(w)
    BY <2>2, <2>4 DEF insert_batch
  <2>5. QED
    BY <1>7, <2>3, <2>4
<1>8. CASE Restart
  <2>1. Typed
    <3>1. AtRest \in [pc : {"idle", "inserting", "counting"}, events : Seq(TradeEvent)]
      BY DEF AtRest
    <3>2. QED
      BY <1>8, <3>1 DEF LogInv, Restart
  <2>2. Counting' = {}
    BY <1>8 DEF Restart, AtRest, Counting
  <2>3. ASSUME NEW k \in Stored
        PROVE  rows'[k] = found'[k] + counted'[k] + SumFunctionOnSet(EventsWritten(k)', Counting')
    <3>1. SumFunctionOnSet(EventsWritten(k)', Counting') = 0
      BY <2>2, SumEmpty
    <3>2. rows'[k] = found'[k] /\ counted'[k] = 0 /\ found'[k] \in Nat
      BY <1>8, <2>1 DEF Restart
    <3>3. QED
      BY <3>1, <3>2
  <2>4. QED
    BY <2>1, <2>3 DEF LogInv, StatsFollowRows, EventsWritten, Counting
<1>9. QED
  BY <1>1, <1>2, <1>4, <1>5, <1>6, <1>7, <1>8 DEF TradeLogNext

(* The statistics never count what the process did not store, and are      *)
(* short of it by what is committed and still to be counted, for any number of    *)
(* writers and any batches (sqlite_log.rs:203-212, 253-265).               *)
THEOREM LogCorrect == TradeLogSpec => []StatsFollowRows
<1>1. TradeLogInit => LogInv
  <2> SUFFICES ASSUME TradeLogInit PROVE LogInv
    OBVIOUS
  <2>1. Counting = {}
    BY DEF TradeLogInit, AtRest, Counting
  <2>2. \A k \in Stored : SumFunctionOnSet(EventsWritten(k), Counting) = 0
    BY <2>1, SumEmpty
  <2>3. <<>> \in Seq(TradeEvent)
    OBVIOUS
  <2>4. QED
    BY <2>2, <2>3 DEF TradeLogInit, LogInv, StatsFollowRows, AtRest, Counting, EventsWritten
<1>2. LogInv /\ [TradeLogNext]_logVars => LogInv'
  BY LogInvStep
<1>3. LogInv => StatsFollowRows
  BY DEF LogInv
<1>4. QED
  BY <1>1, <1>2, <1>3, PTL DEF TradeLogSpec
-----------------------------------------------------------------------------
(* The maker's inventory.                                                  *)

OrderSizes == OwnSize \cup {MakerSize(d) : d \in Depth}
Most       == CHOOSE z \in OrderSizes : \A y \in OrderSizes : y <= z
Slack      == Most * (Cardinality(Maker) - 1)

(* What the skew is allowed to be with s shares more than the ratio.       *)
WithinSkew(yes, no, s) ==
  \/ yes + no < 100 + s
  \/ 100 * (IF yes > no THEN yes - no ELSE no - yes) <= SkewPercent * (yes + no) + 100 * s

(* The orders of each side, and those that may still be filled.            *)
YesOrders == [c \in Maker |-> IF making[c].side = "yes" THEN making[c].size ELSE 0]
NoOrders  == [c \in Maker |-> IF making[c].side = "no" THEN making[c].size ELSE 0]
Pending   == {c \in Maker : making[c] # NoOrder}

YesWith(Q) == inventory.yes + SumFunctionOnSet(YesOrders, Q)
NoWith(Q)  == inventory.no + SumFunctionOnSet(NoOrders, Q)

(* The bound holds whichever of the pending orders are filled.             *)
SkewInv ==
  /\ inventory \in [yes : Nat, no : Nat]
  /\ making \in [Maker -> [side : {"yes", "no"}, size : OrderSizes \cup {0}]]
  /\ \A Q \in SUBSET Pending : WithinSkew(YesWith(Q), NoWith(Q), Slack)

LEMMA SizesBounded ==
  /\ Most \in OrderSizes /\ \A z \in OrderSizes : z \in Nat /\ z <= Most
<1>1. ASSUME NEW d \in Depth PROVE MakerSize(d) \in Nat /\ MakerSize(d) <= 1000
  <2>1. d \div 10 \in Int
    BY MakerAssumption
  <2>2. QED
    BY <2>1 DEF MakerSize
<1> DEFINE top == 1000
<1>2. top \in Int /\ \A z \in OrderSizes : z \in Int /\ 0 <= z /\ z <= top
  BY <1>1, MakerAssumption DEF OrderSizes
<1> HIDE DEF top
<1>3. OrderSizes \subseteq 0..top
  BY <1>2
<1>4. IsFiniteSet(OrderSizes)
  <2>1. IsFiniteSet(0..top)
    BY <1>2, FS_Interval
  <2>2. QED
    BY <1>3, <2>1, FS_Subset
<1>5. \E z \in OrderSizes : \A y \in OrderSizes : y <= z
  <2>1. OrderSizes \in SUBSET Int /\ OrderSizes # {}
    BY <1>2, MakerAssumption DEF OrderSizes
  <2>2. QED
    BY <1>4, <2>1, GreatestExists
<1>6. Most \in OrderSizes /\ \A y \in OrderSizes : y <= Most
  BY <1>5 DEF Most
<1>7. QED
  BY <1>2, <1>6

LEMMA Times ==
  ASSUME NEW m \in Nat, NEW a \in Nat, NEW b \in Nat, a <= b
  PROVE  m * a <= m * b /\ m * a \in Nat
<1>1. PICK d \in Nat : b = a + d
  BY SMT
<1>2. m * b = m * a + m * d /\ m * a \in Nat /\ m * d \in Nat
  BY <1>1
<1>3. QED
  BY <1>2

LEMMA SlackNat == Slack \in Nat /\ Cardinality(Maker) \in Nat /\ Most \in Nat
<1>1. Most \in Nat
  BY SizesBounded
<1>2. Cardinality(Maker) \in Nat /\ Cardinality(Maker) # 0
  BY MakerAssumption, FS_CardinalityType, FS_EmptySet
<1>3. Cardinality(Maker) - 1 \in Nat
  BY <1>2
<1>4. QED
  BY <1>1, <1>2, <1>3 DEF Slack

(* Adding a and b shares cannot add more than both to what is allowed.     *)
LEMMA SkewGrows ==
  ASSUME NEW yes \in Nat, NEW no \in Nat, NEW a \in Nat, NEW b \in Nat, NEW s \in Nat,
         WithinSkew(yes, no, 0), a + b <= s
  PROVE  WithinSkew(yes + a, no + b, s)
<1>1. SkewPercent \in 0..100
  BY MakerAssumption
<1>2. CASE yes + no < 100
  BY <1>2 DEF WithinSkew
<1>3. CASE ~(yes + no < 100)
  <2> DEFINE p == SkewPercent * (yes + no)
             q == SkewPercent * (a + b)
  <2>1. p \in Nat /\ q \in Nat /\ SkewPercent * ((yes + a) + (no + b)) = p + q
    BY <1>1
  <2>2. 100 * (IF yes > no THEN yes - no ELSE no - yes) <= p
    BY <1>1, <1>3 DEF WithinSkew
  <2> HIDE DEF p, q
  <2>3. 100 * (IF yes + a > no + b THEN yes + a - (no + b) ELSE no + b - (yes + a))
          <= p + q + 100 * s
    BY <2>1, <2>2
  <2>4. QED
    BY <2>1, <2>3 DEF WithinSkew
<1>4. QED
  BY <1>2, <1>3

(* The orders of some makers are as large as their number allows.          *)
LEMMA OrdersBounded ==
  ASSUME SkewInv, NEW Q \in SUBSET Maker
  PROVE  /\ IsFiniteSet(Q)
         /\ \A x \in Maker : YesOrders[x] \in Nat /\ NoOrders[x] \in Nat
         /\ SumFunctionOnSet(YesOrders, Q) \in Nat /\ SumFunctionOnSet(NoOrders, Q) \in Nat
         /\ SumFunctionOnSet(YesOrders, Q) + SumFunctionOnSet(NoOrders, Q)
              <= Most * Cardinality(Q)
<1> DEFINE both == [c \in Maker |-> making[c].size]
<1>1. IsFiniteSet(Q)
  BY MakerAssumption, FS_Subset
<1>2. ASSUME NEW c \in Maker
      PROVE  /\ YesOrders[c] \in Nat /\ NoOrders[c] \in Nat
             /\ both[c] = YesOrders[c] + NoOrders[c]
             /\ both[c] \in Int /\ both[c] <= Most
  <2>1. making[c].side \in {"yes", "no"} /\ making[c].size \in OrderSizes \cup {0}
    BY DEF SkewInv
  <2>2. making[c].size \in Nat /\ making[c].size <= Most
    BY <2>1, SizesBounded
  <2>3. QED
    BY <2>1, <2>2 DEF YesOrders, NoOrders
<1>3. /\ SumFunctionOnSet(YesOrders, Q) \in Nat /\ SumFunctionOnSet(NoOrders, Q) \in Nat
  BY <1>1, <1>2, SumNat
<1>4. SumFunctionOnSet(both, Q) = SumFunctionOnSet(YesOrders, Q) + SumFunctionOnSet(NoOrders, Q)
  <2>1. \A x \in Q : /\ YesOrders[x] \in Int /\ NoOrders[x] \in Int
                     /\ both[x] = YesOrders[x] + NoOrders[x]
    BY <1>2
  <2> HIDE DEF both
  <2>2. QED
    BY <1>1, <2>1, SumPlus
<1>5. SumFunctionOnSet(both, Q) <= Most * Cardinality(Q)
  <2>1. \A x \in Q : both[x] \in Int /\ both[x] <= Most
    BY <1>2
  <2>2. Most \in Int
    BY SizesBounded
  <2> HIDE DEF both
  <2>3. QED
    BY <1>1, <2>1, <2>2, SumBound
<1>6. QED
  BY <1>1, <1>2, <1>3, <1>4, <1>5

(* A posted order is within the ratio where it is checked; the orders of   *)
(* the other makers may add themselves to that.                            *)
LEMMA PostKeepsSkew ==
  ASSUME SkewInv, NEW c \in Maker, NEW side \in {"yes", "no"}, NEW z \in OrderSizes,
         Post(c, [side |-> side, size |-> z])
  PROVE  SkewInv'
<1>1. /\ making' = [making EXCEPT ![c] = [side |-> side, size |-> z]]
      /\ inventory' = inventory /\ making[c] = NoOrder
  BY DEF Post
<1>2. inventory.yes \in Nat /\ inventory.no \in Nat /\ z \in Nat
  BY SizesBounded DEF SkewInv
<1>3. making' \in [Maker -> [side : {"yes", "no"}, size : OrderSizes \cup {0}]]
  BY <1>1 DEF SkewInv
<1>4. /\ \A d \in Maker \ {c} : YesOrders'[d] = YesOrders[d] /\ NoOrders'[d] = NoOrders[d]
      /\ YesOrders'[c] = (IF side = "yes" THEN z ELSE 0)
      /\ NoOrders'[c] = (IF side = "no" THEN z ELSE 0)
  BY <1>1 DEF SkewInv, YesOrders, NoOrders
<1>5. ASSUME NEW Q \in SUBSET Maker, c \notin Q
      PROVE  /\ SumFunctionOnSet(YesOrders', Q) = SumFunctionOnSet(YesOrders, Q)
             /\ SumFunctionOnSet(NoOrders', Q) = SumFunctionOnSet(NoOrders, Q)
  <2>1. /\ IsFiniteSet(Q)
        /\ \A x \in Q : /\ YesOrders'[x] = YesOrders[x] /\ YesOrders'[x] \in Int
                        /\ NoOrders'[x] = NoOrders[x] /\ NoOrders'[x] \in Int
    <3>0. IsFiniteSet(Q) /\ \A x \in Maker : YesOrders[x] \in Nat /\ NoOrders[x] \in Nat
      BY OrdersBounded
    <3>1. IsFiniteSet(Q) /\ \A x \in Q : YesOrders[x] \in Int /\ NoOrders[x] \in Int
      BY <3>0
    <3>2. \A x \in Q : x \in Maker \ {c}
      BY <1>5
    <3>3. QED
      BY <1>4, <3>1, <3>2
  <2>2. QED
    BY <2>1, SumSame
<1>6. ASSUME NEW Q \in SUBSET Pending'
      PROVE  WithinSkew(YesWith(Q)', NoWith(Q)', Slack)
  <2>1. Q \in SUBSET Maker
    BY DEF Pending
  <2>2. CASE c \notin Q
    <3>1. Q \in SUBSET Pending
      BY <1>1, <2>2 DEF Pending, SkewInv
    <3>2. YesWith(Q)' = YesWith(Q) /\ NoWith(Q)' = NoWith(Q)
      BY <1>1, <1>5, <2>1, <2>2 DEF YesWith, NoWith
    <3>3. QED
      BY <3>1, <3>2 DEF SkewInv
  <2>3. CASE c \in Q
    <3> DEFINE R == Q \ {c}
               a == SumFunctionOnSet(YesOrders, R)
               b == SumFunctionOnSet(NoOrders, R)
               yes == inventory.yes + (IF side = "yes" THEN z ELSE 0)
               no  == inventory.no + (IF side = "no" THEN z ELSE 0)
    <3>1. R \in SUBSET Maker /\ c \notin R
      BY <2>1
    <3>2. a \in Nat /\ b \in Nat /\ a + b <= Most * Cardinality(R)
      BY <3>1, OrdersBounded
    <3>3. Cardinality(R) \in Nat /\ Cardinality(R) <= Cardinality(Maker) - 1
      <4>1. IsFiniteSet(Maker \ {c}) /\ Cardinality(Maker \ {c}) = Cardinality(Maker) - 1
        BY MakerAssumption, FS_RemoveElement
      <4>2. R \subseteq Maker \ {c}
        BY <3>1
      <4>3. QED
        BY <4>1, <4>2, FS_Subset, FS_CardinalityType
    <3>4. a + b <= Slack
      <4>1. Cardinality(Maker) - 1 \in Nat /\ Most \in Nat
        BY <3>3, SlackNat
      <4>2. Most * Cardinality(R) <= Slack /\ Most * Cardinality(R) \in Nat
        BY <3>3, <4>1, Times DEF Slack
      <4> HIDE DEF a, b
      <4>3. QED
        BY <3>2, <4>2, SlackNat
    <3>5. yes \in Nat /\ no \in Nat /\ WithinSkew(yes, no, 0)
      <4>1. can_post_maker(inventory, [side |-> side, size |-> z])
        BY DEF Post
      <4>2. /\ WithFill(inventory, [side |-> side, size |-> z]).yes = yes
            /\ WithFill(inventory, [side |-> side, size |-> z]).no = no
        BY <1>2 DEF WithFill, SkewInv
      <4>3. yes \in Nat /\ no \in Nat
        BY <1>2
      <4> HIDE DEF yes, no
      <4>4. SkewPercent * (yes + no) \in Int
        BY <4>3, MakerAssumption
      <4>5. QED
        BY <4>1, <4>2, <4>3, <4>4 DEF can_post_maker, WithinSkew, Distance
    <3>6. YesWith(Q)' = yes + a /\ NoWith(Q)' = no + b
      <4>1. IsFiniteSet(Q) /\ \A x \in Q : YesOrders'[x] \in Int /\ NoOrders'[x] \in Int
        <5>1. IsFiniteSet(Q) /\ \A x \in Q : YesOrders[x] \in Int /\ NoOrders[x] \in Int
          BY <2>1, OrdersBounded
        <5>2. QED
          BY <1>2, <1>4, <2>1, <5>1
      <4>2. /\ SumFunctionOnSet(YesOrders', Q) = YesOrders'[c] + SumFunctionOnSet(YesOrders', R)
            /\ SumFunctionOnSet(NoOrders', Q) = NoOrders'[c] + SumFunctionOnSet(NoOrders', R)
        BY <2>3, <4>1, SumRemove
      <4>3. SumFunctionOnSet(YesOrders', R) = a /\ SumFunctionOnSet(NoOrders', R) = b
        BY <1>5, <3>1
      <4>4. /\ YesWith(Q)' = inventory.yes + SumFunctionOnSet(YesOrders', Q)
            /\ NoWith(Q)' = inventory.no + SumFunctionOnSet(NoOrders', Q)
        BY <1>1 DEF YesWith, NoWith
      <4> HIDE DEF a, b, R
      <4>5. QED
        BY <1>2, <1>4, <3>2, <4>2, <4>3, <4>4
    <3> HIDE DEF a, b, yes, no, R
    <3>7. QED
      BY <3>2, <3>4, <3>5, <3>6, SkewGrows, SlackNat
  <2>4. QED
    BY <2>2, <2>3
<1>7. QED
  BY <1>1, <1>3, <1>6 DEF SkewInv, Slack

(* A fill moves one of the orders that may be filled into the inventory.   *)
LEMMA FillKeepsSkew ==
  ASSUME SkewInv, NEW c \in Maker, record_fill(c) \/ Withdraw(c)
  PROVE  SkewInv'
<1> DEFINE o == making[c]
<1>1. o # NoOrder /\ making' = [making EXCEPT ![c] = NoOrder]
  BY DEF record_fill, Withdraw
<1>2. /\ inventory.yes \in Nat /\ inventory.no \in Nat
      /\ o.side \in {"yes", "no"} /\ o.size \in Nat
  BY SizesBounded DEF SkewInv
<1>3. inventory' = inventory \/ inventory' = WithFill(inventory, o)
  BY DEF record_fill, Withdraw
<1>4. /\ inventory' \in [yes : Nat, no : Nat]
      /\ making' \in [Maker -> [side : {"yes", "no"}, size : OrderSizes \cup {0}]]
  <2>1. inventory' \in [yes : Nat, no : Nat]
    BY <1>2, <1>3 DEF SkewInv, WithFill
  <2>2. making' \in [Maker -> [side : {"yes", "no"}, size : OrderSizes \cup {0}]]
    BY <1>1 DEF SkewInv, NoOrder
  <2>3. QED
    BY <2>1, <2>2
<1>5. Pending' = Pending \ {c} /\ c \in Pending
  BY <1>1 DEF Pending, SkewInv
<1>6. ASSUME NEW Q \in SUBSET Pending'
      PROVE  WithinSkew(YesWith(Q)', NoWith(Q)', Slack)
  <2>1. Q \in SUBSET Maker /\ Q \in SUBSET Pending /\ c \notin Q
        /\ Q \cup {c} \in SUBSET Pending
    BY <1>5 DEF Pending
  <2>2. /\ SumFunctionOnSet(YesOrders', Q) = SumFunctionOnSet(YesOrders, Q)
        /\ SumFunctionOnSet(NoOrders', Q) = SumFunctionOnSet(NoOrders, Q)
    <3>1. \A d \in Maker \ {c} : YesOrders'[d] = YesOrders[d] /\ NoOrders'[d] = NoOrders[d]
      BY <1>1 DEF SkewInv, YesOrders, NoOrders
    <3>2. /\ IsFiniteSet(Q)
          /\ \A x \in Q : /\ YesOrders'[x] = YesOrders[x] /\ YesOrders'[x] \in Int
                          /\ NoOrders'[x] = NoOrders[x] /\ NoOrders'[x] \in Int
      <4>1. IsFiniteSet(Q) /\ \A x \in Q : YesOrders[x] \in Int /\ NoOrders[x] \in Int
        BY <2>1, OrdersBounded
      <4>2. \A x \in Q : x \in Maker \ {c}
        BY <2>1
      <4>3. QED
        BY <3>1, <4>1, <4>2
    <3>3. QED
      BY <3>2, SumSame
  <2>3. CASE inventory' = inventory
    <3>1. YesWith(Q)' = YesWith(Q) /\ NoWith(Q)' = NoWith(Q)
      BY <2>2, <2>3 DEF YesWith, NoWith
    <3>2. QED
      BY <2>1, <3>1 DEF SkewInv
  <2>4. CASE inventory' = WithFill(inventory, o)
    <3>1. inventory'.yes = inventory.yes + YesOrders[c]
          /\ inventory'.no = inventory.no + NoOrders[c]
      BY <1>2, <2>4 DEF WithFill, YesOrders, NoOrders, SkewInv
    <3>2. /\ IsFiniteSet(Q)
          /\ \A x \in Q \cup {c} : YesOrders[x] \in Int /\ NoOrders[x] \in Int
          /\ SumFunctionOnSet(YesOrders, Q) \in Int /\ SumFunctionOnSet(NoOrders, Q) \in Int
      BY <2>1, OrdersBounded
    <3>3. /\ SumFunctionOnSet(YesOrders, Q \cup {c}) = YesOrders[c] + SumFunctionOnSet(YesOrders, Q)
          /\ SumFunctionOnSet(NoOrders, Q \cup {c}) = NoOrders[c] + SumFunctionOnSet(NoOrders, Q)
      BY <2>1, <3>2, SumAdd
    <3>4. YesOrders[c] \in Int /\ NoOrders[c] \in Int
      BY <3>2
    <3>5. YesWith(Q)' = YesWith(Q \cup {c}) /\ NoWith(Q)' = NoWith(Q \cup {c})
      BY <1>2, <2>2, <3>1, <3>2, <3>3, <3>4 DEF YesWith, NoWith
    <3>6. QED
      BY <2>1, <3>5 DEF SkewInv
  <2>5. QED
    BY <1>3, <2>3, <2>4
<1>7. QED
  BY <1>4, <1>6 DEF SkewInv, Slack

LEMMA SkewInvStep == SkewInv /\ [MakerNext]_makerVars => SkewInv'
<1> SUFFICES ASSUME SkewInv, [MakerNext]_makerVars PROVE SkewInv'
  OBVIOUS
<1>1. ASSUME NEW c \in Maker, PostOwn(c) PROVE SkewInv'
  BY <1>1, PostKeepsSkew DEF PostOwn, OrderSizes
<1>2. ASSUME NEW c \in Maker, PostSignal(c) PROVE SkewInv'
  <2>1. PICK yes \in MakerPrice, no \in MakerPrice, yd \in Depth, nd \in Depth :
           \E o \in evaluate_maker_opportunity(yes, no, yd, nd) : Post(c, o)
    BY <1>2 DEF PostSignal
  <2>2. \A o \in evaluate_maker_opportunity(yes, no, yd, nd) :
           \E side \in {"yes", "no"}, z \in OrderSizes : o = [side |-> side, size |-> z]
    BY DEF evaluate_maker_opportunity, identify_volatile_side, OrderSizes
  <2>3. QED
    BY <2>1, <2>2, PostKeepsSkew
<1>3. CASE UNCHANGED makerVars
  BY <1>3 DEF SkewInv, makerVars, YesWith, NoWith, YesOrders, NoOrders, Pending
<1>4. QED
  BY <1>1, <1>2, <1>3, FillKeepsSkew DEF MakerNext

(* With any number of makers, prices, depths and sizes, the skew exceeds   *)
(* its ratio by one order of each of the other makers at the most          *)
(* (maker_hybrid.rs:76-108).                                               *)
THEOREM SkewCorrect == MakerSpec => []SkewOvershoot
<1>1. MakerInit => SkewInv
  <2> SUFFICES ASSUME MakerInit PROVE SkewInv
    OBVIOUS
  <2>1. /\ inventory = [yes |-> 0, no |-> 0] /\ Pending = {}
        /\ making \in [Maker -> [side : {"yes", "no"}, size : OrderSizes \cup {0}]]
    BY DEF MakerInit, NoOrder, Pending
  <2>2. YesWith({}) = 0 /\ NoWith({}) = 0
    BY <2>1, SumEmpty DEF YesWith, NoWith
  <2>3. WithinSkew(0, 0, Slack)
    BY SlackNat DEF WithinSkew
  <2>4. QED
    BY <2>1, <2>2, <2>3 DEF SkewInv
<1>2. SkewInv /\ [MakerNext]_makerVars => SkewInv'
  BY SkewInvStep
<1>3. SkewInv => SkewOvershoot
  <2> SUFFICES ASSUME SkewInv PROVE SkewOvershoot
    OBVIOUS
  <2>1. YesWith({}) = inventory.yes /\ NoWith({}) = inventory.no
    BY SumEmpty DEF YesWith, NoWith, SkewInv
  <2>2. WithinSkew(inventory.yes, inventory.no, Slack)
    BY <2>1 DEF SkewInv
  <2>3. QED
    BY <2>2 DEF WithinSkew, SkewOvershoot, Slack, Most, OrderSizes, Distance
<1>4. QED
  BY <1>1, <1>2, <1>3, PTL DEF MakerSpec
-----------------------------------------------------------------------------
(* The fast order book.                                                   *)

Level == LevelPrice \X Nat

(* A side that follows the last events of its prices.                      *)
SideFollows(side, last, out) ==
  /\ \A i \in 1..Len(side) : side[i][2] = last[side[i][1]] /\ side[i][2] > 0
  /\ \A i, j \in 1..Len(side) : side[i][1] = side[j][1] => i = j
  /\ \A p \in LevelPrice \ Prices(side) : last[p] = 0 \/ p \in out

BookInv ==
  /\ levels \in [BookSide -> Seq(Level)]
  /\ latest \in [BookSide -> [LevelPrice -> Nat]]
  /\ refused \in [BookSide -> SUBSET LevelPrice]
  /\ pendingEvents \in Seq(PolymarketEvent)
  /\ \A s \in BookSide : SideFollows(levels[s], latest[s], refused[s])

(* What is left of a side without its i-th level.                          *)
LEMMA Removed ==
  ASSUME NEW side \in Seq(Level), NEW i \in 1..Len(side)
  PROVE  /\ RemoveAt(side, i) \in Seq(Level)
         /\ Len(RemoveAt(side, i)) = Len(side) - 1
         /\ \A k \in 1..Len(side) - 1 :
               RemoveAt(side, i)[k] = side[IF k < i THEN k ELSE k + 1]
<1> DEFINE a == SubSeq(side, 1, i - 1)
           b == SubSeq(side, i + 1, Len(side))
<1>1. a \in Seq(Level) /\ Len(a) = i - 1 /\ \A k \in 1..i - 1 : a[k] = side[k]
  OBVIOUS
<1>2. /\ b \in Seq(Level) /\ Len(b) = Len(side) - i
      /\ \A k \in 1..Len(side) - i : b[k] = side[i + k]
  OBVIOUS
<1>3. RemoveAt(side, i) = a \o b
  BY DEF RemoveAt
<1>4. Len(side) \in Nat /\ i \in Nat
  OBVIOUS
<1> HIDE DEF a, b
<1>5. a \o b \in Seq(Level) /\ Len(a \o b) = Len(side) - 1
  <2>1. a \in Seq(Level) /\ b \in Seq(Level)
    BY <1>1, <1>2
  <2>2. a \o b \in Seq(Level) /\ Len(a \o b) = Len(a) + Len(b)
    BY <2>1
  <2>3. QED
    BY <1>1, <1>2, <1>4, <2>2
<1>6. ASSUME NEW k \in 1..Len(side) - 1
      PROVE  (a \o b)[k] = side[IF k < i THEN k ELSE k + 1]
  <2>1. CASE k < i
    <3>1. (a \o b)[k] = a[k]
      BY <1>1, <1>2, <1>4, <2>1
    <3>2. QED
      BY <1>1, <1>4, <2>1, <3>1
  <2>2. CASE ~(k < i)
    <3>1. (a \o b)[k] = b[k - (i - 1)]
      BY <1>1, <1>2, <1>4, <2>2
    <3>2. k - (i - 1) \in 1..Len(side) - i
      BY <1>4, <2>2
    <3>3. QED
      BY <1>2, <1>4, <2>2, <3>1, <3>2
  <2>3. QED
    BY <2>1, <2>2
<1>7. QED
  BY <1>3, <1>5, <1>6

LEMMA UpdateFollows ==
  ASSUME NEW side \in Seq(Level), NEW last \in [LevelPrice -> Nat],
         NEW out \in SUBSET LevelPrice, SideFollows(side, last, out),
         NEW e \in PolymarketEvent
  PROVE  /\ UpdateSide(side, e) \in Seq(Level)
         /\ SideFollows(UpdateSide(side, e), [last EXCEPT ![e.price] = e.size],
                        IF /\ e.size > 0 /\ e.price \notin Prices(side)
                           /\ Len(side) >= BookCapacity
                        THEN out \cup {e.price} ELSE out \ {e.price})
<1> DEFINE p == e.price
           last2 == [last EXCEPT ![e.price] = e.size]
           out2 == IF /\ e.size > 0 /\ e.price \notin Prices(side)
                      /\ Len(side) >= BookCapacity
                   THEN out \cup {e.price} ELSE out \ {e.price}
           new == UpdateSide(side, e)
<1>1. p \in LevelPrice /\ e.size \in Nat
  BY FastBookAssumption DEF PolymarketEvent
<1>2. /\ last2 \in [LevelPrice -> Nat] /\ last2[p] = e.size
      /\ \A q \in LevelPrice : q # p => last2[q] = last[q]
  BY <1>1
<1>3. /\ Len(side) \in Nat /\ DOMAIN side = 1..Len(side)
      /\ \A i \in 1..Len(side) : side[i] \in Level /\ side[i][1] \in LevelPrice /\ side[i][2] \in Nat
  BY DEF Level
<1>4. /\ \A i \in 1..Len(side) : side[i][2] = last[side[i][1]] /\ side[i][2] > 0
      /\ \A i, j \in 1..Len(side) : side[i][1] = side[j][1] => i = j
      /\ \A q \in LevelPrice \ Prices(side) : last[q] = 0 \/ q \in out
  BY DEF SideFollows
<1>5. Prices(side) = {side[i][1] : i \in 1..Len(side)}
  BY <1>3 DEF Prices
<1>6. CASE At(side, p) # {}
  <2>1. PICK i \in 1..Len(side) : side[i][1] = p
    BY <1>3, <1>6 DEF At
  <2>2. Min(At(side, p)) = i
    <3>1. At(side, p) = {i}
      BY <1>3, <1>4, <2>1 DEF At
    <3>2. QED
      BY <3>1 DEF Min
  <2>3. p \in Prices(side) /\ out2 = out \ {p}
    BY <1>5, <2>1
  <2>4. CASE e.size = 0
    <3>1. new = RemoveAt(side, i)
      BY <1>6, <2>2, <2>4 DEF UpdateSide
    <3>2. /\ new \in Seq(Level) /\ Len(new) = Len(side) - 1
          /\ \A k \in 1..Len(side) - 1 : new[k] = side[IF k < i THEN k ELSE k + 1]
      BY <3>1, Removed
    <3> HIDE DEF new, last2, out2
    <3>3. ASSUME NEW k \in 1..Len(new)
          PROVE  /\ new[k][2] = last2[new[k][1]] /\ new[k][2] > 0
                 /\ \A j \in 1..Len(new) : new[k][1] = new[j][1] => k = j
      <4> DEFINE at(x) == IF x < i THEN x ELSE x + 1
      <4>1. \A x \in 1..Len(new) : at(x) \in 1..Len(side) /\ at(x) # i /\ new[x] = side[at(x)]
        BY <1>3, <3>2
      <4>2. \A x, y \in 1..Len(new) : at(x) = at(y) => x = y
        BY <1>3, <3>2
      <4> HIDE DEF at
      <4>3. side[at(k)][1] # p
        BY <1>4, <2>1, <4>1
      <4>4. last2[side[at(k)][1]] = last[side[at(k)][1]]
        BY <1>2, <1>3, <4>1, <4>3
      <4>5. new[k][2] = last2[new[k][1]] /\ new[k][2] > 0
        <5>1. at(k) \in 1..Len(side) /\ new[k] = side[at(k)]
          BY <4>1
        <5>2. QED
          BY <1>4, <4>4, <5>1
      <4>6. ASSUME NEW j \in 1..Len(new), new[k][1] = new[j][1]
            PROVE  k = j
        <5>1. at(k) \in 1..Len(side) /\ at(j) \in 1..Len(side) /\ side[at(k)][1] = side[at(j)][1]
          BY <4>1, <4>6
        <5>2. at(k) = at(j)
          BY <1>4, <5>1
        <5>3. QED
          BY <4>2, <5>2
      <4>7. QED
        BY <4>5, <4>6
    <3>4. ASSUME NEW q \in LevelPrice \ Prices(new)
          PROVE  last2[q] = 0 \/ q \in out2
      <4>1. CASE q = p
        BY <1>2, <2>4, <4>1
      <4>2. CASE q # p
        <5>1. q \notin Prices(side)
          <6> SUFFICES ASSUME NEW j \in 1..Len(side), side[j][1] = q
                       PROVE  FALSE
            BY <1>5
          <6>1. j # i
            BY <2>1, <4>2
          <6> DEFINE k == IF j < i THEN j ELSE j - 1
          <6>2. k \in 1..Len(new) /\ k \in 1..Len(side) - 1 /\ (IF k < i THEN k ELSE k + 1) = j
            BY <1>3, <3>2, <6>1
          <6>3. new[k] = side[j] /\ k \in DOMAIN new
            BY <3>2, <6>2
          <6>4. QED
            BY <3>4, <6>3 DEF Prices
        <5>2. QED
          BY <1>2, <1>4, <2>3, <4>2, <5>1
      <4>3. QED
        BY <4>1, <4>2
    <3>5. QED
      BY <3>2, <3>3, <3>4 DEF SideFollows, new, last2, out2
  <2>5. CASE e.size > 0
    <3>1. new = [side EXCEPT ![i] = <<p, e.size>>]
      BY <1>1, <1>6, <2>2, <2>5 DEF UpdateSide
    <3>2. <<p, e.size>> \in Level
      BY <1>1 DEF Level
    <3>3. /\ new \in Seq(Level) /\ Len(new) = Len(side) /\ DOMAIN new = 1..Len(side)
          /\ new[i] = <<p, e.size>>
          /\ \A k \in 1..Len(side) : k # i => new[k] = side[k]
      BY <3>1, <3>2
    <3> HIDE DEF new, last2, out2
    <3>4. \A k \in 1..Len(side) : new[k][1] = side[k][1]
      BY <2>1, <3>3
    <3>5. Prices(new) = Prices(side)
      <4>1. Prices(new) = {new[k][1] : k \in 1..Len(side)}
        BY <3>3 DEF Prices
      <4>2. QED
        BY <1>5, <3>4, <4>1
    <3>6. ASSUME NEW k \in 1..Len(side)
          PROVE  new[k][2] = last2[new[k][1]] /\ new[k][2] > 0
      <4>1. CASE k = i
        BY <1>2, <2>5, <3>3, <4>1
      <4>2. CASE k # i
        <5>1. side[k][1] # p
          BY <1>4, <2>1, <4>2
        <5>2. QED
          BY <1>2, <1>3, <1>4, <3>3, <4>2, <5>1
      <4>3. QED
        BY <4>1, <4>2
    <3>7. \A j, k \in 1..Len(side) : new[j][1] = new[k][1] => j = k
      BY <1>4, <3>4
    <3>8. \A q \in LevelPrice \ Prices(new) : last2[q] = 0 \/ q \in out2
      BY <1>2, <1>4, <2>3, <3>5
    <3>9. QED
      BY <3>3, <3>6, <3>7, <3>8 DEF SideFollows, new, last2, out2
  <2>6. QED
    BY <1>1, <2>4, <2>5
<1>7. CASE At(side, p) = {}
  <2>1. p \notin Prices(side) /\ \A i \in 1..Len(side) : side[i][1] # p
    BY <1>3, <1>5, <1>7 DEF At
  <2>2. CASE e.size > 0 /\ Len(side) < BookCapacity
    <3>1. new = Append(side, <<p, e.size>>)
      BY <1>7, <2>2 DEF UpdateSide
    <3>2. <<p, e.size>> \in Level
      BY <1>1 DEF Level
    <3>3. out2 = out \ {p}
      BY <1>3, <2>2, FastBookAssumption
    <3>4. /\ new \in Seq(Level) /\ Len(new) = Len(side) + 1 /\ DOMAIN new = 1..Len(side) + 1
          /\ new[Len(side) + 1] = <<p, e.size>>
          /\ \A k \in 1..Len(side) : new[k] = side[k]
      BY <3>1, <3>2
    <3> HIDE DEF new, last2, out2
    <3>5. ASSUME NEW k \in 1..Len(side)
          PROVE  new[k][2] = last2[new[k][1]] /\ new[k][2] > 0
      <4>1. side[k][1] # p /\ side[k][1] \in LevelPrice
        BY <1>3, <2>1
      <4>2. QED
        BY <1>2, <1>4, <3>4, <4>1
    <3>6. \A k \in 1..Len(side) + 1 : new[k][2] = last2[new[k][1]] /\ new[k][2] > 0
      BY <1>2, <1>3, <2>2, <3>4, <3>5
    <3>7. \A j, k \in 1..Len(side) + 1 : new[j][1] = new[k][1] => j = k
      BY <1>3, <1>4, <2>1, <3>4
    <3>8. Prices(new) = Prices(side) \cup {p}
      <4>1. Prices(new) = {new[k][1] : k \in 1..Len(side) + 1}
        BY <3>4 DEF Prices
      <4>2. \A k \in 1..Len(side) + 1 : new[k][1] = IF k = Len(side) + 1 THEN p ELSE side[k][1]
        BY <1>3, <3>4
      <4>3. Len(side) + 1 \in 1..Len(side) + 1
        BY <1>3
      <4>4. QED
        BY <1>3, <1>5, <4>1, <4>2, <4>3
    <3>9. \A q \in LevelPrice \ Prices(new) : last2[q] = 0 \/ q \in out2
      BY <1>2, <1>4, <3>3, <3>8
    <3>10. QED
      BY <3>4, <3>6, <3>7, <3>9 DEF SideFollows, new, last2, out2
  <2>3. CASE ~(e.size > 0 /\ Len(side) < BookCapacity)
    <3>1. new = side
      BY <1>7, <2>3 DEF UpdateSide
    <3>2. \A k \in 1..Len(side) : last2[side[k][1]] = last[side[k][1]]
      BY <1>2, <1>3, <2>1
    <3>3. \A q \in LevelPrice \ Prices(side) : last2[q] = 0 \/ q \in out2
      <4> TAKE q \in LevelPrice \ Prices(side)
      <4>1. CASE q = p
        <5>1. e.size = 0 \/ p \in out2
          BY <1>1, <1>3, <2>1, <2>3, FastBookAssumption
        <5>2. QED
          BY <1>2, <4>1, <5>1
      <4>2. CASE q # p
        BY <1>2, <1>4, <4>2
      <4>3. QED
        BY <4>1, <4>2
    <3> HIDE DEF last2, out2
    <3>4. SideFollows(side, last2, out2)
      BY <1>4, <3>2, <3>3 DEF SideFollows
    <3>5. QED
      BY <3>1, <3>4 DEF last2, out2, new
  <2>4. QED
    BY <2>2, <2>3
<1>8. QED
  BY <1>6, <1>7

LEMMA BookInvStep == BookInv /\ [FastNext]_fastVars => BookInv'
<1> SUFFICES ASSUME BookInv, [FastNext]_fastVars
             PROVE  BookInv'
  OBVIOUS
<1> USE DEF BookInv
<1>1. ASSUME NEW e \in PolymarketEvent, SendEvent(e)
      PROVE  BookInv'
  <2>1. pendingEvents' = Append(pendingEvents, e) /\ UNCHANGED <<levels, latest, refused>>
    BY <1>1 DEF SendEvent
  <2>2. pendingEvents' \in Seq(PolymarketEvent)
    BY <2>1
  <2>3. QED
    BY <2>1, <2>2
<1>2. CASE TakeEvent
  <2> DEFINE e == Head(pendingEvents)
             out == IF /\ e.size > 0 /\ e.price \notin Prices(levels[e.side])
                       /\ Len(levels[e.side]) >= BookCapacity
                    THEN refused[e.side] \cup {e.price} ELSE refused[e.side] \ {e.price}
  <2>1. e \in PolymarketEvent /\ pendingEvents' \in Seq(PolymarketEvent)
    BY <1>2 DEF TakeEvent
  <2>2. e.side \in BookSide /\ e.price \in LevelPrice /\ e.size \in Nat
    BY <2>1, FastBookAssumption DEF PolymarketEvent
  <2>3. /\ levels' = [levels EXCEPT ![e.side] = UpdateSide(levels[e.side], e)]
        /\ latest' = [latest EXCEPT ![e.side] = [latest[e.side] EXCEPT ![e.price] = e.size]]
        /\ refused' = [refused EXCEPT ![e.side] = out]
    BY <1>2 DEF TakeEvent
  <2> HIDE DEF e
  <2>4. /\ UpdateSide(levels[e.side], e) \in Seq(Level)
        /\ SideFollows(UpdateSide(levels[e.side], e),
                       [latest[e.side] EXCEPT ![e.price] = e.size], out)
    BY <2>1, <2>2, UpdateFollows
  <2>5. out \in SUBSET LevelPrice
    BY <2>2
  <2>6. [latest[e.side] EXCEPT ![e.price] = e.size] \in [LevelPrice -> Nat]
    BY <2>2
  <2> HIDE DEF out
  <2>7. \A s \in BookSide : SideFollows(levels'[s], latest'[s], refused'[s])
    <3> TAKE s \in BookSide
    <3>1. CASE s = e.side
      <4>1. /\ levels'[s] = UpdateSide(levels[e.side], e)
            /\ latest'[s] = [latest[e.side] EXCEPT ![e.price] = e.size]
            /\ refused'[s] = out
        BY <2>2, <2>3, <3>1
      <4>2. QED
        BY <2>4, <4>1
    <3>2. CASE s # e.side
      <4>1. levels'[s] = levels[s] /\ latest'[s] = latest[s] /\ refused'[s] = refused[s]
        BY <2>3, <3>2
      <4>2. QED
        BY <4>1
    <3>3. QED
      BY <3>1, <3>2
  <2>8. QED
    BY <2>1, <2>3, <2>4, <2>5, <2>6, <2>7
<1>3. CASE Evaluate \/ UNCHANGED fastVars
  BY <1>3 DEF Evaluate, fastVars
<1>4. QED
  BY <1>1, <1>2, <1>3 DEF FastNext

(* However events for a price follow each other, a price is on a side at   *)
(* most once, with its last size, and is missing only for want of room,    *)
(* for every capacity (hot_path_optimized.rs:120-139).                     *)
THEOREM BookCorrect == FastSpec => []BookFollowsEvents
<1>1. FastInit => BookInv
  <2> SUFFICES ASSUME FastInit PROVE BookInv
    OBVIOUS
  <2>1. /\ <<>> \in Seq(Level) /\ <<>> \in Seq(PolymarketEvent)
        /\ [p \in LevelPrice |-> 0] \in [LevelPrice -> Nat]
    OBVIOUS
  <2>2. SideFollows(<<>>, [p \in LevelPrice |-> 0], {})
    BY DEF SideFollows
  <2>3. QED
    BY <2>1, <2>2 DEF FastInit, BookInv
<1>2. BookInv => BookFollowsEvents
  <2> SUFFICES ASSUME BookInv, NEW s \in BookSide
               PROVE  /\ \A i \in DOMAIN levels[s] :
                            /\ levels[s][i][2] = latest[s][levels[s][i][1]]
                            /\ levels[s][i][2] > 0
                            /\ At(levels[s], levels[s][i][1]) = {i}
                      /\ \A p \in LevelPrice \ Prices(levels[s]) :
                            latest[s][p] = 0 \/ p \in refused[s]
    BY DEF BookFollowsEvents
  <2>1. SideFollows(levels[s], latest[s], refused[s]) /\ DOMAIN levels[s] = 1..Len(levels[s])
    BY DEF BookInv
  <2>2. QED
    BY <2>1 DEF SideFollows, At
<1>3. QED
  BY <1>1, <1>2, BookInvStep, PTL DEF FastSpec
-----------------------------------------------------------------------------
(* The rollover of a market.                                               *)

Longest == CHOOSE d \in FetchTime : \A e \in FetchTime : e <= d

(* What one job holds its round up at the most.                            *)
PerJob == 5 + 2 * Longest

(* In a round the clock is ahead of the round's reading by what the jobs   *)
(* before took, and of a trap about to be placed by its own sleep, too.    *)
RollInv ==
  /\ clock \in Nat /\ seen \in Nat /\ seen <= clock
  /\ job \in 0..LastJob + 1 /\ trap \in BOOLEAN
  /\ job # 0 /\ ~trap => clock <= seen + (job - 1) * PerJob
  /\ trap => /\ job \in 1..LastJob /\ InWindow
             /\ clock >= seen + SleepToTrigger
             /\ clock <= seen + (job - 1) * PerJob + Longest + SleepToTrigger
  /\ TrapsInTime

LEMMA LongestIs ==
  /\ Longest \in FetchTime /\ Longest \in Nat /\ PerJob \in Nat
  /\ \A d \in FetchTime : d \in Nat /\ d <= Longest
<1>1. Longest \in FetchTime /\ \A e \in FetchTime : e <= Longest
  BY RolloverAssumption DEF Longest
<1>2. QED
  BY <1>1, RolloverAssumption DEF PerJob

LEMMA LastJobNat == LastJob \in Nat /\ Len(Periods) \in Nat /\ Len(Asset) \in Nat
<1>1. Len(Asset) \in Nat /\ Len(Periods) \in Nat
  BY RolloverAssumption
<1>2. QED
  BY <1>1 DEF LastJob

(* Every job has one of the periods.                                       *)
LEMMA JobPeriod ==
  ASSUME NEW i \in 1..LastJob
  PROVE  \E k \in DOMAIN Periods : Job(i).period = Periods[k] /\ Periods[k] \in Nat \ {0}
<1> DEFINE P == Len(Periods)
           k == ((i - 1) % P) + 1
<1>1. P \in Nat \ {0}
  <2>1. P \in Nat /\ Len(Asset) \in Nat /\ Len(Asset) * P >= 1
    BY LastJobNat DEF LastJob
  <2>2. QED
    BY <2>1
<1>2. k \in 1..P
  <2>1. i - 1 \in Nat
    BY LastJobNat
  <2> HIDE DEF P
  <2>2. (i - 1) % P \in 0..P - 1
    BY <1>1, <2>1
  <2>3. QED
    BY <1>1, <2>2
<1>3. k \in DOMAIN Periods /\ Periods[k] \in Nat \ {0}
  BY <1>2, RolloverAssumption
<1>4. Job(i).period = Periods[k]
  BY DEF Job
<1>5. QED
  BY <1>3, <1>4

(* The slot a job looks at, and how long it sleeps until its trap.         *)
LEMMA SlotTimes ==
  ASSUME RollInv, job \in 1..LastJob
  PROVE  /\ slot.time \in Int
         /\ InWindow => /\ timeTo \in 56..65
                        /\ SleepToTrigger \in 0..5
                        /\ SleepToTrigger - timeTo \in -60..(-56)
<1>1. PICK p \in Nat \ {0} : Job(job).period = p
  BY JobPeriod
<1>2. slot.time = (seen \div p) * p + p
  BY <1>1 DEF slot, NextSlot, SlotAt
<1>3. slot.time \in Int
  <2>1. seen \div p \in Int
    BY <1>1 DEF RollInv
  <2>2. QED
    BY <1>1, <1>2, <2>1
<1>4. ASSUME InWindow
      PROVE  /\ timeTo \in 56..65
             /\ SleepToTrigger \in 0..5
             /\ SleepToTrigger - timeTo \in -60..(-56)
  <2> DEFINE t == slot.time
  <2>1. t \in Int /\ seen \in Nat
    BY <1>3 DEF RollInv
  <2>2. timeTo = t - seen /\ t - seen <= 65 /\ t - seen > 55
    BY <1>4 DEF InWindow, timeTo
  <2>3. SleepToTrigger = IF t - 60 > seen THEN t - 60 - seen ELSE 0
    BY DEF SleepToTrigger
  <2> HIDE DEF t
  <2>4. QED
    BY <2>1, <2>2, <2>3
<1>5. QED
  BY <1>3, <1>4

(* A round that goes on to its next job.                                   *)
LEMMA NextJobIs ==
  ASSUME RollInv, job \in 1..LastJob, NextJob
  PROVE  job' = job + 1 /\ job' \in 0..LastJob + 1 /\ job' # 0
         /\ (job' - 1) * PerJob = (job - 1) * PerJob + PerJob
<1>1. job' = job + 1 /\ job \in Nat
  BY LastJobNat DEF NextJob
<1>2. PerJob \in Nat
  BY LongestIs
<1>3. (job' - 1) * PerJob = (job - 1) * PerJob + PerJob
  BY <1>1, <1>2
<1>4. QED
  BY <1>1, <1>3, LastJobNat

LEMMA AheadNat == ASSUME RollInv, job \in 1..LastJob PROVE (job - 1) * PerJob \in Nat
<1>1. job - 1 \in Nat /\ PerJob \in Nat
  BY LongestIs, LastJobNat
<1>2. QED
  BY <1>1

LEMMA RollInvStep == RollInv /\ [RolloverNext]_rolloverVars => RollInv'
<1> SUFFICES ASSUME RollInv, [RolloverNext]_rolloverVars
             PROVE  RollInv'
  OBVIOUS
<1>0. /\ clock \in Nat /\ seen \in Nat /\ seen <= clock /\ LastJob \in Nat
      /\ job \in 0..LastJob + 1 /\ trap \in BOOLEAN /\ PerJob \in Nat /\ Longest \in Nat
      /\ (job # 0 /\ ~trap => clock <= seen + (job - 1) * PerJob)
  BY LongestIs, LastJobNat DEF RollInv
<1>1. CASE RoundStart
  <2>1. /\ job = 0 /\ job' = 1 /\ seen' = clock
        /\ UNCHANGED <<clock, trap, discovered, decided, checked, overran>>
    BY <1>1 DEF RoundStart
  <2>2. ~trap
    BY <2>1, LastJobNat DEF RollInv
  <2>3. (job' - 1) * PerJob = 0
    BY <1>0, <2>1
  <2>4. TrapsInTime'
    BY <2>1 DEF RollInv, TrapsInTime
  <2>5. QED
    BY <1>0, <2>1, <2>2, <2>3, <2>4 DEF RollInv
<1>2. CASE Skip
  <2>1. /\ job \in 1..LastJob /\ ~trap /\ NextJob
        /\ UNCHANGED <<clock, seen, trap, discovered, decided, checked, overran>>
    BY <1>2 DEF Skip
  <2>2. job' \in 0..LastJob + 1 /\ (job' - 1) * PerJob = (job - 1) * PerJob + PerJob
    BY <2>1, NextJobIs
  <2>3. TrapsInTime'
    BY <2>1 DEF RollInv, TrapsInTime
  <2>4. (job - 1) * PerJob \in Nat
    BY <2>1, AheadNat
  <2>5. clock' <= seen' + (job' - 1) * PerJob
    <3> DEFINE a == (job - 1) * PerJob
               b == (job' - 1) * PerJob
    <3>1. job # 0
      BY <1>0, <2>1
    <3>2. clock <= seen + a /\ a \in Nat /\ b = a + PerJob
      BY <1>0, <2>1, <2>2, <2>4, <3>1
    <3> HIDE DEF a, b
    <3>3. clock' <= seen' + b
      BY <1>0, <2>1, <3>2
    <3>4. QED
      BY <3>3 DEF b
  <2>6. QED
    BY <1>0, <2>1, <2>2, <2>3, <2>5 DEF RollInv
<1>3. CASE Check
  <2>1. /\ job \in 1..LastJob /\ InWindow /\ ~trap /\ UNCHANGED <<seen, overran>>
    BY <1>3 DEF Check, Due
  <2>2. PICK d \in FetchTime, answers \in BOOLEAN, yes, no \in CachedAsk :
          CASE ~answers ->
                 clock' = clock + d /\ NextJob /\ UNCHANGED <<trap, discovered, decided>>
            [] answers /\ is_market_ranging(yes, no) ->
                 clock' = clock + d + SleepToTrigger /\ trap' = TRUE
                    /\ UNCHANGED <<job, discovered, decided>>
            [] OTHER ->
                 clock' = clock + d /\ NextJob /\ Decide(slot, "trend", clock') /\ UNCHANGED trap
    BY <1>3 DEF Check
  <2>3. d \in Nat /\ d <= Longest
    BY LongestIs
  <2> DEFINE a == (job - 1) * PerJob
  <2>4. a \in Nat /\ clock <= seen + a
    BY <1>0, <2>1, AheadNat
  <2>5. CASE /\ clock' = clock + d /\ NextJob /\ trap' = trap
             /\ \A x \in decided' : x \in decided \/ x.kind = "trend"
    <3>1. job' \in 0..LastJob + 1 /\ (job' - 1) * PerJob = a + PerJob
      BY <2>1, <2>5, NextJobIs
    <3>2. TrapsInTime'
      BY <2>5 DEF RollInv, TrapsInTime
    <3>3. clock' \in Nat /\ seen' <= clock' /\ clock' <= seen' + (job' - 1) * PerJob
      <4> DEFINE b == (job' - 1) * PerJob
      <4>1. b = a + PerJob
        BY <3>1
      <4> HIDE DEF a, b
      <4>2. PerJob = 5 + 2 * Longest
        BY DEF PerJob
      <4>3. clock' \in Nat /\ seen' <= clock' /\ clock' <= seen' + b
        BY <1>0, <2>1, <2>3, <2>4, <2>5, <4>1, <4>2
      <4>4. QED
        BY <4>3 DEF b
    <3> HIDE DEF a
    <3>4. QED
      BY <1>0, <2>1, <2>5, <3>1, <3>2, <3>3 DEF RollInv
  <2>6. CASE /\ clock' = clock + d + SleepToTrigger /\ trap' = TRUE
             /\ UNCHANGED <<job, discovered, decided>>
    <3>1. SleepToTrigger \in 0..5
      BY <2>1, SlotTimes
    <3>2. InWindow' /\ SleepToTrigger' = SleepToTrigger
      BY <2>1, <2>6 DEF InWindow, timeTo, slot, SleepToTrigger
    <3>3. TrapsInTime'
      BY <2>6 DEF RollInv, TrapsInTime
    <3> HIDE DEF a
    <3>4. /\ clock' \in Nat /\ seen' <= clock' /\ clock' >= seen' + SleepToTrigger
          /\ clock' <= seen' + a + Longest + SleepToTrigger
      BY <1>0, <2>1, <2>3, <2>4, <2>6, <3>1
    <3>5. QED
      BY <1>0, <2>1, <2>6, <3>2, <3>3, <3>4 DEF RollInv, a
  <2>7. (CASE ~answers ->
                 clock' = clock + d /\ NextJob /\ UNCHANGED <<trap, discovered, decided>>
            [] answers /\ is_market_ranging(yes, no) ->
                 clock' = clock + d + SleepToTrigger /\ trap' = TRUE
                    /\ UNCHANGED <<job, discovered, decided>>
            [] OTHER ->
                 clock' = clock + d /\ NextJob /\ Decide(slot, "trend", clock') /\ UNCHANGED trap)
        => \/ /\ clock' = clock + d /\ NextJob /\ trap' = trap
              /\ \A x \in decided' : x \in decided \/ x.kind = "trend"
           \/ /\ clock' = clock + d + SleepToTrigger /\ trap' = TRUE
              /\ UNCHANGED <<job, discovered, decided>>
    BY DEF Decide
  <2>8. QED
    BY <2>2, <2>5, <2>6, <2>7
<1>4. CASE place_trap
  <2>1. trap /\ trap' = FALSE /\ NextJob /\ UNCHANGED <<seen, checked, overran>>
    BY <1>4 DEF place_trap
  <2>2. PICK d \in FetchTime, answers \in BOOLEAN :
          /\ clock' = clock + d
          /\ IF answers THEN Decide(slot, "trap", clock')
                        ELSE UNCHANGED <<discovered, decided>>
    BY <1>4 DEF place_trap
  <2> DEFINE a == (job - 1) * PerJob
             S == SleepToTrigger
             H == (LastJob - 1) * 5 + LastJob * 2 * Longest
  <2>3. /\ job \in 1..LastJob /\ InWindow
        /\ clock >= seen + S /\ clock <= seen + a + Longest + S
    BY <2>1 DEF RollInv
  <2>4. /\ slot.time \in Int /\ S \in 0..5 /\ S - timeTo \in -60..(-56)
        /\ timeTo = slot.time - seen
    BY <2>3, SlotTimes DEF timeTo
  <2>5. d \in Nat /\ d <= Longest /\ a \in Nat
    BY <2>3, LongestIs, AheadNat
  <2>6. job' \in 0..LastJob + 1 /\ (job' - 1) * PerJob = a + PerJob
    BY <2>1, <2>3, NextJobIs
  <2>7. clock' - slot.time \in -60..(H - 56)
    <3>1. clock' - slot.time <= a + 2 * Longest - 56 /\ clock' - slot.time >= -60
          /\ clock' - slot.time \in Int
      <4> DEFINE t == slot.time
      <4> HIDE DEF a, S, t
      <4>1. /\ t \in Int /\ S \in 0..5 /\ S - (t - seen) \in -60..(-56)
            /\ clock' = clock + d
        BY <2>2, <2>4 DEF t
      <4>2. QED
        BY <1>0, <2>3, <2>5, <4>1 DEF t
    <3>2. a + 2 * Longest <= (LastJob - 1) * 5 + LastJob * 2 * Longest
      <4>1. a = (job - 1) * 5 + (job - 1) * (2 * Longest)
        BY <1>0, <2>3 DEF PerJob
      <4>2. job \in Nat /\ job <= LastJob
        BY <1>0, <2>3
      <4>3. job * (2 * Longest) <= LastJob * (2 * Longest)
        BY <1>0, <4>2
      <4>4. (job - 1) * (2 * Longest) = job * (2 * Longest) - 2 * Longest
        BY <1>0, <4>2
      <4>5. LastJob * 2 * Longest = LastJob * (2 * Longest)
        BY <1>0
      <4>6. (job - 1) * 5 <= (LastJob - 1) * 5
        BY <1>0, <4>2
      <4> DEFINE x == job * (2 * Longest)
                 y == LastJob * (2 * Longest)
      <4>7. x \in Int /\ y \in Int
        BY <1>0, <4>2
      <4> HIDE DEF x, y, a
      <4>8. QED
        BY <1>0, <4>1, <4>2, <4>3, <4>4, <4>5, <4>6, <4>7 DEF x, y
    <3>3. H \in Int
      BY <1>0
    <3> HIDE DEF a, H
    <3>4. a + 2 * Longest <= H
      BY <3>2 DEF H
    <3>5. QED
      BY <1>0, <2>5, <3>1, <3>3, <3>4
  <2>8. TrapsInTime'
    <3>1. \A x \in decided' : x \in decided \/ (x.slot.time = slot.time /\ x.at = clock')
      BY <2>2 DEF Decide
    <3>2. /\ TrapsInTime <=> \A x \in decided :
                x.kind = "trap" => x.at - x.slot.time \in -60..(H - 56)
          /\ TrapsInTime' <=> \A x \in decided' :
                x.kind = "trap" => x.at - x.slot.time \in -60..(H - 56)
      BY DEF TrapsInTime, Longest
    <3>3. TrapsInTime
      BY DEF RollInv
    <3> HIDE DEF H
    <3>4. QED
      BY <2>7, <3>1, <3>2, <3>3
  <2>9. clock' \in Nat /\ seen' <= clock' /\ clock' <= seen' + (job' - 1) * PerJob
    <3> DEFINE b == (job' - 1) * PerJob
    <3>1. b = a + PerJob
      BY <2>6
    <3> HIDE DEF a, S, b
    <3>2. PerJob = 5 + 2 * Longest
      BY DEF PerJob
    <3>3. clock' \in Nat /\ seen' <= clock' /\ clock' <= seen' + b
      BY <1>0, <2>1, <2>2, <2>3, <2>4, <2>5, <3>1, <3>2
    <3>4. QED
      BY <3>3 DEF b
  <2>10. QED
    BY <1>0, <2>1, <2>6, <2>8, <2>9 DEF RollInv
<1>5. CASE RoundEnd
  <2>1. /\ job = LastJob + 1 /\ job' = 0 /\ UNCHANGED <<seen, trap>>
        /\ decided' \subseteq decided
    BY <1>5 DEF RoundEnd
  <2>2. PICK o \in Overrun : clock' = clock + 10 + o
    BY <1>5 DEF RoundEnd
  <2>3. o \in Nat
    BY RolloverAssumption
  <2>4. ~trap
    BY <1>0, <2>1 DEF RollInv
  <2>5. TrapsInTime'
    BY <2>1 DEF RollInv, TrapsInTime
  <2>6. QED
    BY <1>0, <2>1, <2>2, <2>3, <2>4, <2>5 DEF RollInv
<1>6. CASE UNCHANGED rolloverVars
  BY <1>6 DEF rolloverVars, RollInv, TrapsInTime, InWindow, timeTo, slot, SleepToTrigger
<1>7. QED
  BY <1>1, <1>2, <1>3, <1>4, <1>5, <1>6 DEF RolloverNext

LEMMA RollInit == RolloverInit => RollInv
<1> SUFFICES ASSUME RolloverInit PROVE RollInv
  OBVIOUS
<1>1. clock \in Nat /\ seen = clock /\ job = 0 /\ trap = FALSE /\ decided = {}
  BY RolloverAssumption DEF RolloverInit
<1>2. TrapsInTime
  BY <1>1 DEF TrapsInTime
<1>3. job \in 0..LastJob + 1
  BY <1>1, LastJobNat
<1>4. seen \in Nat /\ seen <= clock /\ ~(job # 0)
  BY <1>1
<1>5. QED
  BY <1>1, <1>2, <1>3, <1>4, Zenon DEF RollInv

(* A trap is placed within the last minute, and late by no more than the   *)
(* sleeps and requests of one round, for any assets and periods            *)
(* (market_rollover.rs:65-82).                                             *)
THEOREM RolloverCorrect == RolloverSpec => []TrapsInTime
<1>1. RollInv => TrapsInTime
  BY DEF RollInv
<1>2. QED
  BY <1>1, RollInit, RollInvStep, PTL DEF RolloverSpec
-----------------------------------------------------------------------------
(* When no window is missed.                                               *)

(* Every period is a multiple of b seconds, and a whole round fits into b. *)
RoundsFit(b) ==
  /\ b \in Nat /\ b >= 66
  /\ \A k \in DOMAIN Periods : Periods[k] % b = 0
  /\ LastJob * PerJob + 10 <= b

StartedBefore(s) == \A t \in Start : t <= s.time - 65

(* In a round, what was within its window when the clock was read has been *)
(* looked at as far as the round has come, and what was past it before.    *)
(* The clock has moved on only if some window was open.                    *)
MeetInv(b) ==
  /\ RollInv /\ overran \in BOOLEAN
  /\ trap => slot \in checked
  /\ \A s \in discovered : s.time \in Nat /\ (s.time > seen => s \in checked)
  /\ job = 0 => EveryWindowMet
  /\ job # 0 /\ ~overran =>
        \A i \in 1..LastJob :
           LET s == NextSlot(Job(i), seen)
           IN  (s.time - seen <= 55 \/ (i < job /\ s.time - seen <= 65)) /\ StartedBefore(s)
               => s \in checked
  /\ job # 0 => clock = seen \/ \E y \in Int : b * y - seen \in 56..65

LEMMA DivisionUnique ==
  ASSUME NEW t \in Nat, NEW p \in Nat \ {0}, NEW q \in Nat, p * q <= t, t < p * q + p
  PROVE  t \div p = q
  OBVIOUS

LEMMA DivisionBounds ==
  ASSUME NEW t \in Nat, NEW p \in Nat \ {0}
  PROVE  t \div p \in Nat /\ p * (t \div p) <= t /\ t < p * (t \div p) + p
  OBVIOUS

LEMMA Distributes ==
  ASSUME NEW b \in Int, NEW m \in Int, NEW q \in Int
  PROVE  q * (b * m) + b * m = b * (m * (q + 1))
  OBVIOUS

(* The slot after a moment begins after it, at a multiple of b; and two    *)
(* moments with no more than 65 seconds between the earlier one and the    *)
(* slot have the same slot.                                                *)
LEMMA SlotAfter ==
  ASSUME NEW b, RoundsFit(b), NEW i \in 1..LastJob, NEW c \in Nat
  PROVE  LET s == NextSlot(Job(i), c)
         IN  /\ s.time \in Nat /\ s.time > c
             /\ \E y \in Nat : s.time = b * y
             /\ \A t \in Nat : t <= c /\ s.time - t <= 65 => NextSlot(Job(i), t) = s
<1> DEFINE s == NextSlot(Job(i), c)
<1>1. PICK k \in DOMAIN Periods : Job(i).period = Periods[k] /\ Periods[k] \in Nat \ {0}
  BY JobPeriod
<1> DEFINE p == Periods[k]
<1>2. p \in Nat \ {0} /\ p % b = 0 /\ b \in Nat /\ b >= 66
  BY <1>1 DEF RoundsFit
<1>3. \A t \in Nat : NextSlot(Job(i), t)
          = [asset |-> Job(i).asset, period |-> p, time |-> (t \div p) * p + p]
  BY <1>1 DEF NextSlot, SlotAt
<1> HIDE DEF p
<1> DEFINE q == c \div p
           T == q * p + p
<1>4. s = [asset |-> Job(i).asset, period |-> p, time |-> T]
  BY <1>3
<1>5. q \in Nat /\ p * q <= c /\ c < p * q + p
  BY <1>2, DivisionBounds
<1>6. PICK m \in Nat : p = b * m
  <2> DEFINE n == p \div b
  <2>1. n \in Nat /\ p = b * n
    BY <1>2
  <2>2. QED
    BY <2>1
<1>7. p >= b
  <2>1. m >= 1
    BY <1>2, <1>6
  <2>2. b * m >= b
    BY <1>2, <2>1
  <2>3. QED
    BY <1>6, <2>2
<1>8. T = b * (m * (q + 1)) /\ m * (q + 1) \in Nat
  <2> HIDE DEF q
  <2>1. q * (b * m) + b * m = b * (m * (q + 1))
    BY <1>2, <1>5, Distributes
  <2>2. QED
    BY <1>5, <1>6, <2>1
<1>9. T \in Nat /\ T > c /\ q * p = p * q
  <2> HIDE DEF q
  <2>1. QED
    BY <1>2, <1>5
<1>10. ASSUME NEW t \in Nat, t <= c, T - t <= 65
       PROVE  NextSlot(Job(i), t) = s
  <2>1. p * q <= t /\ t < p * q + p
    <3> DEFINE x == p * q
    <3>1. x \in Nat /\ x + p - t <= 65 /\ c < x + p
      BY <1>2, <1>5, <1>9, <1>10
    <3> HIDE DEF x, q
    <3>2. x <= t /\ t < x + p
      BY <1>2, <1>7, <1>10, <3>1
    <3>3. QED
      BY <3>2 DEF x
  <2>2. t \div p = q
    <3> HIDE DEF q
    <3>1. QED
      BY <1>2, <1>5, <2>1, DivisionUnique
  <2>3. QED
    BY <1>3, <1>4, <2>2
<1> HIDE DEF T
<1>11. s.time = T
  BY <1>4
<1>12. QED
  BY <1>8, <1>9, <1>10, <1>11

(* What of a job's slot must have been looked at when the job is done.     *)
LEMMA JobDone ==
  ASSUME NEW b, RoundsFit(b), MeetInv(b), job \in 1..LastJob, seen' = seen,
         job' = job + 1, overran' = overran, checked \subseteq checked',
         InWindow => slot \in checked' \cup discovered
  PROVE  ~overran' => \A i \in 1..LastJob :
           LET s == NextSlot(Job(i), seen')
           IN  (s.time - seen' <= 55 \/ (i < job' /\ s.time - seen' <= 65)) /\ StartedBefore(s)
               => s \in checked'
<1> SUFFICES ASSUME ~overran, NEW i \in 1..LastJob,
                    NextSlot(Job(i), seen).time - seen <= 55
                      \/ (i < job' /\ NextSlot(Job(i), seen).time - seen <= 65),
                    StartedBefore(NextSlot(Job(i), seen))
             PROVE  NextSlot(Job(i), seen) \in checked'
  OBVIOUS
<1> DEFINE s == NextSlot(Job(i), seen)
<1>1. job # 0 /\ job \in Nat /\ i \in Nat /\ seen \in Nat
  BY LastJobNat DEF MeetInv, RollInv
<1>2. CASE s.time - seen <= 55 \/ (i < job /\ s.time - seen <= 65)
  <2>1. s \in checked
    BY <1>1, <1>2 DEF MeetInv
  <2>2. QED
    BY <2>1
<1>3. CASE ~(s.time - seen <= 55) /\ i = job /\ s.time - seen <= 65
  <2>1. s = slot
    BY <1>3 DEF slot
  <2>2. s.time \in Nat /\ s.time > seen
    BY <1>1, SlotAfter
  <2>3. InWindow
    BY <1>1, <1>3, <2>1, <2>2 DEF InWindow, timeTo
  <2>4. slot \in discovered => slot \in checked
    BY <2>1, <2>2 DEF MeetInv
  <2>5. QED
    BY <2>1, <2>3, <2>4
<1>4. QED
  BY <1>1, <1>2, <1>3

LEMMA MeetInvStep ==
  ASSUME NEW b, RoundsFit(b), MeetInv(b), [RolloverNext]_rolloverVars
  PROVE  MeetInv(b)'
<1> DEFINE Open == \E y \in Int : b * y - seen \in 56..65
<1>0. /\ RollInv /\ RollInv' /\ overran \in BOOLEAN /\ LastJob \in Nat
      /\ seen \in Nat /\ clock \in Nat /\ job \in 0..LastJob + 1 /\ seen <= clock
      /\ (trap => job \in 1..LastJob /\ InWindow /\ slot \in checked)
      /\ \A s \in discovered : s.time \in Nat /\ (s.time > seen => s \in checked)
  BY RollInvStep, LastJobNat DEF MeetInv, RollInv
<1>a. ASSUME job \in 1..LastJob PROVE slot.time \in Nat /\ (InWindow => Open)
  <2>1. PICK y \in Nat : slot.time = b * y /\ slot.time \in Nat
    BY <1>0, <1>a, SlotAfter DEF slot
  <2>2. InWindow => timeTo \in 56..65
    BY <1>0, <1>a, SlotTimes
  <2>3. InWindow => b * y - seen \in 56..65
    BY <2>1, <2>2 DEF timeTo
  <2>4. QED
    BY <2>1, <2>3
<1>1. CASE RoundStart
  <2>1. /\ job = 0 /\ job' = 1 /\ seen' = clock
        /\ UNCHANGED <<clock, trap, discovered, decided, checked, overran>>
    BY <1>1 DEF RoundStart
  <2>2. ~trap
    BY <1>0, <2>1
  <2>3. \A s \in discovered' : s.time \in Nat /\ (s.time > seen' => s \in checked')
    BY <1>0, <2>1
  <2>4. ASSUME ~overran', NEW i \in 1..LastJob,
               LET s == NextSlot(Job(i), seen')
               IN  (s.time - seen' <= 55 \/ (i < job' /\ s.time - seen' <= 65)) /\ StartedBefore(s)
        PROVE  NextSlot(Job(i), seen') \in checked'
    <3>1. ~(i < job')
      BY <2>1
    <3>2. EveryWindowMet
      BY <2>1 DEF MeetInv
    <3>3. QED
      BY <2>1, <2>4, <3>1, <3>2 DEF EveryWindowMet, StartedBefore
  <2>5. QED
    BY <1>0, <2>1, <2>2, <2>3, <2>4 DEF MeetInv
<1>2. CASE Skip
  <2>1. /\ job \in 1..LastJob /\ ~trap /\ ~Due /\ NextJob
        /\ UNCHANGED <<clock, seen, trap, discovered, decided, checked, overran>>
    BY <1>2 DEF Skip
  <2>2. job' = job + 1 /\ job # 0 /\ job' # 0
    BY <1>0, <2>1, NextJobIs
  <2>3. InWindow => slot \in discovered
    BY <2>1, <2>2 DEF Due
  <2>4. ~overran' => \A i \in 1..LastJob :
           LET s == NextSlot(Job(i), seen')
           IN  (s.time - seen' <= 55 \/ (i < job' /\ s.time - seen' <= 65)) /\ StartedBefore(s)
               => s \in checked'
    BY <2>1, <2>2, <2>3, JobDone
  <2>5. clock' = seen' \/ \E y \in Int : b * y - seen' \in 56..65
    BY <2>1, <2>2 DEF MeetInv
  <2>6. QED
    BY <1>0, <2>1, <2>2, <2>4, <2>5 DEF MeetInv
<1>3. CASE Check
  <2>1. /\ job \in 1..LastJob /\ InWindow /\ ~trap /\ UNCHANGED <<seen, overran>>
        /\ checked' = checked \cup {slot}
    BY <1>3 DEF Check, Due
  <2>2. \/ NextJob /\ trap' = trap /\ discovered' \subseteq discovered \cup {slot}
        \/ trap' = TRUE /\ UNCHANGED <<job, discovered>>
    BY <1>3 DEF Check, Decide
  <2>3. Open
    BY <1>a, <2>1
  <2>4. \A s \in discovered' : s.time \in Nat /\ (s.time > seen' => s \in checked')
    BY <1>0, <1>a, <2>1, <2>2
  <2>5. CASE NextJob /\ trap' = trap
    <3>1. job' = job + 1 /\ job' # 0
      BY <1>0, <2>1, <2>5, NextJobIs
    <3>2. ~overran' => \A i \in 1..LastJob :
           LET s == NextSlot(Job(i), seen')
           IN  (s.time - seen' <= 55 \/ (i < job' /\ s.time - seen' <= 65)) /\ StartedBefore(s)
               => s \in checked'
      BY <2>1, <3>1, JobDone
    <3>3. QED
      BY <1>0, <2>1, <2>3, <2>4, <2>5, <3>1, <3>2 DEF MeetInv
  <2>6. CASE trap' = TRUE /\ UNCHANGED <<job, discovered>>
    <3>1. job # 0 /\ slot' = slot /\ slot' \in checked'
      BY <1>0, <2>1, <2>6 DEF slot
    <3>2. ~overran' => \A i \in 1..LastJob :
           LET s == NextSlot(Job(i), seen')
           IN  (s.time - seen' <= 55 \/ (i < job' /\ s.time - seen' <= 65)) /\ StartedBefore(s)
               => s \in checked'
      BY <2>1, <2>6, <3>1 DEF MeetInv
    <3>3. QED
      BY <1>0, <2>1, <2>3, <2>4, <2>6, <3>1, <3>2 DEF MeetInv
  <2>7. QED
    BY <2>2, <2>5, <2>6
<1>4. CASE place_trap
  <2>1. /\ trap /\ trap' = FALSE /\ NextJob /\ UNCHANGED <<seen, checked, overran>>
        /\ discovered' \subseteq discovered \cup {slot}
    BY <1>4 DEF place_trap, Decide
  <2>2. job \in 1..LastJob /\ InWindow /\ slot \in checked
    BY <1>0, <2>1
  <2>3. job' = job + 1 /\ job' # 0
    BY <1>0, <2>1, <2>2, NextJobIs
  <2>4. \A s \in discovered' : s.time \in Nat /\ (s.time > seen' => s \in checked')
    BY <1>0, <1>a, <2>1, <2>2
  <2>5. ~overran' => \A i \in 1..LastJob :
           LET s == NextSlot(Job(i), seen')
           IN  (s.time - seen' <= 55 \/ (i < job' /\ s.time - seen' <= 65)) /\ StartedBefore(s)
               => s \in checked'
    BY <2>1, <2>2, <2>3, JobDone
  <2>6. Open
    BY <1>a, <2>2
  <2>7. QED
    BY <1>0, <2>1, <2>3, <2>4, <2>5, <2>6 DEF MeetInv
<1>5. CASE RoundEnd
  <2>1. /\ job = LastJob + 1 /\ job' = 0 /\ UNCHANGED <<seen, trap>>
        /\ discovered' = {s \in discovered : s.time > seen}
        /\ checked' = {s \in checked : s.time > seen}
    BY <1>5 DEF RoundEnd, Ahead
  <2>2. PICK o \in Overrun : clock' = clock + 10 + o /\ overran' = (overran \/ o > 0)
    BY <1>5 DEF RoundEnd
  <2>3. ~trap /\ overran' \in BOOLEAN /\ o \in Nat
    BY <1>0, <2>1, <2>2, RolloverAssumption
  <2>4. \A s \in discovered' : s.time \in Nat /\ (s.time > seen' => s \in checked')
    BY <1>0, <2>1
  <2>5. ASSUME NEW i \in 1..LastJob, ~overran', StartedBefore(NextSlot(Job(i), clock')),
               NextSlot(Job(i), clock').time - clock' <= 55
        PROVE  NextSlot(Job(i), clock') \in checked'
    <3> DEFINE s == NextSlot(Job(i), clock')
               T == s.time
               R == LastJob * PerJob
    <3>1. ~overran /\ clock' = clock + 10 /\ clock' \in Nat
      <4>1. ~overran /\ ~(o > 0)
        BY <2>2, <2>5, Zenon
      <4>2. QED
        BY <1>0, <2>2, <2>3, <4>1
    <3>2. PICK x \in Nat : T = b * x /\ T \in Nat /\ T > clock'
      <4>1. T \in Nat /\ T > clock' /\ \E x \in Nat : T = b * x
        <5> DEFINE c == clock'
        <5>1. c \in Nat
          BY <3>1
        <5> HIDE DEF c
        <5>2. NextSlot(Job(i), c).time \in Nat /\ NextSlot(Job(i), c).time > c
              /\ \E x \in Nat : NextSlot(Job(i), c).time = b * x
          BY <5>1, SlotAfter
        <5>3. QED
          BY <5>2 DEF c
      <4>2. QED
        BY <4>1
    <3>3. \A t \in Nat : t <= clock' /\ T - t <= 65 => NextSlot(Job(i), t) = s
      BY <1>0, <3>1, SlotAfter
    <3>4. T - clock' <= 55
      BY <2>5
    <3>5. R \in Nat /\ R + 10 <= b /\ clock <= seen + R /\ b \in Nat /\ b >= 66
      <4>1. clock <= seen + (job - 1) * PerJob
        BY <1>0, <2>1, <2>3 DEF RollInv
      <4>2. job - 1 = LastJob
        BY <1>0, <2>1
      <4>3. R \in Nat
        BY <1>0, LongestIs
      <4>4. QED
        BY <4>1, <4>2, <4>3 DEF RoundsFit
    <3> HIDE DEF R
    <3>6. T - seen <= 65
      <4>1. CASE clock = seen
        <5> HIDE DEF T
        <5>1. QED
          BY <1>0, <3>1, <3>2, <3>4, <4>1
      <4>2. CASE Open
        <5>1. PICK y \in Int : b * y - seen \in 56..65
          BY <4>2
        <5> DEFINE U == b * y
        <5>2. U \in Int /\ U - seen \in 56..65
          BY <3>5, <5>1
        <5>3. x <= y \/ x >= y + 1
          BY <3>2, <5>1
        <5>4. x <= y => T <= U
          BY <3>2, <3>5, <5>1
        <5>5. x >= y + 1 => T >= U + b
          <6>1. b * (y + 1) = U + b
            BY <3>5, <5>1
          <6>2. x >= y + 1 => b * x >= b * (y + 1)
            BY <3>2, <3>5, <5>1
          <6>3. QED
            BY <3>2, <6>1, <6>2
        <5> HIDE DEF T, U
        <5>6. ~(T >= U + b)
          BY <1>0, <3>1, <3>2, <3>4, <3>5, <5>2
        <5>7. T <= U
          BY <5>3, <5>4, <5>5, <5>6
        <5>8. QED
          BY <1>0, <3>2, <5>2, <5>7
      <4>3. QED
        BY <1>0, <2>1, <4>1, <4>2 DEF MeetInv
    <3>7. NextSlot(Job(i), seen) = s
      BY <1>0, <3>1, <3>3, <3>6
    <3>8. s \in checked
      <4>1. i < job /\ job # 0
        BY <1>0, <2>1
      <4>2. QED
        BY <2>5, <3>1, <3>6, <3>7, <4>1 DEF MeetInv
    <3>9. T > seen
      <4> HIDE DEF T
      <4>1. QED
        BY <1>0, <3>1, <3>2
    <3>10. QED
      BY <2>1, <3>8, <3>9
  <2>6. EveryWindowMet'
    BY <2>1, <2>5 DEF EveryWindowMet, StartedBefore
  <2>7. QED
    BY <1>0, <2>1, <2>3, <2>4, <2>6 DEF MeetInv
<1>6. CASE UNCHANGED rolloverVars
  BY <1>0, <1>6 DEF rolloverVars, MeetInv, EveryWindowMet, slot
<1>7. QED
  BY <1>1, <1>2, <1>3, <1>4, <1>5, <1>6 DEF RolloverNext

(* No window is missed while no pause takes longer than it should, if the  *)
(* periods are multiples of one span that a round with all its sleeps and  *)
(* requests fits into: with five and fifteen minutes and eight jobs, as    *)
(* long as no request takes more than fifteen seconds                      *)
(* (market_rollover.rs:55-132).                                            *)
THEOREM WindowsCorrect ==
  ASSUME NEW b, RoundsFit(b)
  PROVE  RolloverSpec => []EveryWindowMet
<1>1. RolloverInit => MeetInv(b)
  <2> SUFFICES ASSUME RolloverInit PROVE MeetInv(b)
    OBVIOUS
  <2>1. /\ clock \in Start /\ clock \in Nat /\ seen = clock /\ job = 0 /\ ~trap
        /\ overran = FALSE
        /\ discovered \in SUBSET {SlotAt(Job(i), clock) : i \in 1..LastJob}
    BY RolloverAssumption DEF RolloverInit
  <2>2. \A s \in discovered : s.time \in Nat /\ ~(s.time > seen)
    <3> TAKE s \in discovered
    <3>1. PICK i \in 1..LastJob : s = SlotAt(Job(i), clock)
      BY <2>1
    <3>2. PICK p \in Nat \ {0} : Job(i).period = p
      BY JobPeriod
    <3>3. s.time = (clock \div p) * p
      BY <3>1, <3>2 DEF SlotAt
    <3>4. clock \div p \in Nat /\ p * (clock \div p) <= clock
      BY <2>1, <3>2, DivisionBounds
    <3> DEFINE q == clock \div p
    <3> HIDE DEF q
    <3>5. s.time = q * p /\ q \in Nat /\ p * q <= clock
      BY <3>3, <3>4 DEF q
    <3>6. QED
      BY <2>1, <3>2, <3>5
  <2>3. EveryWindowMet
    <3> SUFFICES ASSUME NEW i \in 1..LastJob, NextSlot(Job(i), clock).time - clock <= 55,
                        \A t \in Start : t <= NextSlot(Job(i), clock).time - 65
                 PROVE  FALSE
      BY DEF EveryWindowMet
    <3>1. NextSlot(Job(i), clock).time \in Nat
      BY <2>1, SlotAfter
    <3>2. QED
      BY <2>1, <3>1
  <2>4. RollInv
    BY RollInit
  <2>5. QED
    BY <2>1, <2>2, <2>3, <2>4 DEF MeetInv
<1>2. MeetInv(b) => EveryWindowMet
  BY DEF MeetInv, EveryWindowMet
<1>3. MeetInv(b) /\ [RolloverNext]_rolloverVars => MeetInv(b)'
  BY MeetInvStep
<1>4. QED
  BY <1>1, <1>2, <1>3, PTL DEF RolloverSpec
-----------------------------------------------------------------------------
(* The velocity lockout.                                                   *)

Remembered == [age : 0..HistoryTicks, price : RiskPrice]

(* No entry is older than the one before it.                               *)
Ordered(h) == \A i, j \in 1..Len(h) : i <= j => h[j].age <= h[i].age

(* What was added in the last s ticks repeats the last price.              *)
RepeatsSince(h, s) ==
  \A i \in 1..Len(h) :
     h[i].price # h[Len(h)].price => h[i].age >= s \/ h[i].age = HistoryTicks

LastTwoEqual(h) == Len(h) >= 2 => h[Len(h) - 1].price = h[Len(h)].price
AllEqual(h)     == \A i \in 1..Len(h) : h[i].price = h[Len(h)].price
AgedBy(h, n)    == Len(h) >= 1 => h[Len(h)].age >= n

(* After d detections, n ticks into the lockout: either the last of them   *)
(* still has the history it judged by, or a check has repeated the price.  *)
WearsOff(h, n, d) ==
  /\ d \in 0..2
  /\ d = 1 => LastTwoEqual(h) \/ AgedBy(h, n)
  /\ d = 2 => AllEqual(h) \/ (LastTwoEqual(h) /\ AgedBy(h, n))

HistoryOK(h, s, n, d) ==
  /\ h \in Seq(Remembered) /\ Len(h) \in 0..3
  /\ Ordered(h) /\ RepeatsSince(h, s) /\ WearsOff(h, n, d)

RiskInv ==
  /\ lockout \in 0..LockoutTicks
  /\ price_history \in [RiskMarket -> Seq(Remembered)]
  /\ sinceRecord \in [RiskMarket -> 0..Quiet]
  /\ detections \in [RiskMarket -> Nat]
  /\ \A c \in RiskMarket :
        HistoryOK(price_history[c], sinceRecord[c], lockout, detections[c])
  /\ lockout < LockoutTicks =>
        \E c \in RiskMarket : sinceRecord[c] < HistoryTicks + lockout

LEMMA RememberedFacts ==
  ASSUME NEW e \in Remembered
  PROVE  e.age \in 0..HistoryTicks /\ e.price \in Nat \ {0} /\ HistoryTicks \in Nat \ {0}
  BY RiskAssumption DEF Remembered

(* The end of a history.                                                   *)
LEMMA EndOf ==
  ASSUME NEW S, NEW h \in Seq(S), NEW k \in 1..(Len(h) + 1)
  PROVE  /\ SubSeq(h, k, Len(h)) \in Seq(S)
         /\ Len(SubSeq(h, k, Len(h))) = Len(h) - k + 1
         /\ \A i \in 1..(Len(h) - k + 1) : SubSeq(h, k, Len(h))[i] = h[k + i - 1]
<1>1. \A i \in k..Len(h) : h[i] \in S
  OBVIOUS
<1>2. QED
  BY <1>1

LEMMA KeptIs ==
  ASSUME NEW c \in RiskMarket, price_history[c] \in Seq(Remembered),
         Len(price_history[c]) \in 0..3, Ordered(price_history[c])
  PROVE  \E k \in 1..(Len(price_history[c]) + 1) :
            /\ Kept(c) = SubSeq(price_history[c], k, Len(price_history[c]))
            /\ \A i \in k..Len(price_history[c]) : price_history[c][i].age < HistoryTicks
<1> DEFINE h == price_history[c]
           Cut(k) == /\ \A i \in 1..(k - 1) : h[i].age >= HistoryTicks
                     /\ \A i \in k..Len(h) : h[i].age < HistoryTicks
           first == CHOOSE k \in 1..(Len(h) + 1) : Cut(k)
<1>1. \A i \in 1..Len(h) : h[i].age \in 0..HistoryTicks
  BY RememberedFacts
<1>2. \A i, j \in 1..Len(h) : i <= j => h[j].age <= h[i].age
  BY DEF Ordered
<1>3. HistoryTicks \in Nat /\ Len(h) \in {0, 1, 2, 3}
  BY RiskAssumption
<1>4. \E k \in 1..(Len(h) + 1) : Cut(k)
  <2> HIDE DEF h
  <2>1. CASE \A i \in 1..Len(h) : h[i].age >= HistoryTicks
    <3>1. Cut(Len(h) + 1) /\ Len(h) + 1 \in 1..(Len(h) + 1)
      BY <1>3, <2>1
    <3>2. QED
      BY <3>1
  <2>2. ASSUME NEW m \in 1..Len(h), h[m].age < HistoryTicks,
               \A i \in 1..(m - 1) : h[i].age >= HistoryTicks
        PROVE  Cut(m) /\ m \in 1..(Len(h) + 1)
    BY <1>1, <1>2, <1>3, <2>2
  <2>3. CASE \E i \in 1..Len(h) : h[i].age < HistoryTicks
    <3>1. \E m \in 1..Len(h) : /\ h[m].age < HistoryTicks
                               /\ \A i \in 1..(m - 1) : h[i].age >= HistoryTicks
      <4>1. CASE Len(h) >= 1 /\ h[1].age < HistoryTicks
        BY <1>1, <1>3, <4>1
      <4>2. CASE Len(h) >= 2 /\ h[1].age >= HistoryTicks /\ h[2].age < HistoryTicks
        BY <1>1, <1>3, <4>2
      <4>3. CASE /\ Len(h) >= 3 /\ h[1].age >= HistoryTicks
                 /\ h[2].age >= HistoryTicks /\ h[3].age < HistoryTicks
        BY <1>1, <1>3, <4>3
      <4>4. ~(h[1].age >= HistoryTicks) => h[1].age < HistoryTicks
        BY <1>3, <2>3, <1>1
      <4>5. CASE Len(h) = 1
        BY <1>1, <2>3, <4>1, <4>5
      <4>6. CASE Len(h) = 2
        BY <1>1, <1>3, <2>3, <4>1, <4>2, <4>6
      <4>7. CASE Len(h) = 3
        BY <1>1, <1>3, <2>3, <4>1, <4>2, <4>3, <4>7
      <4>8. QED
        BY <1>3, <2>3, <4>5, <4>6, <4>7
    <3>2. QED
      BY <2>2, <3>1
  <2>4. QED
    BY <1>1, <1>3, <2>1, <2>3
<1>5. first \in 1..(Len(h) + 1) /\ Cut(first)
  BY <1>4
<1>6. Kept(c) = SubSeq(h, first, Len(h))
  BY DEF Kept
<1>7. QED
  BY <1>5, <1>6

(* A history g that is h with the entry e put to it, and the first entry   *)
(* given up when there were three already.                                 *)
Extends(S, h, e, m, g) ==
  /\ g \in Seq(S) /\ Len(g) = Len(h) + 1 - m
  /\ m = 1 <=> Len(h) = 3
  /\ \A i \in 1..(Len(h) - m) : g[i] = h[i + m]
  /\ g[Len(h) + 1 - m] = e

LEMMA LastThree ==
  ASSUME NEW S, NEW h \in Seq(S), Len(h) \in 0..3, NEW e \in S
  PROVE  \E m \in {0, 1} : Extends(S, h, e, m, LastOf(Append(h, e), 3))
<1> DEFINE a == Append(h, e)
           k == IF Len(h) = 3 THEN 2 ELSE 1
<1>1. a \in Seq(S) /\ Len(a) = Len(h) + 1 /\ a[Len(h) + 1] = e
      /\ \A i \in 1..Len(h) : a[i] = h[i]
  OBVIOUS
<1>2. LastOf(a, 3) = SubSeq(a, k, Len(a)) /\ k \in 1..(Len(a) + 1)
  <2> HIDE DEF a
  <2>1. CASE Len(h) = 3
    BY <1>1, <2>1 DEF LastOf
  <2>2. CASE Len(h) # 3
    <3>1. ~(Len(a) > 3) /\ Len(a) \in Nat
      BY <1>1, <2>2
    <3>2. k = 1
      BY <2>2
    <3>3. LastOf(a, 3) = SubSeq(a, 1, Len(a))
      BY <3>1 DEF LastOf
    <3>4. QED
      BY <3>1, <3>2, <3>3
  <2>3. QED
    BY <2>1, <2>2
<1> HIDE DEF a
<1>3. /\ LastOf(a, 3) \in Seq(S) /\ Len(LastOf(a, 3)) = Len(a) - k + 1
      /\ \A i \in 1..(Len(a) - k + 1) : LastOf(a, 3)[i] = a[k + i - 1]
  <2>1. k \in 1..(Len(a) + 1) /\ a \in Seq(S)
    BY <1>1, <1>2
  <2> HIDE DEF k
  <2>2. QED
    BY <1>2, <2>1, EndOf
<1>4. QED
  <2> DEFINE m == k - 1
  <2>1. m \in {0, 1} /\ (m = 1 <=> Len(h) = 3) /\ Len(h) \in Nat
    OBVIOUS
  <2>2. ASSUME NEW i \in 1..(Len(h) - m)
        PROVE  LastOf(a, 3)[i] = h[i + m]
    <3>1. i \in 1..(Len(a) - k + 1) /\ k + i - 1 = i + m /\ i + m \in 1..Len(h)
      BY <1>1, <2>1
    <3>2. QED
      BY <1>1, <1>3, <3>1
  <2>3. LastOf(a, 3)[Len(h) + 1 - m] = e
    BY <1>1, <1>3, <2>1
  <2>4. Len(LastOf(a, 3)) = Len(h) + 1 - m
    BY <1>1, <1>3, <2>1
  <2> HIDE DEF m
  <2>5. Extends(S, h, e, m, LastOf(a, 3))
    BY <1>3, <2>1, <2>2, <2>3, <2>4 DEF Extends
  <2>6. QED
    BY <2>1, <2>5 DEF a

(* A history that has grown older, with the lockout.                       *)
LEMMA Ticked ==
  ASSUME NEW h, NEW s \in 0..Quiet, NEW n \in 0..LockoutTicks, NEW d, HistoryOK(h, s, n, d)
  PROVE  HistoryOK([i \in DOMAIN h |-> [h[i] EXCEPT !.age = Up(@, HistoryTicks)]],
                   Up(s, Quiet), Up(n, LockoutTicks), d)
<1> DEFINE g == [i \in DOMAIN h |-> [h[i] EXCEPT !.age = Up(@, HistoryTicks)]]
           t == Up(s, Quiet)
           m == Up(n, LockoutTicks)
<1>1. h \in Seq(Remembered) /\ Len(h) \in 0..3 /\ DOMAIN h = 1..Len(h)
  BY DEF HistoryOK
<1>2. HistoryTicks \in Nat \ {0} /\ LockoutTicks \in 1..HistoryTicks /\ Quiet \in Nat
  BY RiskAssumption DEF Quiet
<1>3. t \in Nat /\ t <= s + 1 /\ m \in Nat /\ m <= LockoutTicks /\ m <= n + 1
  BY <1>2 DEF Up
<1>4. ASSUME NEW i \in 1..Len(h)
      PROVE  /\ g[i] \in Remembered /\ g[i].price = h[i].price
             /\ h[i].age \in 0..HistoryTicks /\ g[i].age = Up(h[i].age, HistoryTicks)
  <2>1. h[i] \in Remembered
    BY <1>1
  <2>2. h[i].age \in 0..HistoryTicks
    BY <2>1 DEF Remembered
  <2>3. Up(h[i].age, HistoryTicks) \in 0..HistoryTicks
    BY <1>2, <2>2 DEF Up
  <2>4. QED
    BY <1>1, <2>1, <2>2, <2>3 DEF Remembered
<1>5. g \in Seq(Remembered) /\ Len(g) = Len(h)
  <2>1. DOMAIN g = 1..Len(h) /\ Len(h) \in Nat
    BY <1>1
  <2>2. g \in [1..Len(h) -> Remembered]
    <3>1. g = [i \in 1..Len(h) |-> g[i]]
      BY <1>1
    <3> HIDE DEF g
    <3>2. QED
      BY <1>4, <3>1
  <2> HIDE DEF g
  <2>3. QED
    BY <2>1, <2>2
<1> HIDE DEF g, t, m
<1>6. Ordered(g)
  BY <1>1, <1>2, <1>4, <1>5 DEF HistoryOK, Ordered, Up
<1>7. RepeatsSince(g, t)
  <2>1. ASSUME NEW i \in 1..Len(h), g[i].price # g[Len(h)].price
        PROVE  g[i].age >= t \/ g[i].age = HistoryTicks
    <3>1. Len(h) \in 1..Len(h)
      BY <1>1
    <3>2. h[i].age >= s \/ h[i].age = HistoryTicks
      BY <1>4, <2>1, <3>1 DEF HistoryOK, RepeatsSince
    <3>3. QED
      BY <1>2, <1>3, <1>4, <3>2 DEF Up
  <2>2. QED
    BY <1>5, <2>1 DEF RepeatsSince
<1>8. AgedBy(h, n) => AgedBy(g, m)
  BY <1>1, <1>2, <1>3, <1>4, <1>5 DEF AgedBy, Up
<1>9. (LastTwoEqual(h) => LastTwoEqual(g)) /\ (AllEqual(h) => AllEqual(g))
  BY <1>1, <1>4, <1>5 DEF LastTwoEqual, AllEqual
<1>10. QED
  BY <1>1, <1>5, <1>6, <1>7, <1>8, <1>9 DEF HistoryOK, WearsOff, g, t, m

(* An entry of now put to a history.                                       *)
LEMMA ExtendsOK ==
  ASSUME NEW h \in Seq(Remembered), Len(h) \in 0..3, Ordered(h), NEW e \in Remembered,
         e.age = 0, NEW m \in {0, 1}, NEW g, Extends(Remembered, h, e, m, g)
  PROVE  /\ g \in Seq(Remembered) /\ Len(g) \in 1..3 /\ Ordered(g)
         /\ g[Len(g)] = e
         /\ \A i \in 1..(Len(g) - 1) : i + m \in 1..Len(h) /\ g[i] = h[i + m]
<1>1. /\ g \in Seq(Remembered) /\ Len(g) = Len(h) + 1 - m
      /\ m = 1 <=> Len(h) = 3
      /\ \A i \in 1..(Len(h) - m) : g[i] = h[i + m]
      /\ g[Len(h) + 1 - m] = e
  BY DEF Extends
<1>2. Len(g) \in 1..3
  <2>1. CASE m = 1
    BY <1>1, <2>1
  <2>2. CASE m = 0
    BY <1>1, <2>2
  <2>3. QED
    BY <2>1, <2>2
<1>3. \A i \in 1..Len(g) : g[i].age \in 0..HistoryTicks
  BY <1>1, RememberedFacts
<1>4. \A i \in 1..(Len(g) - 1) : i + m \in 1..Len(h) /\ g[i] = h[i + m]
  BY <1>1
<1>5. ASSUME NEW i \in 1..Len(g), NEW j \in 1..Len(g), i <= j
      PROVE  g[j].age <= g[i].age
  <2>1. CASE j = Len(g)
    BY <1>1, <1>3, <2>1, RememberedFacts
  <2>2. CASE j # Len(g)
    <3>1. i \in 1..(Len(g) - 1) /\ j \in 1..(Len(g) - 1)
      BY <1>2, <1>5, <2>2
    <3>2. i + m \in 1..Len(h) /\ j + m \in 1..Len(h) /\ i + m <= j + m
      BY <1>4, <1>5, <3>1
    <3>3. h[j + m].age <= h[i + m].age
      BY <3>2 DEF Ordered
    <3>4. QED
      BY <1>4, <3>1, <3>3
  <2>3. QED
    BY <2>1, <2>2
<1>6. QED
  BY <1>1, <1>2, <1>4, <1>5 DEF Ordered

(* A price recorded.                                                       *)
LEMMA Recorded ==
  ASSUME NEW h, NEW s, NEW n, NEW d, HistoryOK(h, s, n, d), NEW p \in RiskPrice
  PROVE  HistoryOK(LastOf(Append(h, [age |-> 0, price |-> p]), 3), 0, n, 0)
<1> DEFINE e == [age |-> 0, price |-> p]
           g == LastOf(Append(h, e), 3)
<1>1. h \in Seq(Remembered) /\ Len(h) \in 0..3 /\ Ordered(h)
  BY DEF HistoryOK
<1>2. e \in Remembered /\ e.age = 0
  BY RiskAssumption DEF Remembered
<1> HIDE DEF e
<1>3. PICK m \in {0, 1} : Extends(Remembered, h, e, m, g)
  BY <1>1, <1>2, LastThree
<1> HIDE DEF g
<1>4. g \in Seq(Remembered) /\ Len(g) \in 1..3 /\ Ordered(g)
  BY <1>1, <1>2, <1>3, ExtendsOK
<1>5. RepeatsSince(g, 0)
  BY <1>4, RememberedFacts DEF RepeatsSince
<1>6. WearsOff(g, n, 0)
  BY DEF WearsOff
<1>7. QED
  BY <1>4, <1>5, <1>6 DEF HistoryOK, g, e

(* The last price repeated.                                                *)
LEMMA Repeated ==
  ASSUME NEW h, NEW s, NEW n, NEW d, HistoryOK(h, s, n, d), h # <<>>
  PROVE  HistoryOK(LastOf(Append(h, [Last(h) EXCEPT !.age = 0]), 3), s, n, d)
<1> DEFINE e == [Last(h) EXCEPT !.age = 0]
           g == LastOf(Append(h, e), 3)
<1>1. h \in Seq(Remembered) /\ Len(h) \in 0..3 /\ Ordered(h) /\ RepeatsSince(h, s)
      /\ WearsOff(h, n, d)
  BY DEF HistoryOK
<1>2. Len(h) \in 1..3 /\ h[Len(h)] \in Remembered /\ Last(h) = h[Len(h)]
  BY <1>1 DEF Last
<1>3. e \in Remembered /\ e.age = 0 /\ e.price = h[Len(h)].price
  BY <1>2, RiskAssumption DEF Remembered
<1> HIDE DEF e
<1>4. PICK m \in {0, 1} : Extends(Remembered, h, e, m, g)
  BY <1>1, <1>3, LastThree
<1> HIDE DEF g
<1>5. /\ g \in Seq(Remembered) /\ Len(g) \in 1..3 /\ Ordered(g)
      /\ g[Len(g)] = e
      /\ \A i \in 1..(Len(g) - 1) : i + m \in 1..Len(h) /\ g[i] = h[i + m]
  BY <1>1, <1>3, <1>4, ExtendsOK
<1>6. Len(g) = Len(h) + 1 - m /\ (m = 1 <=> Len(h) = 3)
  BY <1>4 DEF Extends
<1>7. ASSUME NEW i \in 1..Len(g)
      PROVE  \/ g[i].price = g[Len(g)].price
             \/ /\ i \in 1..(Len(g) - 1) /\ i + m \in 1..Len(h) /\ g[i] = h[i + m]
                /\ h[i + m].price # h[Len(h)].price
  BY <1>3, <1>5
<1>8. RepeatsSince(g, s)
  <2>1. ASSUME NEW i \in 1..Len(g), g[i].price # g[Len(g)].price
        PROVE  g[i].age >= s \/ g[i].age = HistoryTicks
    <3>1. i + m \in 1..Len(h) /\ g[i] = h[i + m] /\ h[i + m].price # h[Len(h)].price
      BY <1>7, <2>1
    <3>2. QED
      BY <1>1, <3>1 DEF RepeatsSince
  <2>2. QED
    BY <2>1 DEF RepeatsSince
<1>9. LastTwoEqual(g)
  <2>1. ASSUME Len(g) >= 2
        PROVE  g[Len(g) - 1].price = g[Len(g)].price
    <3>1. Len(g) - 1 \in 1..(Len(g) - 1) /\ Len(g) - 1 + m = Len(h)
      BY <1>1, <1>5, <1>6, <2>1
    <3>2. g[Len(g) - 1] = h[Len(h)]
      BY <1>5, <3>1
    <3>3. QED
      BY <1>3, <1>5, <3>2
  <2>2. QED
    BY <2>1 DEF LastTwoEqual
<1>10. LastTwoEqual(h) \/ AllEqual(h) => AllEqual(g)
  <2>1. ASSUME LastTwoEqual(h) \/ AllEqual(h), NEW i \in 1..Len(g),
               g[i].price # g[Len(g)].price
        PROVE  FALSE
    <3>1. /\ i \in 1..(Len(g) - 1) /\ i + m \in 1..Len(h)
          /\ h[i + m].price # h[Len(h)].price
      BY <1>7, <2>1
    <3>2. LastTwoEqual(h)
      BY <2>1, <3>1 DEF AllEqual
    <3>3. i + m = Len(h) \/ (i + m = Len(h) - 1 /\ Len(h) >= 2)
      <4>1. CASE m = 1
        BY <1>6, <3>1, <4>1
      <4>2. CASE m = 0
        <5>1. Len(h) \in 1..2
          BY <1>2, <1>6, <4>2
        <5>2. QED
          BY <3>1, <4>2, <5>1
      <4>3. QED
        BY <4>1, <4>2
    <3>4. QED
      BY <3>1, <3>2, <3>3 DEF LastTwoEqual
  <2>2. QED
    BY <2>1 DEF AllEqual
<1>11. WearsOff(g, n, d)
  BY <1>1, <1>9, <1>10 DEF WearsOff
<1>12. QED
  BY <1>5, <1>8, <1>11 DEF HistoryOK, g, e

LEMMA EmptyHistoryOK ==
  ASSUME NEW s, NEW n, NEW d \in 0..2
  PROVE  HistoryOK(<<>>, s, n, d)
  BY DEF HistoryOK, Ordered, RepeatsSince, WearsOff, LastTwoEqual, AllEqual, AgedBy

(* A move detected: a price was recorded within the minute, and a second   *)
(* one without new prices is the last.                                     *)
LEMMA Detected ==
  ASSUME NEW h, NEW s \in 0..Quiet, NEW d, HistoryOK(h, s, LockoutTicks, d),
         \A i \in 1..Len(h) : h[i].age \in 0..(HistoryTicks - 1), RapidMove(h)
  PROVE  HistoryOK(h, s, 0, d + 1) /\ s < HistoryTicks
<1>1. /\ h \in Seq(Remembered) /\ Len(h) \in 0..3 /\ Ordered(h) /\ RepeatsSince(h, s)
      /\ WearsOff(h, LockoutTicks, d)
  BY DEF HistoryOK
<1>2. Len(h) = 3 /\ Last(h) = h[3] /\ h[1] \in Remembered /\ h[3] \in Remembered
  BY <1>1 DEF RapidMove, Last
<1>3. /\ h[1].price \in Nat /\ h[3].price \in Nat
      /\ h[1].age \in 0..(HistoryTicks - 1) /\ h[3].age \in 0..(HistoryTicks - 1)
  BY <1>2, RememberedFacts
<1>4. h[1].price # h[3].price
  <2>1. Magnitude100(h[1].price - h[3].price) > 5 * h[3].price
    BY <1>2 DEF RapidMove
  <2>2. QED
    BY <1>3, <2>1 DEF Magnitude100
<1>5. h[3].age < LockoutTicks
  BY <1>2 DEF RapidMove
<1>6. LockoutTicks \in Nat /\ HistoryTicks \in Nat /\ Quiet \in Nat
  BY RiskAssumption DEF Quiet
<1>7. s < HistoryTicks
  BY <1>1, <1>2, <1>3, <1>4, <1>6 DEF RepeatsSince
<1>8. ~AgedBy(h, LockoutTicks) /\ ~AllEqual(h) /\ AgedBy(h, 0)
  BY <1>2, <1>3, <1>4, <1>5, <1>6 DEF AgedBy, AllEqual
<1>9. WearsOff(h, 0, d + 1)
  BY <1>1, <1>8 DEF WearsOff
<1>10. QED
  BY <1>1, <1>7, <1>9 DEF HistoryOK

(* The young end of a history, as a check finds it.                        *)
YoungEnd(h, kept) ==
  \E k \in 1..(Len(h) + 1) : /\ kept = SubSeq(h, k, Len(h))
                             /\ \A i \in k..Len(h) : h[i].age < HistoryTicks

LEMMA YoungEndOK ==
  ASSUME NEW h, NEW s, NEW n, NEW d, HistoryOK(h, s, n, d), NEW kept, YoungEnd(h, kept)
  PROVE  /\ HistoryOK(kept, s, n, d)
         /\ \A i \in 1..Len(kept) : kept[i].age \in 0..(HistoryTicks - 1)
<1>1. h \in Seq(Remembered) /\ Len(h) \in 0..3 /\ HistoryTicks \in Nat
  BY RiskAssumption DEF HistoryOK
<1>2. PICK k \in 1..(Len(h) + 1) : /\ kept = SubSeq(h, k, Len(h))
                                   /\ \A i \in k..Len(h) : h[i].age < HistoryTicks
  BY DEF YoungEnd
<1>3. /\ kept \in Seq(Remembered) /\ Len(kept) = Len(h) - k + 1
      /\ \A i \in 1..(Len(h) - k + 1) : kept[i] = h[k + i - 1]
  BY <1>1, <1>2, EndOf
<1>4. Len(kept) \in 0..3 /\ Len(kept) <= Len(h)
  BY <1>1, <1>3
<1>5. ASSUME NEW i \in 1..Len(kept)
      PROVE  /\ k + i - 1 \in 1..Len(h) /\ k + i - 1 \in k..Len(h)
             /\ kept[i] = h[k + i - 1]
             /\ kept[i].age \in 0..(HistoryTicks - 1)
  <2>1. k + i - 1 \in 1..Len(h) /\ k + i - 1 \in k..Len(h) /\ kept[i] = h[k + i - 1]
    BY <1>1, <1>3
  <2>2. kept[i].age \in 0..HistoryTicks
    BY <1>3, RememberedFacts
  <2>3. QED
    BY <1>1, <1>2, <2>1, <2>2
<1>6. Len(kept) >= 1 => kept[Len(kept)] = h[Len(h)]
  BY <1>1, <1>3
<1>7. Len(kept) >= 2 => kept[Len(kept) - 1] = h[Len(h) - 1]
  BY <1>1, <1>3
<1>8. Ordered(kept)
  <2>1. ASSUME NEW i \in 1..Len(kept), NEW j \in 1..Len(kept), i <= j
        PROVE  kept[j].age <= kept[i].age
    <3>1. k + i - 1 <= k + j - 1
      BY <2>1
    <3>2. QED
      BY <1>5, <3>1 DEF HistoryOK, Ordered
  <2>2. QED
    BY <2>1 DEF Ordered
<1>9. RepeatsSince(kept, s)
  <2>1. ASSUME NEW i \in 1..Len(kept), kept[i].price # kept[Len(kept)].price
        PROVE  kept[i].age >= s \/ kept[i].age = HistoryTicks
    <3>1. Len(kept) >= 1
      BY <1>4
    <3>2. h[k + i - 1].price # h[Len(h)].price
      BY <1>5, <1>6, <2>1, <3>1
    <3>3. QED
      BY <1>5, <3>2 DEF HistoryOK, RepeatsSince
  <2>2. QED
    BY <2>1 DEF RepeatsSince
<1>10. AgedBy(h, n) => AgedBy(kept, n)
  BY <1>4, <1>1, <1>6 DEF AgedBy
<1>11. LastTwoEqual(h) => LastTwoEqual(kept)
  BY <1>1, <1>4, <1>6, <1>7 DEF LastTwoEqual
<1>12. AllEqual(h) => AllEqual(kept)
  <2>1. ASSUME AllEqual(h), NEW i \in 1..Len(kept)
        PROVE  kept[i].price = kept[Len(kept)].price
    <3>1. Len(kept) >= 1
      BY <1>4
    <3>2. QED
      BY <1>5, <1>6, <2>1, <3>1 DEF AllEqual
  <2>2. QED
    BY <2>1 DEF AllEqual
<1>13. WearsOff(kept, n, d)
  BY <1>10, <1>11, <1>12 DEF HistoryOK, WearsOff
<1>14. QED
  BY <1>3, <1>4, <1>5, <1>8, <1>9, <1>13 DEF HistoryOK

(* A new lockout asks nothing of the histories.                            *)
LEMMA LockoutBegins ==
  ASSUME NEW h, NEW s, NEW n, NEW d, HistoryOK(h, s, n, d)
  PROVE  HistoryOK(h, s, 0, d)
<1>1. h \in Seq(Remembered) /\ Len(h) \in 0..3 /\ WearsOff(h, n, d)
  BY DEF HistoryOK
<1>2. AgedBy(h, 0)
  <2>1. CASE Len(h) >= 1
    <3>1. h[Len(h)].age \in 0..HistoryTicks
      BY <1>1, <2>1, RememberedFacts
    <3>2. QED
      BY <3>1, RiskAssumption DEF AgedBy
  <2>2. QED
    BY <2>1 DEF AgedBy
<1>3. WearsOff(h, 0, d)
  BY <1>1, <1>2 DEF WearsOff
<1>4. QED
  BY <1>3 DEF HistoryOK

LEMMA RiskInvStep == RiskInv /\ [RiskNext]_riskVars => RiskInv'
<1> SUFFICES ASSUME RiskInv, [RiskNext]_riskVars
             PROVE  RiskInv'
  OBVIOUS
<1>0. /\ lockout \in 0..LockoutTicks
      /\ price_history \in [RiskMarket -> Seq(Remembered)]
      /\ sinceRecord \in [RiskMarket -> 0..Quiet]
      /\ detections \in [RiskMarket -> Nat]
      /\ \A c \in RiskMarket :
            HistoryOK(price_history[c], sinceRecord[c], lockout, detections[c])
      /\ lockout < LockoutTicks =>
            \E c \in RiskMarket : sinceRecord[c] < HistoryTicks + lockout
  BY DEF RiskInv
<1>00. HistoryTicks \in Nat \ {0} /\ LockoutTicks \in 1..HistoryTicks /\ Quiet \in Nat
       /\ Quiet = HistoryTicks + LockoutTicks
  BY RiskAssumption DEF Quiet
<1>1. ASSUME NEW c \in RiskMarket, NEW p \in RiskPrice, record_price(c, p)
      PROVE  RiskInv'
  <2> DEFINE g == LastOf(Append(price_history[c], [age |-> 0, price |-> p]), 3)
  <2>1. /\ price_history' = [price_history EXCEPT ![c] = g]
        /\ sinceRecord' = [sinceRecord EXCEPT ![c] = 0]
        /\ detections' = [detections EXCEPT ![c] = 0]
        /\ lockout' = lockout
    BY <1>1 DEF record_price
  <2>2. HistoryOK(g, 0, lockout, 0)
    BY <1>0, Recorded
  <2> HIDE DEF g
  <2>3. g \in Seq(Remembered)
    BY <2>2 DEF HistoryOK
  <2>4. ASSUME NEW k \in RiskMarket
        PROVE  HistoryOK(price_history'[k], sinceRecord'[k], lockout', detections'[k])
    BY <1>0, <2>1, <2>2
  <2>5. sinceRecord'[c] < HistoryTicks + lockout'
    BY <1>0, <1>00, <2>1
  <2>6. /\ price_history' \in [RiskMarket -> Seq(Remembered)]
        /\ sinceRecord' \in [RiskMarket -> 0..Quiet]
        /\ detections' \in [RiskMarket -> Nat]
    BY <1>0, <1>00, <2>1, <2>3
  <2>7. QED
    BY <1>0, <2>1, <2>4, <2>5, <2>6 DEF RiskInv
<1>2. ASSUME UNCHANGED <<price_history, lockout, sinceRecord, detections>>
      PROVE  RiskInv'
  BY <1>0, <1>2 DEF RiskInv
<1>3. ASSUME NEW c \in RiskMarket, check_risk(c)
      PROVE  RiskInv'
  <2>1. sinceRecord' = sinceRecord
    BY <1>3 DEF check_risk
  <2>2. CASE lockout < LockoutTicks
    BY <1>2, <1>3, <2>1, <2>2 DEF check_risk
  <2>3. ASSUME ~(lockout < LockoutTicks)
        PROVE  RiskInv'
    <3> DEFINE h    == price_history[c]
               kept == Kept(c)
    <3>1. lockout = LockoutTicks
      BY <1>0, <1>00, <2>3
    <3>2. YoungEnd(h, kept)
      <4>1. h \in Seq(Remembered) /\ Len(h) \in 0..3 /\ Ordered(h)
        BY <1>0 DEF HistoryOK
      <4>2. QED
        BY <4>1, KeptIs DEF YoungEnd
    <3>3. /\ HistoryOK(kept, sinceRecord[c], LockoutTicks, detections[c])
          /\ \A i \in 1..Len(kept) : kept[i].age \in 0..(HistoryTicks - 1)
      BY <1>0, <3>1, <3>2, YoungEndOK
    <3>4. kept \in Seq(Remembered) /\ sinceRecord[c] \in 0..Quiet
          /\ detections[c] \in 0..2
      BY <1>0, <3>3 DEF HistoryOK, WearsOff
    <3> HIDE DEF kept
    <3>5. CASE RapidMove(kept)
      <4>1. /\ price_history' = [price_history EXCEPT ![c] = kept]
            /\ lockout' = 0
            /\ detections' = [detections EXCEPT ![c] = @ + 1]
        BY <1>3, <2>3, <3>5 DEF check_risk, kept
      <4>2. /\ HistoryOK(kept, sinceRecord[c], 0, detections[c] + 1)
            /\ sinceRecord[c] < HistoryTicks
        BY <3>3, <3>4, <3>5, Detected
      <4>3. ASSUME NEW k \in RiskMarket
            PROVE  HistoryOK(price_history'[k], sinceRecord'[k], lockout', detections'[k])
        <5>1. CASE k = c
          BY <1>0, <2>1, <4>1, <4>2, <5>1
        <5>2. CASE k # c
          <6>1. HistoryOK(price_history[k], sinceRecord[k], 0, detections[k])
            BY <1>0, LockoutBegins
          <6>2. QED
            BY <1>0, <2>1, <4>1, <5>2, <6>1
        <5>3. QED
          BY <5>1, <5>2
      <4>4. sinceRecord'[c] < HistoryTicks + lockout'
        BY <1>0, <1>00, <2>1, <4>1, <4>2
      <4>5. /\ price_history' \in [RiskMarket -> Seq(Remembered)]
            /\ detections' \in [RiskMarket -> Nat]
            /\ lockout' \in 0..LockoutTicks
        BY <1>0, <1>00, <3>4, <4>1
      <4>6. QED
        BY <1>0, <2>1, <4>3, <4>4, <4>5 DEF RiskInv
    <3>6. CASE ~RapidMove(kept)
      <4> DEFINE g == IF kept = <<>> THEN <<>>
                      ELSE LastOf(Append(kept, [Last(kept) EXCEPT !.age = 0]), 3)
      <4>1. /\ price_history' = [price_history EXCEPT ![c] = g]
            /\ lockout' = lockout /\ detections' = detections
        BY <1>3, <2>3, <3>6 DEF check_risk, kept
      <4>2. HistoryOK(g, sinceRecord[c], LockoutTicks, detections[c])
        <5>1. CASE kept = <<>>
          BY <3>4, <5>1, EmptyHistoryOK
        <5>2. CASE kept # <<>>
          BY <3>3, <5>2, Repeated
        <5>3. QED
          BY <5>1, <5>2
      <4> HIDE DEF g
      <4>3. g \in Seq(Remembered)
        BY <4>2 DEF HistoryOK
      <4>4. ASSUME NEW k \in RiskMarket
            PROVE  HistoryOK(price_history'[k], sinceRecord'[k], lockout', detections'[k])
        BY <1>0, <2>1, <3>1, <4>1, <4>2
      <4>5. price_history' \in [RiskMarket -> Seq(Remembered)]
        BY <1>0, <4>1, <4>3
      <4>6. QED
        BY <1>0, <2>1, <4>1, <4>4, <4>5 DEF RiskInv
    <3>7. QED
      BY <3>5, <3>6
  <2>4. QED
    BY <2>2, <2>3
<1>4. CASE RiskTick
  <2> DEFINE Grown(h) == [i \in DOMAIN h |-> [h[i] EXCEPT !.age = Up(@, HistoryTicks)]]
  <2>1. /\ price_history' = [c \in RiskMarket |-> Grown(price_history[c])]
        /\ lockout' = Up(lockout, LockoutTicks)
        /\ sinceRecord' = [c \in RiskMarket |-> Up(sinceRecord[c], Quiet)]
        /\ detections' = detections
    BY <1>4 DEF RiskTick
  <2>2. ASSUME NEW c \in RiskMarket
        PROVE  HistoryOK(Grown(price_history[c]), Up(sinceRecord[c], Quiet),
                         Up(lockout, LockoutTicks), detections[c])
    <3>1. sinceRecord[c] \in 0..Quiet
      BY <1>0
    <3>2. QED
      BY <1>0, <3>1, Ticked
  <2> HIDE DEF Grown
  <2>3. ASSUME NEW c \in RiskMarket
        PROVE  Grown(price_history[c]) \in Seq(Remembered)
    BY <2>2 DEF HistoryOK
  <2>4. lockout' \in 0..LockoutTicks
    BY <1>0, <1>00, <2>1 DEF Up
  <2>5. ASSUME NEW c \in RiskMarket
        PROVE  Up(sinceRecord[c], Quiet) \in 0..Quiet
    <3>1. sinceRecord[c] \in 0..Quiet
      BY <1>0
    <3>2. QED
      BY <1>00, <3>1 DEF Up
  <2>6. /\ price_history' \in [RiskMarket -> Seq(Remembered)]
        /\ sinceRecord' \in [RiskMarket -> 0..Quiet]
    BY <2>1, <2>3, <2>5
  <2>7. ASSUME lockout' < LockoutTicks
        PROVE  \E c \in RiskMarket : sinceRecord'[c] < HistoryTicks + lockout'
    <3>1. lockout < LockoutTicks /\ lockout' = lockout + 1
      BY <1>0, <1>00, <2>1, <2>7 DEF Up
    <3>2. PICK c \in RiskMarket : sinceRecord[c] < HistoryTicks + lockout
      BY <1>0, <3>1
    <3>3. sinceRecord[c] \in 0..Quiet /\ sinceRecord'[c] = Up(sinceRecord[c], Quiet)
      BY <1>0, <2>1
    <3>4. sinceRecord'[c] < HistoryTicks + lockout'
      BY <1>0, <1>00, <3>1, <3>2, <3>3 DEF Up
    <3>5. QED
      BY <3>4
  <2>8. ASSUME NEW c \in RiskMarket
        PROVE  HistoryOK(price_history'[c], sinceRecord'[c], lockout', detections'[c])
    BY <2>1, <2>2
  <2>9. QED
    BY <1>0, <2>1, <2>4, <2>6, <2>7, <2>8 DEF RiskInv
<1>5. CASE UNCHANGED riskVars
  BY <1>2, <1>5 DEF riskVars
<1>6. ASSUME Other
      PROVE  RiskInv'
  BY <1>2, <1>6 DEF Other
<1>7. QED
  BY <1>1, <1>3, <1>4, <1>5, <1>6
  DEF RiskNext, record_range, record_inventory, record_loss, reset_daily_loss

LEMMA RiskStart == RiskInit => RiskInv
<1> SUFFICES ASSUME RiskInit
             PROVE  RiskInv
  OBVIOUS
<1>1. HistoryTicks \in Nat \ {0} /\ LockoutTicks \in 1..HistoryTicks /\ Quiet \in Nat
  BY RiskAssumption DEF Quiet
<1>2. /\ lockout = LockoutTicks
      /\ price_history = [c \in RiskMarket |-> <<>>]
      /\ sinceRecord = [c \in RiskMarket |-> Quiet]
      /\ detections = [c \in RiskMarket |-> 0]
  BY DEF RiskInit
<1>3. ASSUME NEW c \in RiskMarket
      PROVE  HistoryOK(price_history[c], sinceRecord[c], lockout, detections[c])
  <2>1. 0 \in 0..2
    OBVIOUS
  <2>2. QED
    BY <1>2, <2>1, EmptyHistoryOK
<1>4. QED
  BY <1>1, <1>2, <1>3 DEF RiskInv

(* A lockout is over a minute and its own length after the last price, and *)
(* one recorded price is behind two of them at the most, for any number of *)
(* markets, every price and every length of the history and the lockout    *)
(* (hot_switchover.rs:180-225).                                            *)
THEOREM LockoutCorrect == RiskSpec => []LockoutsSubside
<1>1. RiskInv => LockoutsSubside
  <2> SUFFICES ASSUME RiskInv
               PROVE  LockoutsSubside
    OBVIOUS
  <2>1. ASSUME NEW c \in RiskMarket
        PROVE  detections[c] <= 2
    <3>1. detections[c] \in 0..2
      BY DEF RiskInv, HistoryOK, WearsOff
    <3>2. QED
      BY <3>1
  <2>2. QED
    BY <2>1 DEF RiskInv, LockoutsSubside
<1>2. QED
  BY <1>1, RiskStart, RiskInvStep, PTL DEF RiskSpec
=============================================================================
