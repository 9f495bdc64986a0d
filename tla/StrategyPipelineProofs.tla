----------------------- MODULE StrategyPipelineProofs -----------------------
(***************************************************************************)
(* Proofs about StrategyPipeline, for every set of markets, prices and     *)
(* sizes, every cap, and every bound on the channels and the clock.        *)
(***************************************************************************)
EXTENDS StrategyPipeline, FoldLemmas

-----------------------------------------------------------------------------
(* The sizing is sound for every pair of prices and every depth.           *)

LEMMA OpportunityRange ==
  ASSUME NEW yes \in Int, NEW no \in Int, Opportunity(yes, no)
  PROVE  yes + no \in 920..945
  BY DEF Opportunity, Edge

(* The integer quotients of the sizing, so that no later step divides.     *)
LEMMA Quotients ==
  ASSUME NEW combined \in 920..945, NEW depth \in Nat
  PROVE  /\ (depth * 80) \div 100 \in 0..depth
         /\ 100000 \div combined >= 20
         /\ 100000 \div combined \in Nat
<1>1. (depth * 80) \div 100 \in 0..depth
  OBVIOUS
<1>2. 100000 \div combined \in Nat /\ 100000 \div combined >= 20
  OBVIOUS
<1>3. QED
  BY <1>1, <1>2

(* An order that passed the filters asks for ten to `depth` shares, at     *)
(* most twenty, and is profitable after the fee (main.rs:293-413).         *)
THEOREM SizingSound ==
  ASSUME NEW yes \in Int, NEW no \in Int, NEW depth \in Nat, depth >= 10
  PROVE  OrderSound(yes, no, depth)
<1> SUFFICES ASSUME Opportunity(yes, no)
             PROVE  OrderSound(yes, no, depth)
  BY DEF OrderSound
<1> DEFINE combined == yes + no
           byDepth  == (depth * 80) \div 100
           byCap    == 100000 \div combined
<1>1. combined \in 920..945
  BY OpportunityRange
<1>2. byDepth \in 0..depth /\ byCap \in Nat /\ byCap >= 20
  BY <1>1, Quotients
<1>3. BaseShares(Edge(combined)) = 20
  BY <1>1 DEF BaseShares, Edge
<1>4. Shares(combined, depth) = AtMost(AtLeast(AtMost(20, byDepth), 10), AtLeast(byCap, 10))
  BY <1>3 DEF Shares
<1> HIDE DEF combined, byDepth, byCap
<1>5. Shares(combined, depth) = AtLeast(AtMost(20, byDepth), 10)
  BY <1>2, <1>4 DEF AtMost, AtLeast
<1>6. /\ Shares(combined, depth) \in 10..depth
      /\ \/ Shares(combined, depth) \in {10, 20}
         \/ Shares(combined, depth) < 20 /\ Shares(combined, depth) = byDepth
  BY <1>2, <1>5 DEF AtMost, AtLeast
<1>7. \A n \in 10..depth : 102 * combined * n < 100000 * n
  BY <1>1
<1>8. QED
  BY <1>6, <1>7 DEF OrderSound, combined, byDepth
-----------------------------------------------------------------------------

(* Every action that is not a disjunct of Strategy or the engine's leaves  *)
(* the state of both alone; this lists the disjuncts of Next once.         *)
LEMMA NextCases ==
  ASSUME [Next]_vars
  PROVE  \/ \E s \in Feed!Feed : FeedChanges(s)
         \/ \E s \in Feed!Feed, u \in Update : AcceptUpdate(s, u)
         \/ ClearBook
         \/ ForwardUpdate
         \/ \E ts \in Mappings : MarketRefresh(ts)
         \/ Tick
         \/ StrategyRecv
         \/ StrategyReadBook
         \/ StrategyMark
         \/ StrategySend
         \/ EngineStart
         \/ EngineMark
         \/ EngineFinish
         \/ UNCHANGED vars
  BY DEF Next, Strategy, Engine

LEMMA TrackerTypes ==
  /\ EmptyMarket \in MarketPrices
  /\ \A m \in MarketPrices :
       /\ MarkQueueStart(m) \in MarketPrices
       /\ \A s \in Side, n \in Nat : TrackerUpdate(m, s, n) \in MarketPrices
       /\ \A y, n \in Nat : InitMarket(m, y, n) \in MarketPrices
<1>1. EmptyMarket \in MarketPrices
  BY DEF EmptyMarket, MarketPrices, NoMark
<1>2. ASSUME NEW m \in MarketPrices PROVE MarkQueueStart(m) \in MarketPrices
  BY DEF MarkQueueStart, MarketPrices, NoMark
<1>3. ASSUME NEW m \in MarketPrices, NEW s \in Side, NEW n \in Nat
      PROVE  TrackerUpdate(m, s, n) \in MarketPrices
  BY DEF TrackerUpdate, MarketPrices, NoMark
<1>4. ASSUME NEW m \in MarketPrices, NEW y \in Nat, NEW n \in Nat
      PROVE  InitMarket(m, y, n) \in MarketPrices
  BY DEF InitMarket, MarketPrices, NoMark
<1>5. QED
  BY <1>1, <1>2, <1>3, <1>4
-----------------------------------------------------------------------------
(* While the strategy is past the filters, the prices it passed them with  *)
(* are still the recorded ones, and past the book the depth is at least    *)
(* ten: this is what makes the sizing well defined at the time of sending. *)
MainOK ==
  /\ main.pc # "idle" =>
       Opportunity(prices[main.token[1]]["YES"], prices[main.token[1]]["NO"])
  /\ main.pc \in {"mark", "send"} => main.depth >= 10

(* The signal the strategy would send now.                                 *)
LEMMA OrderType ==
  ASSUME TypeOK, MainOK, main.pc = "send",
         NEW c, c = main.token[1]
  PROVE  LET combined == prices[c]["YES"] + prices[c]["NO"]
             shares   == Shares(combined, main.depth)
         IN  /\ combined * shares \in Nat
             /\ shares \in 10..main.depth
             /\ shares \in Nat
             /\ 102 * (combined * shares) < 100000 * shares
<1> DEFINE yes == prices[c]["YES"]
           no  == prices[c]["NO"]
           shares == Shares(yes + no, main.depth)
<1>1. c \in Condition /\ main.depth \in Nat /\ main.depth >= 10
  BY DEF TypeOK, MainOK, Idle, Token
<1>2. yes \in Int /\ no \in Int
  <2>1. prices[c] \in [Side -> Price \cup {NoPrice}]
    BY <1>1 DEF TypeOK
  <2>2. yes \in Price \cup {NoPrice} /\ no \in Price \cup {NoPrice}
    BY <2>1 DEF Side
  <2>3. Price \cup {NoPrice} \subseteq Int
    BY PipelineAssumption DEF NoPrice
  <2>4. QED
    BY <2>2, <2>3
<1>3. Opportunity(yes, no)
  BY DEF MainOK
<1>4. shares \in 10..main.depth /\ 102 * (yes + no) * shares < 100000 * shares
  BY <1>1, <1>2, <1>3, SizingSound DEF OrderSound
<1>5. yes + no \in 920..945
  BY <1>2, <1>3, OpportunityRange
<1> HIDE DEF yes, no, shares
<1>6. shares \in Nat /\ (yes + no) * shares \in Nat
  BY <1>1, <1>4, <1>5
<1>7. 102 * ((yes + no) * shares) = 102 * (yes + no) * shares
  BY <1>5, <1>6
<1>8. QED
  BY <1>4, <1>6, <1>7 DEF yes, no, shares

(* Every variable keeps its type.                                          *)
THEOREM TypeCorrect == Spec => [](TypeOK /\ MainOK)
<1>1. Init => TypeOK /\ MainOK
  <2> SUFFICES ASSUME Init PROVE TypeOK /\ MainOK
    OBVIOUS
  <2>1. /\ updates \in Seq(Update) /\ Len(updates) <= MaxUpdates
        /\ signals \in Seq(Signal) /\ Len(signals) <= MaxSignals
    BY PipelineAssumption DEF Init
  <2>2. /\ live \subseteq Feed!Feed /\ halted \in BOOLEAN /\ clearing \in BOOLEAN
        /\ book \in [Condition -> Update \cup {NoUpdate}]
    BY DEF Init, Feed!FeedInit, Feed!EmptyBook
  <2>3. main = Idle /\ main.pc = "idle" /\ engine = Free
    BY DEF Init, Idle
  <2>4. MainOK
    BY <2>3 DEF MainOK
  <2>5. QED
    BY <2>1, <2>2, <2>3, <2>4, TrackerTypes, PipelineAssumption DEF Init, TypeOK
<1>2. TypeOK /\ MainOK /\ [Next]_vars => TypeOK' /\ MainOK'
  <2> SUFFICES ASSUME TypeOK, MainOK, [Next]_vars PROVE TypeOK' /\ MainOK'
    OBVIOUS
  <2>1. ASSUME NEW s \in Feed!Feed, FeedChanges(s) PROVE TypeOK' /\ MainOK'
    <3>1. /\ live' \subseteq Feed!Feed /\ halted' \in BOOLEAN /\ clearing' \in BOOLEAN
          /\ book' \in [Condition -> Update \cup {NoUpdate}]
      BY <2>1 DEF TypeOK, FeedChanges, Feed!FeedUp, Feed!FeedDown
    <3>2. staleSince' \in [Condition -> [Side -> BOOLEAN]]
      BY <2>1 DEF TypeOK, FeedChanges
    <3>3. QED
      BY <2>1, <3>1, <3>2 DEF TypeOK, MainOK, FeedChanges, Rest, engineVars
  <2>2. ASSUME NEW s \in Feed!Feed, NEW u \in Update, AcceptUpdate(s, u)
        PROVE  TypeOK' /\ MainOK'
    <3>1. /\ live' = live /\ halted' = halted /\ clearing' = clearing
          /\ book' \in [Condition -> Update \cup {NoUpdate}]
      BY <2>2 DEF TypeOK, AcceptUpdate, Feed!Deliver
    <3>2. QED
      BY <2>2, <3>1 DEF TypeOK, MainOK, AcceptUpdate, Rest, engineVars
  <2>2c. ASSUME ClearBook PROVE TypeOK' /\ MainOK'
    <3>1. book' \in [Condition -> Update \cup {NoUpdate}]
      BY <2>2c DEF ClearBook, Feed!ClearBook, Feed!EmptyBook
    <3>2. QED
      BY <2>2c, <3>1 DEF TypeOK, MainOK, ClearBook, Feed!ClearBook, Rest, engineVars
  <2>3. ASSUME ForwardUpdate PROVE TypeOK' /\ MainOK'
    <3>1. inHand \in Update /\ inHand.cond \in Condition
          /\ inHand.side \in Side /\ inHand.size \in Nat
      BY <2>3, PipelineAssumption DEF ForwardUpdate, TypeOK, Update
    <3>2. tracker' \in [Condition -> MarketPrices]
      BY <2>3, <3>1, TrackerTypes DEF ForwardUpdate, TypeOK
    <3>3. updates' \in Seq(Update) /\ Len(updates') <= MaxUpdates
      BY <2>3, <3>1, PipelineAssumption DEF ForwardUpdate, TypeOK
    <3>4. QED
      BY <2>3, <3>2, <3>3 DEF ForwardUpdate, TypeOK, MainOK, Rest, feedVars, engineVars
  <2>4. ASSUME NEW ts \in Mappings, MarketRefresh(ts) PROVE TypeOK' /\ MainOK'
    BY <2>4, PipelineAssumption
       DEF MarketRefresh, TypeOK, MainOK, dirVars, mainVars, engineVars
  <2>5. ASSUME Tick PROVE TypeOK' /\ MainOK'
    BY <2>5, PipelineAssumption DEF Tick, TypeOK, MainOK, dirVars, mainVars, engineVars
  <2>6. ASSUME StrategyRecv PROVE TypeOK' /\ MainOK'
    <3> DEFINE u == Head(updates)
               p == [prices EXCEPT ![u.cond][u.side] = u.price]
    <3>1. u \in Update /\ updates' \in Seq(Update) /\ Len(updates') <= MaxUpdates
      BY <2>6, PipelineAssumption DEF StrategyRecv, TypeOK
    <3>2. u.cond \in Condition /\ u.side \in Side /\ u.price \in Price
      BY <3>1 DEF Update
    <3>3. p \in [Condition -> [Side -> Price \cup {NoPrice}]]
      BY <3>2 DEF TypeOK
    <3>4. [staleSince EXCEPT ![u.cond][u.side] = FALSE] \in [Condition -> [Side -> BOOLEAN]]
      BY <3>2 DEF TypeOK
    <3> HIDE DEF p
    <3>5. CASE <<u.cond, u.side>> \in tokenSide
      <4>1. /\ prices' = p
            /\ staleSince' = [staleSince EXCEPT ![u.cond][u.side] = FALSE]
            /\ \/ /\ main' = [pc |-> "book", token |-> <<u.cond, u.side>>, depth |-> 0]
                  /\ Opportunity(p[u.cond]["YES"], p[u.cond]["NO"])
               \/ main' = main /\ main.pc = "idle"
        BY <2>6, <3>5 DEF StrategyRecv, p
      <4>2. \/ main' = Idle
            \/ main' \in [pc : {"book", "mark", "send"}, token : Token, depth : Nat]
        BY <3>2, <4>1 DEF TypeOK, Token
      <4>3. MainOK'
        BY <4>1 DEF MainOK
      <4>4. QED
        BY <2>6, <3>1, <3>3, <3>4, <4>1, <4>2, <4>3
           DEF StrategyRecv, TypeOK, feedVars, engineVars
    <3>6. CASE <<u.cond, u.side>> \notin tokenSide
      BY <2>6, <3>1, <3>6 DEF StrategyRecv, TypeOK, MainOK, feedVars, engineVars
    <3>7. QED
      BY <3>5, <3>6
  <2>7. ASSUME StrategyReadBook PROVE TypeOK' /\ MainOK'
    <3>1. /\ main \in [pc : {"book", "mark", "send"}, token : Token, depth : Nat]
          /\ main.token[1] \in Condition
      BY <2>7 DEF StrategyReadBook, TypeOK, Idle, Token
    <3>2. Tradable(main.token[1]) =>
            book[main.token[1]].size \in Nat /\ book[main.token[1]].size >= 10
      BY <3>1, PipelineAssumption DEF TypeOK, Tradable, Update
    <3>3. \/ main' = Idle
          \/ main' \in [pc : {"book", "mark", "send"}, token : Token, depth : Nat]
      BY <2>7, <3>1, <3>2 DEF StrategyReadBook
    <3>4. MainOK'
      BY <2>7, <3>2 DEF StrategyReadBook, TypeOK, MainOK, Idle
    <3>5. QED
      BY <2>7, <3>3, <3>4 DEF StrategyReadBook, TypeOK, dirVars, engineVars
  <2>8. ASSUME StrategyMark PROVE TypeOK' /\ MainOK'
    <3>1. /\ main \in [pc : {"book", "mark", "send"}, token : Token, depth : Nat]
          /\ main.token[1] \in Condition
      BY <2>8 DEF StrategyMark, TypeOK, Idle, Token
    <3>2. tracker' \in [Condition -> MarketPrices]
      BY <2>8, <3>1, TrackerTypes DEF StrategyMark, TypeOK
    <3>3. QED
      BY <2>8, <3>1, <3>2 DEF StrategyMark, TypeOK, MainOK, dirVars, engineVars
  <2>9. ASSUME StrategySend PROVE TypeOK' /\ MainOK'
    <3> DEFINE c       == main.token[1]
               shares  == Shares(prices[c]["YES"] + prices[c]["NO"], main.depth)
               capital == (prices[c]["YES"] + prices[c]["NO"]) * shares
    <3>1. c \in Condition /\ main.token \in Token /\ main.depth \in Nat /\ main.pc = "send"
      BY <2>9 DEF StrategySend, TypeOK, Idle, Token
    <3>2. shares \in Nat /\ capital \in Nat
      BY <3>1, OrderType
    <3> HIDE DEF shares, capital
    <3>3. spent' \in [0..MaxTime -> Nat]
      BY <2>9, <3>2 DEF StrategySend, TypeOK, shares, capital
    <3>4. signals' \in Seq(Signal) /\ Len(signals') <= MaxSignals
      <4>1. CASE OverCap(capital)
        BY <2>9, <4>1 DEF StrategySend, TypeOK, shares, capital
      <4>2. CASE ~OverCap(capital)
        <5>1. PICK sig : /\ Len(signals) < MaxSignals /\ signals' = Append(signals, sig)
                         /\ sig = [cond |-> c,
                              yesToken |-> main.token,
                              noToken |-> IF <<c, "NO">> \in tokenSide
                                          THEN <<c, "NO">> ELSE main.token,
                              size |-> shares, capital |-> capital,
                              depth |-> main.depth,
                              fresh |-> \A s \in Side : ~staleSince[c][s]]
          BY <2>9, <4>2 DEF StrategySend, shares, capital
        <5>2. sig \in Signal
          BY <3>1, <3>2, <5>1 DEF Signal, Token, Side
        <5>3. QED
          BY <5>1, <5>2, PipelineAssumption DEF TypeOK
      <4>3. QED
        BY <4>1, <4>2
    <3>5. QED
      BY <2>9, <3>3, <3>4 DEF StrategySend, TypeOK, MainOK, Idle, dirVars, engineVars
  <2>10. ASSUME EngineStart PROVE TypeOK' /\ MainOK'
    <3> DEFINE sig == Head(signals)
    <3>1. sig \in Signal /\ signals' \in Seq(Signal) /\ Len(signals') <= MaxSignals
      BY <2>10, PipelineAssumption DEF EngineStart, TypeOK
    <3>2. sig.cond \in Condition /\ sig.capital \in Nat /\ sig.depth \in Nat
      BY <3>1 DEF Signal
    <3>3. tracker' \in [Condition -> MarketPrices]
      BY <2>10, <3>2, TrackerTypes DEF EngineStart, TypeOK
    <3>4. activeCapital' \in [Condition -> Nat] /\ totalActive' \in Nat
      <4>1. \/ UNCHANGED <<activeCapital, totalActive>>
            \/ /\ activeCapital' = [activeCapital EXCEPT ![sig.cond] = sig.capital]
               /\ totalActive' = totalActive + sig.capital
        BY <2>10 DEF EngineStart
      <4>2. activeCapital \in [Condition -> Nat] /\ totalActive \in Nat
        BY DEF TypeOK
      <4> HIDE DEF sig
      <4>3. CASE UNCHANGED <<activeCapital, totalActive>>
        BY <4>2, <4>3
      <4>4. CASE /\ activeCapital' = [activeCapital EXCEPT ![sig.cond] = sig.capital]
                 /\ totalActive' = totalActive + sig.capital
        BY <3>2, <4>2, <4>4
      <4>5. QED
        BY <4>1, <4>3, <4>4
    <3>5. engine' \in [pc : {"marking", "trading"}, cond : Condition, capital : Nat]
      BY <2>10, <3>2 DEF EngineStart
    <3>6. QED
      BY <2>10, <3>1, <3>3, <3>4, <3>5 DEF EngineStart, TypeOK, MainOK, dirVars, mainVars
  <2>11. ASSUME EngineFinish PROVE TypeOK' /\ MainOK'
    <3>1. engine.cond \in Condition
      BY <2>11 DEF EngineFinish, TypeOK, Free
    <3>2. activeCapital' \in [Condition -> Nat] /\ totalActive' \in Nat
      BY <2>11, <3>1 DEF EngineFinish, TypeOK, AtLeast
    <3>3. QED
      BY <2>11, <3>2 DEF EngineFinish, TypeOK, MainOK, dirVars, mainVars
  <2>12. ASSUME EngineMark PROVE TypeOK' /\ MainOK'
    <3>1. engine \in [pc : {"marking", "trading"}, cond : Condition, capital : Nat]
          /\ engine.cond \in Condition
      BY <2>12 DEF EngineMark, TypeOK, Free
    <3>2. tracker' \in [Condition -> MarketPrices]
      BY <2>12, <3>1, TrackerTypes DEF EngineMark, TypeOK
    <3>3. QED
      BY <2>12, <3>1, <3>2 DEF EngineMark, TypeOK, MainOK, dirVars, mainVars
  <2>13. ASSUME UNCHANGED vars PROVE TypeOK' /\ MainOK'
    BY <2>13 DEF vars, TypeOK, MainOK, dirVars, mainVars, engineVars
  <2>14. QED
    BY <2>1, <2>2, <2>2c, <2>3, <2>4, <2>5, <2>6, <2>7, <2>8, <2>9, <2>10, <2>11, <2>12,
       <2>13, NextCases
<1>3. QED
  BY <1>1, <1>2, PTL DEF Spec
-----------------------------------------------------------------------------
(* The capital window: nothing is spent in the future, so what is sent now *)
(* only counts in the window that ends now, and that one is checked.       *)
WindowInv ==
  /\ \A t \in 0..MaxTime : t > now => spent[t] = 0
  /\ WindowCap

Window(t)   == {i \in 0..t : t - i < CapitalWindow}
Total(f, t) == SumFunctionOnSet(f, Window(t))

LEMMA WindowFacts ==
  ASSUME spent \in [0..MaxTime -> Nat], NEW t \in 0..MaxTime
  PROVE  /\ IsFiniteSet(Window(t)) /\ Window(t) \subseteq 0..MaxTime
         /\ \A i \in Window(t) : spent[i] \in Nat
         /\ Deployed(t) = Total(spent, t)
<1>1. MaxTime \in Nat
  BY PipelineAssumption
<1>2. Window(t) \subseteq 0..t /\ 0..t \subseteq 0..MaxTime
  BY <1>1 DEF Window
<1>3. IsFiniteSet(Window(t))
  <2>1. IsFiniteSet(0..t)
    BY <1>1, FS_Interval
  <2>2. QED
    BY <1>2, <2>1, FS_Subset
<1>4. QED
  BY <1>2, <1>3 DEF Deployed, Window, Total

LEMMA WindowStep ==
  ASSUME TypeOK, MainOK, TypeOK', WindowInv, [Next]_vars
  PROVE  WindowInv'
<1>1. spent \in [0..MaxTime -> Nat] /\ spent' \in [0..MaxTime -> Nat]
      /\ now \in 0..MaxTime /\ now' \in 0..MaxTime
      /\ MaxTime \in Nat /\ MaxCapitalPerWindow \in Nat /\ CapitalWindow \in Nat
  BY PipelineAssumption DEF TypeOK
<1>2. \A t \in 0..MaxTime :
        /\ IsFiniteSet(Window(t)) /\ Window(t) \subseteq 0..MaxTime
        /\ \A i \in Window(t) : spent[i] \in Nat /\ spent'[i] \in Nat
        /\ Deployed(t) = Total(spent, t)
  BY <1>1, WindowFacts
<1> DEFINE Within(f, n) == \A t \in 0..n : Total(f, t) <= MaxCapitalPerWindow
<1>a. WindowCap <=> Within(spent, now)
  BY <1>1, <1>2 DEF WindowCap
<1>b. WindowCap' <=> Within(spent', now')
  BY <1>1 DEF WindowCap, Deployed, Total, Window
<1>3. CASE UNCHANGED <<spent, now>>
  BY <1>3, <1>1 DEF WindowInv, WindowCap, Deployed
<1>4. CASE StrategySend
  <2> DEFINE c == main.token[1]
             capital == (prices[c]["YES"] + prices[c]["NO"])
                          * Shares(prices[c]["YES"] + prices[c]["NO"], main.depth)
  <2>1. capital \in Nat
    BY <1>4, OrderType DEF StrategySend
  <2>2. now' = now
        /\ \/ spent' = spent
           \/ ~OverCap(capital) /\ spent' = [spent EXCEPT ![now] = @ + capital]
    BY <1>4 DEF StrategySend
  <2> HIDE DEF capital
  <2>3. CASE spent' = spent
    BY <1>3, <2>2, <2>3
  <2>4. CASE ~OverCap(capital) /\ spent' = [spent EXCEPT ![now] = @ + capital]
    <3>1. \A t \in 0..MaxTime : t > now' => spent'[t] = 0
      BY <1>1, <2>2, <2>4 DEF WindowInv
    <3>2. ASSUME NEW t \in 0..now, t # now
          PROVE  Total(spent', t) <= MaxCapitalPerWindow
      <4>1. t \in 0..MaxTime /\ now \notin Window(t)
        BY <1>1, <3>2 DEF Window
      <4>2. \A i \in Window(t) : spent[i] \in Int /\ spent[i] = spent'[i]
        BY <1>1, <1>2, <2>4, <4>1
      <4>3. Total(spent', t) = Total(spent, t)
        BY <1>2, <4>1, <4>2, SumSame DEF Total
      <4>4. QED
        BY <4>3, <1>a DEF WindowInv
    <3>3. Total(spent', now) <= MaxCapitalPerWindow
      <4>1. CASE now \in Window(now)
        <5>1. Total(spent', now) = Total(spent, now) + spent'[now] - spent[now]
          <6>1. /\ \A i \in Window(now) : spent[i] \in Int /\ spent'[i] \in Int
                /\ \A i \in Window(now) \ {now} : spent[i] = spent'[i]
            BY <1>1, <1>2, <2>4
          <6>2. IsFiniteSet(Window(now))
            BY <1>1, <1>2
          <6> HIDE DEF Within
          <6>3. QED
            BY <4>1, <6>1, <6>2, SumExcept DEF Total
        <5>2. Total(spent, now) \in Int
          BY <1>1, <1>2, SumInt DEF Total
        <5>3. spent'[now] = spent[now] + capital /\ spent[now] \in Nat
          BY <1>1, <2>4
        <5>4. QED
          BY <1>1, <1>2, <2>1, <2>4, <5>1, <5>2, <5>3 DEF OverCap
      <4>2. CASE now \notin Window(now)
        <5>1. \A i \in Window(now) : spent[i] \in Int /\ spent[i] = spent'[i]
          BY <1>1, <1>2, <2>4, <4>2
        <5>2. Total(spent', now) = Total(spent, now)
          BY <1>1, <1>2, <5>1, SumSame DEF Total
        <5>3. QED
          BY <1>1, <1>a, <5>2 DEF WindowInv
      <4>3. QED
        BY <4>1, <4>2
    <3>4. QED
      BY <1>1, <1>b, <2>2, <3>1, <3>2, <3>3 DEF WindowInv
  <2>5. QED
    BY <2>2, <2>3, <2>4
<1>5. CASE Tick
  <2>1. now' = now + 1 /\ spent' = spent
    BY <1>5 DEF Tick, mainVars
  <2>2. spent[now + 1] = 0 /\ now + 1 \in 0..MaxTime
    BY <1>1, <2>1 DEF WindowInv
  <2>3. \A t \in 0..MaxTime : t > now' => spent'[t] = 0
    BY <1>1, <2>1 DEF WindowInv
  <2>4. Total(spent, now + 1) <= MaxCapitalPerWindow
    <3> DEFINE W == Window(now + 1)
               R == W \ {now + 1}
    <3>1. /\ IsFiniteSet(W) /\ (\A i \in W : spent[i] \in Int)
          /\ IsFiniteSet(R) /\ (\A i \in R : spent[i] \in Int)
      BY <1>2, <2>2, FS_Subset
    <3>2. R \subseteq Window(now)
      BY <1>1 DEF Window
    <3>3. SumFunctionOnSet(spent, R) <= MaxCapitalPerWindow
      <4>1. SumFunctionOnSet(spent, R) <= Total(spent, now)
        BY <1>1, <1>2, <3>2, SumSubset DEF Total
      <4>2. Total(spent, now) <= MaxCapitalPerWindow
        BY <1>1, <1>a DEF WindowInv
      <4>3. SumFunctionOnSet(spent, R) \in Int
        BY <3>1, SumInt
      <4>4. Total(spent, now) \in Int
        <5>1. IsFiniteSet(Window(now)) /\ \A i \in Window(now) : spent[i] \in Int
          BY <1>1, <1>2
        <5>2. QED
          BY <5>1, SumInt DEF Total
      <4>5. QED
        BY <1>1, <4>1, <4>2, <4>3, <4>4
    <3>4. SumFunctionOnSet(spent, W) = SumFunctionOnSet(spent, R)
      <4>1. CASE now + 1 \in W
        <5>1. SumFunctionOnSet(spent, W) = spent[now + 1] + SumFunctionOnSet(spent, R)
          BY <3>1, <4>1, SumRemove
        <5>2. SumFunctionOnSet(spent, R) \in Int
          BY <3>1, SumInt DEF Total
        <5>3. QED
          BY <2>2, <5>1, <5>2
      <4>2. CASE now + 1 \notin W
        <5>1. R = W
          BY <4>2
        <5>2. QED
          BY <5>1
      <4>3. QED
        BY <4>1, <4>2
    <3>5. QED
      BY <3>3, <3>4 DEF Total
  <2>5. QED
    BY <1>1, <1>a, <1>b, <2>1, <2>3, <2>4 DEF WindowInv
<1>6. \/ UNCHANGED <<spent, now>>
      \/ StrategySend
      \/ Tick
  BY NextCases DEF FeedChanges, AcceptUpdate, ClearBook, ForwardUpdate, MarketRefresh, StrategyRecv,
     StrategyReadBook, StrategyMark, EngineStart, EngineMark, EngineFinish, Rest, vars,
     mainVars, dirVars, engineVars
<1>7. QED
  BY <1>3, <1>4, <1>5, <1>6

(* No window of the clock has signals of more capital than the cap, though *)
(* the loop sums the one that ends at the trade only (main.rs:519-535).    *)
THEOREM WindowCorrect == Spec => []WindowCap
<1>1. Init => WindowInv
  <2> SUFFICES ASSUME Init PROVE WindowInv
    OBVIOUS
  <2>1. /\ spent \in [0..MaxTime -> Nat] /\ now = 0 /\ MaxTime \in Nat
        /\ \A t \in 0..MaxTime : spent[t] = 0
    BY PipelineAssumption DEF Init
  <2>2. \A t \in 0..now : Deployed(t) = 0
    BY <2>1, WindowFacts, SumZero DEF Total
  <2>3. QED
    BY <2>1, <2>2, PipelineAssumption DEF WindowInv, WindowCap
<1>2. TypeOK /\ MainOK /\ TypeOK' /\ WindowInv /\ [Next]_vars => WindowInv'
  BY WindowStep
<1>3. WindowInv => WindowCap
  BY DEF WindowInv
<1>4. QED
  BY <1>1, <1>2, <1>3, TypeCorrect, PTL DEF Spec
-----------------------------------------------------------------------------
(* The reservation made for a trade is the only one there is, it keeps     *)
(* within both caps, and it is gone when the trade is over.                *)
THEOREM ReservationCorrect == Spec => []ReservationBalance
<1>1. Init => ReservationBalance
  BY PipelineAssumption DEF Init, ReservationBalance, Free
<1>2. TypeOK /\ ReservationBalance /\ [Next]_vars => ReservationBalance'
  <2> SUFFICES ASSUME TypeOK, ReservationBalance, [Next]_vars
               PROVE  ReservationBalance'
    OBVIOUS
  <2>1. ASSUME EngineStart PROVE ReservationBalance'
    <3> DEFINE sig == Head(signals)
    <3>1. sig.cond \in Condition /\ sig.capital \in Nat
      <4>1. sig \in Signal
        BY <2>1, PipelineAssumption DEF EngineStart, TypeOK
      <4>2. QED
        BY <4>1 DEF Signal
    <3>2. engine.pc = "idle" /\ engine' = [pc |-> "marking", cond |-> sig.cond, capital |-> sig.capital]
      BY <2>1 DEF EngineStart
    <3>3. totalActive = 0 /\ \A c \in Condition : activeCapital[c] = 0
      BY <3>2 DEF ReservationBalance
    <3>4. \/ UNCHANGED <<activeCapital, totalActive>>
          \/ /\ activeCapital' = [activeCapital EXCEPT ![sig.cond] = sig.capital]
             /\ totalActive' = totalActive + sig.capital
             /\ activeCapital[sig.cond] + sig.capital <= MaxPerMarket
             /\ totalActive + sig.capital <= MaxTotal
      BY <2>1 DEF EngineStart, Fits
    <3>5. activeCapital \in [Condition -> Nat]
      BY DEF TypeOK
    <3> HIDE DEF sig
    <3>6. CASE UNCHANGED <<activeCapital, totalActive>>
      BY <3>1, <3>2, <3>3, <3>6, PipelineAssumption DEF ReservationBalance
    <3>7. CASE /\ activeCapital' = [activeCapital EXCEPT ![sig.cond] = sig.capital]
               /\ totalActive' = totalActive + sig.capital
               /\ activeCapital[sig.cond] + sig.capital <= MaxPerMarket
               /\ totalActive + sig.capital <= MaxTotal
      <4>1. \A c \in Condition :
              activeCapital'[c] = IF c = sig.cond THEN sig.capital ELSE 0
        BY <3>3, <3>5, <3>7
      <4>2. totalActive' = sig.capital
            /\ sig.capital <= MaxPerMarket /\ sig.capital <= MaxTotal
        BY <3>1, <3>3, <3>7
      <4>3. engine'.pc = "marking" /\ engine'.cond = sig.cond /\ engine'.capital = sig.capital
        BY <3>2
      <4>4. QED
        BY <3>1, <4>1, <4>2, <4>3 DEF ReservationBalance
    <3>8. QED
      BY <3>4, <3>6, <3>7
  <2>2. ASSUME EngineFinish PROVE ReservationBalance'
    <3>1. engine.pc = "trading" /\ engine'.pc = "idle" /\ engine.cond \in Condition
      BY <2>2 DEF EngineFinish, TypeOK, Free
    <3>2. totalActive' = 0
      BY <2>2, <3>1 DEF EngineFinish, TypeOK, ReservationBalance, AtLeast
    <3>3. \A c \in Condition : activeCapital'[c] = 0
      BY <2>2, <3>1 DEF EngineFinish, TypeOK, ReservationBalance
    <3>4. QED
      BY <3>1, <3>2, <3>3, PipelineAssumption DEF ReservationBalance
  <2>3. ASSUME EngineMark PROVE ReservationBalance'
    <3>1. engine.pc # "idle" /\ engine'.pc # "idle" /\ engine'.cond = engine.cond
          /\ engine'.capital = engine.capital
      BY <2>3 DEF EngineMark, TypeOK, Free
    <3>2. QED
      BY <2>3, <3>1 DEF EngineMark, ReservationBalance
  <2>4. ASSUME UNCHANGED engineVars PROVE ReservationBalance'
    BY <2>4 DEF ReservationBalance, engineVars
  <2>5. EngineStart \/ EngineMark \/ EngineFinish \/ UNCHANGED engineVars
    BY NextCases DEF FeedChanges, AcceptUpdate, ClearBook, ForwardUpdate, MarketRefresh, Tick,
                     StrategyRecv, StrategyReadBook, StrategyMark, StrategySend,
                     Rest, vars
  <2>6. QED
    BY <2>1, <2>2, <2>3, <2>4, <2>5
<1>3. QED
  BY <1>1, <1>2, TypeCorrect, PTL DEF Spec

(* Every signal in the channel is covered by the depth it was sized by and *)
(* is profitable after the fee.                                            *)
THEOREM SignalsCorrect == Spec => []SignalsSound
<1>1. Init => SignalsSound
  BY DEF Init, SignalsSound
<1>2. TypeOK /\ MainOK /\ SignalsSound /\ [Next]_vars => SignalsSound'
  <2> SUFFICES ASSUME TypeOK, MainOK, SignalsSound, [Next]_vars
               PROVE  SignalsSound'
    OBVIOUS
  <2> DEFINE Sound(sig) == /\ sig.size \in 10..sig.depth
                           /\ 102 * sig.capital < 100000 * sig.size
  <2>0. \A i \in 1..Len(signals) : Sound(signals[i])
    BY DEF SignalsSound
  <2>00. SignalsSound' <=> \A i \in 1..Len(signals') : Sound(signals'[i])
    BY DEF SignalsSound
  <2>1. ASSUME StrategySend PROVE SignalsSound'
    <3> DEFINE c       == main.token[1]
               shares  == Shares(prices[c]["YES"] + prices[c]["NO"], main.depth)
               capital == (prices[c]["YES"] + prices[c]["NO"]) * shares
    <3>1. shares \in 10..main.depth /\ 102 * capital < 100000 * shares
      BY <2>1, OrderType DEF StrategySend
    <3> HIDE DEF shares, capital
    <3>2. \/ signals' = signals
          \/ \E sig : /\ signals' = Append(signals, sig)
                      /\ sig.size = shares /\ sig.capital = capital
                      /\ sig.depth = main.depth
      BY <2>1 DEF StrategySend, shares, capital
    <3>3. CASE signals' = signals
      BY <2>0, <2>00, <3>3
    <3>4. CASE \E sig : /\ signals' = Append(signals, sig)
                       /\ sig.size = shares /\ sig.capital = capital
                       /\ sig.depth = main.depth
      <4>1. PICK sig : /\ signals' = Append(signals, sig)
                       /\ sig.size = shares /\ sig.capital = capital
                       /\ sig.depth = main.depth
        BY <3>4
      <4>2. Sound(sig)
        BY <3>1, <4>1
      <4>3. \A i \in 1..Len(signals') : signals'[i] = sig \/ (i \in 1..Len(signals) /\ signals'[i] = signals[i])
        BY <4>1 DEF TypeOK
      <4>4. QED
        BY <2>0, <2>00, <4>2, <4>3
    <3>5. QED
      BY <3>2, <3>3, <3>4
  <2>2. ASSUME EngineStart PROVE SignalsSound'
    <3>1. signals' = Tail(signals) /\ signals # <<>>
      BY <2>2 DEF EngineStart
    <3>2. \A i \in 1..Len(signals') : i + 1 \in 1..Len(signals) /\ signals'[i] = signals[i + 1]
      BY <3>1 DEF TypeOK
    <3>3. QED
      BY <2>0, <2>00, <3>2
  <2>3. ASSUME UNCHANGED signals PROVE SignalsSound'
    BY <2>3 DEF SignalsSound
  <2>4. StrategySend \/ EngineStart \/ UNCHANGED signals
    BY NextCases DEF FeedChanges, AcceptUpdate, ClearBook, ForwardUpdate, MarketRefresh, Tick,
                     StrategyRecv, StrategyReadBook, StrategyMark, EngineMark, EngineFinish,
                     Rest, vars
  <2>5. QED
    BY <2>1, <2>2, <2>3, <2>4
<1>3. QED
  BY <1>1, <1>2, TypeCorrect, PTL DEF Spec

(* While trading is halted no opportunity gets past the strategy's         *)
(* filters, but between the two steps of the halt: the invariant is that   *)
(* the book is empty once a halt is complete (hot_switchover.rs:130-134,   *)
(* main.rs:335-347).                                                       *)
THEOREM HaltStops == Spec => HaltStopsNewTrades
<1> DEFINE Inv == halted /\ ~clearing => book = Feed!EmptyBook
<1>1. Init => Inv
  BY DEF Init, Feed!FeedInit
<1>2. TypeOK /\ Inv /\ [Next]_vars => Inv'
  <2> SUFFICES ASSUME Inv, [Next]_vars PROVE Inv'
    OBVIOUS
  <2>1. ASSUME NEW s \in Feed!Feed, FeedChanges(s) PROVE Inv'
    BY <2>1 DEF FeedChanges, Feed!FeedUp, Feed!FeedDown, Feed!EmptyBook
  <2>2. ASSUME NEW s \in Feed!Feed, NEW u \in Update, AcceptUpdate(s, u) PROVE Inv'
    BY <2>2 DEF AcceptUpdate, Feed!Deliver
  <2>2c. ASSUME ClearBook PROVE Inv'
    BY <2>2c DEF ClearBook, Feed!ClearBook, Feed!EmptyBook
  <2>3. ASSUME UNCHANGED <<halted, clearing, book>> PROVE Inv'
    BY <2>3
  <2>4. QED
    BY <2>1, <2>2, <2>2c, <2>3, NextCases
       DEF ForwardUpdate, MarketRefresh, Tick, StrategyRecv, StrategyReadBook,
           StrategyMark, StrategySend, EngineStart, EngineMark, EngineFinish,
           Rest, dirVars, feedVars, vars
<1>3. TypeOK /\ Inv /\ [Next]_vars
        => [main.pc = "book" /\ main'.pc = "mark" => ~halted \/ clearing]_vars
  <2> SUFFICES ASSUME TypeOK, Inv, Next, main.pc = "book", main'.pc = "mark"
               PROVE  ~halted \/ clearing
    OBVIOUS
  <2>1. StrategyReadBook
    BY NextCases DEF FeedChanges, AcceptUpdate, ClearBook, ForwardUpdate, MarketRefresh, Tick,
                     StrategyRecv, StrategyMark, StrategySend, EngineStart,
                     EngineMark, EngineFinish, Rest, mainVars, vars
  <2>2. main.token[1] \in Condition
    BY DEF TypeOK, Idle, Token
  <2>3. Tradable(main.token[1])
    BY <2>1 DEF StrategyReadBook, Idle
  <2>4. QED
    BY <2>2, <2>3 DEF Tradable, Feed!EmptyBook
<1>4. QED
  BY <1>1, <1>2, <1>3, TypeCorrect, PTL DEF Spec, HaltStopsNewTrades

(* A market that is locked out, with nothing of it under way, stays locked *)
(* out, whatever the feeds, the clock and the market list do.              *)
THEOREM LockoutStays == Spec => LockoutIsPermanent
<1>1. TypeOK /\ [Next]_vars
        => [\A c \in Condition :
              Locked(c) => Locked(c)' /\ book'[c] \in {book[c], NoUpdate}]_vars
  <2> SUFFICES ASSUME TypeOK, [Next]_vars, NEW c \in Condition, Locked(c)
               PROVE  Locked(c)' /\ book'[c] \in {book[c], NoUpdate}
    OBVIOUS
  <2> DEFINE Quiet(m, h, q, w, g, e) ==
               /\ LiquidityVanished(m[c])
               /\ h = NoUpdate \/ h.cond # c
               /\ \A i \in 1..Len(q) : q[i].cond # c
               /\ w.pc = "idle" \/ w.token[1] # c
               /\ \A i \in 1..Len(g) : g[i].cond # c
               /\ e.pc # "marking" \/ e.cond # c
  <2>a. Quiet(tracker, inHand, updates, main, signals, engine)
    BY DEF Locked
  <2>b. Locked(c)' <=> Quiet(tracker', inHand', updates', main', signals', engine')
    BY DEF Locked
  <2>1. ASSUME NEW s \in Feed!Feed, FeedChanges(s)
        PROVE  Locked(c)' /\ book'[c] \in {book[c], NoUpdate}
    <3>1. book'[c] \in {book[c], NoUpdate}
      BY <2>1 DEF FeedChanges, Feed!FeedUp, Feed!FeedDown
    <3>2. UNCHANGED <<tracker, inHand, updates, main, signals, engine>>
      BY <2>1 DEF FeedChanges, Rest, engineVars
    <3>3. QED
      BY <2>a, <2>b, <3>1, <3>2
  <2>2. ASSUME NEW s \in Feed!Feed, NEW u \in Update, AcceptUpdate(s, u)
        PROVE  Locked(c)' /\ book'[c] \in {book[c], NoUpdate}
    <3>1. u.cond # c
      BY <2>a, <2>2 DEF AcceptUpdate
    <3>2. inHand' = u /\ UNCHANGED <<tracker, updates, main, signals, engine>>
      BY <2>2 DEF AcceptUpdate, Rest, engineVars
    <3>3. book'[c] = book[c]
      BY <2>2, <3>1 DEF AcceptUpdate, Feed!Deliver, TypeOK
    <3>4. QED
      BY <2>a, <2>b, <3>1, <3>2, <3>3
  <2>2c. ASSUME ClearBook
        PROVE  Locked(c)' /\ book'[c] \in {book[c], NoUpdate}
    <3>1. book'[c] \in {book[c], NoUpdate}
      BY <2>2c DEF ClearBook, Feed!ClearBook, Feed!EmptyBook
    <3>2. UNCHANGED <<tracker, inHand, updates, main, signals, engine>>
      BY <2>2c DEF ClearBook, Rest, engineVars
    <3>3. QED
      BY <2>a, <2>b, <3>1, <3>2
  <2>3. ASSUME ForwardUpdate
        PROVE  Locked(c)' /\ book'[c] \in {book[c], NoUpdate}
    <3>1. inHand.cond # c /\ inHand \in Update
      BY <2>a, <2>3 DEF ForwardUpdate, TypeOK
    <3>2. tracker'[c] = tracker[c]
      BY <2>3, <3>1 DEF ForwardUpdate, TypeOK
    <3>3. inHand' = NoUpdate /\ updates' = Append(updates, inHand)
          /\ UNCHANGED <<book, main, signals, engine>>
      BY <2>3 DEF ForwardUpdate, Rest, feedVars, engineVars
    <3>4. \A i \in 1..Len(updates') : updates'[i].cond # c
      BY <2>a, <3>1, <3>3 DEF TypeOK
    <3>5. QED
      BY <2>a, <2>b, <3>2, <3>3, <3>4
  <2>4. ASSUME StrategyRecv
        PROVE  Locked(c)' /\ book'[c] \in {book[c], NoUpdate}
    <3>1. /\ updates # <<>> /\ updates' = Tail(updates)
          /\ main.pc = "idle"
          /\ main' = main \/ main'.token[1] = Head(updates).cond
          /\ UNCHANGED <<tracker, inHand, signals, book, engine>>
      BY <2>4 DEF StrategyRecv, feedVars, engineVars
    <3>2. Head(updates).cond # c
      BY <2>a, <3>1 DEF TypeOK
    <3>3. \A i \in 1..Len(updates') : updates'[i].cond # c
      BY <2>a, <3>1 DEF TypeOK
    <3>4. QED
      BY <2>a, <2>b, <3>1, <3>2, <3>3
  <2>5. ASSUME StrategyReadBook
        PROVE  Locked(c)' /\ book'[c] \in {book[c], NoUpdate}
    <3>1. main.token[1] # c /\ UNCHANGED <<tracker, inHand, updates, signals, book, engine>>
      BY <2>a, <2>5 DEF StrategyReadBook, dirVars, engineVars
    <3>2. main'.pc = "idle" \/ main'.token = main.token
      BY <2>5 DEF StrategyReadBook, Idle, TypeOK
    <3>3. QED
      BY <2>a, <2>b, <3>1, <3>2
  <2>6. ASSUME StrategyMark
        PROVE  Locked(c)' /\ book'[c] \in {book[c], NoUpdate}
    <3>1. main.token[1] # c /\ UNCHANGED <<inHand, updates, signals, book, engine>>
      BY <2>a, <2>6 DEF StrategyMark, dirVars, engineVars
    <3>2. main'.token = main.token /\ tracker'[c] = tracker[c]
      BY <2>6, <3>1 DEF StrategyMark, TypeOK, Idle
    <3>3. QED
      BY <2>a, <2>b, <3>1, <3>2
  <2>7. ASSUME StrategySend
        PROVE  Locked(c)' /\ book'[c] \in {book[c], NoUpdate}
    <3>1. /\ main.token[1] # c /\ main'.pc = "idle"
          /\ UNCHANGED <<tracker, inHand, updates, book, engine>>
      BY <2>a, <2>7 DEF StrategySend, Idle, dirVars, engineVars
    <3>2. \/ signals' = signals
          \/ \E sig : signals' = Append(signals, sig) /\ sig.cond = main.token[1]
      BY <2>7 DEF StrategySend
    <3>3. \A i \in 1..Len(signals') : signals'[i].cond # c
      <4>1. CASE signals' = signals
        BY <2>a, <4>1
      <4>2. ASSUME NEW sig, signals' = Append(signals, sig), sig.cond = main.token[1]
            PROVE  \A i \in 1..Len(signals') : signals'[i].cond # c
        <5>1. \A i \in 1..Len(signals') :
                \/ signals'[i] = sig
                \/ i \in 1..Len(signals) /\ signals'[i] = signals[i]
          BY <4>2 DEF TypeOK
        <5>2. QED
          BY <2>a, <3>1, <4>2, <5>1
      <4>3. QED
        BY <3>2, <4>1, <4>2
    <3>4. QED
      BY <2>a, <2>b, <3>1, <3>3
  <2>8. ASSUME EngineStart
        PROVE  Locked(c)' /\ book'[c] \in {book[c], NoUpdate}
    <3>1. /\ signals # <<>> /\ signals' = Tail(signals)
          /\ UNCHANGED <<inHand, updates, main, book>>
      BY <2>8 DEF EngineStart, dirVars, mainVars
    <3>2. Head(signals).cond # c /\ engine'.cond = Head(signals).cond
      BY <2>a, <2>8, <3>1 DEF EngineStart, TypeOK
    <3>3. tracker'[c] = tracker[c]
      BY <2>8, <3>2 DEF EngineStart, TypeOK
    <3>4. \A i \in 1..Len(signals') : signals'[i].cond # c
      BY <2>a, <3>1 DEF TypeOK
    <3>5. QED
      BY <2>a, <2>b, <3>1, <3>2, <3>3, <3>4
  <2>9. ASSUME EngineMark \/ EngineFinish
        PROVE  Locked(c)' /\ book'[c] \in {book[c], NoUpdate}
    <3>1. UNCHANGED <<inHand, updates, main, signals, book>> /\ engine'.pc # "marking"
      BY <2>9 DEF EngineMark, EngineFinish, dirVars, mainVars, TypeOK, Free
    <3>2. tracker'[c] = tracker[c]
      BY <2>a, <2>9 DEF EngineMark, EngineFinish, TypeOK, Free
    <3>3. QED
      BY <2>a, <2>b, <3>1, <3>2
  <2>10. ASSUME UNCHANGED <<tracker, inHand, updates, main, signals, book, engine>>
        PROVE  Locked(c)' /\ book'[c] \in {book[c], NoUpdate}
    BY <2>a, <2>b, <2>10
  <2>11. \/ \E s \in Feed!Feed : FeedChanges(s)
         \/ \E s \in Feed!Feed, u \in Update : AcceptUpdate(s, u)
         \/ ClearBook \/ ForwardUpdate \/ StrategyRecv \/ StrategyReadBook
         \/ StrategyMark \/ StrategySend \/ EngineStart \/ EngineMark \/ EngineFinish
         \/ UNCHANGED <<tracker, inHand, updates, main, signals, book, engine>>
    BY NextCases DEF MarketRefresh, Tick, dirVars, mainVars, engineVars, vars
  <2>12. QED
    BY <2>1, <2>2, <2>2c, <2>3, <2>4, <2>5, <2>6, <2>7, <2>8, <2>9,
       <2>10, <2>11
<1>2. QED
  BY <1>1, TypeCorrect, PTL DEF Spec, LockoutIsPermanent
=============================================================================
