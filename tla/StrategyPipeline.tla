--------------------------- MODULE StrategyPipeline ---------------------------
(***************************************************************************)
(* From an accepted update to an executed trade: the director's Update arm *)
(* (src/src/hot_switchover.rs), the strategy loop of run_websocket_mode    *)
(* (src/src/main.rs) and the trading loop (src/src/trading.rs), three      *)
(* tasks on a multi-threaded runtime that share the book, the depth        *)
(* tracker and the token mapping.  What decides which feed is believed is  *)
(* taken from FeedSelector, which HotSwitchover is proved to implement.    *)
(*                                                                         *)
(* A task's step ends where it next touches state another task writes.     *)
(* Prices and capital are in thousandths of a dollar.  The engine runs in  *)
(* dry-run mode, the only mode the code supports: both legs always fill.   *)
(***************************************************************************)
EXTENDS Integers, Sequences, OrderBookTracker, Sizing, Functions

CONSTANTS Condition, Price, Size, NoUpdate,
          MaxCapitalPerWindow, CapitalWindow, \* the rolling capital cap
          MaxPerMarket, MaxTotal,             \* the MLE caps of TradingConfig
          MaxUpdates, MaxSignals,             \* bounds: unbounded channels
          MaxTime,                            \* bound: how long the clock runs
          Mappings                            \* what the market list may name

Token  == Condition \X Side
Update == [cond : Condition, side : Side, price : Price, size : Size]

ASSUME PipelineAssumption ==
    /\ NoUpdate \notin Update
    /\ Price \subseteq Nat /\ Size \subseteq Nat
    /\ MaxCapitalPerWindow \in Nat /\ CapitalWindow \in Nat
    /\ MaxPerMarket \in Nat /\ MaxTotal \in Nat
    /\ MaxUpdates \in Nat \ {0} /\ MaxSignals \in Nat \ {0}
    /\ MaxTime \in Nat
    /\ Mappings \subseteq SUBSET Token

VARIABLES
    live, halted, clearing, book, \* FeedSelector: flags, risk_paused, orderbook
    tokenSide,          \* AppState.token_side
    tracker,            \* AppState.tracker, shared with the engine
    inHand, updates,    \* the director's update under way; its output channel
    prices,             \* AppState.market_prices: last YES and NO price
    main,               \* where the strategy loop is, and with which token
    now,                \* the clock the capital window is measured by
    spent,              \* capital_history of the strategy loop, summed by time
    signals,            \* the channel to the trading loop
    engine,             \* where the trading loop is, and with which signal
    activeCapital,      \* TradingEngine.active_capital, 0 for no entry
    totalActive,        \* TradingEngine.total_active_capital
    staleSince          \* history: prices not quoted again since the last halt

feedVars   == <<live, halted, clearing, book>>
dirVars    == <<live, halted, clearing, book, inHand, updates>>
mainVars   == <<prices, main, spent, staleSince>>
engineVars == <<engine, activeCapital, totalActive>>
vars       == <<dirVars, tokenSide, tracker, mainVars, now, signals, engineVars>>

Feed == INSTANCE FeedSelector WITH Offer <- [s \in {"Primary", "Backup"} |-> Update]

NoPrice == -1
NoToken == <<>>

Signal == [cond : Condition, yesToken : Token, noToken : Token, size : Nat,
           capital : Nat, depth : Nat, fresh : BOOLEAN]

Idle == [pc |-> "idle", token |-> NoToken, depth |-> 0]
Free == [pc |-> "idle", cond |-> NoToken, capital |-> 0]

Init ==
    /\ Feed!FeedInit
    /\ tokenSide = Token
    /\ tracker = [c \in Condition |-> EmptyMarket]
    /\ inHand = NoUpdate /\ updates = <<>>
    /\ prices = [c \in Condition |-> [s \in Side |-> NoPrice]]
    /\ main = Idle
    /\ now = 0
    /\ spent = [t \in 0..MaxTime |-> 0]
    /\ signals = <<>>
    /\ engine = Free
    /\ activeCapital = [c \in Condition |-> 0]
    /\ totalActive = 0
    /\ staleSince = [c \in Condition |-> [s \in Side |-> FALSE]]
-----------------------------------------------------------------------------
(* The director.                                                           *)

Rest == UNCHANGED <<tokenSide, prices, main, now, spent, signals, engineVars>>

(* A connection event; the director takes none while an update is in hand. *)
FeedChanges(s) ==
    /\ inHand = NoUpdate
    /\ Feed!FeedUp(s) \/ Feed!FeedDown(s)
    /\ staleSince' = IF halted' /\ ~halted
                     THEN [c \in Condition |-> [r \in Side |-> prices[c][r] # NoPrice]]
                     ELSE staleSince
    /\ UNCHANGED <<inHand, updates, tracker>>
    /\ Rest

(* The second step of a halt; the strategy may have read the book since    *)
(* the first.                                                              *)
ClearBook ==
    /\ Feed!ClearBook
    /\ UNCHANGED <<inHand, updates, tracker, staleSince>>
    /\ Rest

(* Mutant: the director does not ask for vanished liquidity.               *)
AcceptUpdate_NoGhostCheck(s, u) ==
    /\ inHand = NoUpdate
    /\ Feed!Deliver(s, u.cond, u)
    /\ inHand' = u
    /\ UNCHANGED <<updates, tracker, staleSince>>
    /\ Rest

(* An update passes the three checks and is written to the book.           *)
AcceptUpdate(s, u) ==
    /\ inHand = NoUpdate
    /\ ~LiquidityVanished(tracker[u.cond])
    /\ Feed!Deliver(s, u.cond, u)
    /\ inHand' = u
    /\ UNCHANGED <<updates, tracker, staleSince>>
    /\ Rest

ForwardUpdate ==
    /\ inHand # NoUpdate
    /\ Len(updates) < MaxUpdates
    /\ tracker' =
         IF <<inHand.cond, inHand.side>> \in tokenSide
         THEN [tracker EXCEPT ![inHand.cond] = TrackerUpdate(@, inHand.side, inHand.size)]
         ELSE tracker
    /\ updates' = Append(updates, inHand)
    /\ inHand' = NoUpdate
    /\ UNCHANGED <<feedVars, staleSince>>
    /\ Rest

(* The refresh task replaces the mapping.                                  *)
MarketRefresh(ts) ==
    /\ tokenSide' = ts
    /\ UNCHANGED <<dirVars, tracker, mainVars, now, signals, engineVars>>

Tick == /\ now < MaxTime
        /\ now' = now + 1
        /\ UNCHANGED <<dirVars, tokenSide, tracker, mainVars, signals, engineVars>>
-----------------------------------------------------------------------------
(* The strategy loop.                                                      *)

(* An update arrives; unknown tokens are skipped.  The price is recorded   *)
(* for its side, and with both prices known the loop may go on.            *)
StrategyRecv ==
    LET u == Head(updates)
        p == [prices EXCEPT ![u.cond][u.side] = u.price]
    IN  /\ main.pc = "idle"
        /\ updates # <<>>
        /\ updates' = Tail(updates)
        /\ IF <<u.cond, u.side>> \in tokenSide
           THEN /\ prices' = p
                /\ staleSince' = [staleSince EXCEPT ![u.cond][u.side] = FALSE]
                /\ main' = IF /\ \A s \in Side : p[u.cond][s] # NoPrice
                              /\ Opportunity(p[u.cond]["YES"], p[u.cond]["NO"])
                           THEN [pc |-> "book", token |-> <<u.cond, u.side>>, depth |-> 0]
                           ELSE main
           ELSE UNCHANGED <<prices, staleSince, main>>
        /\ UNCHANGED <<feedVars, inHand, tokenSide, tracker, now, spent,
                       signals, engineVars>>

(* Mutant: the filter for thin books is missing.                           *)
Tradable_AnyDepth(c) ==
    /\ book[c] # NoUpdate
    /\ \A s \in Side : prices[c][s] >= 50

(* The book is consulted: no entry, less than 10 shares or a price under   *)
(* five cents ends the attempt.  The velocity, volatility, inventory and   *)
(* drawdown checks that follow in the code cannot trip, since nothing in   *)
(* the program records what they look at.                                  *)
Tradable(c) ==
    /\ book[c] # NoUpdate
    /\ book[c].size >= 10
    /\ \A s \in Side : prices[c][s] >= 50

StrategyReadBook ==
    /\ main.pc = "book"
    /\ main' = IF Tradable(main.token[1])
               THEN [main EXCEPT !.pc = "mark", !.depth = book[main.token[1]].size]
               ELSE Idle
    /\ UNCHANGED <<dirVars, tokenSide, tracker, prices, spent, staleSince,
                   now, signals, engineVars>>

(* The tracker is marked before the capital check, so also for a trade     *)
(* that check then blocks.                                                 *)
StrategyMark ==
    /\ main.pc = "mark"
    /\ tracker' = [tracker EXCEPT ![main.token[1]] = MarkQueueStart(@)]
    /\ main' = [main EXCEPT !.pc = "send"]
    /\ UNCHANGED <<dirVars, tokenSide, prices, spent, staleSince, now,
                   signals, engineVars>>

(* The capital of the signals sent within the window that ends at t; what  *)
(* is older is what the code removes from its list.                        *)
Deployed(t) == SumFunctionOnSet(spent, {i \in 0..t : t - i < CapitalWindow})

(* Mutant: the check leaves out the trade it is about.                     *)
OverCap_WithoutTrade(capital) == Deployed(now) > MaxCapitalPerWindow

OverCap(capital) == Deployed(now) + capital > MaxCapitalPerWindow

(* The capital window is checked, then the signal is built and sent.  The  *)
(* YES leg takes the token of the update at hand, whichever side that is;  *)
(* the NO leg is looked up, and falls back to the same token.              *)
StrategySend ==
    LET c        == main.token[1]
        combined == prices[c]["YES"] + prices[c]["NO"]
        shares   == Shares(combined, main.depth)
        capital  == combined * shares
    IN  /\ main.pc = "send"
        /\ main' = Idle
        /\ IF OverCap(capital)
           THEN UNCHANGED <<spent, signals>>
           ELSE /\ Len(signals) < MaxSignals
                /\ spent' = [spent EXCEPT ![now] = @ + capital]
                /\ signals' = Append(signals,
                     [cond |-> c,
                      yesToken |-> main.token,
                      noToken |-> IF <<c, "NO">> \in tokenSide THEN <<c, "NO">> ELSE main.token,
                      size |-> shares,
                      capital |-> capital,
                      depth |-> main.depth,
                      fresh |-> \A s \in Side : ~staleSince[c][s]])
        /\ UNCHANGED <<dirVars, tokenSide, tracker, prices, staleSince, now, engineVars>>

Strategy == StrategyRecv \/ StrategyReadBook \/ StrategyMark \/ StrategySend
-----------------------------------------------------------------------------
(* The trading loop.                                                       *)

(* The two caps of the MLE check.                                          *)
Fits(sig) == /\ activeCapital[sig.cond] + sig.capital <= MaxPerMarket
             /\ totalActive + sig.capital <= MaxTotal

(* A signal over a cap is reported as blocked but goes on all the same,    *)
(* without a reservation.  execute_arbitrage then overwrites the tracker's *)
(* depths with those the signal carries; its early returns, for a profit   *)
(* under a cent or fewer than ten shares, are out of reach of a signal     *)
(* that passed the strategy's filters.                                     *)
EngineStart ==
    LET sig == Head(signals)
        c   == sig.cond
    IN  /\ engine.pc = "idle"
        /\ signals # <<>>
        /\ signals' = Tail(signals)
        /\ IF Fits(sig)
           THEN /\ activeCapital' = [activeCapital EXCEPT ![c] = sig.capital]
                /\ totalActive' = totalActive + sig.capital
           ELSE UNCHANGED <<activeCapital, totalActive>>
        /\ tracker' = [tracker EXCEPT ![c] = InitMarket(@, sig.depth, sig.depth)]
        /\ engine' = [pc |-> "marking", cond |-> c, capital |-> sig.capital]
        /\ UNCHANGED <<dirVars, tokenSide, mainVars, now>>

(* The start of the taker queue is marked, in a map operation of its own.  *)
EngineMark ==
    /\ engine.pc = "marking"
    /\ tracker' = [tracker EXCEPT ![engine.cond] = MarkQueueStart(@)]
    /\ engine' = [engine EXCEPT !.pc = "trading"]
    /\ UNCHANGED <<dirVars, tokenSide, mainVars, now, signals, activeCapital, totalActive>>

(* Mutant: the total is not given back.                                    *)
EngineFinish_KeepTotal ==
    LET c == engine.cond
    IN  /\ engine.pc = "trading"
        /\ activeCapital' = [activeCapital EXCEPT ![c] = 0]
        /\ engine' = Free
        /\ UNCHANGED <<dirVars, tokenSide, tracker, mainVars, now, signals, totalActive>>

(* Both legs have been simulated; what was reserved is released.           *)
EngineFinish ==
    LET c == engine.cond
    IN  /\ engine.pc = "trading"
        /\ activeCapital' = [activeCapital EXCEPT ![c] = 0]
        /\ totalActive' = AtLeast(totalActive - activeCapital[c], 0)
        /\ engine' = Free
        /\ UNCHANGED <<dirVars, tokenSide, tracker, mainVars, now, signals>>

Engine == EngineStart \/ EngineMark \/ EngineFinish

Next ==
    \/ \E s \in Feed!Feed : FeedChanges(s) \/ \E u \in Update : AcceptUpdate(s, u)
    \/ ClearBook
    \/ ForwardUpdate
    \/ \E ts \in Mappings : MarketRefresh(ts)
    \/ Tick
    \/ Strategy
    \/ Engine

Spec == Init /\ [][Next]_vars

(* The three loops run whenever they can; feeds, refresh and clock owe     *)
(* nothing.                                                                *)
FairSpec ==
    /\ Spec
    /\ WF_vars(ClearBook) /\ WF_vars(ForwardUpdate)
    /\ WF_vars(Strategy) /\ WF_vars(Engine)
-----------------------------------------------------------------------------
TypeOK ==
    /\ live \subseteq Feed!Feed /\ halted \in BOOLEAN /\ clearing \in BOOLEAN
    /\ book \in [Condition -> Update \cup {NoUpdate}]
    /\ tokenSide \subseteq Token
    /\ tracker \in [Condition -> MarketPrices]
    /\ inHand \in Update \cup {NoUpdate}
    /\ updates \in Seq(Update) /\ Len(updates) <= MaxUpdates
    /\ prices \in [Condition -> [Side -> Price \cup {NoPrice}]]
    /\ staleSince \in [Condition -> [Side -> BOOLEAN]]
    /\ \/ main = Idle
       \/ main \in [pc : {"book", "mark", "send"}, token : Token, depth : Nat]
    /\ now \in 0..MaxTime
    /\ spent \in [0..MaxTime -> Nat]
    /\ signals \in Seq(Signal) /\ Len(signals) <= MaxSignals
    /\ \/ engine = Free
       \/ engine \in [pc : {"marking", "trading"}, cond : Condition, capital : Nat]
    /\ activeCapital \in [Condition -> Nat]
    /\ totalActive \in Nat

(* No window of the clock, wherever it begins, has signals of more capital *)
(* than the cap, although the code only ever sums the one that ends at the *)
(* trade it checks (main.rs:519-535).                                      *)
WindowCap == \A t \in 0..now : Deployed(t) <= MaxCapitalPerWindow

(* Capital is reserved for the trade under way only, the total is what the *)
(* market holds, both caps hold, and nothing stays reserved afterwards,    *)
(* although a blocked trade runs without a reservation and is released all *)
(* the same (trading.rs:432-522).                                          *)
ReservationBalance ==
    /\ \A c \in Condition :
         activeCapital[c] # 0 => engine.pc # "idle" /\ engine.cond = c
    /\ totalActive # 0 => engine.pc # "idle"
    /\ engine.pc # "idle" =>
         /\ totalActive = activeCapital[engine.cond]
         /\ totalActive \in {0, engine.capital}
    /\ totalActive <= MaxPerMarket /\ totalActive <= MaxTotal

(* A signal never asks for more than the depth it was sized by, nor for    *)
(* less than ten shares, and after the 2% fee it still earns: the early    *)
(* filters and the floors of the sizing agree, though the book is read     *)
(* after the prices and may have moved (main.rs:293-413).                  *)
SignalsSound ==
    \A i \in 1..Len(signals) :
        LET sig == signals[i]
        IN  /\ sig.size \in 10..sig.depth
            /\ 102 * sig.capital < 100000 * sig.size

(* While trading is halted no opportunity passes the strategy's filters,   *)
(* although the strategy never looks at risk_paused: the emptied book is   *)
(* what stops it.  Only between the halt's own two steps, the flag and the *)
(* clearing, can one still pass (hot_switchover.rs:130-134,                *)
(* main.rs:335-347).                                                       *)
HaltStopsNewTrades ==
    [][main.pc = "book" /\ main'.pc = "mark" => ~halted \/ clearing]_vars

(* A market whose recorded depth has fallen under half of its marker, with *)
(* nothing of it on its way to the strategy or the engine, is refused by   *)
(* the director from then on: no step changes its depths or its markers,   *)
(* or puts an update of it into the book.                                  *)
Locked(c) ==
    /\ LiquidityVanished(tracker[c])
    /\ inHand = NoUpdate \/ inHand.cond # c
    /\ \A i \in 1..Len(updates) : updates[i].cond # c
    /\ main.pc = "idle" \/ main.token[1] # c
    /\ \A i \in 1..Len(signals) : signals[i].cond # c
    /\ engine.pc # "marking" \/ engine.cond # c

LockoutIsPermanent ==
    [][\A c \in Condition :
         Locked(c) => Locked(c)' /\ book'[c] \in {book[c], NoUpdate}]_vars
-----------------------------------------------------------------------------
(* Statements of the repository that the code does not keep.               *)

(* "Create token data for YES and NO" (main.rs:537): the two legs of a     *)
(* signal are the YES and the NO token of its market.                      *)
LegsAreOpposite ==
    \A i \in 1..Len(signals) :
        LET sig == signals[i]
        IN  sig.yesToken = <<sig.cond, "YES">> /\ sig.noToken = <<sig.cond, "NO">>

(* "Prevent stale data execution" (hot_switchover.rs:132): no signal rests *)
(* on a price quoted before a halt.                                        *)
SignalsAreFresh == \A i \in 1..Len(signals) : signals[i].fresh
=============================================================================
