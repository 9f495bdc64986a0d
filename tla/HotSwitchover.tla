---------------------------- MODULE HotSwitchover ----------------------------
(***************************************************************************)
(* src/src/hot_switchover.rs: the two WebSocket tasks                      *)
(* (maintain_ws_connection), the event channel they share, and the trading *)
(* director (start_trading_director) that decides which feed to believe,   *)
(* keeps the local book, and forwards accepted updates to the strategy     *)
(* loop.  The market refresh task of main.rs replaces the token mapping    *)
(* underneath them.                                                        *)
(*                                                                         *)
(* One step is one event of a task that others can observe.  The director  *)
(* takes an accepted update in two steps, because the strategy loop and    *)
(* the trading loop, on other threads, see the book written and the depth  *)
(* tracker not yet; and it halts in two steps, because they see trading    *)
(* paused and the book not yet cleared.                                    *)
(***************************************************************************)
EXTENDS Naturals, Sequences, OrderBookTracker

CONSTANTS Condition,             \* condition ids (markets)
          Price, Size,           \* values of the price and size fields
          NoUpdate,              \* absence of an update
          MaxReconnectAttempts,  \* MAX_RECONNECT_ATTEMPTS
          MaxEvents,             \* bound: the code's event channel is unbounded
          MaxUpdates             \* bound: so is the channel to the strategy

Source == {"Primary", "Backup"}
Token  == Condition \X Side
Update == [cond : Condition, side : Side, price : Price, size : Size]

(* An entry of the book, kept with the feed it came from.  The code does   *)
(* not record that; only the refinement looks at it.                       *)
Entry == [src : Source, upd : Update]

ASSUME SwitchoverAssumption ==
    /\ NoUpdate \notin Update
    /\ Size \subseteq Nat
    /\ MaxReconnectAttempts \in Nat
    /\ MaxEvents \in Nat \ {0}
    /\ MaxUpdates \in Nat \ {0}

VARIABLES
    ws,         \* per task: is its stream open
    attempt,    \* per task: failed attempts since the last connect
    events,     \* the channel from both tasks to the director
    active,     \* the director's primary_active and backup_active
    riskPaused, \* AppState.risk_paused
    clearing,   \* the director is in halt_trading, the book not yet cleared
    orderbook,  \* AppState.orderbook, last update per condition
    tokenSide,  \* AppState.token_side: the tokens it knows
    tracker,    \* AppState.tracker
    inHand,     \* the update the director is in the middle of accepting
    updates     \* the channel from the director to the strategy loop

connVars   == <<ws, attempt>>
dirVars    == <<active, riskPaused, clearing, orderbook>>
switchVars == <<ws, attempt, events, active, riskPaused, clearing, orderbook,
                tokenSide, tracker, inHand, updates>>

(* WsEvent *)
Connected(s)    == [kind |-> "Connected", src |-> s, upd |-> NoUpdate]
Disconnected(s) == [kind |-> "Disconnected", src |-> s, upd |-> NoUpdate]
Updated(s, u)   == [kind |-> "Update", src |-> s, upd |-> u]

Event ==
    [kind : {"Connected", "Disconnected"}, src : Source, upd : {NoUpdate}]
        \cup [kind : {"Update"}, src : Source, upd : Update]

EmptyOrderbook == [c \in Condition |-> NoUpdate]

SwitchInit ==
    /\ ws = [s \in Source |-> "down"]
    /\ attempt = [s \in Source |-> 0]
    /\ events = <<>>
    /\ active = [s \in Source |-> FALSE]
    /\ riskPaused = TRUE
    /\ clearing = FALSE
    /\ orderbook = EmptyOrderbook
    /\ tokenSide = Token
    /\ tracker = [c \in Condition |-> EmptyMarket]
    /\ inHand = NoUpdate
    /\ updates = <<>>
-----------------------------------------------------------------------------
(* The WebSocket tasks.                                                    *)

Send(e) == /\ Len(events) < MaxEvents
           /\ events' = Append(events, e)

(* The counter keeps growing in the code; only whether it is past the      *)
(* limit is kept.                                                          *)
CountFailure(s) ==
    attempt' = [attempt EXCEPT ![s] = IF @ > MaxReconnectAttempts THEN @ ELSE @ + 1]

Connect(s) ==
    /\ ws[s] = "down"
    /\ Send(Connected(s))
    /\ ws' = [ws EXCEPT ![s] = "up"]
    /\ attempt' = [attempt EXCEPT ![s] = 0]
    /\ UNCHANGED <<dirVars, tokenSide, tracker, inHand, updates>>

(* connect_async fails.  The task announces a disconnect all the same and  *)
(* backs off, whatever the number of attempts.                             *)
ConnectFail(s) ==
    /\ ws[s] = "down"
    /\ Send(Disconnected(s))
    /\ CountFailure(s)
    /\ UNCHANGED <<ws, dirVars, tokenSide, tracker, inHand, updates>>

(* Mutant: the read half of a stream outlives the end of the connection.   *)
StreamUpdate_AfterClose(s, u) ==
    /\ Send(Updated(s, u))
    /\ UNCHANGED <<connVars, dirVars, tokenSide, tracker, inHand, updates>>

(* A text message arrives; one with several changes is several steps.      *)
StreamUpdate(s, u) ==
    /\ ws[s] = "up"
    /\ Send(Updated(s, u))
    /\ UNCHANGED <<connVars, dirVars, tokenSide, tracker, inHand, updates>>

(* Mutant: the end of a stream is not announced.                           *)
Drop_Silent(s) ==
    /\ ws[s] = "up"
    /\ ws' = [ws EXCEPT ![s] = "down"]
    /\ CountFailure(s)
    /\ UNCHANGED <<events, dirVars, tokenSide, tracker, inHand, updates>>

(* The stream ends: a close frame, an error, or the end of the stream.     *)
Drop(s) ==
    /\ ws[s] = "up"
    /\ Send(Disconnected(s))
    /\ ws' = [ws EXCEPT ![s] = "down"]
    /\ CountFailure(s)
    /\ UNCHANGED <<dirVars, tokenSide, tracker, inHand, updates>>
-----------------------------------------------------------------------------
(* The trading director.                                                   *)

(* Mutant: a halt keeps the book.                                          *)
HaltTrading_KeepBook == riskPaused' = TRUE /\ UNCHANGED <<clearing, orderbook>>

(* halt_trading sets the flag first and takes the lock of the book after.  *)
HaltTrading   == riskPaused' = TRUE /\ clearing' = TRUE /\ UNCHANGED orderbook
ResumeTrading == riskPaused' = FALSE /\ UNCHANGED <<clearing, orderbook>>

ClearOrderbook ==
    /\ clearing
    /\ orderbook' = EmptyOrderbook
    /\ clearing' = FALSE
    /\ UNCHANGED <<connVars, events, active, riskPaused, tokenSide, tracker,
                   inHand, updates>>

Recv(kind) == /\ inHand = NoUpdate /\ ~clearing
              /\ events # <<>>
              /\ Head(events).kind = kind
              /\ events' = Tail(events)

OnConnected ==
    LET s == Head(events).src IN
    /\ Recv("Connected")
    /\ active' = [active EXCEPT ![s] = TRUE]
    /\ IF s = "Primary" THEN ResumeTrading ELSE UNCHANGED <<riskPaused, clearing, orderbook>>
    /\ UNCHANGED <<connVars, tokenSide, tracker, inHand, updates>>

(* Mutant: whichever feed is lost, trading halts.                          *)
OnDisconnected_HaltAlways ==
    /\ Recv("Disconnected")
    /\ active' = [active EXCEPT ![Head(events).src] = FALSE]
    /\ HaltTrading
    /\ UNCHANGED <<connVars, tokenSide, tracker, inHand, updates>>

(* Mutant: only the loss of the primary is recorded.                       *)
OnDisconnected_PrimaryOnly ==
    LET s == Head(events).src IN
    /\ Recv("Disconnected")
    /\ active' = [active EXCEPT !["Primary"] = @ /\ s # "Primary"]
    /\ IF s = "Primary" /\ ~active["Backup"]
       THEN HaltTrading
       ELSE UNCHANGED <<riskPaused, clearing, orderbook>>
    /\ UNCHANGED <<connVars, tokenSide, tracker, inHand, updates>>

OnDisconnected ==
    LET s == Head(events).src IN
    /\ Recv("Disconnected")
    /\ active' = [active EXCEPT ![s] = FALSE]
    /\ IF s = "Primary" /\ ~active["Backup"]
       THEN HaltTrading
       ELSE UNCHANGED <<riskPaused, clearing, orderbook>>
    /\ UNCHANGED <<connVars, tokenSide, tracker, inHand, updates>>

(* Mutant: backup updates are taken whatever the primary does.             *)
Ignored_BothFeeds(e) == riskPaused \/ LiquidityVanished(tracker[e.upd.cond])

(* The three early `continue`s of the Update arm, in the code's order.     *)
Ignored(e) ==
    \/ e.src = "Backup" /\ active["Primary"]
    \/ riskPaused
    \/ LiquidityVanished(tracker[e.upd.cond])

OnUpdateIgnored ==
    /\ Recv("Update")
    /\ Ignored(Head(events))
    /\ UNCHANGED <<connVars, dirVars, tokenSide, tracker, inHand, updates>>

OnUpdateAccepted ==
    LET u == Head(events).upd IN
    /\ Recv("Update")
    /\ ~Ignored(Head(events))
    /\ orderbook' = [orderbook EXCEPT ![u.cond] = [src |-> Head(events).src, upd |-> u]]
    /\ inHand' = u
    /\ UNCHANGED <<connVars, active, riskPaused, clearing, tokenSide, tracker, updates>>

(* The rest of the arm: the depth goes to the side the token mapping gives *)
(* (to none if the token is unknown), and the strategy loop gets the       *)
(* update in either case.                                                  *)
ForwardUpdate ==
    /\ inHand # NoUpdate
    /\ Len(updates) < MaxUpdates
    /\ tracker' =
         IF <<inHand.cond, inHand.side>> \in tokenSide
         THEN [tracker EXCEPT ![inHand.cond] = TrackerUpdate(@, inHand.side, inHand.size)]
         ELSE tracker
    /\ updates' = Append(updates, inHand)
    /\ inHand' = NoUpdate
    /\ UNCHANGED <<connVars, events, dirVars, tokenSide>>

Director == \/ OnConnected \/ OnDisconnected \/ ClearOrderbook
            \/ OnUpdateIgnored \/ OnUpdateAccepted \/ ForwardUpdate
-----------------------------------------------------------------------------
(* The periodic refresh of main.rs replaces the whole mapping by what the  *)
(* market list of that moment names.                                       *)
MarketRefresh(ts) ==
    /\ tokenSide' = ts
    /\ UNCHANGED <<connVars, events, dirVars, tracker, inHand, updates>>

(* What the strategy loop does to the state above: it takes an update, and *)
(* it marks the start of a queue for a market.                             *)
StrategyTake ==
    /\ updates # <<>>
    /\ updates' = Tail(updates)
    /\ UNCHANGED <<connVars, events, dirVars, tokenSide, tracker, inHand>>

StrategyMark(c) ==
    /\ tracker' = [tracker EXCEPT ![c] = MarkQueueStart(@)]
    /\ UNCHANGED <<connVars, events, dirVars, tokenSide, inHand, updates>>

Feeds == \E s \in Source :
             \/ Connect(s) \/ ConnectFail(s) \/ Drop(s)
             \/ \E u \in Update : StreamUpdate(s, u)

SwitchNext ==
    \/ Feeds
    \/ Director
    \/ \E ts \in SUBSET Token : MarketRefresh(ts)
    \/ StrategyTake
    \/ \E c \in Condition : StrategyMark(c)

SwitchSpec == SwitchInit /\ [][SwitchNext]_switchVars

(* Both consumers are loops on `recv().await`; a task that is down always  *)
(* tries again after its back-off.  When a feed speaks, whether a connect  *)
(* succeeds and when a stream ends is the network's choice.                *)
Fairness ==
    /\ WF_switchVars(Director)
    /\ WF_switchVars(StrategyTake)
    /\ \A s \in Source : WF_switchVars(Connect(s) \/ ConnectFail(s))

SwitchFairSpec == SwitchSpec /\ Fairness
-----------------------------------------------------------------------------
SwitchTypeOK ==
    /\ ws \in [Source -> {"up", "down"}]
    /\ attempt \in [Source -> 0..(MaxReconnectAttempts + 1)]
    /\ events \in Seq(Event)
    /\ Len(events) <= MaxEvents
    /\ active \in [Source -> BOOLEAN]
    /\ riskPaused \in BOOLEAN /\ clearing \in BOOLEAN
    /\ orderbook \in [Condition -> Entry \cup {NoUpdate}]
    /\ tokenSide \subseteq Token
    /\ tracker \in [Condition -> MarketPrices]
    /\ inHand \in Update \cup {NoUpdate}
    /\ updates \in Seq(Update)
    /\ Len(updates) <= MaxUpdates

(* Is source s live just before the i-th pending event of q, when the      *)
(* director now believes b of it?  The last connection event of s among    *)
(* the first i-1 decides; when there is none, b does.                      *)
LiveIn(q, b, s, i) ==
    \/ \E j \in 1..(i-1) :
          /\ q[j] = Connected(s)
          /\ \A k \in (j+1)..(i-1) : q[k] # Disconnected(s)
    \/ /\ b
       /\ \A k \in 1..(i-1) : q[k] # Disconnected(s)

LiveBefore(s, i) == LiveIn(events, active[s], s, i)

(* What the director believes, once it has worked off the events that are  *)
(* on their way, is the true state of each connection: no interleaving of  *)
(* the two tasks on the shared channel loses or reorders a transition.     *)
ViewCatchesUp ==
    \A s \in Source : LiveBefore(s, Len(events) + 1) <=> ws[s] = "up"

(* No update outlives its connection in the channel: when the director     *)
(* comes to an update, it believes the connection that sent it to be up.   *)
UpdatesComeFromLiveFeed ==
    \A i \in 1..Len(events) :
        events[i].kind = "Update" => LiveBefore(events[i].src, i)

(* While trading is halted there is no book entry to trade on ("Prevent    *)
(* stale data execution") and none about to be written, except between the *)
(* two steps of the halt itself, when the old entries are still there      *)
(* (hot_switchover.rs:129-134).                                            *)
HaltedBookEmpty ==
    /\ clearing => riskPaused
    /\ riskPaused => inHand = NoUpdate /\ (clearing \/ orderbook = EmptyOrderbook)

(* While the director holds the primary for live, trading is open.         *)
PrimaryOpensTrading == active["Primary"] => ~riskPaused

(* The promise of FeedSelector, under the mapping that forgets channels,   *)
(* connections, depths and the forwarding step: above all, each entry of   *)
(* the book was put there by the feed that was in charge                   *)
(* (hot_switchover.rs:757-778).                                            *)
Selector == INSTANCE FeedSelector WITH
    Offer  <- [s \in Source |-> [src : {s}, upd : Update]],
    live   <- {s \in Source : active[s]},
    halted <- riskPaused,
    book   <- orderbook

ImplementsFeedSelector == Selector!FeedSpec

(* A primary that stays connected gets trading resumed for good.           *)
StablePrimaryResumes == <>[](ws["Primary"] = "up") => <>[]~riskPaused

(* Once the connections stop changing, the director's two flags agree with *)
(* them for good: failover and failback both complete.                     *)
Stable(s, st) == <>[](ws[s] = st)
BeliefConverges ==
    \A s \in Source : /\ Stable(s, "up")   => <>[]active[s]
                      /\ Stable(s, "down") => <>[]~active[s]
-----------------------------------------------------------------------------
(* Statements of the repository that the code does not keep.               *)

(* "Halt all trading - call on disconnect" (hot_switchover.rs:129): with   *)
(* neither feed believed up, trading is halted.                            *)
BothDownHalted == (\A s \in Source : ~active[s]) => riskPaused
=============================================================================
