------------------------- MODULE HotSwitchoverProofs -------------------------
(***************************************************************************)
(* Proofs about HotSwitchover, for every set of markets, prices and sizes  *)
(* and every bound on the channels.                                        *)
(***************************************************************************)
EXTENDS HotSwitchover, TLAPS

LEMMA EmptyMarketType == EmptyMarket \in MarketPrices
  BY DEF EmptyMarket, MarketPrices, NoMark

LEMMA TrackerUpdateType ==
  ASSUME NEW m \in MarketPrices, NEW s \in Side, NEW n \in Nat
  PROVE  TrackerUpdate(m, s, n) \in MarketPrices
  BY DEF TrackerUpdate, MarketPrices, NoMark

LEMMA MarkQueueStartType ==
  ASSUME NEW m \in MarketPrices
  PROVE  MarkQueueStart(m) \in MarketPrices
  BY DEF MarkQueueStart, MarketPrices, NoMark

LEMMA EventType ==
  ASSUME NEW s \in Source
  PROVE  /\ Connected(s) \in Event /\ Disconnected(s) \in Event
         /\ \A u \in Update : Updated(s, u) \in Event
  BY DEF Connected, Disconnected, Updated, Event

(* Every variable keeps its type.                                          *)
THEOREM SwitchTypeCorrect == SwitchSpec => []SwitchTypeOK
<1>1. SwitchInit => SwitchTypeOK
  <2> SUFFICES ASSUME SwitchInit PROVE SwitchTypeOK
    OBVIOUS
  <2>1. /\ events \in Seq(Event) /\ Len(events) <= MaxEvents
        /\ updates \in Seq(Update) /\ Len(updates) <= MaxUpdates
    BY SwitchoverAssumption DEF SwitchInit
  <2>2. /\ tracker \in [Condition -> MarketPrices]
        /\ orderbook \in [Condition -> Entry \cup {NoUpdate}]
        /\ attempt \in [Source -> 0..(MaxReconnectAttempts + 1)]
    BY EmptyMarketType, SwitchoverAssumption DEF SwitchInit, EmptyOrderbook
  <2>3. QED
    BY <2>1, <2>2 DEF SwitchInit, SwitchTypeOK
<1>2. SwitchTypeOK /\ [SwitchNext]_switchVars => SwitchTypeOK'
  <2> SUFFICES ASSUME SwitchTypeOK, [SwitchNext]_switchVars PROVE SwitchTypeOK'
    OBVIOUS
  <2> USE DEF SwitchTypeOK
  <2>0. ASSUME NEW s \in Source, CountFailure(s)
        PROVE  attempt' \in [Source -> 0..(MaxReconnectAttempts + 1)]
    BY <2>0, SwitchoverAssumption DEF CountFailure
  <2>1. ASSUME NEW s \in Source, NEW e \in Event, Send(e)
        PROVE  events' \in Seq(Event) /\ Len(events') <= MaxEvents
    BY <2>1, SwitchoverAssumption DEF Send
  <2>2. ASSUME NEW s \in Source, Connect(s) PROVE SwitchTypeOK'
    BY <2>2, <2>1, EventType, SwitchoverAssumption DEF Connect, dirVars
  <2>3. ASSUME NEW s \in Source, ConnectFail(s) PROVE SwitchTypeOK'
    BY <2>3, <2>0, <2>1, EventType DEF ConnectFail, dirVars
  <2>4. ASSUME NEW s \in Source, NEW u \in Update, StreamUpdate(s, u) PROVE SwitchTypeOK'
    BY <2>4, <2>1, EventType DEF StreamUpdate, dirVars, connVars
  <2>5. ASSUME NEW s \in Source, Drop(s) PROVE SwitchTypeOK'
    BY <2>5, <2>0, <2>1, EventType DEF Drop, dirVars
  <2>6. ASSUME NEW k, Recv(k)
        PROVE  /\ events' \in Seq(Event) /\ Len(events') <= MaxEvents
               /\ Head(events) \in Event
    BY <2>6, SwitchoverAssumption DEF Recv
  <2>7. CASE OnConnected
    BY <2>7, <2>6 DEF OnConnected, ResumeTrading, connVars, Event
  <2>8. CASE OnDisconnected
    BY <2>8, <2>6 DEF OnDisconnected, HaltTrading, EmptyOrderbook, connVars, Event
  <2>8c. CASE ClearOrderbook
    BY <2>8c DEF ClearOrderbook, EmptyOrderbook, connVars
  <2>9. CASE OnUpdateIgnored
    BY <2>9, <2>6 DEF OnUpdateIgnored, connVars, dirVars
  <2>10. CASE OnUpdateAccepted
    <3> DEFINE e == Head(events)
    <3>1. e.upd \in Update /\ [src |-> e.src, upd |-> e.upd] \in Entry
      BY <2>10, <2>6, SwitchoverAssumption DEF OnUpdateAccepted, Recv, Event, Entry
    <3>2. orderbook' \in [Condition -> Entry \cup {NoUpdate}]
      BY <3>1, <2>10 DEF OnUpdateAccepted
    <3>3. QED
      BY <3>1, <3>2, <2>10, <2>6 DEF OnUpdateAccepted, connVars
  <2>11. CASE ForwardUpdate
    <3>1. inHand \in Update /\ inHand.cond \in Condition /\ inHand.side \in Side
          /\ inHand.size \in Nat
      BY <2>11, SwitchoverAssumption DEF ForwardUpdate, Update
    <3>2. tracker' \in [Condition -> MarketPrices]
      BY <3>1, <2>11, TrackerUpdateType DEF ForwardUpdate
    <3>3. updates' \in Seq(Update) /\ Len(updates') <= MaxUpdates
      BY <3>1, <2>11, SwitchoverAssumption DEF ForwardUpdate
    <3>4. QED
      BY <3>2, <3>3, <2>11 DEF ForwardUpdate, connVars, dirVars
  <2>12. ASSUME NEW ts \in SUBSET Token, MarketRefresh(ts) PROVE SwitchTypeOK'
    BY <2>12 DEF MarketRefresh, connVars, dirVars
  <2>13. CASE StrategyTake
    BY <2>13, SwitchoverAssumption DEF StrategyTake, connVars, dirVars
  <2>14. ASSUME NEW c \in Condition, StrategyMark(c) PROVE SwitchTypeOK'
    BY <2>14, MarkQueueStartType DEF StrategyMark, connVars, dirVars
  <2>15. CASE UNCHANGED switchVars
    BY <2>15 DEF switchVars
  <2>16. QED
    BY <2>2, <2>3, <2>4, <2>5, <2>7, <2>8, <2>8c, <2>9, <2>10, <2>11, <2>12,
       <2>13, <2>14, <2>15 DEF SwitchNext, Feeds, Director
<1>3. QED
  BY <1>1, <1>2, PTL DEF SwitchSpec
-----------------------------------------------------------------------------
(* How the belief a queue leads to changes when the queue grows at its end *)
(* or loses its head.                                                      *)

LEMMA EventsDiffer ==
  ASSUME NEW s \in Source, NEW t \in Source
  PROVE  /\ Connected(s) # Disconnected(t)
         /\ Connected(s) = Connected(t) => s = t
         /\ Disconnected(s) = Disconnected(t) => s = t
         /\ \A u \in Update : /\ Updated(s, u) # Connected(t)
                             /\ Updated(s, u) # Disconnected(t)
  BY DEF Connected, Disconnected, Updated

LEMMA LiveInPrefix ==
  ASSUME NEW q \in Seq(Event), NEW e \in Event, NEW b \in BOOLEAN,
         NEW s \in Source, NEW i \in 1..(Len(q) + 1)
  PROVE  LiveIn(Append(q, e), b, s, i) <=> LiveIn(q, b, s, i)
<1>1. \A k \in 1..(i-1) : Append(q, e)[k] = q[k]
  OBVIOUS
<1>2. \A j \in 1..(i-1) : \A k \in (j+1)..(i-1) : Append(q, e)[k] = q[k]
  BY <1>1
<1>3. QED
  BY <1>1, <1>2 DEF LiveIn

LEMMA LiveInAppend ==
  ASSUME NEW q \in Seq(Event), NEW e \in Event, NEW b \in BOOLEAN,
         NEW s \in Source
  PROVE  LiveIn(Append(q, e), b, s, Len(q) + 2)
           <=> \/ e = Connected(s)
               \/ LiveIn(q, b, s, Len(q) + 1) /\ e # Disconnected(s)
<1> DEFINE n == Len(q)
           r == Append(q, e)
<1>1. /\ n \in Nat /\ r[n+1] = e
      /\ \A k \in 1..n : r[k] = q[k]
  OBVIOUS
<1>2. ASSUME LiveIn(r, b, s, n + 2), e # Connected(s)
      PROVE  LiveIn(q, b, s, n + 1) /\ e # Disconnected(s)
  <2>1. CASE \E j \in 1..(n+1) : /\ r[j] = Connected(s)
                                /\ \A k \in (j+1)..(n+1) : r[k] # Disconnected(s)
    <3>1. PICK j \in 1..(n+1) : /\ r[j] = Connected(s)
                               /\ \A k \in (j+1)..(n+1) : r[k] # Disconnected(s)
      BY <2>1
    <3>2. j \in 1..n
      BY <1>1, <1>2, <3>1
    <3>3. QED
      BY <1>1, <3>1, <3>2 DEF LiveIn
  <2>2. CASE b /\ \A k \in 1..(n+1) : r[k] # Disconnected(s)
    BY <1>1, <2>2 DEF LiveIn
  <2>3. QED
    BY <1>1, <1>2, <2>1, <2>2 DEF LiveIn
<1>3. ASSUME e = Connected(s) PROVE LiveIn(r, b, s, n + 2)
  BY <1>1, <1>3 DEF LiveIn
<1>4. ASSUME LiveIn(q, b, s, n + 1), e # Disconnected(s)
      PROVE  LiveIn(r, b, s, n + 2)
  <2>1. \A k \in 1..(n+1) : k \in 1..n \/ r[k] = e
    BY <1>1
  <2>2. CASE \E j \in 1..n : /\ q[j] = Connected(s)
                            /\ \A k \in (j+1)..n : q[k] # Disconnected(s)
    BY <1>1, <1>4, <2>1, <2>2 DEF LiveIn
  <2>3. CASE b /\ \A k \in 1..n : q[k] # Disconnected(s)
    BY <1>1, <1>4, <2>1, <2>3 DEF LiveIn
  <2>4. QED
    BY <1>1, <1>4, <2>2, <2>3 DEF LiveIn
<1>5. QED
  BY <1>2, <1>3, <1>4

(* What the director believes of s after taking event e.                   *)
Belief(e, b, s) == e = Connected(s) \/ (b /\ e # Disconnected(s))

LEMMA LiveInTail ==
  ASSUME NEW q \in Seq(Event), q # <<>>, NEW b \in BOOLEAN,
         NEW s \in Source, NEW i \in 1..Len(q)
  PROVE  LiveIn(Tail(q), Belief(Head(q), b, s), s, i) <=> LiveIn(q, b, s, i + 1)
<1> DEFINE t == Tail(q)
           b2 == Belief(Head(q), b, s)
<1>1. /\ Len(q) \in Nat \ {0} /\ Head(q) = q[1]
      /\ \A k \in 1..(Len(q) - 1) : t[k] = q[k+1]
  OBVIOUS
<1>2. \A k \in 1..(i-1) : t[k] = q[k+1]
  BY <1>1
<1>2b. \A k \in 2..i : q[k] = t[k-1] /\ k-1 \in 1..(i-1)
  BY <1>1
<1>3. ASSUME LiveIn(t, b2, s, i) PROVE LiveIn(q, b, s, i + 1)
  <2>1. CASE \E j \in 1..(i-1) : /\ t[j] = Connected(s)
                                /\ \A k \in (j+1)..(i-1) : t[k] # Disconnected(s)
    <3>1. PICK j \in 1..(i-1) : /\ t[j] = Connected(s)
                               /\ \A k \in (j+1)..(i-1) : t[k] # Disconnected(s)
      BY <2>1
    <3>2. j + 1 \in 1..i /\ q[j+1] = Connected(s)
      BY <1>2, <3>1
    <3>3. ASSUME NEW k \in (j+2)..i PROVE q[k] # Disconnected(s)
      <4>1. k \in 2..i /\ k-1 \in (j+1)..(i-1)
        BY <3>1
      <4>2. QED
        BY <1>2b, <3>1, <4>1
    <3>4. QED
      BY <3>2, <3>3 DEF LiveIn
  <2>2. CASE b2 /\ \A k \in 1..(i-1) : t[k] # Disconnected(s)
    <3>1. \A k \in 2..i : q[k] # Disconnected(s)
      BY <1>2b, <2>2
    <3>2. CASE q[1] = Connected(s)
      BY <3>1, <3>2 DEF LiveIn
    <3>3. CASE b /\ q[1] # Disconnected(s)
      BY <3>1, <3>3 DEF LiveIn
    <3>4. QED
      BY <1>1, <2>2, <3>2, <3>3 DEF Belief
  <2>3. QED
    BY <1>3, <2>1, <2>2 DEF LiveIn
<1>4. ASSUME LiveIn(q, b, s, i + 1) PROVE LiveIn(t, b2, s, i)
  <2>1. CASE \E j \in 1..i : /\ q[j] = Connected(s)
                            /\ \A k \in (j+1)..i : q[k] # Disconnected(s)
    <3>1. PICK j \in 1..i : /\ q[j] = Connected(s)
                           /\ \A k \in (j+1)..i : q[k] # Disconnected(s)
      BY <2>1
    <3>2. CASE j = 1
      <4>1. b2 /\ \A k \in 1..(i-1) : t[k] # Disconnected(s)
        BY <1>1, <1>2, <3>1, <3>2 DEF Belief
      <4>2. QED
        BY <4>1 DEF LiveIn
    <3>3. CASE j # 1
      <4>1. j - 1 \in 1..(i-1) /\ t[j-1] = Connected(s)
        BY <1>2b, <3>1, <3>3
      <4>2. \A k \in ((j-1)+1)..(i-1) : t[k] # Disconnected(s)
        BY <1>2, <3>1, <3>3
      <4>3. QED
        BY <4>1, <4>2 DEF LiveIn
    <3>4. QED
      BY <3>2, <3>3
  <2>2. CASE b /\ \A k \in 1..i : q[k] # Disconnected(s)
    <3>1. b2 /\ \A k \in 1..(i-1) : t[k] # Disconnected(s)
      BY <1>1, <1>2, <2>2 DEF Belief
    <3>2. QED
      BY <3>1 DEF LiveIn
  <2>3. QED
    BY <1>4, <2>1, <2>2 DEF LiveIn
<1>5. QED
  BY <1>3, <1>4
-----------------------------------------------------------------------------
(* The director's view of the connections.                                 *)

ViewInv == ViewCatchesUp /\ UpdatesComeFromLiveFeed

(* Appending event e of source s keeps the view right, provided e reports  *)
(* the state the connection then is in.                                    *)
LEMMA SendKeepsView ==
  ASSUME SwitchTypeOK, ViewInv, NEW s \in Source, NEW e \in Event,
         e.src = s, Send(e), UNCHANGED active, ws' \in [Source -> {"up", "down"}],
         \A r \in Source : r # s => ws'[r] = ws[r],
         \/ e = Connected(s) /\ ws'[s] = "up"
         \/ e = Disconnected(s) /\ ws'[s] = "down"
         \/ e.kind = "Update" /\ ws'[s] = ws[s] /\ ws[s] = "up"
  PROVE  ViewInv'
<1> USE DEF SwitchTypeOK
<1>1. /\ events' = Append(events, e) /\ Len(events') = Len(events) + 1
      /\ Len(events) \in Nat
      /\ \A i \in 1..Len(events) : events'[i] = events[i]
      /\ events'[Len(events) + 1] = e
  BY DEF Send
<1>2. ASSUME NEW r \in Source, NEW i \in 1..(Len(events) + 1)
      PROVE  LiveIn(events', active'[r], r, i) <=> LiveBefore(r, i)
  BY <1>1, LiveInPrefix DEF LiveBefore
<1>3. ASSUME NEW r \in Source
      PROVE  LiveIn(events', active'[r], r, Len(events') + 1)
               <=> \/ e = Connected(r)
                   \/ LiveBefore(r, Len(events) + 1) /\ e # Disconnected(r)
  <2>1. Len(events') + 1 = Len(events) + 2
    BY <1>1
  <2>2. active[r] \in BOOLEAN
    OBVIOUS
  <2>3. QED
    BY <1>1, <2>1, <2>2, LiveInAppend DEF LiveBefore
<1>4. ViewCatchesUp'
  <2> SUFFICES ASSUME NEW r \in Source
               PROVE  LiveIn(events', active'[r], r, Len(events') + 1) <=> ws'[r] = "up"
    BY DEF ViewCatchesUp, LiveBefore
  <2>1. LiveBefore(r, Len(events) + 1) <=> ws[r] = "up"
    BY DEF ViewInv, ViewCatchesUp
  <2>2. CASE r = s
    BY <1>3, <2>1, <2>2 DEF Connected, Disconnected
  <2>3. CASE r # s
    <3>1. e # Connected(r) /\ e # Disconnected(r)
      BY <2>3 DEF Connected, Disconnected
    <3>2. QED
      BY <1>3, <2>1, <2>3, <3>1
  <2>4. QED
    BY <2>2, <2>3
<1>5. UpdatesComeFromLiveFeed'
  <2> SUFFICES ASSUME NEW i \in 1..Len(events'), events'[i].kind = "Update"
               PROVE  LiveIn(events', active'[events'[i].src], events'[i].src, i)
    BY DEF UpdatesComeFromLiveFeed, LiveBefore
  <2>1. CASE i \in 1..Len(events)
    <3>1. events[i].src \in Source /\ i \in 1..(Len(events) + 1)
      <4>1. events[i] \in Event
        BY <2>1
      <4>2. QED
        BY <1>1, <2>1, <4>1 DEF Event
    <3>2. LiveBefore(events[i].src, i)
      BY <1>1, <2>1 DEF ViewInv, UpdatesComeFromLiveFeed
    <3>3. QED
      BY <1>1, <1>2, <2>1, <3>1, <3>2
  <2>2. CASE i = Len(events) + 1
    <3>1. e.kind = "Update" /\ ws[s] = "up"
      BY <1>1, <2>2 DEF Connected, Disconnected
    <3>2. LiveBefore(s, i) /\ i \in 1..(Len(events) + 1)
      BY <1>1, <2>2, <3>1 DEF ViewInv, ViewCatchesUp
    <3>3. QED
      BY <1>1, <1>2, <2>2, <3>2
  <2>3. QED
    BY <1>1, <2>1, <2>2
<1>6. QED
  BY <1>4, <1>5 DEF ViewInv

(* Taking the head of the channel keeps the view right, provided the flags *)
(* move as the event says.                                                 *)
LEMMA RecvKeepsView ==
  ASSUME SwitchTypeOK, ViewInv, events # <<>>, events' = Tail(events), UNCHANGED ws,
         active' \in [Source -> BOOLEAN],
         \A s \in Source : active'[s] = Belief(Head(events), active[s], s)
  PROVE  ViewInv'
<1> USE DEF SwitchTypeOK
<1>1. /\ Len(events) \in Nat \ {0} /\ Len(events') = Len(events) - 1
      /\ \A i \in 1..Len(events') : events'[i] = events[i+1]
  OBVIOUS
<1>2. ASSUME NEW s \in Source, NEW i \in 1..Len(events)
      PROVE  LiveIn(events', active'[s], s, i) <=> LiveBefore(s, i + 1)
  <2>1. active[s] \in BOOLEAN
    OBVIOUS
  <2>2. QED
    BY <2>1, LiveInTail DEF LiveBefore
<1>3. ViewCatchesUp'
  <2> SUFFICES ASSUME NEW s \in Source
               PROVE  LiveIn(events', active'[s], s, Len(events') + 1) <=> ws[s] = "up"
    BY DEF ViewCatchesUp, LiveBefore
  <2>1. Len(events') + 1 = Len(events) /\ Len(events) \in 1..Len(events)
    BY <1>1
  <2>2. QED
    BY <1>2, <2>1 DEF ViewInv, ViewCatchesUp
<1>4. UpdatesComeFromLiveFeed'
  <2> SUFFICES ASSUME NEW i \in 1..Len(events'), events'[i].kind = "Update"
               PROVE  LiveIn(events', active'[events'[i].src], events'[i].src, i)
    BY DEF UpdatesComeFromLiveFeed, LiveBefore
  <2>1. i \in 1..Len(events) /\ i + 1 \in 1..Len(events) /\ events'[i] = events[i+1]
    BY <1>1
  <2>2. events[i+1] \in Event /\ events[i+1].src \in Source
    <3>1. events[i+1] \in Event
      BY <2>1
    <3>2. QED
      BY <3>1 DEF Event
  <2>3. LiveBefore(events[i+1].src, i + 1)
    BY <2>1 DEF ViewInv, UpdatesComeFromLiveFeed
  <2>4. QED
    BY <1>2, <2>1, <2>2, <2>3
<1>5. QED
  BY <1>3, <1>4 DEF ViewInv

LEMMA ViewInit == SwitchInit => ViewInv
  BY DEF SwitchInit, ViewInv, ViewCatchesUp, UpdatesComeFromLiveFeed, LiveBefore, LiveIn

LEMMA ViewNext == SwitchTypeOK /\ ViewInv /\ [SwitchNext]_switchVars => ViewInv'
<1> SUFFICES ASSUME SwitchTypeOK, ViewInv, [SwitchNext]_switchVars PROVE ViewInv'
  OBVIOUS
<1>1. ASSUME NEW s \in Source, Connect(s) PROVE ViewInv'
  BY <1>1, EventType, SendKeepsView DEF Connect, Connected, dirVars, SwitchTypeOK
<1>2. ASSUME NEW s \in Source, ConnectFail(s) PROVE ViewInv'
  BY <1>2, EventType, SendKeepsView DEF ConnectFail, Disconnected, dirVars, SwitchTypeOK
<1>3. ASSUME NEW s \in Source, NEW u \in Update, StreamUpdate(s, u) PROVE ViewInv'
  BY <1>3, EventType, SendKeepsView
     DEF StreamUpdate, Updated, dirVars, connVars, SwitchTypeOK
<1>4. ASSUME NEW s \in Source, Drop(s) PROVE ViewInv'
  BY <1>4, EventType, SendKeepsView DEF Drop, Disconnected, dirVars, SwitchTypeOK
<1>5. ASSUME events # <<>> PROVE Head(events) \in Event
  BY <1>5 DEF SwitchTypeOK
<1>6. CASE OnConnected
  <2> DEFINE s == Head(events).src
  <2>1. /\ events # <<>> /\ events' = Tail(events) /\ UNCHANGED ws
        /\ active' = [active EXCEPT ![s] = TRUE]
    BY <1>6 DEF OnConnected, Recv, connVars
  <2>2. Head(events) = Connected(s) /\ s \in Source
    BY <1>5, <1>6 DEF OnConnected, Recv, Connected, Event
  <2>3. \A r \in Source : active'[r] = Belief(Head(events), active[r], r)
    BY <2>1, <2>2, EventsDiffer DEF Belief, SwitchTypeOK
  <2>4. active' \in [Source -> BOOLEAN]
    BY <2>1 DEF SwitchTypeOK
  <2>5. QED
    BY <2>1, <2>3, <2>4, RecvKeepsView
<1>7. CASE OnDisconnected
  <2> DEFINE s == Head(events).src
  <2>1. /\ events # <<>> /\ events' = Tail(events) /\ UNCHANGED ws
        /\ active' = [active EXCEPT ![s] = FALSE]
    BY <1>7 DEF OnDisconnected, Recv, connVars
  <2>2. Head(events) = Disconnected(s) /\ s \in Source
    BY <1>5, <1>7 DEF OnDisconnected, Recv, Disconnected, Event
  <2>3. \A r \in Source : active'[r] = Belief(Head(events), active[r], r)
    BY <2>1, <2>2, EventsDiffer DEF Belief, SwitchTypeOK
  <2>4. active' \in [Source -> BOOLEAN]
    BY <2>1 DEF SwitchTypeOK
  <2>5. QED
    BY <2>1, <2>3, <2>4, RecvKeepsView
<1>8. CASE OnUpdateIgnored
  BY <1>5, <1>8, RecvKeepsView
     DEF OnUpdateIgnored, Recv, Belief, Connected, Disconnected, connVars, dirVars, SwitchTypeOK
<1>9. CASE OnUpdateAccepted
  BY <1>5, <1>9, RecvKeepsView
     DEF OnUpdateAccepted, Recv, Belief, Connected, Disconnected, connVars, SwitchTypeOK
<1>10. ASSUME UNCHANGED <<ws, events, active>> PROVE ViewInv'
  BY <1>10 DEF ViewInv, ViewCatchesUp, UpdatesComeFromLiveFeed, LiveBefore
<1>11. CASE ForwardUpdate \/ ClearOrderbook
  BY <1>10, <1>11 DEF ForwardUpdate, ClearOrderbook, connVars, dirVars
<1>12. ASSUME NEW ts \in SUBSET Token, MarketRefresh(ts) PROVE ViewInv'
  BY <1>10, <1>12 DEF MarketRefresh, connVars, dirVars
<1>13. CASE StrategyTake
  BY <1>10, <1>13 DEF StrategyTake, connVars, dirVars
<1>14. ASSUME NEW c \in Condition, StrategyMark(c) PROVE ViewInv'
  BY <1>10, <1>14 DEF StrategyMark, connVars, dirVars
<1>15. CASE UNCHANGED switchVars
  BY <1>10, <1>15 DEF switchVars
<1>16. QED
  BY <1>1, <1>2, <1>3, <1>4, <1>6, <1>7, <1>8, <1>9, <1>11, <1>12, <1>13,
     <1>14, <1>15 DEF SwitchNext, Feeds, Director

LEMMA ViewHolds == SwitchSpec => []ViewInv
  BY SwitchTypeCorrect, ViewInit, ViewNext, PTL DEF SwitchSpec

(* The pending events lead the director to the true state of both          *)
(* connections, for any length of the channel and any markets              *)
(* (hot_switchover.rs:536-582, 711-840).                                   *)
THEOREM ViewCorrect == SwitchSpec => []ViewCatchesUp
  BY ViewHolds, PTL DEF ViewInv

(* When an update comes to be handled, the director holds its feed for     *)
(* live: no update is left behind the end of its connection                *)
(* (hot_switchover.rs:536-582).                                            *)
THEOREM UpdatesCorrect == SwitchSpec => []UpdatesComeFromLiveFeed
  BY ViewHolds, PTL DEF ViewInv
-----------------------------------------------------------------------------
(* Halting.                                                                *)

HaltInv == HaltedBookEmpty /\ PrimaryOpensTrading

LEMMA HaltInit == SwitchInit => HaltInv
  BY DEF SwitchInit, HaltInv, HaltedBookEmpty, PrimaryOpensTrading, EmptyOrderbook, Source

LEMMA HaltNext == SwitchTypeOK /\ HaltInv /\ [SwitchNext]_switchVars => HaltInv'
<1> SUFFICES ASSUME SwitchTypeOK, HaltInv, [SwitchNext]_switchVars PROVE HaltInv'
  OBVIOUS
<1> USE DEF HaltInv, HaltedBookEmpty, PrimaryOpensTrading
<1>1. ASSUME UNCHANGED <<active, riskPaused, clearing, orderbook>>,
             inHand' = NoUpdate \/ inHand' = inHand
      PROVE  HaltInv'
  BY <1>1 DEF EmptyOrderbook
<1>2. CASE Feeds
  BY <1>1, <1>2
     DEF Feeds, Connect, ConnectFail, StreamUpdate, Drop, dirVars
<1>3. ASSUME events # <<>> PROVE Head(events).src \in Source
  <2>1. Head(events) \in Event
    BY <1>3 DEF SwitchTypeOK
  <2>2. QED
    BY <2>1 DEF Event
<1>4. CASE OnConnected
  BY <1>3, <1>4 DEF OnConnected, Recv, ResumeTrading, SwitchTypeOK, Source, EmptyOrderbook
<1>5. CASE OnDisconnected
  BY <1>3, <1>5 DEF OnDisconnected, Recv, HaltTrading, SwitchTypeOK, Source, EmptyOrderbook
<1>5c. CASE ClearOrderbook
  BY <1>5c DEF ClearOrderbook, EmptyOrderbook
<1>6. CASE OnUpdateIgnored
  BY <1>1, <1>6 DEF OnUpdateIgnored, dirVars
<1>7. CASE OnUpdateAccepted
  BY <1>7 DEF OnUpdateAccepted, Recv, Ignored
<1>8. CASE ForwardUpdate
  BY <1>1, <1>8 DEF ForwardUpdate, dirVars
<1>9. CASE (\E ts \in SUBSET Token : MarketRefresh(ts)) \/ StrategyTake
             \/ (\E c \in Condition : StrategyMark(c))
  BY <1>1, <1>9 DEF MarketRefresh, StrategyTake, StrategyMark, dirVars
<1>10. CASE UNCHANGED switchVars
  BY <1>1, <1>10 DEF switchVars
<1>11. QED
  BY <1>2, <1>4, <1>5, <1>5c, <1>6, <1>7, <1>8, <1>9, <1>10 DEF SwitchNext, Director

(* While trading is halted no update is about to be written, and the book  *)
(* is empty but for the moment between the halt's two steps; and trading   *)
(* is never halted while the director holds the primary for live           *)
(* (hot_switchover.rs:129-140).                                            *)
THEOREM HaltCorrect == SwitchSpec => [](HaltedBookEmpty /\ PrimaryOpensTrading)
<1>1. SwitchSpec => []HaltInv
  BY SwitchTypeCorrect, HaltInit, HaltNext, PTL DEF SwitchSpec
<1>2. QED
  BY <1>1, PTL DEF HaltInv
-----------------------------------------------------------------------------
(* The director implements FeedSelector.                                   *)

LEMMA SelectorInit == SwitchInit => Selector!FeedInit
  BY DEF SwitchInit, Selector!FeedInit, Selector!EmptyBook, EmptyOrderbook

LEMMA SelectorNext ==
  ASSUME SwitchTypeOK, ViewInv, HaltInv, [SwitchNext]_switchVars
  PROVE  [Selector!FeedNext]_(Selector!feedVars)
<1> DEFINE live(a) == {s \in Source : a[s]}
           e == Head(events)
<1>1. ASSUME UNCHANGED <<active, riskPaused, clearing, orderbook>>
      PROVE  UNCHANGED Selector!feedVars
  BY <1>1 DEF Selector!feedVars
<1>2. CASE Feeds
  BY <1>1, <1>2 DEF Feeds, Connect, ConnectFail, StreamUpdate, Drop, dirVars
<1>3. ASSUME events # <<>> PROVE e \in Event /\ e.src \in Source
  <2>1. e \in Event
    BY <1>3 DEF SwitchTypeOK
  <2>2. QED
    BY <2>1 DEF Event
<1>4. Selector!Feed = Source
  BY DEF Selector!Feed, Source
<1>5. CASE OnConnected
  <2>0. PICK s \in Source : s = e.src
    BY <1>3, <1>5 DEF OnConnected, Recv
  <2>1. live(active') = live(active) \cup {s}
    BY <1>5, <2>0 DEF OnConnected, SwitchTypeOK
  <2>2. /\ riskPaused' = (riskPaused /\ s # "Primary")
        /\ UNCHANGED <<clearing, orderbook>> /\ ~clearing
    BY <1>5, <2>0 DEF OnConnected, Recv, ResumeTrading, SwitchTypeOK
  <2>3. Selector!FeedUp(s)
    BY <2>1, <2>2 DEF Selector!FeedUp
  <2>4. QED
    BY <1>4, <2>3 DEF Selector!FeedNext
<1>6. CASE OnDisconnected
  <2>0. PICK s \in Source : s = e.src
    BY <1>3, <1>6 DEF OnDisconnected, Recv
  <2>1. live(active') = live(active) \ {s}
    BY <1>6, <2>0 DEF OnDisconnected, SwitchTypeOK
  <2>2. active["Backup"] <=> "Backup" \in live(active)
    BY DEF Source
  <2>3. Selector!FeedDown(s)
    BY <1>6, <2>0, <2>1, <2>2
       DEF Selector!FeedDown, OnDisconnected, Recv, HaltTrading
  <2>4. QED
    BY <1>4, <2>3 DEF Selector!FeedNext
<1>6c. CASE ClearOrderbook
  <2>1. Selector!ClearBook
    BY <1>6c DEF ClearOrderbook, Selector!ClearBook, Selector!EmptyBook, EmptyOrderbook
  <2>2. QED
    BY <2>1 DEF Selector!FeedNext
<1>7. CASE OnUpdateIgnored
  BY <1>1, <1>7 DEF OnUpdateIgnored, dirVars
<1>8. CASE OnUpdateAccepted
  <2>1. /\ events # <<>> /\ e.kind = "Update" /\ ~Ignored(e)
        /\ orderbook' = [orderbook EXCEPT ![e.upd.cond] = [src |-> e.src, upd |-> e.upd]]
        /\ UNCHANGED <<active, riskPaused, clearing>>
    BY <1>8 DEF OnUpdateAccepted, Recv
  <2>2. e.src \in Source /\ e.upd \in Update /\ e.upd.cond \in Condition
    BY <1>3, <2>1 DEF Event, Update
  <2>3. active[e.src]
    <3>1. 1 \in 1..Len(events) /\ e = events[1]
      BY <2>1 DEF SwitchTypeOK
    <3>2. LiveBefore(e.src, 1)
      BY <2>1, <3>1 DEF ViewInv, UpdatesComeFromLiveFeed
    <3>3. QED
      BY <3>2 DEF LiveBefore, LiveIn
  <2>4. Selector!InCharge(e.src) /\ ~riskPaused
    BY <2>1, <2>2, <2>3 DEF Selector!InCharge, Ignored, Source
  <2>5. PICK s \in Source : s = e.src
    BY <2>2
  <2>6. PICK c \in Condition, u \in [src : {s}, upd : Update] :
             c = e.upd.cond /\ u = [src |-> e.src, upd |-> e.upd]
    BY <2>2, <2>5
  <2>7. Selector!Deliver(s, c, u)
    BY <2>1, <2>4, <2>5, <2>6 DEF Selector!Deliver
  <2>8. QED
    BY <1>4, <2>6, <2>7 DEF Selector!FeedNext
<1>9. CASE ForwardUpdate
  BY <1>1, <1>9 DEF ForwardUpdate, dirVars
<1>10. CASE (\E ts \in SUBSET Token : MarketRefresh(ts)) \/ StrategyTake
              \/ (\E c \in Condition : StrategyMark(c))
  BY <1>1, <1>10 DEF MarketRefresh, StrategyTake, StrategyMark, dirVars
<1>11. CASE UNCHANGED switchVars
  BY <1>1, <1>11 DEF switchVars
<1>12. QED
  BY <1>2, <1>5, <1>6, <1>6c, <1>7, <1>8, <1>9, <1>10, <1>11 DEF SwitchNext, Director

(* Every behaviour of the switchover is one FeedSelector allows: updates   *)
(* reach the book only from the feed in charge.                            *)
THEOREM Refinement == SwitchSpec => ImplementsFeedSelector
<1>1. SwitchSpec => []ViewInv
  BY SwitchTypeCorrect, ViewInit, ViewNext, PTL DEF SwitchSpec
<1>2. SwitchSpec => []HaltInv
  BY SwitchTypeCorrect, HaltInit, HaltNext, PTL DEF SwitchSpec
<1>3. QED
  BY SwitchTypeCorrect, <1>1, <1>2, SelectorInit, SelectorNext, PTL
     DEF SwitchSpec, ImplementsFeedSelector, Selector!FeedSpec
=============================================================================
