-------------------------------- MODULE Hedge --------------------------------
(***************************************************************************)
(* The bookkeeping of maker/taker pairs: the listener of the user stream   *)
(* (src/src/user_ws.rs), the stop-loss timers (src/src/stop_loss.rs) and   *)
(* the merge worker (src/src/merge_worker.rs), tasks on one pool of        *)
(* threads that share ExecutionState.pending_hedges (src/src/state.rs) and *)
(* a bounded channel.                                                      *)
(*                                                                         *)
(* The listener sends to the channel with the write guard of a hedge's     *)
(* map shard in its hands.  When the channel is full it is suspended and   *)
(* the shard stays locked; a timer that looks up a hedge of that shard     *)
(* blocks the thread it runs on.                                           *)
(*                                                                         *)
(* The executor that places the orders and records the hedges, and the     *)
(* exchange, are not part of the source: actions marked external.          *)
(***************************************************************************)
EXTENDS Naturals, FiniteSets, Sequences

CONSTANTS Hedge,    \* pending_hedges' possible keys, each used once
          NoHedge,
          Shard,    \* the map shard a key hashes to
          Threads,  \* worker threads of the runtime
          Capacity, \* of the merge channel
          MaxTold   \* bound: how often the stream reports each leg as mined

Leg == {"maker", "taker"}

ASSUME HedgeAssumption ==
    /\ NoHedge \notin Hedge
    /\ IsFiniteSet(Hedge)
    /\ Threads \in Nat \ {0} /\ Capacity \in Nat \ {0}
    /\ MaxTold \in [Leg -> Nat]

VARIABLES
    chain,     \* exchange: the legs of each hedge that are mined
    told,      \* exchange: how often each leg was reported as mined
    stream,    \* MINED events under way to the listener
    listening, \* the user stream is open and its task runs
    mined,     \* HedgeContext.maker_mined and taker_mined
    handler,   \* the hedge the suspended listener holds, or NoHedge
    timer,     \* the stop-loss timer of each hedge
    queue,     \* the merge channel
    worker,    \* the task the merge worker delays, or NoHedge
    merged     \* how often a merge of each hedge was sent

chainVars == <<chain, told>>
hedgeVars == <<chainVars, stream, listening, mined, handler, timer, queue, worker, merged>>

HedgeInit ==
    /\ chain = [h \in Hedge |-> {}]
    /\ told = [h \in Hedge |-> [leg \in Leg |-> 0]]
    /\ stream = <<>>
    /\ listening = TRUE
    /\ mined = [h \in Hedge |-> {}]
    /\ handler = NoHedge
    /\ timer = [h \in Hedge |-> "off"]
    /\ queue = <<>>
    /\ worker = NoHedge
    /\ merged = [h \in Hedge |-> 0]

(* The shard of h is locked by the suspended listener.                     *)
Held(h) == handler # NoHedge /\ Shard[handler] = Shard[h]

(* Some thread is left to run a task that is ready.                        *)
ThreadFree == Cardinality({h \in Hedge : timer[h] = "blocked"}) < Threads

Pending(h) == timer[h] # "off"
-----------------------------------------------------------------------------
(* External: a maker order is matched, its taker order placed, and the     *)
(* executor records the hedge and starts its timer.                        *)
Record(h) ==
    /\ ~Pending(h) /\ ~Held(h)
    /\ timer' = [timer EXCEPT ![h] = "armed"]
    /\ UNCHANGED <<chainVars, stream, listening, mined, handler, queue, worker, merged>>

(* External: a leg is mined, in either order, or reported as mined once    *)
(* more.  The listener keeps no trace of the events it has handled.        *)
Mine(h, leg) ==
    /\ Pending(h) /\ told[h][leg] < MaxTold[leg]
    /\ chain' = [chain EXCEPT ![h] = @ \cup {leg}]
    /\ told' = [told EXCEPT ![h][leg] = @ + 1]
    /\ stream' = IF listening THEN Append(stream, <<h, leg>>) ELSE stream
    /\ UNCHANGED <<listening, mined, handler, timer, queue, worker, merged>>

(* The stream closes or fails, and the task returns for good.              *)
CloseStream ==
    /\ listening /\ handler = NoHedge
    /\ listening' = FALSE /\ stream' = <<>>
    /\ UNCHANGED <<chainVars, mined, handler, timer, queue, worker, merged>>
-----------------------------------------------------------------------------
(* The listener takes the next MINED event.                                *)
NextMined(h, leg) ==
    /\ listening /\ handler = NoHedge /\ ThreadFree
    /\ stream # <<>> /\ Head(stream) = <<h, leg>>
    /\ stream' = Tail(stream)
    /\ mined' = [mined EXCEPT ![h] = @ \cup {leg}]
    /\ UNCHANGED <<chainVars, listening, timer, worker, merged>>

(* Only the maker's flag is set; nothing is looked up.                     *)
HandleMakerMined(h) ==
    /\ NextMined(h, "maker")
    /\ UNCHANGED <<handler, queue>>

(* A task is sent at once when the channel has room; otherwise the         *)
(* listener is suspended, guard in hand.                                   *)
SendTask(h) ==
    IF Len(queue) < Capacity
    THEN queue' = Append(queue, h) /\ handler' = NoHedge
    ELSE queue' = queue            /\ handler' = h

(* Mutant: the maker's flag is not asked for.                              *)
HandleTakerMined_Alone(h) ==
    /\ NextMined(h, "taker")
    /\ SendTask(h)

(* With both flags set the listener goes on to send.                       *)
HandleTakerMined(h) ==
    /\ NextMined(h, "taker")
    /\ IF mined'[h] = Leg THEN SendTask(h) ELSE UNCHANGED <<handler, queue>>

(* Mutant: the suspended listener gives up waiting for room.               *)
QueueMerge_GivesUp ==
    /\ handler # NoHedge /\ ThreadFree
    /\ queue' = IF Len(queue) < Capacity THEN Append(queue, handler) ELSE queue
    /\ handler' = NoHedge
    /\ UNCHANGED <<chainVars, stream, listening, mined, timer, worker, merged>>

(* The channel has room again: the task is sent and the guard released.    *)
QueueMerge ==
    /\ handler # NoHedge /\ ThreadFree
    /\ Len(queue) < Capacity
    /\ queue' = Append(queue, handler)
    /\ handler' = NoHedge
    /\ UNCHANGED <<chainVars, stream, listening, mined, timer, worker, merged>>

Listener == \/ \E h \in Hedge : HandleMakerMined(h) \/ HandleTakerMined(h)
            \/ QueueMerge
-----------------------------------------------------------------------------
(* Three seconds are over and the timer looks up its hedge, for which it   *)
(* needs the shard.  It finds the whole taker size remaining, since no     *)
(* code lowers it, so the FAK order is sent, filled or not.                *)
TimerDue(h) ==
    /\ timer[h] = "armed" /\ ThreadFree
    /\ timer' = [timer EXCEPT ![h] = IF Held(h) THEN "blocked" ELSE "fired"]
    /\ UNCHANGED <<chainVars, stream, listening, mined, handler, queue, worker, merged>>

(* A blocked timer gets the shard; it needs no thread but its own.         *)
TimerUnblocks(h) ==
    /\ timer[h] = "blocked" /\ ~Held(h)
    /\ timer' = [timer EXCEPT ![h] = "fired"]
    /\ UNCHANGED <<chainVars, stream, listening, mined, handler, queue, worker, merged>>

Timer(h) == TimerDue(h) \/ TimerUnblocks(h)

(* Mutant: the worker looks up the hedge of the task it takes.             *)
WorkerTake_LooksUp ==
    /\ worker = NoHedge /\ queue # <<>> /\ ThreadFree
    /\ ~Held(Head(queue))
    /\ worker' = Head(queue)
    /\ queue' = Tail(queue)
    /\ UNCHANGED <<chainVars, stream, listening, mined, handler, timer, merged>>

(* The worker takes a task and waits for the relayer's rate limit.         *)
WorkerTake ==
    /\ worker = NoHedge /\ queue # <<>> /\ ThreadFree
    /\ worker' = Head(queue)
    /\ queue' = Tail(queue)
    /\ UNCHANGED <<chainVars, stream, listening, mined, handler, timer, merged>>

(* Mutant: a merge that failed is retried though it had gone through.      *)
WorkerMerge_Retry ==
    /\ worker # NoHedge /\ ThreadFree
    /\ merged' = [merged EXCEPT ![worker] = @ + 1]
    /\ worker' \in IF merged[worker] = 0 THEN {worker, NoHedge} ELSE {NoHedge}
    /\ UNCHANGED <<chainVars, stream, listening, mined, handler, timer, queue>>

(* The merge is sent, whatever has become of the hedge meanwhile; it is    *)
(* not retried.                                                            *)
WorkerMerge ==
    /\ worker # NoHedge /\ ThreadFree
    /\ merged' = [merged EXCEPT ![worker] = @ + 1]
    /\ worker' = NoHedge
    /\ UNCHANGED <<chainVars, stream, listening, mined, handler, timer, queue>>

Worker == WorkerTake \/ WorkerMerge

HedgeNext ==
    \/ \E h \in Hedge : Record(h) \/ \E leg \in Leg : Mine(h, leg)
    \/ CloseStream
    \/ Listener
    \/ \E h \in Hedge : Timer(h)
    \/ Worker

HedgeSpec == HedgeInit /\ [][HedgeNext]_hedgeVars

(* The runtime runs every task that can run; the lock of a shard and the   *)
(* channel wake those that wait for them.  The exchange, the executor and  *)
(* the stream owe nothing.                                                 *)
HedgeFairSpec == HedgeSpec /\ WF_hedgeVars(Listener) /\ WF_hedgeVars(Worker)
                 /\ \A h \in Hedge : WF_hedgeVars(Timer(h))
-----------------------------------------------------------------------------
HedgeTypeOK ==
    /\ chain \in [Hedge -> SUBSET Leg]
    /\ told \in [Hedge -> [Leg -> Nat]]
    /\ stream \in Seq(Hedge \X Leg)
    /\ listening \in BOOLEAN
    /\ mined \in [Hedge -> SUBSET Leg]
    /\ handler \in Hedge \cup {NoHedge}
    /\ timer \in [Hedge -> {"off", "armed", "blocked", "fired"}]
    /\ queue \in Seq(Hedge) /\ Len(queue) <= Capacity
    /\ worker \in Hedge \cup {NoHedge}
    /\ merged \in [Hedge -> Nat]

Count(s, e) == Cardinality({i \in DOMAIN s : s[i] = e})

(* The merges of h that are asked for, wherever they are on their way.     *)
Asked(h) ==
    merged[h] + Count(queue, h)
      + (IF handler = h THEN 1 ELSE 0) + (IF worker = h THEN 1 ELSE 0)

(* A merge is asked for only of a pair both legs of which are on the       *)
(* chain, so the relayer is never asked to burn what one leg alone cannot  *)
(* cover, however events, channel and worker are delayed                   *)
(* (user_ws.rs:101-118).                                                   *)
MergeSound == \A h \in Hedge : Asked(h) > 0 => chain[h] = Leg

(* Every merge answers a MINED event of the taker of its own: no stage     *)
(* between the stream and the relayer doubles one (user_ws.rs:101-118,     *)
(* merge_worker.rs:35-77).  A taker that is reported twice is merged twice *)
(* all the same.                                                           *)
MergesAnswerEvents ==
    \A h \in Hedge : Asked(h) + Count(stream, <<h, "taker">>) <= told[h]["taker"]

(* The merges on their way, the one that comes next first: the worker has  *)
(* what it took, and the listener what it has not sent yet.                *)
IfAny(h) == IF h = NoHedge THEN <<>> ELSE <<h>>
Due == IfAny(worker) \o queue \o IfAny(handler)

Merges == INSTANCE PairMerges WITH Pair <- Hedge, legs <- chain, due <- Due, burnt <- merged

(* The listener, the bounded channel and the worker together are one queue *)
(* of merges: none is lost on a full channel or doubled on its way, and    *)
(* none overtakes another (user_ws.rs:101-118, merge_worker.rs:35-77).     *)
ImplementsPairMerges == Merges!PairSpec

(* All threads are held by timers that wait for the shard of the suspended *)
(* listener, which has no thread left to give it back.                     *)
LockedUp == Cardinality({h \in Hedge : timer[h] = "blocked" /\ Held(h)}) >= Threads

(* The listener, suspended on a full channel with a shard locked, gets on  *)
(* and every merge asked for so far is sent, unless timers have taken all  *)
(* threads: nothing the worker needs is behind the lock                    *)
(* (user_ws.rs:107-117, merge_worker.rs:35-77).                            *)
SendCompletes ==
    \A h \in Hedge, n \in 1..MaxTold["taker"] :
        (handler = h /\ Asked(h) = n) ~> (merged[h] >= n \/ LockedUp)

(* Every stop-loss timer comes to its decision, those too whose look-up    *)
(* meets the locked shard, unless they have taken all threads              *)
(* (stop_loss.rs:34-59).                                                   *)
TimersDecide == \A h \in Hedge : Pending(h) ~> (timer[h] = "fired" \/ LockedUp)
-----------------------------------------------------------------------------
(* Statements of the repository that the code does not keep.               *)

(* "If both legs mined, queue for CTF merge" (user_ws.rs:111): while the   *)
(* stream stays open, a pair with both legs mined comes to be merged.      *)
MinedPairsMerge ==
    \A h \in Hedge : (chain[h] = Leg /\ listening) ~> (merged[h] > 0 \/ ~listening)

(* "If the Taker leg doesn't fill within 3 seconds, execute a FAK order"   *)
(* (stop_loss.rs:16): every timer comes to its decision.                   *)
StopLossExecutes == \A h \in Hedge : Pending(h) ~> timer[h] = "fired"
=============================================================================
