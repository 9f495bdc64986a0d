------------------------------ MODULE FastBook ------------------------------
(***************************************************************************)
(* The order book and the trading director of                              *)
(* src/src/hot_path_optimized.rs: events come through a bounded channel,   *)
(* the director drains it and looks at the best prices once for all it has *)
(* drained.  A side is a list of levels in order of arrival.  Who sends is *)
(* external, and so is a send into a full channel, which waits.            *)
(***************************************************************************)
EXTENDS Integers, Sequences, SequencesExt, FiniteSetsExt

CONSTANTS LevelPrice, LevelSize, \* of an event; a size of zero ends a level
          BookCapacity,          \* FastOrderBook.capacity
          MaxPending,            \* capacity of the channel
          MaxEvents              \* bound: events sent

ASSUME FastBookAssumption ==
    /\ LevelPrice \subseteq Nat /\ LevelSize \subseteq Nat
    /\ BookCapacity \in Nat /\ MaxPending \in Nat \ {0} /\ MaxEvents \in Nat

BookSide   == {"bids", "asks"}
PolymarketEvent == [side : BookSide, price : LevelPrice, size : LevelSize]

VARIABLES
    levels,   \* FastOrderBook: side -> sequence of <<price, size>>
    pendingEvents, \* the channel
    changed,  \* state_changed of the director's turn
    best,     \* the prices last evaluated, <<>> for none
    sent,     \* how many events were sent
    latest,   \* history: side -> price -> size of its last event applied
    refused   \* history: side -> prices whose last event found no room

fastVars == <<levels, pendingEvents, changed, best, sent, latest, refused>>

FastInit ==
    /\ levels = [s \in BookSide |-> <<>>]
    /\ pendingEvents = <<>> /\ changed = FALSE /\ best = <<>> /\ sent = 0
    /\ latest = [s \in BookSide |-> [p \in LevelPrice |-> 0]]
    /\ refused = [s \in BookSide |-> {}]
-----------------------------------------------------------------------------
SendEvent(e) ==
    /\ sent < MaxEvents /\ Len(pendingEvents) < MaxPending
    /\ pendingEvents' = Append(pendingEvents, e)
    /\ sent' = sent + 1
    /\ UNCHANGED <<levels, changed, best, latest, refused>>

At(side, p) == {i \in DOMAIN side : side[i][1] = p}

(* Mutant: a level that ends stays with its last size.                     *)
UpdateSide_Keep(side, e) ==
    IF At(side, e.price) # {}
    THEN LET i == Min(At(side, e.price))
         IN  IF e.size = 0 THEN side ELSE [side EXCEPT ![i] = <<e.price, e.size>>]
    ELSE IF e.size > 0 /\ Len(side) < BookCapacity
         THEN Append(side, <<e.price, e.size>>) ELSE side

(* The first level of the price is changed or removed; a new price is      *)
(* appended while there is room.                                           *)
UpdateSide(side, e) ==
    IF At(side, e.price) # {}
    THEN LET i == Min(At(side, e.price))
         IN  IF e.size = 0 THEN RemoveAt(side, i) ELSE [side EXCEPT ![i] = <<e.price, e.size>>]
    ELSE IF e.size > 0 /\ Len(side) < BookCapacity
         THEN Append(side, <<e.price, e.size>>) ELSE side

Prices(side) == {side[i][1] : i \in DOMAIN side}

(* The director takes the next event of its turn.                          *)
TakeEvent ==
    /\ pendingEvents # <<>>
    /\ LET e == Head(pendingEvents)
       IN  /\ levels' = [levels EXCEPT ![e.side] = UpdateSide(@, e)]
           /\ latest' = [latest EXCEPT ![e.side][e.price] = e.size]
           /\ refused' = [refused EXCEPT ![e.side] =
                             IF /\ e.size > 0 /\ e.price \notin Prices(levels[e.side])
                                /\ Len(levels[e.side]) >= BookCapacity
                             THEN @ \cup {e.price} ELSE @ \ {e.price}]
    /\ pendingEvents' = Tail(pendingEvents)
    /\ changed' = TRUE
    /\ UNCHANGED <<best, sent>>

(* Nothing is left: with both sides there, the best prices are evaluated.  *)
Evaluate ==
    /\ pendingEvents = <<>> /\ changed
    /\ best' = IF \A s \in BookSide : levels[s] # <<>>
               THEN <<Max(Prices(levels["bids"])), Min(Prices(levels["asks"]))>>
               ELSE best
    /\ changed' = FALSE
    /\ UNCHANGED <<levels, pendingEvents, sent, latest, refused>>

FastNext == (\E e \in PolymarketEvent : SendEvent(e)) \/ TakeEvent \/ Evaluate

FastSpec == FastInit /\ [][FastNext]_fastVars
-----------------------------------------------------------------------------
(* However events for a price follow each other, and whatever room there   *)
(* is, a price is on a side at most once, with the size of its last event, *)
(* and only a price that found no room is missing                          *)
(* (hot_path_optimized.rs:120-139).                                        *)
BookFollowsEvents ==
    \A s \in BookSide :
        /\ \A i \in DOMAIN levels[s] : /\ levels[s][i][2] = latest[s][levels[s][i][1]]
                                       /\ levels[s][i][2] > 0
                                       /\ At(levels[s], levels[s][i][1]) = {i}
        /\ \A p \in LevelPrice \ Prices(levels[s]) : latest[s][p] = 0 \/ p \in refused[s]
=============================================================================
