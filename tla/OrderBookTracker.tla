-------------------------- MODULE OrderBookTracker --------------------------
(***************************************************************************)
(* The per-market record of src/src/orderbook.rs and the operations of the *)
(* shared DashMap of them.  A missing map entry behaves in every operation *)
(* exactly as the record `or_insert_with` creates, so a tracker is a total *)
(* function from conditions to MarketPrices.                               *)
(*                                                                         *)
(* The asks and the timestamp of the record are read by log lines only and *)
(* are left out; depths are natural numbers instead of f64.                *)
(***************************************************************************)
EXTENDS Integers

Side == {"YES", "NO"}

(* `None` of the two queue_start_* options; the code always sets both.     *)
NoMark == -1

MarketPrices == [depth : [Side -> Nat], start : [Side -> Nat \cup {NoMark}]]

(* MarketPrices::new *)
EmptyMarket == [depth |-> [s \in Side |-> 0], start |-> [s \in Side |-> NoMark]]

(* `update`: only the side with a positive size is overwritten, so a level *)
(* that is removed (size 0) leaves the recorded depth as it was.           *)
TrackerUpdate(m, side, size) ==
    IF size > 0 THEN [m EXCEPT !.depth[side] = size] ELSE m

(* `mark_queue_start`: the current depths become the baseline.             *)
MarkQueueStart(m) == [m EXCEPT !.start = m.depth]

(* `init_market`: both depths are overwritten, the markers are kept.       *)
InitMarket(m, yesDepth, noDepth) ==
    [m EXCEPT !.depth = [s \in Side |-> IF s = "YES" THEN yesDepth ELSE noDepth]]

(* `liquidity_vanished_during_queue`: less than half of the baseline is    *)
(* left on either side.                                                    *)
LiquidityVanished(m) ==
    /\ \A s \in Side : m.start[s] # NoMark
    /\ \E s \in Side : 2 * m.depth[s] < m.start[s]
=============================================================================
