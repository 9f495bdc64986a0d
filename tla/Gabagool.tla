------------------------------ MODULE Gabagool ------------------------------
(***************************************************************************)
(* The position and the signals of src/src/gabagool_strategy.rs.  An order *)
(* is locked into the shares in flight and its result updates the          *)
(* position; a strategy evaluates prices in between and reads the position *)
(* twice while it does.  The program makes the strategy and calls none of  *)
(* this yet: who places orders is external.  Prices are in thousandths.    *)
(***************************************************************************)
EXTENDS Integers

CONSTANTS QuotedPrice,  \* prices the strategy is asked about
          OrderShares,  \* sizes of orders
          MaxImbalance, \* max_position_imbalance
          TopUpMin,     \* top_up_min_shares
          MaxOrders     \* bound: orders over the run

ASSUME GabagoolAssumption ==
    /\ QuotedPrice \subseteq Nat /\ OrderShares \subseteq Nat \ {0}
    /\ MaxImbalance \in Nat /\ TopUpMin \in Nat /\ MaxOrders \in Nat

Sides == {"Yes", "No"}

VARIABLES
    shares,    \* Position: yes_shares, no_shares
    inFlight,  \* Position: in_flight_yes, in_flight_no
    waiting,   \* history: shares ordered that have no result yet
    orders,    \* how many orders went out
    evaluated, \* the imbalance evaluate_prices read for its top-up check, or -1
    signal     \* what evaluate_prices returned last

gabagoolVars == <<shares, inFlight, waiting, orders, evaluated, signal>>

GabagoolInit ==
    /\ shares = [s \in Sides |-> 0] /\ inFlight = [s \in Sides |-> 0]
    /\ waiting = [s \in Sides |-> 0] /\ orders = 0
    /\ evaluated = -1
    /\ signal = "None"
-----------------------------------------------------------------------------
Magnitude(i) == IF i < 0 THEN -i ELSE i

imbalance == Magnitude(shares["Yes"] + inFlight["Yes"] - (shares["No"] + inFlight["No"]))

can_trade(n) == imbalance + n <= MaxImbalance

(* An order within the limit is locked when it goes out.                   *)
lock_position(s, n) ==
    /\ orders < MaxOrders /\ can_trade(n)
    /\ orders' = orders + 1
    /\ inFlight' = [inFlight EXCEPT ![s] = @ + n]
    /\ waiting' = [waiting EXCEPT ![s] = @ + n]
    /\ UNCHANGED <<shares, evaluated, signal>>

(* A fill adds the shares and leaves them in flight.                       *)
Fill(s, n) ==
    /\ shares' = [shares EXCEPT ![s] = @ + n]
    /\ UNCHANGED inFlight

(* Mutant: the last result of a side clears all that is in flight.         *)
Unfilled_Clears(s, n) == inFlight' = [inFlight EXCEPT ![s] = 0]

(* What is not filled is taken out of flight, down to nothing.             *)
Unfilled(s, n) == inFlight' = [inFlight EXCEPT ![s] = IF @ > n THEN @ - n ELSE 0]

(* The result of an order, or of a part of one.                            *)
update_position(s, n, filled) ==
    /\ n <= waiting[s]
    /\ waiting' = [waiting EXCEPT ![s] = @ - n]
    /\ IF filled THEN Fill(s, n)
       ELSE Unfilled(s, n) /\ UNCHANGED shares
    /\ UNCHANGED <<orders, evaluated, signal>>
-----------------------------------------------------------------------------
(* The confidence of the bet, any value, reaches the threshold or not.     *)
calculate_confidence == BOOLEAN

(* The branches of evaluate_prices in their order.                         *)
Kind(yes, no, confident) ==
    LET combined == yes + no
        edge     == 1000 - combined
    IN  IF yes = 0 \/ no = 0 \/ combined > 1020 THEN "None"
        ELSE IF combined <= 999                 THEN "Arbitrage"
        ELSE IF edge >= 50 /\ combined <= 1100  THEN "Taker"
        ELSE IF confident /\ edge >= 2          THEN "Directional"
        ELSE "TopUp"

(* Everything up to the top-up check, with the imbalance read on the way.  *)
evaluate_prices(yes, no) ==
    /\ evaluated = -1
    /\ \E confident \in calculate_confidence :
          LET k == Kind(yes, no, confident)
          IN  IF k = "TopUp"
              THEN evaluated' = imbalance /\ UNCHANGED signal
              ELSE signal' = k /\ UNCHANGED evaluated
    /\ UNCHANGED <<shares, inFlight, waiting, orders>>

(* The top-up check judges the side by a second reading of the position,   *)
(* of which it takes the shares and not what is in flight.                 *)
TopUp ==
    /\ evaluated >= 0
    /\ signal' = IF evaluated <= TopUpMin THEN "None"
                 ELSE IF shares["Yes"] > shares["No"] THEN "TopUpNo" ELSE "TopUpYes"
    /\ evaluated' = -1
    /\ UNCHANGED <<shares, inFlight, waiting, orders>>

GabagoolNext ==
    \/ \E s \in Sides, n \in OrderShares :
          \/ lock_position(s, n)
          \/ \E filled \in BOOLEAN : update_position(s, n, filled)
    \/ \E yes, no \in QuotedPrice : evaluate_prices(yes, no)
    \/ TopUp

GabagoolSpec == GabagoolInit /\ [][GabagoolNext]_gabagoolVars
-----------------------------------------------------------------------------
(* An order without a result is in flight, whatever results of other       *)
(* orders came before, so that the imbalance that can_trade and the top-up *)
(* look at never overlooks one that may still be filled                    *)
(* (gabagool_strategy.rs:101, 358-383).                                    *)
WaitingInFlight == \A s \in Sides : inFlight[s] >= waiting[s]

(* How the position and the signals come out in full: a share stays in     *)
(* flight when it is filled, and counts twice from then on; and no signal  *)
(* but an arbitrage or a top-up ever comes out, since an edge that the     *)
(* other branches ask for is an arbitrage before it gets to them           *)
(* (gabagool_strategy.rs:291, 303, 316, 362).                              *)
FillsCountTwice ==
    /\ \A s \in Sides : inFlight[s] = waiting[s] + shares[s]
    /\ signal \in {"None", "Arbitrage", "TopUpYes", "TopUpNo"}
=============================================================================
