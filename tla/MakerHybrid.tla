----------------------------- MODULE MakerHybrid -----------------------------
(***************************************************************************)
(* The maker strategy of src/src/maker_hybrid.rs: an opportunity is judged *)
(* by its prices, the inventory is asked whether the maker order may be    *)
(* posted, and the fill is recorded when it comes, which is later.  No     *)
(* code of the program makes the calls; the makers are external, and may   *)
(* also ask for sizes of their own.  One market is modelled.  Prices are   *)
(* in cents, shares in tenths, fees in millionths of a dollar.             *)
(***************************************************************************)
EXTENDS Integers, FiniteSets

CONSTANTS Maker,      \* callers, each with one order at a time
          MakerPrice, \* prices of either side
          Depth,      \* depths, in tenths of a share
          OwnSize,    \* sizes a caller asks for by itself, at most 10 shares
          SkewPercent,\* max_skew_ratio
          MinEdge,    \* min_edge, in hundredths of a percent
          MaxPosition \* bound: tenths of shares held of one side

ASSUME MakerAssumption ==
    /\ IsFiniteSet(Maker) /\ Maker # {}
    /\ MakerPrice \subseteq Nat \ {0} /\ Depth \subseteq Nat
    /\ OwnSize \subseteq 1..100 /\ OwnSize # {}
    /\ SkewPercent \in 0..100 /\ MinEdge \in Nat /\ MaxPosition \in Nat

VARIABLES
    inventory, \* yes_positions and no_positions, each under a lock of its own
    making     \* caller -> its order between check and fill, size zero for none

makerVars == <<inventory, making>>

NoOrder == [side |-> "yes", size |-> 0]

MakerInit ==
    /\ inventory = [yes |-> 0, no |-> 0]
    /\ making = [c \in Maker |-> NoOrder]
-----------------------------------------------------------------------------
(* The fee of a probability of yes/combined, at least a cent.              *)
calculate_dynamic_fee(yes, combined) ==
    LET variance == (10000 * yes * (combined - yes)) \div (combined * combined)
        fee      == (variance * variance) \div 400
    IN  IF fee > 10000 THEN fee ELSE 10000

(* Less depth is more volatile.                                            *)
identify_volatile_side(yesDepth, noDepth) == IF yesDepth < noDepth THEN "yes" ELSE "no"

(* An extreme probability, enough edge, and no more than 98 cents.         *)
Worthwhile(yes, no) ==
    LET combined == yes + no
    IN  /\ ~(10 * yes > 3 * combined /\ 10 * yes < 7 * combined)
        /\ 1000000 - 10000 * combined - calculate_dynamic_fee(yes, combined)
             >= MinEdge * combined
        /\ combined <= 98

(* A tenth of the depth, between ten and a hundred shares.                 *)
MakerSize(depth) ==
    LET tenth == depth \div 10
    IN  IF tenth > 1000 THEN 1000 ELSE IF tenth < 100 THEN 100 ELSE tenth

evaluate_maker_opportunity(yes, no, yesDepth, noDepth) ==
    LET side == identify_volatile_side(yesDepth, noDepth)
    IN  IF Worthwhile(yes, no)
        THEN {[side |-> side, size |-> MakerSize(IF side = "yes" THEN yesDepth ELSE noDepth)]}
        ELSE {}
-----------------------------------------------------------------------------
Distance(i) == IF i.yes > i.no THEN i.yes - i.no ELSE i.no - i.yes

WithFill(i, o) == [i EXCEPT ![o.side] = @ + o.size]

(* Mutant: the order itself is not counted.                                *)
can_post_maker_Before(i, o) ==
    i.yes + i.no < 100 \/ 100 * Distance(i) <= SkewPercent * (i.yes + i.no)

(* Under ten shares anything goes; otherwise the skew is bounded.          *)
can_post_maker(i, o) ==
    LET j == WithFill(i, o)
    IN  j.yes + j.no < 100 \/ 100 * Distance(j) <= SkewPercent * (j.yes + j.no)

(* Both locks are held while the inventory is looked at, and given back    *)
(* before the order is posted.                                             *)
Post(c, o) ==
    /\ making[c] = NoOrder
    /\ can_post_maker(inventory, o)
    /\ inventory[o.side] + o.size <= MaxPosition
    /\ making' = [making EXCEPT ![c] = o]
    /\ UNCHANGED inventory

PostOwn(c) == \E s \in {"yes", "no"}, z \in OwnSize : Post(c, [side |-> s, size |-> z])

PostSignal(c) ==
    \E yes, no \in MakerPrice, yd, nd \in Depth :
        \E o \in evaluate_maker_opportunity(yes, no, yd, nd) : Post(c, o)

record_fill(c) ==
    /\ making[c] # NoOrder
    /\ inventory' = WithFill(inventory, making[c])
    /\ making' = [making EXCEPT ![c] = NoOrder]

(* The order is not filled, and no one has to be told.                     *)
Withdraw(c) ==
    /\ making[c] # NoOrder
    /\ making' = [making EXCEPT ![c] = NoOrder]
    /\ UNCHANGED inventory

MakerNext == \E c \in Maker : PostOwn(c) \/ PostSignal(c) \/ record_fill(c) \/ Withdraw(c)

MakerSpec == MakerInit /\ [][MakerNext]_makerVars
-----------------------------------------------------------------------------
(* The inventory is checked when an order is posted and changed when it is *)
(* filled, with no lock over both.  Whatever is filled in between, the     *)
(* skew exceeds its ratio by no more than one order of each of the other   *)
(* makers, as does the size under which it is not looked at                *)
(* (maker_hybrid.rs:73-108).                                               *)
SkewOvershoot ==
    LET total == inventory.yes + inventory.no
        sizes == OwnSize \cup {MakerSize(d) : d \in Depth}
        most  == CHOOSE z \in sizes : \A y \in sizes : y <= z
        slack == most * (Cardinality(Maker) - 1)
    IN  \/ total < 100 + slack
        \/ 100 * Distance(inventory) <= SkewPercent * total + 100 * slack
=============================================================================
