------------------------------- MODULE Sizing -------------------------------
(***************************************************************************)
(* When the strategy loop of src/src/main.rs calls a pair of prices an     *)
(* opportunity, and how many shares it then asks for.  Prices are in       *)
(* thousandths of a dollar (the market's finest tick), depths in whole     *)
(* shares; the code computes both with f64.                                *)
(***************************************************************************)
EXTENDS Integers

AtLeast(a, b) == IF a < b THEN b ELSE a
AtMost(a, b)  == IF a < b THEN a ELSE b
Abs(i)        == AtLeast(i, -i)

Edge(combined) == 980 - combined

(* The sweet-spot filter: in volatile markets the edge must be higher.     *)
Opportunity(yes, no) ==
    LET combined == yes + no
        highVol  == Abs(yes - no) > 400 \/ combined > 950
    IN  /\ combined \in 850..(IF highVol THEN 970 ELSE 980)
        /\ Edge(combined) \in (IF highVol THEN 50 ELSE 35)..60

BaseShares(edge) ==
    CASE edge >= 250 -> 50
      [] edge \in 200..249 -> 40
      [] edge \in 150..199 -> 30
      [] OTHER -> 20

(* Mutant: the floor is applied before the depth is.                       *)
Shares_DepthLast(combined, depth) ==
    AtMost(AtMost(AtLeast(BaseShares(Edge(combined)), 10), (depth * 80) \div 100),
           AtLeast(100000 \div combined, 10))

(* By edge, within 80% of the depth, at least ten, at most 100 dollars.    *)
Shares(combined, depth) ==
    AtMost(AtLeast(AtMost(BaseShares(Edge(combined)), (depth * 80) \div 100), 10),
           AtLeast(100000 \div combined, 10))
-----------------------------------------------------------------------------
(* What an order that passed the filters and a depth of at least ten       *)
(* shares comes to: between ten shares and the depth, a profit after the   *)
(* 2% fee, and never more than twenty shares, since the edges that would   *)
(* earn thirty to fifty are outside the filter, and the 100-dollar cap     *)
(* never binds (main.rs:293-413).                                          *)
OrderSound(yes, no, depth) ==
    Opportunity(yes, no) =>
        LET combined == yes + no
            shares   == Shares(combined, depth)
        IN  /\ shares \in 10..depth
            /\ shares \in {10, 20} \/ (shares < 20 /\ shares = (depth * 80) \div 100)
            /\ 102 * combined * shares < 100000 * shares
=============================================================================
