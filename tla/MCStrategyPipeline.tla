------------------------- MODULE MCStrategyPipeline -------------------------
(* StrategyPipeline for TLC, in three parts that an initial state chooses  *)
(* between.  The clock and the market list stop in the first two.  Only    *)
(* "failover" has a backup, only "trades" has books of every depth, and    *)
(* "window" has the clock, the market list and one depth.                  *)
EXTENDS StrategyPipeline

VARIABLE part

AllOrNone == {Token, {}}

Live   == [failover |-> {"Primary", "Backup"}, trades |-> {"Primary"}, window |-> {"Primary"}]
Depths == [failover |-> {5, 12}, trades |-> Size, window |-> {12}]

Quoted(p) == {u \in Update : u.size \in Depths[p]} \cup {NoUpdate}

PartInit == Init /\ part \in DOMAIN Live

PartNext ==
    /\ Next
    /\ part # "window" => now' = 0 /\ tokenSide' = Token
    /\ live' \subseteq Live[part] /\ inHand' \in Quoted(part)
    /\ part' = part

PartSpec == PartInit /\ [][PartNext]_<<part, vars>>
=============================================================================
