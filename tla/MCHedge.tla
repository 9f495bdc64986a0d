------------------------------- MODULE MCHedge -------------------------------
(* Instances of Hedge for TLC: all hedges hash to one shard of the map,    *)
(* and a taker may be reported twice.                                      *)
EXTENDS Hedge

OneShard   == [h \in Hedge |-> 1]
TakerTwice == [leg \in Leg |-> IF leg = "taker" THEN 2 ELSE 1]
=============================================================================
