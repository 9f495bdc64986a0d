----------------------------- MODULE MCRollover -----------------------------
(* Rollover for TLC: one asset with both of its periods, around a moment   *)
(* at which either of them ends.                                           *)
EXTENDS Rollover

CONSTANT btc \* an asset

OneAsset    == <<btc>>
BothPeriods == <<300, 900>>
AnyPhase    == 700..709
=============================================================================
