----------------------------- MODULE PairMerges -----------------------------
(***************************************************************************)
(* What the hedge bookkeeping promises of merges: only a pair with both    *)
(* legs on the chain is taken on, none that was taken on is lost, and they *)
(* are burnt in the order in which they were taken on.  It does not        *)
(* promise that a pair is taken on once.  Where a pair waits meanwhile is  *)
(* not part of the promise.                                                *)
(***************************************************************************)
EXTENDS Naturals, Sequences

CONSTANT Pair

VARIABLES legs,   \* the legs of each pair that are mined
          due,    \* the pairs taken on and not yet burnt, oldest first
          burnt   \* how often each pair was burnt

pairVars == <<legs, due, burnt>>

BothLegs == {"maker", "taker"}

PairInit == /\ legs = [p \in Pair |-> {}]
            /\ due = <<>>
            /\ burnt = [p \in Pair |-> 0]

LegMined(p, leg) ==
    /\ legs' = [legs EXCEPT ![p] = @ \cup {leg}]
    /\ UNCHANGED <<due, burnt>>

TakenOn(p) ==
    /\ legs[p] = BothLegs
    /\ due' = Append(due, p)
    /\ UNCHANGED <<legs, burnt>>

Burn == /\ due # <<>>
        /\ burnt' = [burnt EXCEPT ![Head(due)] = @ + 1]
        /\ due' = Tail(due)
        /\ UNCHANGED legs

PairNext == \/ \E p \in Pair : TakenOn(p) \/ \E leg \in BothLegs : LegMined(p, leg)
            \/ Burn

PairSpec == PairInit /\ [][PairNext]_pairVars
=============================================================================
