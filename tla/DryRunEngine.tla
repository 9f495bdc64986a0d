---------------------------- MODULE DryRunEngine ----------------------------
(***************************************************************************)
(* The simulated ladders of src/src/dry_run_engine.rs: traps are placed,   *)
(* trades of the market fill them, a full ladder on both sides merges, and *)
(* after a minute or on toxic flow they end.  Shares are in thousandths    *)
(* and prices in cents, so a cost is in hundred-thousandths of a dollar; a *)
(* quotient is rounded down.                                               *)
(***************************************************************************)
EXTENDS Integers, Sequences, FiniteSets, SequencesExt

CONSTANTS Slug,       \* markets
          TradePrice, \* prices of the market's trades, in cents
          TradeSize,  \* their sizes, in thousandths of a share
          Lifetime,   \* ticks in sixty seconds
          MaxTraps, MaxTrades, MaxAborts \* bounds

ASSUME DryRunAssumption ==
    /\ TradePrice \subseteq Nat /\ TradeSize \subseteq Nat
    /\ Lifetime \in Nat
    /\ MaxTraps \in Nat /\ MaxTrades \in Nat /\ MaxAborts \in Nat

VARIABLES
    simulated, \* positions: slug -> what is filled at which cost, and age
    metrics,   \* DryRunMetrics, without volume and running_pnl
    unbooked,  \* history: positions that ended and count in no metric
    trades     \* how many trades were looked at

dryRunVars == <<simulated, metrics, unbooked, trades>>

Empty == [yes |-> 0, no |-> 0, yesCost |-> 0, noCost |-> 0, age |-> 0]

DryRunInit ==
    /\ simulated = <<>>
    /\ metrics = [traps |-> 0, merges |-> 0, timeouts |-> 0, ghosts |-> 0, aborts |-> 0]
    /\ unbooked = 0
    /\ trades = 0

Without(f, S) == [x \in DOMAIN f \ S |-> f[x]]
-----------------------------------------------------------------------------
(* A trap over a trap of the same market replaces it, fills and all.       *)
place_simulated(s) ==
    /\ metrics.traps < MaxTraps
    /\ metrics' = [metrics EXCEPT !.traps = @ + 1]
    /\ unbooked' = unbooked + Cardinality({s} \cap DOMAIN simulated)
    /\ simulated' = [t \in DOMAIN simulated \cup {s} |->
                         IF t = s THEN Empty ELSE simulated[t]]
    /\ UNCHANGED trades

Ladder == <<[price |-> 45, size |-> 50000], [price |-> 40, size |-> 100000],
            [price |-> 30, size |-> 200000]>>

(* What a level still takes is reckoned from the one total of all levels.  *)
LevelRest(s, l) == l.size - (s.filled - s.cost \div l.price)

(* Mutant: a level that is over-full gives shares back.                    *)
FillLevel_Signed(s, l) ==
    LET fill == IF s.size < LevelRest(s, l) THEN s.size ELSE LevelRest(s, l)
    IN  IF s.price <= l.price
        THEN [s EXCEPT !.filled = @ + fill, !.cost = @ + l.price * fill]
        ELSE s

FillLevel(s, l) ==
    LET fill == IF s.size < LevelRest(s, l) THEN s.size ELSE LevelRest(s, l)
    IN  IF s.price <= l.price /\ fill > 0
        THEN [s EXCEPT !.filled = @ + fill, !.cost = @ + l.price * fill]
        ELSE s

fill_ladder(filled, cost, price, size) ==
    FoldLeft(FillLevel, [filled |-> filled, cost |-> cost, price |-> price, size |-> size],
             Ladder)

Full == 350000

(* Mutant: a merged position is not removed.                               *)
evaluate_trade_KeepMerged(s, buy, price, size) ==
    /\ trades < MaxTrades
    /\ trades' = trades + 1
    /\ s \in DOMAIN simulated
    /\ LET p == simulated[s]
           y == fill_ladder(p.yes, p.yesCost, price, size)
           n == fill_ladder(p.no, p.noCost, price, size)
           q == IF buy THEN [p EXCEPT !.yes = y.filled, !.yesCost = y.cost]
                       ELSE [p EXCEPT !.no = n.filled, !.noCost = n.cost]
       IN  /\ simulated' = [simulated EXCEPT ![s] = q]
           /\ metrics' = IF q.yes >= Full /\ q.no >= Full
                         THEN [metrics EXCEPT !.merges = @ + 1] ELSE metrics
    /\ UNCHANGED unbooked

(* A BUY fills the YES ladder and any other side the NO ladder; trades of  *)
(* other markets are only counted.                                         *)
evaluate_trade(s, buy, price, size) ==
    /\ trades < MaxTrades
    /\ trades' = trades + 1
    /\ IF s \notin DOMAIN simulated THEN UNCHANGED <<simulated, metrics>>
       ELSE LET p == simulated[s]
                y == fill_ladder(p.yes, p.yesCost, price, size)
                n == fill_ladder(p.no, p.noCost, price, size)
                q == IF buy THEN [p EXCEPT !.yes = y.filled, !.yesCost = y.cost]
                            ELSE [p EXCEPT !.no = n.filled, !.noCost = n.cost]
            IN  IF q.yes >= Full /\ q.no >= Full
                THEN /\ simulated' = Without(simulated, {s})
                     /\ metrics' = [metrics EXCEPT !.merges = @ + 1]
                ELSE /\ simulated' = [simulated EXCEPT ![s] = q]
                     /\ UNCHANGED metrics
    /\ UNCHANGED unbooked

(* Old positions end: one side filled is a time-out, none a ghost; with    *)
(* both sides filled in part no metric changes.                            *)
check_timeouts ==
    LET old    == {s \in DOMAIN simulated : simulated[s].age > Lifetime}
        ghost  == {s \in old : simulated[s].yes = 0 /\ simulated[s].no = 0}
        oneSided == {s \in old \ ghost : simulated[s].yes = 0 \/ simulated[s].no = 0}
    IN  /\ old # {}
        /\ simulated' = Without(simulated, old)
        /\ metrics' = [metrics EXCEPT !.timeouts = @ + Cardinality(oneSided),
                                      !.ghosts = @ + Cardinality(ghost)]
        /\ unbooked' = unbooked + Cardinality(old \ (ghost \cup oneSided))
        /\ UNCHANGED trades

(* However many traps it clears, an abort counts once.                     *)
abort_toxic ==
    /\ metrics.aborts < MaxAborts
    /\ metrics' = [metrics EXCEPT !.aborts = @ + 1]
    /\ unbooked' = unbooked + Cardinality(DOMAIN simulated)
    /\ simulated' = <<>>
    /\ UNCHANGED trades

Age ==
    /\ \E s \in DOMAIN simulated : simulated[s].age <= Lifetime
    /\ simulated' = [s \in DOMAIN simulated |->
                        [simulated[s] EXCEPT !.age = IF @ <= Lifetime THEN @ + 1 ELSE @]]
    /\ UNCHANGED <<metrics, unbooked, trades>>

DryRunNext ==
    \/ \E s \in Slug : place_simulated(s)
    \/ \E s \in Slug, buy \in BOOLEAN, p \in TradePrice, z \in TradeSize :
          evaluate_trade(s, buy, p, z)
    \/ check_timeouts
    \/ abort_toxic
    \/ Age

DryRunSpec == DryRunInit /\ [][DryRunNext]_dryRunVars
-----------------------------------------------------------------------------
(* Every trap placed is open, or merged, timed out or ghosted exactly once *)
(* in the metrics, or it ended in one of the three ways that book nothing: *)
(* replaced, aborted, or filled in part on both sides when its minute was  *)
(* over.  The report's rates are over the booked ones only                 *)
(* (dry_run_engine.rs:68, 83, 123, 159).                                   *)
TrapsAccounted ==
    metrics.traps = Cardinality(DOMAIN simulated) + unbooked
                    + metrics.merges + metrics.timeouts + metrics.ghosts

(* Whatever trades come in whatever order, what a side has paid lies       *)
(* between the lowest and the highest price of the ladder for each share   *)
(* filled, although the levels reckon from each other's fills              *)
(* (dry_run_engine.rs:107-120).                                            *)
FillsPriced ==
    \A s \in DOMAIN simulated :
        LET p == simulated[s]
        IN  /\ p.yesCost \in 30 * p.yes..45 * p.yes
            /\ p.noCost \in 30 * p.no..45 * p.no
=============================================================================
