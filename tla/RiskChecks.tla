----------------------------- MODULE RiskChecks -----------------------------
(***************************************************************************)
(* The risk checks of AppState (src/src/hot_switchover.rs) as the strategy *)
(* loop of src/src/main.rs makes them before a trade: price velocity,      *)
(* volatility, inventory and drawdown.  No code of the program calls the   *)
(* record functions the checks rely on, so who records is external.  Time  *)
(* is in ticks, prices are in cents, ranges in hundredths.                 *)
(***************************************************************************)
EXTENDS Integers, Sequences, SequencesExt

CONSTANTS RiskMarket,   \* markets
          RiskPrice,    \* prices recorded
          HistoryTicks, \* ticks in the sixty seconds a price is kept
          LockoutTicks, \* ticks in velocity_lockout_secs
          MaxRecordings \* bound: how many things are recorded

ASSUME RiskAssumption ==
    /\ RiskPrice \subseteq Nat \ {0}
    /\ HistoryTicks \in Nat \ {0} /\ LockoutTicks \in 1..HistoryTicks
    /\ MaxRecordings \in Nat

VARIABLES
    price_history, \* market -> the last three prices with their ages, the
                   \* oldest first: no check looks further back
    lockout,       \* last_velocity_lockout: ticks since, at most LockoutTicks
    atr_history,   \* market -> ranges
    skew,          \* inventory_skew: YES less NO shares
    daily_loss,
    verdict,       \* the check that refused last, or "pass"
    halted,        \* the strategy has called halt_trading
    sinceRecord,   \* history: market -> ticks since a price was recorded
    detections,    \* history: market -> rapid moves detected since then
    recordings     \* how many things were recorded

riskVars == <<price_history, lockout, atr_history, skew, daily_loss, verdict, halted,
              sinceRecord, detections, recordings>>

Quiet == HistoryTicks + LockoutTicks

RiskInit ==
    /\ price_history = [c \in RiskMarket |-> <<>>] /\ lockout = LockoutTicks
    /\ atr_history = [c \in RiskMarket |-> <<>>]
    /\ skew = 0 /\ daily_loss = 0
    /\ verdict = "pass" /\ halted = FALSE
    /\ sinceRecord = [c \in RiskMarket |-> Quiet]
    /\ detections = [c \in RiskMarket |-> 0]
    /\ recordings = 0
-----------------------------------------------------------------------------
(* What is recorded.                                                       *)

LastOf(s, n) == SubSeq(s, IF Len(s) > n THEN Len(s) - n + 1 ELSE 1, Len(s))

record_price(c, p) ==
    /\ recordings < MaxRecordings /\ recordings' = recordings + 1
    /\ price_history' = [price_history EXCEPT ![c] =
                            LastOf(Append(@, [age |-> 0, price |-> p]), 3)]
    /\ sinceRecord' = [sinceRecord EXCEPT ![c] = 0]
    /\ detections' = [detections EXCEPT ![c] = 0]
    /\ UNCHANGED <<lockout, atr_history, skew, daily_loss, verdict, halted>>

Other ==
    /\ recordings < MaxRecordings /\ recordings' = recordings + 1
    /\ UNCHANGED <<price_history, lockout, verdict, halted, sinceRecord, detections>>

record_range(c, r) ==
    /\ Other
    /\ atr_history' = [atr_history EXCEPT ![c] = LastOf(Append(@, r), 5)]
    /\ UNCHANGED <<skew, daily_loss>>

record_inventory(delta) ==
    /\ Other /\ skew' = skew + delta /\ UNCHANGED <<atr_history, daily_loss>>

record_loss(amount) ==
    /\ Other /\ daily_loss' = daily_loss + amount /\ UNCHANGED <<atr_history, skew>>

reset_daily_loss ==
    /\ Other /\ daily_loss' = 0 /\ UNCHANGED <<atr_history, skew>>
-----------------------------------------------------------------------------
(* The checks.                                                             *)

(* What `retain` keeps: no entry is older than the one before it, so that  *)
(* the young ones are the end of the history.                              *)
Kept(c) ==
    LET h     == price_history[c]
        first == CHOOSE k \in 1..(Len(h) + 1) :
                    /\ \A i \in 1..(k - 1) : h[i].age >= HistoryTicks
                    /\ \A i \in k..Len(h) : h[i].age < HistoryTicks
    IN  SubSeq(h, first, Len(h))

Magnitude100(i) == IF i < 0 THEN -100 * i ELSE 100 * i

(* Mutant: a move counts however old its last price is.                    *)
RapidMove_AnyAge(s) ==
    /\ Len(s) >= 3
    /\ Magnitude100(s[Len(s) - 2].price - Last(s).price) > 5 * Last(s).price

(* Of the last three prices the first and the last are over 5% apart, and  *)
(* the last is no older than a lockout.                                    *)
RapidMove(s) ==
    /\ Len(s) >= 3
    /\ Magnitude100(s[Len(s) - 2].price - Last(s).price) > 5 * Last(s).price
    /\ Last(s).age < LockoutTicks

Sum5(s) == FoldLeft(LAMBDA a, b : a + b, 0, LastOf(s, 5))

(* The checks after the velocity one, in their order; the last one halts   *)
(* trading.                                                                *)
Others(c) ==
    IF Len(atr_history[c]) >= 5 /\ Sum5(atr_history[c]) < 5 THEN "volatility"
    ELSE IF skew \notin -200..200 THEN "inventory"
    ELSE IF daily_loss >= 50 THEN "drawdown" ELSE "pass"

(* The one lockout is for all markets.  A check that finds no rapid move   *)
(* records the last price once more, with the time of the check.           *)
check_risk(c) ==
    /\ IF lockout < LockoutTicks
       THEN verdict' = "velocity" /\ UNCHANGED <<price_history, lockout, detections>>
       ELSE IF RapidMove(Kept(c))
       THEN /\ verdict' = "velocity"
            /\ price_history' = [price_history EXCEPT ![c] = Kept(c)]
            /\ lockout' = 0
            /\ detections' = [detections EXCEPT ![c] = @ + 1]
       ELSE /\ verdict' = Others(c)
            /\ price_history' = [price_history EXCEPT ![c] =
                  IF Kept(c) = <<>> THEN <<>>
                  ELSE LastOf(Append(Kept(c), [Last(Kept(c)) EXCEPT !.age = 0]), 3)]
            /\ UNCHANGED <<lockout, detections>>
    /\ halted' = (halted \/ verdict' = "drawdown")
    /\ UNCHANGED <<atr_history, skew, daily_loss, sinceRecord, recordings>>

Up(n, most) == IF n < most THEN n + 1 ELSE n

RiskTick ==
    /\ price_history' = [c \in RiskMarket |->
                            [i \in DOMAIN price_history[c] |->
                                [price_history[c][i] EXCEPT !.age = Up(@, HistoryTicks)]]]
    /\ lockout' = Up(lockout, LockoutTicks)
    /\ sinceRecord' = [c \in RiskMarket |-> Up(sinceRecord[c], Quiet)]
    /\ UNCHANGED <<atr_history, skew, daily_loss, verdict, halted, detections, recordings>>

RiskNext ==
    \/ \E c \in RiskMarket :
          \/ \E p \in RiskPrice : record_price(c, p)
          \/ \E r \in {0, 2} : record_range(c, r)
          \/ check_risk(c)
    \/ \E delta \in {-150, 150} : record_inventory(delta)
    \/ record_loss(25)
    \/ reset_daily_loss
    \/ RiskTick

RiskSpec == RiskInit /\ [][RiskNext]_riskVars
-----------------------------------------------------------------------------
(* A lockout ends.  The checks feed the history they judge by, so that one *)
(* move of the price may be detected again after its lockout, with a trade *)
(* let through in between; but without new prices that happens once more   *)
(* at the most, and a lockout is over a minute and ten seconds after the   *)
(* last price was recorded (hot_switchover.rs:180-225).                    *)
LockoutsSubside ==
    /\ \A c \in RiskMarket : detections[c] <= 2
    /\ lockout < LockoutTicks =>
          \E c \in RiskMarket : sinceRecord[c] < HistoryTicks + lockout
=============================================================================
