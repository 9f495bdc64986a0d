--------------------------- MODULE ProductionGuard ---------------------------
(***************************************************************************)
(* src/src/production.rs: the guard in front of trading.  Each of its six  *)
(* counters has a parking_lot RwLock of its own, so a call is a sequence   *)
(* of lock operations between which other callers run.                     *)
(*                                                                         *)
(* A guard that dies with the statement that made it is one step.  Two     *)
(* calls keep guards longer: stats() builds its result in one expression   *)
(* and holds every guard to the end, and release_trade() reads the count   *)
(* on the right of the assignment that writes it.  A writer that meets     *)
(* readers waits with the lock claimed, and no new reader gets past it.    *)
(*                                                                         *)
(* Who calls the guard is external: a caller asks, records the trade it    *)
(* was allowed, and releases its slot or leaves the trade open.            *)
(***************************************************************************)
EXTENDS Integers, FiniteSets, Functions

CONSTANTS Caller, NoCaller,
          MaxPerMinute, MaxConcurrent, MaxLoss, \* CircuitBreaker
          Cooldown, Minute,                     \* in ticks of the clock
          WorstLoss,                            \* the most a trade loses, in dollars
          MaxTime                               \* bound: how long it runs

ASSUME GuardAssumption ==
    /\ IsFiniteSet(Caller) /\ Caller # {} /\ NoCaller \notin Caller
    /\ MaxPerMinute \in Nat /\ MaxConcurrent \in Nat /\ MaxLoss \in Nat
    /\ Cooldown \in Nat /\ Minute \in Nat \ {0} /\ MaxTime \in Nat
    /\ WorstLoss \in Nat \ {0}

Lock == {"break", "minute", "slots", "loss", "total", "profitable"}

VARIABLES
    pc,         \* where each caller is
    entry,      \* `now` of can_trade, and of circuit_break
    result,     \* the result of the caller's trade
    read,       \* what release_trade and stats have read
    guards,     \* the read guards each caller keeps
    parked,     \* the writer that has claimed each lock and waits
    lastBreak,  \* last_circuit_break, NoBreak for None
    brokenAt,   \* history: when it was written last
    minute,     \* trades_last_minute, counted by their time
    slots,      \* concurrent_trades
    loss,       \* daily_loss, in dollars
    total,      \* total_trades
    profitable, \* profitable_trades
    now,
    taken       \* history: all trades recorded, counted by their time

counters == <<lastBreak, brokenAt, minute, slots, loss, total, profitable, taken>>
guardVars == <<pc, entry, result, read, guards, parked, counters, now>>

NoBreak == -1
TradeResult == {"win", "even", "lose"}
Nothing == [total |-> 0, profitable |-> 0, slots |-> 0]

GuardInit ==
    /\ pc = [c \in Caller |-> "idle"]
    /\ entry = [c \in Caller |-> 0]
    /\ result = [c \in Caller |-> "win"]
    /\ read = [c \in Caller |-> Nothing]
    /\ guards = [c \in Caller |-> {}]
    /\ parked = [l \in Lock |-> NoCaller]
    /\ lastBreak = NoBreak /\ brokenAt = NoBreak
    /\ minute = [t \in 0..MaxTime |-> 0]
    /\ slots = 0 /\ loss = 0 /\ total = 0 /\ profitable = 0
    /\ now = 0
    /\ taken = [t \in 0..MaxTime |-> 0]
-----------------------------------------------------------------------------
(* The locks.                                                              *)

CanRead(l)     == parked[l] = NoCaller
Unread(l)      == \A c \in Caller : l \notin guards[c]
Claimable(c, l) == parked[l] \in {NoCaller, c}

(* Caller c goes from one place to another, reading or writing lock l.     *)
Goes(c, from, to) == pc[c] = from /\ pc' = [pc EXCEPT ![c] = to]

Reads(c, from, l, to) ==
    /\ Goes(c, from, to) /\ CanRead(l)
    /\ UNCHANGED <<guards, parked, now>>

Writes(c, from, l, to) ==
    /\ Goes(c, from, to) /\ Unread(l) /\ Claimable(c, l)
    /\ parked' = [parked EXCEPT ![l] = NoCaller]
    /\ UNCHANGED <<guards, now>>

(* The lock a caller at each place is about to write.                      *)
Wants == [p \in {"trip", "rate", "stamp", "count", "lose", "total", "win", "release"} |->
            CASE p = "trip"               -> "break"
              [] p \in {"rate", "stamp"}  -> "minute"
              [] p \in {"count", "release"} -> "slots"
              [] p = "lose"               -> "loss"
              [] p = "total"              -> "total"
              [] p = "win"                -> "profitable"]

(* A writer meets readers: it claims the lock and waits.                   *)
Park(c) ==
    /\ pc[c] \in DOMAIN Wants
    /\ LET l == Wants[pc[c]] IN
         /\ parked[l] = NoCaller /\ ~Unread(l)
         /\ parked' = [parked EXCEPT ![l] = c]
    /\ UNCHANGED <<pc, entry, result, read, guards, counters, now>>
-----------------------------------------------------------------------------
(* can_trade: the cool-down, the rate, the slots, the loss, in this order; *)
(* the first that fails is returned.                                       *)

(* `now` is taken once, before the first check.                            *)
Ask(c) ==
    /\ Goes(c, "idle", "break")
    /\ entry' = [entry EXCEPT ![c] = now]
    /\ UNCHANGED <<result, read, guards, parked, counters, now>>

(* A break later than `now` counts as no time ago.                         *)
Cooling(c) ==
    /\ lastBreak # NoBreak
    /\ Cooldown > 0
    /\ entry[c] - lastBreak < Cooldown

(* Mutant: the cool-down ends a tick early.                                *)
CheckBreak_Early(c) ==
    /\ Reads(c, "break", "break",
             IF lastBreak # NoBreak /\ entry[c] - lastBreak < Cooldown - 1
             THEN "idle" ELSE "rate")
    /\ UNCHANGED <<entry, result, read, counters>>

CheckBreak(c) ==
    /\ Reads(c, "break", "break", IF Cooling(c) THEN "idle" ELSE "rate")
    /\ UNCHANGED <<entry, result, read, counters>>

(* Trades a minute before `now` or earlier are dropped from the list, then *)
(* its length is compared.                                                 *)
LastMinute(trades, t) ==
    [i \in DOMAIN trades |-> IF i > t - Minute THEN trades[i] ELSE 0]
TradesIn(trades) == SumFunctionOnSet(trades, DOMAIN trades)

(* Mutant: the comparison lets one trade too many through.                 *)
CheckRate_OffByOne(c) ==
    LET kept == LastMinute(minute, entry[c])
    IN  /\ Writes(c, "rate", "minute",
                  IF TradesIn(kept) > MaxPerMinute THEN "idle" ELSE "slots")
        /\ minute' = kept
        /\ UNCHANGED <<entry, result, read, lastBreak, brokenAt, slots, loss, total, profitable, taken>>

CheckRate(c) ==
    LET kept == LastMinute(minute, entry[c])
    IN  /\ Writes(c, "rate", "minute",
                  IF TradesIn(kept) >= MaxPerMinute THEN "idle" ELSE "slots")
        /\ minute' = kept
        /\ UNCHANGED <<entry, result, read, lastBreak, brokenAt, slots, loss, total, profitable, taken>>

(* Mutant: the last slot is given away twice.                              *)
CheckSlots_OffByOne(c) ==
    /\ Reads(c, "slots", "slots", IF slots > MaxConcurrent THEN "idle" ELSE "loss")
    /\ UNCHANGED <<entry, result, read, counters>>

CheckSlots(c) ==
    /\ Reads(c, "slots", "slots", IF slots >= MaxConcurrent THEN "idle" ELSE "loss")
    /\ UNCHANGED <<entry, result, read, counters>>

(* Mutant: the loss limit is not compared.                                 *)
CheckLoss_Never(c) ==
    /\ Reads(c, "loss", "loss", "allowed")
    /\ UNCHANGED <<entry, result, read, counters>>

CheckLoss(c) ==
    /\ Reads(c, "loss", "loss", IF loss >= MaxLoss THEN "idle" ELSE "allowed")
    /\ UNCHANGED <<entry, result, read, counters>>

CanTrade(c) == Ask(c) \/ CheckBreak(c) \/ CheckRate(c) \/ CheckSlots(c) \/ CheckLoss(c)
-----------------------------------------------------------------------------
(* record_trade: the counters one after the other, the loss only of a      *)
(* trade that lost and the profitable ones only of one that won.           *)

(* External: the trade that was allowed is made and turns out as r.        *)
Trade(c, r) ==
    /\ Goes(c, "allowed", "stamp")
    /\ result' = [result EXCEPT ![c] = r]
    /\ UNCHANGED <<entry, read, guards, parked, counters, now>>

(* External: the caller leaves its trade open and goes on to the next.     *)
LeaveOpen(c) ==
    /\ Goes(c, "open", "idle")
    /\ UNCHANGED <<entry, result, read, guards, parked, counters, now>>

StampTrade(c) ==
    /\ Writes(c, "stamp", "minute", "count")
    /\ minute' = [minute EXCEPT ![now] = @ + 1]
    /\ taken' = [taken EXCEPT ![now] = @ + 1]
    /\ UNCHANGED <<entry, result, read, lastBreak, brokenAt, slots, loss, total, profitable>>

(* The count of slots is raised by a recorded trade, and by release_trade  *)
(* set to one less than that call has read.                                *)
WriteSlots(c) ==
    LET releasing == pc[c] = "release" IN
    /\ pc[c] \in {"count", "release"}
    /\ Writes(c, pc[c], "slots", IF releasing THEN "idle"
                                 ELSE IF result[c] = "lose" THEN "lose" ELSE "total")
    /\ slots' = IF releasing THEN read[c].slots ELSE slots + 1
    /\ UNCHANGED <<entry, result, read, lastBreak, brokenAt, minute, loss, total, profitable, taken>>

(* What the trade lost, in dollars.                                        *)
AddLoss(c) ==
    /\ Writes(c, "lose", "loss", "total")
    /\ \E d \in 1..WorstLoss : loss' = loss + d
    /\ UNCHANGED <<entry, result, read, lastBreak, brokenAt, minute, slots, total, profitable, taken>>

CountTotal(c) ==
    /\ Writes(c, "total", "total", IF result[c] = "win" THEN "win" ELSE "open")
    /\ total' = total + 1
    /\ UNCHANGED <<entry, result, read, lastBreak, brokenAt, minute, slots, loss, profitable, taken>>

CountWin(c) ==
    /\ Writes(c, "win", "profitable", "open")
    /\ profitable' = profitable + 1
    /\ UNCHANGED <<entry, result, read, lastBreak, brokenAt, minute, slots, loss, total, taken>>

RecordTrade(c) == \/ StampTrade(c) \/ AddLoss(c) \/ CountTotal(c) \/ CountWin(c)
-----------------------------------------------------------------------------
(* release_trade: the count is read, and its guard kept for the statement  *)
(* that writes it.                                                         *)
ReleaseTrade(c) ==
    /\ Goes(c, "open", "release") /\ CanRead("slots")
    /\ guards' = [guards EXCEPT ![c] = @ \cup {"slots"}]
    /\ read' = [read EXCEPT ![c].slots = IF slots = 0 THEN 0 ELSE slots - 1]
    /\ UNCHANGED <<entry, result, parked, counters, now>>

(* circuit_break, by any caller at any time it is not in another call.  The *)
(* time is taken before the lock is asked for, so a break may be written   *)
(* late, and over one that was triggered after it.                         *)
CircuitBreak(c) ==
    \/ /\ Goes(c, "idle", "trip")
       /\ entry' = [entry EXCEPT ![c] = now]
       /\ UNCHANGED <<result, read, guards, parked, counters, now>>
    \/ /\ Writes(c, "trip", "break", "idle")
       /\ lastBreak' = entry[c]
       /\ brokenAt' = now
       /\ UNCHANGED <<entry, result, read, minute, slots, loss, total, profitable, taken>>

(* stats: total and profitable are read and, for the win rate, both again; *)
(* then the rest.  The guards are kept until the call returns, but for     *)
(* those of the second reads, which add nothing to the first.              *)
StatsRead(c, from, l, to) ==
    /\ Goes(c, from, to) /\ CanRead(l)
    /\ guards' = [guards EXCEPT ![c] = @ \cup {l}]
    /\ UNCHANGED <<entry, result, parked, counters, now>>

(* Mutant: the guard of the total goes with its field.                     *)
StatsTotal_Dropped(c) ==
    /\ Goes(c, "idle", "s_profitable") /\ CanRead("total")
    /\ read' = [read EXCEPT ![c].total = total]
    /\ UNCHANGED <<entry, result, guards, parked, counters, now>>

StatsTotal(c) ==
    /\ StatsRead(c, "idle", "total", "s_profitable")
    /\ read' = [read EXCEPT ![c].total = total]

StatsProfitable(c) ==
    /\ StatsRead(c, "s_profitable", "profitable", "s_again")
    /\ read' = [read EXCEPT ![c].profitable = profitable]

StatsAgain(c) ==
    /\ StatsRead(c, "s_again", "total", IF total > 0 THEN "s_rate" ELSE "s_slots")
    /\ UNCHANGED read

StatsRate(c) ==
    /\ CanRead("total")
    /\ StatsRead(c, "s_rate", "profitable", "s_slots")
    /\ UNCHANGED read

StatsSlots(c)  == StatsRead(c, "s_slots", "slots", "s_minute") /\ UNCHANGED read
StatsMinute(c) == StatsRead(c, "s_minute", "minute", "s_loss") /\ UNCHANGED read
StatsLoss(c)   == StatsRead(c, "s_loss", "loss", "s_break") /\ UNCHANGED read

StatsReturn(c) ==
    /\ Goes(c, "s_break", "idle") /\ CanRead("break")
    /\ guards' = [guards EXCEPT ![c] = {}]
    /\ read' = [read EXCEPT ![c] = Nothing]
    /\ UNCHANGED <<entry, result, parked, counters, now>>

Stats(c) == \/ StatsTotal(c) \/ StatsProfitable(c) \/ StatsAgain(c) \/ StatsRate(c)
            \/ StatsSlots(c) \/ StatsMinute(c) \/ StatsLoss(c) \/ StatsReturn(c)

Tick == /\ now < MaxTime
        /\ now' = now + 1
        /\ UNCHANGED <<pc, entry, result, read, guards, parked, counters>>

Call(c) == \/ CanTrade(c) \/ RecordTrade(c) \/ WriteSlots(c) \/ ReleaseTrade(c)
           \/ CircuitBreak(c) \/ Stats(c) \/ Park(c) \/ LeaveOpen(c)

GuardNext == Tick \/ \E c \in Caller : Call(c) \/ \E r \in TradeResult : Trade(c, r)

GuardSpec == GuardInit /\ [][GuardNext]_guardVars

(* Every thread goes on with its calls as long as the locks let it.        *)
GuardFairSpec == GuardSpec /\ \A c \in Caller : WF_guardVars(Call(c))
-----------------------------------------------------------------------------
Place == DOMAIN Wants \cup {"idle", "break", "slots", "loss", "allowed", "open", "s_profitable",
                            "s_again", "s_rate", "s_slots", "s_minute", "s_loss", "s_break"}

GuardTypeOK ==
    /\ pc \in [Caller -> Place]
    /\ entry \in [Caller -> 0..MaxTime]
    /\ result \in [Caller -> TradeResult]
    /\ read \in [Caller -> [total : Nat, profitable : Nat, slots : Nat]]
    /\ guards \in [Caller -> SUBSET Lock]
    /\ parked \in [Lock -> Caller \cup {NoCaller}]
    /\ lastBreak \in 0..MaxTime \cup {NoBreak} /\ brokenAt \in 0..MaxTime \cup {NoBreak}
    /\ minute \in [0..MaxTime -> Nat] /\ taken \in [0..MaxTime -> Nat]
    /\ slots \in Nat /\ loss \in Nat /\ total \in Nat /\ profitable \in Nat
    /\ now \in 0..MaxTime

(* Asking and recording are two calls, so callers may all see the last     *)
(* slot; more than one trade too many for each other caller it cannot be.  *)
SlotsOvershoot == slots <= MaxConcurrent + Cardinality(Caller) - 1

(* The limit on the loss is passed by what one trade of each caller loses: *)
(* whoever was let through before the limit was met records its own.       *)
LossOvershoot == loss < MaxLoss + Cardinality(Caller) * WorstLoss

(* That of the rate, over every minute of the clock and by the trades     *)
(* really recorded: neither pruning the list by a `now` that is older than *)
(* the check, nor stamping trades after it, loses one from the count.      *)
RateOvershoot ==
    \A t \in 0..now :
        SumFunctionOnSet(taken, {i \in 0..t : i > t - Minute})
            <= MaxPerMinute + Cardinality(Caller) - 1

(* The win rate that stats() reports is at most one: the guards it keeps   *)
(* stop a trade from being counted between its two reads.                  *)
StatsConsistent ==
    \A c \in Caller : pc[c] \notin {"idle", "s_profitable", "open", "release"}
                         => read[c].profitable <= read[c].total

(* Once it is written, a break stops every caller that asks, for the whole *)
(* cool-down from when it was triggered, whatever was asked, recorded or   *)
(* broken in between; until it is written, callers still get through.      *)
CooldownKept ==
    \A c \in Caller :
        pc[c] \in {"rate", "slots", "loss", "allowed"} /\ lastBreak # NoBreak
          /\ brokenAt < entry[c] => entry[c] - lastBreak >= Cooldown

(* production.rs:227: "Release a concurrent trade slot".  A call of        *)
(* release_trade comes back, its slot freed.                               *)
ReleaseReturns == \A c \in Caller : pc[c] = "release" ~> pc[c] # "release"

(* What it does instead: the read guard on the right of the assignment     *)
(* outlives the request for the write guard on the left, line 229, and the *)
(* call waits for itself, whatever the other callers do.                   *)
ReleaseNeverReturns ==
    [][\A c \in Caller : pc[c] = "release" => pc'[c] = "release" /\ slots' = slots]_guardVars
=============================================================================
