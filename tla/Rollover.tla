------------------------------ MODULE Rollover ------------------------------
(***************************************************************************)
(* The discovery thread of src/src/market_rollover.rs.  A round reads the  *)
(* clock once and goes through the assets; for each it may fetch, sleep    *)
(* and fetch again, so that the clock it decides by falls behind.  Time is *)
(* in seconds, as in the code.  A slot is a market, known by its asset,    *)
(* its period and the time in its slug.                                    *)
(***************************************************************************)
EXTENDS Integers, Sequences

CONSTANTS Asset,      \* the assets, in order
          Periods,    \* the periods in seconds, in order
          Start,      \* when the thread may start
          MaxClock,   \* bound: how long the clock runs
          FetchTime,  \* what a request may take: five seconds to its answer, any to read it
          Overrun,    \* what a sleep of ten seconds may take over that
          CachedAsk   \* best asks the price cache may hold, in cents

(* Some request takes longest: the bound on a trap is stated by it.        *)
ASSUME RolloverAssumption ==
    /\ Asset \in Seq({Asset[i] : i \in DOMAIN Asset})
    /\ Periods \in Seq(Nat \ {0})
    /\ Start \subseteq Nat /\ MaxClock \in Nat
    /\ FetchTime \subseteq Nat /\ Overrun \subseteq Nat
    /\ \E d \in FetchTime : \A e \in FetchTime : e <= d
    /\ CachedAsk \subseteq Nat

Job(i) == [asset  |-> Asset[((i - 1) \div Len(Periods)) + 1],
           period |-> Periods[((i - 1) % Len(Periods)) + 1]]
LastJob == Len(Asset) * Len(Periods)

VARIABLES
    clock,      \* the clock
    seen,       \* the clock as this round read it
    job,        \* which asset and period is next; 0 between rounds
    trap,       \* whether the job's trap is to be placed
    discovered, \* discovered_slugs
    decided,    \* history: what was decided for slots still to come, and when
    checked,    \* history: slots looked at within their window
    overran     \* history: some sleep took longer than ten seconds

rolloverVars == <<clock, seen, job, trap, discovered, decided, checked, overran>>

SlotAt(j, t)  == [asset |-> j.asset, period |-> j.period, time |-> (t \div j.period) * j.period]
NextSlot(j, t) == [SlotAt(j, t) EXCEPT !.time = @ + j.period]

(* The slots of the moment are fetched and noted, those that can be.       *)
RolloverInit ==
    /\ clock \in Start /\ seen = clock
    /\ job = 0 /\ trap = FALSE
    /\ discovered \in SUBSET {SlotAt(Job(i), clock) : i \in 1..LastJob}
    /\ decided = {} /\ checked = {} /\ overran = FALSE
-----------------------------------------------------------------------------
(* Prices are in cents; a token without a price counts as a dollar.        *)
is_market_ranging(yes, no) == yes \in 35..65 /\ no \in 35..65

(* A round starts: one reading of the clock for all of it.                 *)
RoundStart ==
    /\ job = 0
    /\ clock < MaxClock
    /\ seen' = clock
    /\ job' = 1
    /\ UNCHANGED <<clock, trap, discovered, decided, checked, overran>>

slot   == NextSlot(Job(job), seen)
timeTo == slot.time - seen

(* Mutant: the window is a second short.                                   *)
InWindow_Short == timeTo <= 65 /\ timeTo > 56

InWindow == timeTo <= 65 /\ timeTo > 55

Due == job # 0 /\ ~trap /\ InWindow /\ slot \notin discovered

NextJob == job' = IF job = LastJob THEN LastJob + 1 ELSE job + 1

Skip ==
    /\ job \in 1..LastJob /\ ~trap
    /\ ~Due
    /\ NextJob
    /\ UNCHANGED <<clock, seen, trap, discovered, decided, checked, overran>>

Decide(s, kind, t) ==
    /\ discovered' = discovered \cup {s}
    /\ decided' = decided \cup {[slot |-> s, kind |-> kind, at |-> t]}

(* Mutant: the trap is due sixty seconds from now.                         *)
SleepToTrigger_FromNow == 60

(* Until sixty seconds before the slot, by the round's clock.              *)
SleepToTrigger == IF slot.time - 60 > seen THEN slot.time - 60 - seen ELSE 0

(* The current market is fetched to judge the next by; when it ranges, the *)
(* thread sleeps and goes on to the trap.                                  *)
Check ==
    /\ job \in 1..LastJob /\ Due
    /\ checked' = checked \cup {slot}
    /\ \E d \in FetchTime, answers \in BOOLEAN, yes, no \in CachedAsk :
          CASE ~answers ->
                 clock' = clock + d /\ NextJob /\ UNCHANGED <<trap, discovered, decided>>
            [] answers /\ is_market_ranging(yes, no) ->
                 clock' = clock + d + SleepToTrigger /\ trap' = TRUE
                    /\ UNCHANGED <<job, discovered, decided>>
            [] OTHER ->
                 clock' = clock + d /\ NextJob /\ Decide(slot, "trend", clock') /\ UNCHANGED trap
    /\ UNCHANGED <<seen, overran>>

(* Without an answer nothing is noted, and the next round may try again.   *)
place_trap ==
    /\ trap
    /\ \E d \in FetchTime, answers \in BOOLEAN :
          /\ clock' = clock + d
          /\ IF answers THEN Decide(slot, "trap", clock')
                        ELSE UNCHANGED <<discovered, decided>>
    /\ trap' = FALSE
    /\ NextJob
    /\ UNCHANGED <<seen, checked, overran>>

Ahead(s) == s.time > seen

(* Expired slugs are dropped and the thread sleeps for ten seconds.        *)
RoundEnd ==
    /\ job = LastJob + 1
    /\ discovered' = {s \in discovered : Ahead(s)}
    /\ decided' = {d \in decided : d.slot.time > seen}
    /\ checked' = {s \in checked : s.time > seen}
    /\ \E o \in Overrun : clock' = clock + 10 + o /\ overran' = (overran \/ o > 0)
    /\ job' = 0
    /\ UNCHANGED <<seen, trap>>

RolloverNext == RoundStart \/ Skip \/ Check \/ place_trap \/ RoundEnd

RolloverSpec == RolloverInit /\ [][RolloverNext]_rolloverVars
-----------------------------------------------------------------------------
(* A trap is never placed before the last minute.  How late it may be is   *)
(* bounded by what held the round up: each job sleeps five seconds at the  *)
(* most and makes two requests, and no one looks at the clock again.  With *)
(* eight jobs the sleeps alone take thirty-five of the sixty seconds; an   *)
(* answer must begin within five, and reading it has no limit              *)
(* (market_rollover.rs:65-82, 138-140).                                    *)
TrapsInTime ==
    LET longest == CHOOSE d \in FetchTime : \A e \in FetchTime : e <= d
        heldUp  == (LastJob - 1) * 5 + LastJob * 2 * longest
    IN  \A d \in decided :
           d.kind = "trap" => d.at - d.slot.time \in -60..(heldUp - 56)

(* market_rollover.rs:75: "Sleep remaining time to hit T-60s exactly".  A  *)
(* trap is placed sixty seconds before its slot, at least when requests    *)
(* take no time and no sleep overruns.                                     *)
TrapsOnTime == \A d \in decided : d.kind = "trap" => d.at = d.slot.time - 60

(* The window is as wide as the pause between rounds: while no pause takes *)
(* longer, every slot is looked at within its window                       *)
(* (market_rollover.rs:67, 132).                                           *)
EveryWindowMet ==
    \A i \in 1..LastJob :
        LET s == NextSlot(Job(i), clock)
        IN  /\ ~overran /\ job = 0
            /\ s.time - clock <= 55
            /\ \A t \in Start : t <= s.time - 65
            => s \in checked
=============================================================================
