----------------------------- MODULE Simulators -----------------------------
(***************************************************************************)
(* Two simulators of what live trading would do: the merger of             *)
(* src/src/dry_merger.rs, which books pairs of shares as merged, and the   *)
(* ghost simulator of src/src/ghost_simulator.rs, which looks again at an  *)
(* opportunity after 50 ms.  Their callers are external.                   *)
(***************************************************************************)
EXTENDS Integers, FiniteSets

CONSTANTS Market,     \* conditions
          TradeShares,\* shares of one side in a recorded trade
          MaxRecords, \* bound: trades recorded
          GhostSize,  \* sizes of orders and depths
          MaxTracked  \* bound: opportunities tracked

ASSUME SimulatorsAssumption ==
    /\ TradeShares \subseteq Nat /\ GhostSize \subseteq Nat
    /\ MaxRecords \in Nat /\ MaxTracked \in Nat

VARIABLES
    positions, \* DryMerger.positions: YES and NO shares, zero for no entry
    owner,     \* who has the merger: "recorder", "loop", or "nobody" any more
    recorded,  \* history: shares recorded
    merged,    \* history: pairs booked as merged
    records,   \* how many trades were recorded
    pending,   \* GhostSimulator.pending: key -> size and whether 50 ms are over
    stats,     \* GhostSimulator.stats
    tracked    \* history: opportunities tracked, and replaced by a later one

mergerVars    == <<positions, owner, recorded, merged, records>>
ghostVars     == <<pending, stats, tracked>>
simulatorVars == <<mergerVars, ghostVars>>

NoShares == [yes |-> 0, no |-> 0]
Results  == {"ghosted", "executable", "partial"}

SimulatorsInit ==
    /\ positions = [c \in Market |-> NoShares] /\ owner = "recorder"
    /\ recorded = [c \in Market |-> NoShares]
    /\ merged = [c \in Market |-> 0] /\ records = 0
    /\ pending = <<>>
    /\ stats = [r \in Results |-> 0]
    /\ tracked = [all |-> 0, replaced |-> 0]
-----------------------------------------------------------------------------
(* The dry merger.  run_loop takes the merger by value: once it runs, no   *)
(* one is left who could record a trade.                                   *)

Plus(p, y, n) == [yes |-> p.yes + y, no |-> p.no + n]

(* The line that is logged, at the program's own level, cuts eight digits  *)
(* from the YES total and panics if there are fewer.  Shares are counted   *)
(* in whatever unit the caller chooses.                                    *)
EightDigits == 10000000

(* The panic comes after the entry is changed.  It takes the recorder and  *)
(* the merger it owns along, unless the caller is one that survives it.    *)
record_trade(c, y, n) ==
    /\ owner = "recorder" /\ records < MaxRecords
    /\ records' = records + 1
    /\ positions' = [positions EXCEPT ![c] = Plus(@, y, n)]
    /\ recorded' = [recorded EXCEPT ![c] = Plus(@, y, n)]
    /\ owner' \in IF positions[c].yes + y < EightDigits THEN {"recorder", "nobody"}
                  ELSE {"recorder"}
    /\ UNCHANGED <<merged, ghostVars>>

Pairs(p) == IF p.yes < p.no THEN p.yes ELSE p.no

(* Mutant: both sides are cleared.                                         *)
Remainder_None(p) == IF Pairs(p) = 0 THEN p ELSE NoShares

(* What is left of a merged position: the larger side.                     *)
Remainder(p) ==
    IF Pairs(p) = 0 THEN p
    ELSE IF p.yes > p.no THEN [yes |-> p.yes - Pairs(p), no |-> 0]
         ELSE [yes |-> 0, no |-> p.no - Pairs(p)]

(* A round of run_loop, every thirty seconds.                              *)
get_mergeable ==
    /\ owner \in {"recorder", "loop"} /\ owner' = "loop"
    /\ positions' = [c \in Market |-> Remainder(positions[c])]
    /\ merged' = [c \in Market |-> merged[c] + Pairs(positions[c])]
    /\ UNCHANGED <<recorded, records, ghostVars>>
-----------------------------------------------------------------------------
(* The ghost simulator, by market and side.                                *)

Keys == Market \X {"YES", "NO"}

(* An opportunity under a key that is pending replaces it.                 *)
track_opportunity(k, size) ==
    /\ tracked.all < MaxTracked
    /\ pending' = [j \in DOMAIN pending \cup {k} |->
                      IF j = k THEN [size |-> size, due |-> FALSE] ELSE pending[j]]
    /\ tracked' = [all |-> tracked.all + 1,
                   replaced |-> tracked.replaced + Cardinality({k} \cap DOMAIN pending)]
    /\ UNCHANGED <<stats, mergerVars>>

(* Fifty milliseconds are over.                                            *)
Elapse(k) ==
    /\ k \in DOMAIN pending /\ ~pending[k].due
    /\ pending' = [pending EXCEPT ![k].due = TRUE]
    /\ UNCHANGED <<stats, tracked, mergerVars>>

Result(depth, size) ==
    IF depth = 0 THEN "ghosted" ELSE IF depth >= size THEN "executable" ELSE "partial"

(* One that is not due is put back.                                        *)
check_ghost(k, depth) ==
    /\ k \in DOMAIN pending /\ pending[k].due
    /\ pending' = [j \in DOMAIN pending \ {k} |-> pending[j]]
    /\ stats' = [stats EXCEPT ![Result(depth, pending[k].size)] = @ + 1]
    /\ UNCHANGED <<tracked, mergerVars>>

SimulatorsNext ==
    \/ \E c \in Market, y, n \in TradeShares : record_trade(c, y, n)
    \/ get_mergeable
    \/ \E k \in Keys :
          \/ \E z \in GhostSize : track_opportunity(k, z) \/ check_ghost(k, z)
          \/ Elapse(k)

SimulatorsSpec == SimulatorsInit /\ [][SimulatorsNext]_simulatorVars
-----------------------------------------------------------------------------
(* Whatever trades come before the rounds, each side of a market is what   *)
(* was recorded less the pairs merged, also of a trade whose recording     *)
(* panicked, and after a round no pair is left (dry_merger.rs:15-39).      *)
SharesConserved ==
    \A c \in Market :
        /\ recorded[c] = Plus(positions[c], merged[c], merged[c])
        /\ owner = "loop" => Pairs(positions[c]) = 0

(* An opportunity is pending, counted under one result, or replaced by a   *)
(* later one of its market and side, which no statistic shows              *)
(* (ghost_simulator.rs:68, 76-99).                                         *)
GhostsAccounted ==
    tracked.all = tracked.replaced + Cardinality(DOMAIN pending)
                  + stats["ghosted"] + stats["executable"] + stats["partial"]

SimulatorsBalance == SharesConserved /\ GhostsAccounted
=============================================================================
