----------------------------- MODULE MarketLocks -----------------------------
(***************************************************************************)
(* The in-flight locks of AppState (src/src/hot_switchover.rs): a market   *)
(* is locked for a trade, a clean-up drops locks that have grown old, and  *)
(* unlocking names the market and not the lock.  Only tests of the         *)
(* repository call these; the workers are external.  Ages are in ticks.    *)
(***************************************************************************)
EXTENDS Integers

CONSTANTS LockMarket, \* markets
          Worker,     \* whoever trades
          LockTtl     \* ttl_secs

ASSUME LockAssumption == LockTtl \in Nat \ {0}

VARIABLES
    locks,     \* in_flight_trades: market -> age of the lock
    holding,   \* worker -> markets it trades, with how long it has
    lateUnlock \* history: markets unlocked by a worker whose lock was old

lockVars == <<locks, holding, lateUnlock>>

LockInit ==
    /\ locks = <<>>
    /\ holding = [w \in Worker |-> <<>>]
    /\ lateUnlock = {}

(* A lock of m that begins now.                                            *)
Locked(f, m) == [k \in DOMAIN f \cup {m} |-> IF k = m THEN 0 ELSE f[k]]

Unlocked(m) == [k \in DOMAIN locks \ {m} |-> locks[k]]

(* Mutant: a lock that is there is taken over.                             *)
try_lock_market_Takes(w, m) ==
    /\ m \notin DOMAIN holding[w]
    /\ locks' = Locked(locks, m)
    /\ holding' = [holding EXCEPT ![w] = Locked(@, m)]
    /\ UNCHANGED lateUnlock

try_lock_market(w, m) ==
    /\ m \notin DOMAIN holding[w]
    /\ m \notin DOMAIN locks
    /\ locks' = Locked(locks, m)
    /\ holding' = [holding EXCEPT ![w] = Locked(@, m)]
    /\ UNCHANGED lateUnlock

cleanup_expired_locks ==
    /\ locks' = [m \in {k \in DOMAIN locks : locks[k] < LockTtl} |-> locks[m]]
    /\ UNCHANGED <<holding, lateUnlock>>

(* The lock of the market goes, whoever's it is by now.                    *)
unlock_market(w, m) ==
    /\ m \in DOMAIN holding[w]
    /\ locks' = Unlocked(m)
    /\ lateUnlock' = IF holding[w][m] >= LockTtl THEN lateUnlock \cup {m} ELSE lateUnlock
    /\ holding' = [holding EXCEPT ![w] = [k \in DOMAIN @ \ {m} |-> @[k]]]

Older(f) == [x \in DOMAIN f |-> IF f[x] < LockTtl THEN f[x] + 1 ELSE f[x]]

LockTick ==
    /\ locks' = Older(locks)
    /\ holding' = [w \in Worker |-> Older(holding[w])]
    /\ UNCHANGED lateUnlock

LockNext ==
    \/ \E w \in Worker, m \in LockMarket : try_lock_market(w, m) \/ unlock_market(w, m)
    \/ cleanup_expired_locks
    \/ LockTick

LockSpec == LockInit /\ [][LockNext]_lockVars
-----------------------------------------------------------------------------
(* Two workers trade one market at once only when one of them has done so  *)
(* for longer than the lock lives, or after such a one has unlocked the    *)
(* market under another's feet (hot_switchover.rs:147-173).                *)
LocksExclusive ==
    \A w, v \in Worker : \A m \in DOMAIN holding[w] \cap DOMAIN holding[v] :
        w # v => \/ holding[w][m] >= LockTtl \/ holding[v][m] >= LockTtl
                 \/ m \in lateUnlock
=============================================================================
