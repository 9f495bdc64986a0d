------------------------------ MODULE TradeLog ------------------------------
(***************************************************************************)
(* The event store of src/src/sqlite_log.rs: writers insert single events  *)
(* or batches over a pool of two connections, a batch in one transaction,  *)
(* and count them in statistics of their own afterwards.  The logger of    *)
(* the same file is a plain thread that asks for the runtime's handle in   *)
(* its first turn, outside of any runtime: it panics there, and with it    *)
(* the receiver is gone.  Writers and senders are external.                *)
(***************************************************************************)
EXTENDS Integers, Sequences, FiniteSets, Functions

CONSTANTS LogWriter, \* whoever calls insert_event and insert_batch
          MaxBatch,  \* bound: events in a batch
          MaxLogged, \* bound: insertions over the run
          PoolSize   \* connections of the pool

ASSUME TradeLogAssumption ==
    /\ IsFiniteSet(LogWriter)
    /\ MaxBatch \in Nat /\ MaxLogged \in Nat /\ PoolSize \in Nat \ {0}

(* The kinds that have a table; a snapshot is taken and not stored.        *)
Stored     == {"ArbDetected", "TradeCompleted", "RiskEvent"}
TradeEvent == Stored \cup {"OrderbookSnapshot"}

VARIABLES
    rows,    \* the database: kind -> rows committed
    found,   \* history: the rows the process found when it started
    counted, \* DbStats: kind -> events
    writing, \* writer -> what it does with which events
    calls,   \* how many insertions were begun
    logger   \* the logger's thread

logVars == <<rows, found, counted, writing, calls, logger>>

AtRest == [pc |-> "idle", events |-> <<>>]

TradeLogInit ==
    /\ rows = [k \in Stored |-> 0] /\ found = rows
    /\ counted = [k \in Stored |-> 0]
    /\ writing = [w \in LogWriter |-> AtRest]
    /\ calls = 0
    /\ logger = "starting"
-----------------------------------------------------------------------------
EventsOf(events, k) == Cardinality({i \in DOMAIN events : events[i] = k})

Added(f, events) == [k \in Stored |-> f[k] + EventsOf(events, k)]

(* A call gets a connection; an empty batch does not ask for one.          *)
Begin(w, events) ==
    /\ writing[w] = AtRest
    /\ calls < MaxLogged /\ calls' = calls + 1
    /\ Cardinality({v \in LogWriter : writing[v] # AtRest}) < PoolSize
    /\ writing' = [writing EXCEPT ![w] = [pc |-> "inserting", events |-> events]]
    /\ UNCHANGED <<rows, found, counted, logger>>

insert_event(w) == \E e \in TradeEvent : Begin(w, <<e>>)

insert_batch(w) ==
    \E n \in 1..MaxBatch : \E events \in [1..n -> TradeEvent] : Begin(w, events)

(* All of it is in the tables, or an insert or the commit fails and none   *)
(* is.                                                                     *)
Commit(w) ==
    /\ writing[w].pc = "inserting"
    /\ rows' = Added(rows, writing[w].events)
    /\ writing' = [writing EXCEPT ![w].pc = "counting"]
    /\ UNCHANGED <<found, counted, calls, logger>>

(* Mutant: what could not be stored is counted as well.                    *)
Fail_Counted(w) ==
    /\ writing[w].pc = "inserting"
    /\ counted' = Added(counted, writing[w].events)
    /\ writing' = [writing EXCEPT ![w] = AtRest]
    /\ UNCHANGED <<rows, found, calls, logger>>

Fail(w) ==
    /\ writing[w].pc = "inserting"
    /\ writing' = [writing EXCEPT ![w] = AtRest]
    /\ UNCHANGED <<rows, found, counted, calls, logger>>

(* The statistics follow under their lock; then the connection is given    *)
(* back.                                                                   *)
CountStats(w) ==
    /\ writing[w].pc = "counting"
    /\ counted' = Added(counted, writing[w].events)
    /\ writing' = [writing EXCEPT ![w] = AtRest]
    /\ UNCHANGED <<rows, found, calls, logger>>

(* The process ends and another opens its database: what was not committed *)
(* is rolled back, the tables stay, and the statistics begin at nothing.   *)
Restart ==
    /\ writing' = [w \in LogWriter |-> AtRest]
    /\ found' = rows
    /\ counted' = [k \in Stored |-> 0]
    /\ logger' = "starting"
    /\ UNCHANGED <<rows, calls>>

(* The first turn of the logger.                                           *)
LoggerPanics ==
    /\ logger = "starting"
    /\ logger' = "dead"
    /\ UNCHANGED <<rows, found, counted, writing, calls>>

TradeLogNext ==
    \/ \E w \in LogWriter :
          insert_event(w) \/ insert_batch(w) \/ Commit(w) \/ Fail(w) \/ CountStats(w)
    \/ LoggerPanics
    \/ Restart

TradeLogSpec == TradeLogInit /\ [][TradeLogNext]_logVars
-----------------------------------------------------------------------------
(* The statistics never run ahead of the tables and never count an event   *)
(* that was rolled back or that an earlier process stored: kind by kind    *)
(* they are short of what the tables have gained since the start by just   *)
(* the insertions committed and not yet counted, although two connections  *)
(* write at once, the process may end between the two steps, and the       *)
(* database and the statistics share no lock                               *)
(* (sqlite_log.rs:71-85, 203-212, 253-265).                                *)
StatsFollowRows ==
    \A k \in Stored :
        rows[k] = found[k] + counted[k]
                  + SumFunctionOnSet([w \in LogWriter |-> EventsOf(writing[w].events, k)],
                        {w \in LogWriter : writing[w].pc = "counting"})
=============================================================================
