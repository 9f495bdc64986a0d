-------------------------------- MODULE Pnl --------------------------------
(***************************************************************************)
(* The profit-and-loss tracker of src/src/pnl.rs: counters under one lock, *)
(* and the net profit its report shows.  The strategy loop of              *)
(* src/src/main.rs records opportunities and fill attempts; what else is   *)
(* recorded is left to others.  Prices are in cents, money in hundredths   *)
(* of a cent.                                                              *)
(***************************************************************************)
EXTENDS Integers

CONSTANTS PnlPrice,  \* prices of either side
          GasCost,   \* gas of a trade
          MaxEntries \* bound: how many things are recorded

ASSUME PnlAssumption ==
    PnlPrice \subseteq Nat /\ GasCost \subseteq Nat /\ MaxEntries \in Nat

VARIABLES
    pnl,     \* PnlState: trades and their profit
    gas,     \* PnlState: cumulative_gas
    fills,   \* PnlState: opportunities and fills
    earned,  \* history: what all trades earned, less fees and gas
    entries  \* how many things were recorded

pnlVars == <<pnl, gas, fills, earned, entries>>

PnlInit ==
    /\ pnl = [trades |-> 0, wins |-> 0, losses |-> 0, won |-> 0, lost |-> 0,
              cumulative |-> 0, fees |-> 0, executed |-> 0]
    /\ gas = 0
    /\ fills = [opportunities |-> 0, attempted |-> 0, succeeded |-> 0, failed |-> 0]
    /\ earned = 0
    /\ entries = 0
-----------------------------------------------------------------------------
(* Mutant: up to 99 cents a pair counts as an arbitrage.                   *)
create_trade_result_Wider(yes, no) ==
    LET combined == yes + no
    IN  [gross |-> 10000 - 100 * combined, fee |-> 2 * combined,
        arb |-> IF combined <= 99 THEN 1 ELSE 0]

(* A pair of shares pays a dollar; the fee is two percent of its cost.     *)
create_trade_result(yes, no) ==
    LET combined == yes + no
    IN  [gross |-> 10000 - 100 * combined, fee |-> 2 * combined,
        arb |-> IF combined < 98 THEN 1 ELSE 0]

Entry == entries < MaxEntries /\ entries' = entries + 1

(* A trade that comes out even is a loss; its size plays no part.          *)
record_pnl_trade(yes, no) ==
    LET t   == create_trade_result(yes, no)
        net == t.gross - t.fee
        win == net > 0
    IN  /\ Entry
        /\ pnl' = [pnl EXCEPT !.trades = @ + 1,
                              !.wins   = IF win THEN @ + 1 ELSE @,
                              !.won    = IF win THEN @ + net ELSE @,
                              !.losses = IF win THEN @ ELSE @ + 1,
                              !.lost   = IF win THEN @ ELSE @ + net,
                              !.cumulative = @ + net,
                              !.fees = @ + t.fee,
                              !.executed = @ + t.arb]
        /\ earned' = earned + net
        /\ UNCHANGED <<gas, fills>>

(* The strategy loop records both of each opportunity that passes its      *)
(* filters, before the cap on the window's capital: also of the trades     *)
(* that the cap then blocks.                                               *)
record_arb_opportunity ==
    /\ Entry
    /\ fills' = [fills EXCEPT !.opportunities = @ + 1, !.attempted = @ + 1]
    /\ UNCHANGED <<pnl, gas, earned>>

record_fill_result(filled) ==
    /\ Entry
    /\ fills' = IF filled THEN [fills EXCEPT !.succeeded = @ + 1]
                          ELSE [fills EXCEPT !.failed = @ + 1]
    /\ UNCHANGED <<pnl, gas, earned>>

record_gas(cost) ==
    /\ Entry
    /\ gas' = gas + cost
    /\ earned' = earned - cost
    /\ UNCHANGED <<pnl, fills>>

PnlNext ==
    \/ \E yes, no \in PnlPrice : record_pnl_trade(yes, no)
    \/ record_arb_opportunity
    \/ \E filled \in BOOLEAN : record_fill_result(filled)
    \/ \E cost \in GasCost : record_gas(cost)

PnlSpec == PnlInit /\ [][PnlNext]_pnlVars
-----------------------------------------------------------------------------
(* generate_report: "NET PNL (after fees & gas)".                          *)
ReportedNet == pnl.cumulative - pnl.fees - gas

(* The net profit in the report is what was earned less the fees, which    *)
(* are in the profit of each trade already; it never shows a profit where  *)
(* there is none.  Every trade is a win or a loss, and every arbitrage by  *)
(* the threshold of 98 cents a win after its fee                           *)
(* (pnl.rs:142-163, 250-286, 350-373).                                     *)
ReportUnderstates ==
    /\ ReportedNet = earned - pnl.fees
    /\ ReportedNet <= earned
    /\ pnl.trades = pnl.wins + pnl.losses /\ pnl.cumulative = pnl.won + pnl.lost
    /\ pnl.executed <= pnl.wins
=============================================================================
