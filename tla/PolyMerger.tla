----------------------------- MODULE PolyMerger -----------------------------
(***************************************************************************)
(* The merger of src/src/merger.rs: every thirty seconds it fetches the    *)
(* positions of the wallet and goes through them, asking the exchange to   *)
(* merge pairs or to redeem what is resolved.  Positions are read from one *)
(* service, the data API, and requests served by another, the CLOB: the    *)
(* first knows of the wallet what it has heard of so far, and a request    *)
(* that was given up for an error may still be on its way to the second.   *)
(***************************************************************************)
EXTENDS Integers, Sequences, FiniteSets, SequencesExt

CONSTANTS Wallet,       \* markets the wallet may hold shares of
          BoughtShares, \* shares bought or sold at once
          MaxHeld,      \* bound: shares of a side in the wallet
          MaxUnderway   \* bound: requests of a market on their way

ASSUME PolyMergerAssumption ==
    BoughtShares \subseteq Nat /\ MaxHeld \in Nat /\ MaxUnderway \in Nat

VARIABLES
    held,     \* external: market -> YES and NO shares
    resolved, \* external: markets that are over
    indexed,  \* external: what the data API knows of a market
    underway, \* external: market -> requests on their way, pairs to merge or Redeem
    todo,     \* positions of this round that are still to be looked at
    report,   \* market -> what this round was told of it
    covered,  \* history: markets whose report was true, and nothing spent since
    overAsked \* history: a merge was asked of more than a covered market had

polyVars == <<held, resolved, indexed, underway, todo, report, covered, overAsked>>

Redeem   == 0
NoHolding == [yes |-> 0, no |-> 0, over |-> FALSE]
Holding(m) == [yes |-> held[m].yes, no |-> held[m].no, over |-> m \in resolved]

PolyInit ==
    /\ held = [m \in Wallet |-> [yes |-> 0, no |-> 0]]
    /\ resolved = {}
    /\ indexed = [m \in Wallet |-> NoHolding]
    /\ underway = [m \in Wallet |-> <<>>]
    /\ todo = {}
    /\ report = [m \in Wallet |-> NoHolding]
    /\ covered = {} /\ overAsked = FALSE
-----------------------------------------------------------------------------
(* The wallet and the two services.                                        *)

Buy(m, side, n) ==
    /\ m \notin resolved /\ held[m][side] + n <= MaxHeld
    /\ held' = [held EXCEPT ![m][side] = @ + n]
    /\ UNCHANGED <<resolved, indexed, underway, todo, report, covered, overAsked>>

(* Shares leave the wallet without the merger: sold, or merged by others.  *)
Spend(m, side, n) ==
    /\ held[m][side] >= n
    /\ held' = [held EXCEPT ![m][side] = @ - n]
    /\ covered' = covered \ {m}
    /\ UNCHANGED <<resolved, indexed, underway, todo, report, overAsked>>

Resolve(m) ==
    /\ m \notin resolved
    /\ resolved' = resolved \cup {m}
    /\ UNCHANGED <<held, indexed, underway, todo, report, covered, overAsked>>

(* The data API hears of the wallet.                                       *)
Index(m) ==
    /\ indexed' = [indexed EXCEPT ![m] = Holding(m)]
    /\ UNCHANGED <<held, resolved, underway, todo, report, covered, overAsked>>

(* A request arrives and is served if the shares are there, or it is       *)
(* refused or lost.                                                        *)
Serve(m, i) ==
    /\ i \in DOMAIN underway[m]
    /\ underway' = [underway EXCEPT ![m] = RemoveAt(@, i)]
    /\ LET n == underway[m][i] IN
         \/ UNCHANGED held
         \/ /\ n # Redeem /\ n <= held[m].yes /\ n <= held[m].no
            /\ held' = [held EXCEPT ![m] = [yes |-> @.yes - n, no |-> @.no - n]]
         \/ /\ n = Redeem /\ m \in resolved
            /\ held' = [held EXCEPT ![m] = [yes |-> 0, no |-> 0]]
    /\ UNCHANGED <<resolved, indexed, todo, report, covered, overAsked>>
-----------------------------------------------------------------------------
(* The merger.                                                             *)

(* A round begins when the last one is through; without an answer it is    *)
(* over at once.  A number of shares that is missing or not whole counts   *)
(* as none: whole names the sides whose text parses.                       *)
get_positions ==
    /\ todo = {}
    /\ todo' \in SUBSET Wallet
    /\ \E whole \in [Wallet -> SUBSET {"yes", "no"}] :
         report' = [m \in Wallet |->
                      IF m \in todo'
                      THEN [yes  |-> IF "yes" \in whole[m] THEN indexed[m].yes ELSE 0,
                            no   |-> IF "no" \in whole[m] THEN indexed[m].no ELSE 0,
                            over |-> indexed[m].over]
                      ELSE NoHolding]
    /\ covered' = {m \in todo' : indexed[m] = Holding(m) /\ underway[m] = <<>>}
    /\ UNCHANGED <<held, resolved, indexed, underway, overAsked>>

Lesser(a, b) == IF a < b THEN a ELSE b
Amount(p)    == Lesser(p.yes, p.no)

(* A request is sent, and awaited until its answer or an error comes: if   *)
(* an error, the request may still be on its way when the loop goes on.    *)
AskFor(m, request) ==
    /\ Len(underway[m]) < MaxUnderway
    /\ underway' = [underway EXCEPT ![m] = Append(@, request)]

NotesAsk(m, n) ==
    overAsked' = (overAsked \/ (m \in covered /\ (n > held[m].yes \/ n > held[m].no)))

(* Mutant: a merge without an answer is asked again.                       *)
merge_Again(m) ==
    /\ m \in todo /\ Amount(report[m]) > 0
    /\ AskFor(m, Amount(report[m]))
    /\ NotesAsk(m, Amount(report[m]))
    /\ todo' \in {todo, todo \ {m}}
    /\ UNCHANGED <<held, resolved, indexed, report, covered>>

(* With shares on both sides the pairs are merged, whatever the answer.    *)
merge(m) ==
    /\ m \in todo /\ Amount(report[m]) > 0
    /\ AskFor(m, Amount(report[m]))
    /\ NotesAsk(m, Amount(report[m]))
    /\ todo' = todo \ {m}
    /\ UNCHANGED <<held, resolved, indexed, report, covered>>

(* Otherwise what is resolved is redeemed; the rest is left alone.         *)
redeem(m) ==
    /\ m \in todo /\ Amount(report[m]) = 0
    /\ IF report[m].over THEN AskFor(m, Redeem) ELSE UNCHANGED underway
    /\ todo' = todo \ {m}
    /\ UNCHANGED <<held, resolved, indexed, report, covered, overAsked>>

PolyNext ==
    \/ get_positions
    \/ \E m \in Wallet :
         \/ merge(m) \/ redeem(m)
         \/ Resolve(m) \/ Index(m)
         \/ \E i \in 1..MaxUnderway : Serve(m, i)
         \/ \E s \in {"yes", "no"}, n \in BoughtShares : Buy(m, s, n) \/ Spend(m, s, n)

PolySpec == PolyInit /\ [][PolyNext]_polyVars
-----------------------------------------------------------------------------
(* The merger asks for more than there is only for what it cannot see: a   *)
(* report older than the wallet, an earlier request still on its way when  *)
(* it was fetched, or shares that left some other way since.  Its own asks *)
(* of a round never overlap, although they are served late, in any order   *)
(* or not at all (merger.rs:69, 142-158).                                  *)
OwnAsksCovered == ~overAsked
=============================================================================
