------------------------------ MODULE MCTasks ------------------------------
(* The components that are several tasks or threads, for TLC, one at a     *)
(* time: an initial state chooses which one runs, and the others stay as   *)
(* they start.  They share nothing.  The fairness of each is that of its   *)
(* own module, owed while it is the one that runs.  The market list is     *)
(* refreshed to all tokens or to none.                                     *)
EXTENDS HotSwitchover, MCHotPath, MCHedge

VARIABLE part \* the component that runs

AllOrNone == {Token, {}}

Parts == {"switchover", "hot path", "hedges"}

Init == part \in Parts /\ SwitchInit /\ HotInit /\ HedgeInit

Next ==
    /\ IF part = "switchover" THEN SwitchNext ELSE UNCHANGED switchVars
    /\ IF part = "hot path"   THEN HotNext    ELSE UNCHANGED hotPathVars
    /\ IF part = "hedges"     THEN HedgeNext  ELSE UNCHANGED hedgeVars
    /\ tokenSide' \in AllOrNone
    /\ part' = part

vars == <<part, switchVars, hotPathVars, hedgeVars>>

Spec == Init /\ [][Next]_vars

Runs(p) == part = p

FairSpec ==
    /\ Spec
    /\ WF_switchVars(Runs("switchover") /\ Director)
    /\ WF_switchVars(Runs("switchover") /\ StrategyTake)
    /\ \A s \in Source : WF_switchVars(Runs("switchover") /\ (Connect(s) \/ ConnectFail(s)))
    /\ WF_hotPathVars(Runs("hot path") /\ Loop)
    /\ WF_hedgeVars(Runs("hedges") /\ Listener)
    /\ WF_hedgeVars(Runs("hedges") /\ Worker)
    /\ \A h \in Hedge : WF_hedgeVars(Runs("hedges") /\ Timer(h))
=============================================================================
