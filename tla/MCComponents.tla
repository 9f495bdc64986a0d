---------------------------- MODULE MCComponents ----------------------------
(* The small components for TLC, one at a time: an initial state chooses   *)
(* which one runs, and the others stay as they start.  They share nothing. *)
EXTENDS MCRollover, DryRunEngine, Gabagool, MakerHybrid, Simulators, PolyMerger,
        Submission, MarketLocks, FastBook, TradeLog, RiskChecks,
        Pnl, ProductionGuard

VARIABLE part \* the component that runs

Parts == {"rollover", "dry run", "gabagool", "maker", "simulators", "merger",
          "submission", "locks", "book", "log", "risk", "pnl", "guard"}

Init ==
    /\ part \in Parts
    /\ RolloverInit
    /\ part # "rollover" => clock = 700 /\ discovered = {}
    /\ DryRunInit /\ GabagoolInit /\ MakerInit /\ SimulatorsInit /\ PolyInit
    /\ SubmissionInit /\ LockInit /\ FastInit /\ TradeLogInit /\ RiskInit /\ PnlInit
    /\ GuardInit

Next ==
    /\ IF part = "rollover"   THEN RolloverNext   ELSE UNCHANGED rolloverVars
    /\ IF part = "dry run"    THEN DryRunNext     ELSE UNCHANGED dryRunVars
    /\ IF part = "gabagool"   THEN GabagoolNext   ELSE UNCHANGED gabagoolVars
    /\ IF part = "maker"      THEN MakerNext      ELSE UNCHANGED makerVars
    /\ IF part = "simulators" THEN SimulatorsNext ELSE UNCHANGED simulatorVars
    /\ IF part = "merger"     THEN PolyNext       ELSE UNCHANGED polyVars
    /\ IF part = "submission" THEN SubmissionNext ELSE UNCHANGED submissionVars
    /\ IF part = "locks"      THEN LockNext       ELSE UNCHANGED lockVars
    /\ IF part = "book"       THEN FastNext       ELSE UNCHANGED fastVars
    /\ IF part = "log"        THEN TradeLogNext   ELSE UNCHANGED logVars
    /\ IF part = "risk"       THEN RiskNext       ELSE UNCHANGED riskVars
    /\ IF part = "pnl"        THEN PnlNext        ELSE UNCHANGED pnlVars
    /\ IF part = "guard"      THEN GuardNext      ELSE UNCHANGED guardVars
    /\ part' = part

vars == <<part, rolloverVars, dryRunVars, gabagoolVars, makerVars, simulatorVars, polyVars,
          submissionVars, lockVars, fastVars, logVars, riskVars, pnlVars, guardVars>>

(* The guard's callers are alike.                                          *)
Callers == Permutations(Caller)

(* The time a caller took and the result of its trade are looked at only   *)
(* within some calls; states that differ in them elsewhere are one state.  *)
CallerView(c) ==
    <<pc[c],
      IF pc[c] \in {"break", "rate", "slots", "loss", "allowed", "trip"} THEN entry[c] ELSE 0,
      IF pc[c] \in {"stamp", "count", "lose", "total"} THEN result[c] ELSE "win">>

View == <<part, rolloverVars, dryRunVars, gabagoolVars, makerVars, simulatorVars, polyVars,
          submissionVars, lockVars, fastVars, logVars, riskVars, pnlVars,
          [c \in Caller |-> CallerView(c)], read, guards, parked, counters, now>>

Spec == Init /\ [][Next]_vars
=============================================================================
