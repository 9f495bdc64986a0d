-------------------------- MODULE SimulatorsProofs --------------------------
(* Proofs about the dry merger, the ghost simulator, the dry-run engine    *)
(* and the live merger, for every set of markets and every size.           *)
EXTENDS Simulators, DryRunEngine, PolyMerger, FoldLemmas

Shares == [yes : Nat, no : Nat]

(* The pairs of a position, and what a merge of them leaves.               *)
LEMMA MergeArithmetic ==
  ASSUME NEW p \in Shares
  PROVE  /\ Pairs(p) \in Nat
         /\ Remainder(p) \in Shares
         /\ p = Plus(Remainder(p), Pairs(p), Pairs(p))
         /\ Pairs(Remainder(p)) = 0
<1>1. CASE Pairs(p) = 0
  BY <1>1 DEF Shares, Pairs, Remainder, Plus
<1>2. CASE Pairs(p) # 0 /\ p.yes > p.no
  BY <1>2 DEF Shares, Pairs, Remainder, Plus
<1>3. CASE Pairs(p) # 0 /\ ~(p.yes > p.no)
  BY <1>3 DEF Shares, Pairs, Remainder, Plus
<1>4. QED
  BY <1>1, <1>2, <1>3

LEMMA PlusTwice ==
  ASSUME NEW p \in Shares, NEW a \in Nat, NEW b \in Nat, NEW y \in Nat, NEW n \in Nat
  PROVE  /\ Plus(p, y, n) \in Shares
         /\ Plus(Plus(p, a, a), b, b) = Plus(p, b + a, b + a)
         /\ Plus(Plus(p, a, a), y, n) = Plus(Plus(p, y, n), a, a)
  BY DEF Plus, Shares

SimulatorsInv ==
  /\ positions \in [Market -> Shares] /\ recorded \in [Market -> Shares]
  /\ merged \in [Market -> Nat]
  /\ SharesConserved
  /\ IsFiniteSet(DOMAIN pending)
  /\ stats \in [Results -> Nat]
  /\ tracked \in [all : Nat, replaced : Nat]
  /\ GhostsAccounted

LEMMA SimulatorsInvStep ==
  SimulatorsInv /\ [SimulatorsNext]_simulatorVars => SimulatorsInv'
<1> SUFFICES ASSUME SimulatorsInv, [SimulatorsNext]_simulatorVars
             PROVE  SimulatorsInv'
  OBVIOUS
<1> USE SimulatorsAssumption DEF SimulatorsInv
<1>1. ASSUME NEW c \in Market, NEW y \in TradeShares, NEW n \in TradeShares,
             record_trade(c, y, n)
      PROVE  SimulatorsInv'
  <2>1. y \in Nat /\ n \in Nat
    OBVIOUS
  <2>2. /\ positions' = [positions EXCEPT ![c] = Plus(positions[c], y, n)]
        /\ recorded' = [recorded EXCEPT ![c] = Plus(recorded[c], y, n)]
        /\ owner # "loop" /\ owner' # "loop" /\ UNCHANGED <<merged, ghostVars>>
    BY <1>1 DEF record_trade
  <2>3. Plus(positions[c], y, n) \in Shares /\ Plus(recorded[c], y, n) \in Shares
    BY <2>1, PlusTwice
  <2>4. Plus(recorded[c], y, n) = Plus(Plus(positions[c], y, n), merged[c], merged[c])
    BY <2>1, PlusTwice DEF SharesConserved
  <2>5. SharesConserved'
    BY <2>2, <2>4 DEF SharesConserved
  <2>6. QED
    BY <2>2, <2>3, <2>5 DEF ghostVars, GhostsAccounted
<1>2. CASE get_mergeable
  <2>1. /\ owner' = "loop"
        /\ positions' = [c \in Market |-> Remainder(positions[c])]
        /\ merged' = [c \in Market |-> merged[c] + Pairs(positions[c])]
        /\ UNCHANGED <<recorded, ghostVars>>
    BY <1>2 DEF get_mergeable
  <2>2. \A c \in Market : /\ Pairs(positions[c]) \in Nat
                          /\ Remainder(positions[c]) \in Shares
                          /\ Pairs(Remainder(positions[c])) = 0
    BY MergeArithmetic
  <2>3. ASSUME NEW c \in Market
        PROVE  recorded[c] = Plus(Remainder(positions[c]), merged[c] + Pairs(positions[c]),
                                  merged[c] + Pairs(positions[c]))
    <3> DEFINE p == positions[c]
               r == Remainder(p)
               k == Pairs(p)
    <3>1. p \in Shares /\ r \in Shares /\ k \in Nat /\ merged[c] \in Nat
      BY <2>2
    <3>2. p = Plus(r, k, k) /\ recorded[c] = Plus(p, merged[c], merged[c])
      BY <3>1, MergeArithmetic DEF SharesConserved
    <3> HIDE DEF p, r, k
    <3>3. Plus(Plus(r, k, k), merged[c], merged[c]) = Plus(r, merged[c] + k, merged[c] + k)
      BY <3>1, PlusTwice
    <3>4. QED
      BY <3>2, <3>3 DEF p, r, k
  <2>4. SharesConserved'
    BY <2>1, <2>2, <2>3 DEF SharesConserved
  <2>5. QED
    BY <2>1, <2>2, <2>4 DEF ghostVars, GhostsAccounted
<1>3. ASSUME NEW k \in Keys, NEW z \in GhostSize, track_opportunity(k, z)
      PROVE  SimulatorsInv'
  <2>1. /\ DOMAIN pending' = DOMAIN pending \cup {k}
        /\ tracked' = [all |-> tracked.all + 1,
                       replaced |-> tracked.replaced + Cardinality({k} \cap DOMAIN pending)]
        /\ UNCHANGED <<stats, mergerVars>>
    BY <1>3 DEF track_opportunity
  <2>2. /\ IsFiniteSet(DOMAIN pending') /\ Cardinality(DOMAIN pending) \in Nat
        /\ Cardinality(DOMAIN pending') = IF k \in DOMAIN pending THEN Cardinality(DOMAIN pending)
                                          ELSE Cardinality(DOMAIN pending) + 1
    BY <2>1, FS_AddElement, FS_CardinalityType
  <2>3. Cardinality({k} \cap DOMAIN pending) = IF k \in DOMAIN pending THEN 1 ELSE 0
    <3>1. CASE k \in DOMAIN pending
      <4>1. {k} \cap DOMAIN pending = {k}
        BY <3>1
      <4>2. QED
        BY <3>1, <4>1, FS_Singleton
    <3>2. CASE k \notin DOMAIN pending
      <4>1. {k} \cap DOMAIN pending = {}
        BY <3>2
      <4>2. QED
        BY <3>2, <4>1, FS_EmptySet
    <3>3. QED
      BY <3>1, <3>2
  <2>4. GhostsAccounted' /\ tracked' \in [all : Nat, replaced : Nat]
    BY <2>1, <2>2, <2>3 DEF GhostsAccounted, Results
  <2>5. QED
    BY <2>1, <2>2, <2>4 DEF mergerVars, SharesConserved
<1>4. ASSUME NEW k \in Keys, NEW z \in GhostSize, check_ghost(k, z)
      PROVE  SimulatorsInv'
  <2>1. PICK r \in Results : stats' = [stats EXCEPT ![r] = stats[r] + 1]
    BY <1>4 DEF check_ghost, Result, Results
  <2>2. /\ k \in DOMAIN pending /\ DOMAIN pending' = DOMAIN pending \ {k}
        /\ UNCHANGED <<tracked, mergerVars>>
    BY <1>4 DEF check_ghost
  <2>3. /\ IsFiniteSet(DOMAIN pending') /\ Cardinality(DOMAIN pending) \in Nat
        /\ Cardinality(DOMAIN pending') = Cardinality(DOMAIN pending) - 1
    BY <2>2, FS_RemoveElement, FS_CardinalityType
  <2>4. GhostsAccounted' /\ stats' \in [Results -> Nat]
    BY <2>1, <2>2, <2>3 DEF GhostsAccounted, Results
  <2>5. QED
    BY <2>2, <2>3, <2>4 DEF mergerVars, SharesConserved
<1>5. ASSUME NEW k \in Keys, Elapse(k)
      PROVE  SimulatorsInv'
  <2>1. DOMAIN pending' = DOMAIN pending /\ UNCHANGED <<stats, tracked, mergerVars>>
    BY <1>5 DEF Elapse
  <2>2. QED
    BY <2>1 DEF mergerVars, SharesConserved, GhostsAccounted
<1>6. CASE UNCHANGED simulatorVars
  BY <1>6 DEF simulatorVars, mergerVars, ghostVars, SharesConserved, GhostsAccounted
<1>7. QED
  BY <1>1, <1>2, <1>3, <1>4, <1>5, <1>6 DEF SimulatorsNext

(* No share and no opportunity is lost or counted twice, for any trades in *)
(* any order (dry_merger.rs:15-74, ghost_simulator.rs:48-105).             *)
THEOREM SimulatorsCorrect == SimulatorsSpec => []SimulatorsBalance
<1>1. SimulatorsInit => SimulatorsInv
  <2> SUFFICES ASSUME SimulatorsInit PROVE SimulatorsInv
    OBVIOUS
  <2>1. DOMAIN pending = {} /\ IsFiniteSet({}) /\ Cardinality({}) = 0
    BY FS_EmptySet DEF SimulatorsInit
  <2>2. SharesConserved /\ GhostsAccounted
    BY <2>1 DEF SimulatorsInit, SharesConserved, GhostsAccounted, NoShares, Plus, Results
  <2>3. QED
    BY <2>1, <2>2 DEF SimulatorsInit, SimulatorsInv, NoShares, Shares, Results
<1>2. SimulatorsInv => SimulatorsBalance
  BY DEF SimulatorsInv, SimulatorsBalance
<1>3. QED
  BY <1>1, <1>2, SimulatorsInvStep, PTL DEF SimulatorsSpec
-----------------------------------------------------------------------------
(* The dry-run engine: where a trap ends.                                  *)

TrapsInv ==
  /\ IsFiniteSet(DOMAIN simulated)
  /\ metrics \in [traps : Nat, merges : Nat, timeouts : Nat, ghosts : Nat, aborts : Nat]
  /\ unbooked \in Nat
  /\ TrapsAccounted

LEMMA CommonWithOne ==
  ASSUME NEW s, NEW S
  PROVE  Cardinality({s} \cap S) = IF s \in S THEN 1 ELSE 0
<1>1. CASE s \in S
  <2>1. {s} \cap S = {s}
    BY <1>1
  <2>2. QED
    BY <1>1, <2>1, FS_Singleton
<1>2. CASE s \notin S
  <2>1. {s} \cap S = {}
    BY <1>2
  <2>2. QED
    BY <1>2, <2>1, FS_EmptySet
<1>3. QED
  BY <1>1, <1>2

LEMMA PartAndRest ==
  ASSUME NEW S, IsFiniteSet(S), NEW T \in SUBSET S
  PROVE  /\ IsFiniteSet(T) /\ IsFiniteSet(S \ T)
         /\ Cardinality(T) \in Nat /\ Cardinality(S \ T) \in Nat
         /\ Cardinality(S) = Cardinality(T) + Cardinality(S \ T)
<1>1. IsFiniteSet(T) /\ Cardinality(T) \in Nat /\ Cardinality(S) \in Nat
  BY FS_Subset, FS_CardinalityType
<1>2. IsFiniteSet(S \ T) /\ Cardinality(S \ T) = Cardinality(S) - Cardinality(T)
  <2>1. S \cap T = T
    OBVIOUS
  <2>2. QED
    BY <2>1, FS_Difference
<1>3. QED
  BY <1>1, <1>2, FS_CardinalityType

LEMMA TrapsInvStep == TrapsInv /\ [DryRunNext]_dryRunVars => TrapsInv'
<1> SUFFICES ASSUME TrapsInv, [DryRunNext]_dryRunVars
             PROVE  TrapsInv'
  OBVIOUS
<1> USE DryRunAssumption DEF TrapsInv
<1> DEFINE D == DOMAIN simulated
<1>c. Cardinality(D) \in Nat
  BY FS_CardinalityType
<1>1. ASSUME NEW s \in Slug, place_simulated(s)
      PROVE  TrapsInv'
  <2>1. /\ metrics' = [metrics EXCEPT !.traps = metrics.traps + 1]
        /\ unbooked' = unbooked + Cardinality({s} \cap D)
        /\ DOMAIN simulated' = D \cup {s}
    BY <1>1 DEF place_simulated
  <2>2. Cardinality({s} \cap D) = IF s \in D THEN 1 ELSE 0
    BY CommonWithOne
  <2>3. /\ IsFiniteSet(D \cup {s})
        /\ Cardinality(D \cup {s}) = IF s \in D THEN Cardinality(D) ELSE Cardinality(D) + 1
    BY FS_AddElement
  <2>4. /\ metrics' \in [traps : Nat, merges : Nat, timeouts : Nat, ghosts : Nat, aborts : Nat]
        /\ metrics'.traps = metrics.traps + 1 /\ metrics'.merges = metrics.merges
        /\ metrics'.timeouts = metrics.timeouts /\ metrics'.ghosts = metrics.ghosts
    BY <2>1
  <2>5. CASE s \in D
    BY <1>c, <2>1, <2>2, <2>3, <2>4, <2>5 DEF TrapsAccounted
  <2>6. CASE s \notin D
    BY <1>c, <2>1, <2>2, <2>3, <2>4, <2>6 DEF TrapsAccounted
  <2>7. QED
    BY <2>5, <2>6
<1>2. ASSUME NEW s \in Slug, NEW buy \in BOOLEAN, NEW p \in TradePrice, NEW z \in TradeSize,
             evaluate_trade(s, buy, p, z)
      PROVE  TrapsInv'
  <2>1. \/ DOMAIN simulated' = D /\ metrics' = metrics /\ unbooked' = unbooked
        \/ /\ s \in D /\ DOMAIN simulated' = D \ {s}
           /\ metrics' = [metrics EXCEPT !.merges = metrics.merges + 1]
           /\ unbooked' = unbooked
    BY <1>2 DEF evaluate_trade, Without
  <2>2. CASE DOMAIN simulated' = D /\ metrics' = metrics /\ unbooked' = unbooked
    BY <2>2 DEF TrapsAccounted
  <2>3. CASE /\ s \in D /\ DOMAIN simulated' = D \ {s}
             /\ metrics' = [metrics EXCEPT !.merges = metrics.merges + 1]
             /\ unbooked' = unbooked
    <3>1. IsFiniteSet(D \ {s}) /\ Cardinality(D \ {s}) = Cardinality(D) - 1
      BY <2>3, FS_RemoveElement
    <3>2. QED
      BY <1>c, <2>3, <3>1 DEF TrapsAccounted
  <2>4. QED
    BY <2>1, <2>2, <2>3
<1>3. CASE check_timeouts
  <2> DEFINE old      == {s \in D : simulated[s].age > Lifetime}
             ghost    == {s \in old : simulated[s].yes = 0 /\ simulated[s].no = 0}
             oneSided == {s \in old \ ghost : simulated[s].yes = 0 \/ simulated[s].no = 0}
             rest     == old \ (ghost \cup oneSided)
  <2>1. /\ DOMAIN simulated' = D \ old
        /\ metrics' = [metrics EXCEPT !.timeouts = metrics.timeouts + Cardinality(oneSided),
                                      !.ghosts = metrics.ghosts + Cardinality(ghost)]
        /\ unbooked' = unbooked + Cardinality(rest)
    BY <1>3 DEF check_timeouts, Without
  <2>2. /\ IsFiniteSet(D \ old)
        /\ Cardinality(ghost) \in Nat /\ Cardinality(oneSided) \in Nat
        /\ Cardinality(rest) \in Nat
        /\ Cardinality(D) = Cardinality(D \ old) + Cardinality(rest)
                             + Cardinality(ghost) + Cardinality(oneSided)
    <3>1. old \in SUBSET D /\ IsFiniteSet(D)
      OBVIOUS
    <3>2. ghost \in SUBSET old /\ oneSided \in SUBSET old
      OBVIOUS
    <3>3. ghost \in SUBSET (ghost \cup oneSided) /\ (ghost \cup oneSided) \ ghost = oneSided
      OBVIOUS
    <3> HIDE DEF TrapsInv, D, old, ghost, oneSided
    <3>4. /\ IsFiniteSet(old) /\ IsFiniteSet(D \ old)
          /\ Cardinality(D) = Cardinality(old) + Cardinality(D \ old)
          /\ Cardinality(D \ old) \in Nat
      BY <3>1, PartAndRest
    <3>5. ghost \cup oneSided \in SUBSET old
      BY <3>2
    <3>6. /\ IsFiniteSet(ghost \cup oneSided) /\ Cardinality(rest) \in Nat
          /\ Cardinality(old) = Cardinality(ghost \cup oneSided) + Cardinality(rest)
      BY <3>4, <3>5, PartAndRest
    <3>7. /\ Cardinality(ghost) \in Nat /\ Cardinality(oneSided) \in Nat
          /\ Cardinality(ghost \cup oneSided) = Cardinality(ghost) + Cardinality(oneSided)
      BY <3>3, <3>6, PartAndRest
    <3> HIDE DEF rest
    <3>8. QED
      BY <3>4, <3>6, <3>7
  <2>3. Cardinality(D \ old) \in Nat
    BY <2>2, FS_CardinalityType
  <2> HIDE DEF old, ghost, oneSided, rest
  <2>4. /\ metrics' \in [traps : Nat, merges : Nat, timeouts : Nat, ghosts : Nat, aborts : Nat]
        /\ metrics'.traps = metrics.traps /\ metrics'.merges = metrics.merges
        /\ metrics'.timeouts = metrics.timeouts + Cardinality(oneSided)
        /\ metrics'.ghosts = metrics.ghosts + Cardinality(ghost)
    <3>1. /\ metrics.timeouts + Cardinality(oneSided) \in Nat
          /\ metrics.ghosts + Cardinality(ghost) \in Nat
      BY <2>2
    <3>2. QED
      BY <2>1, <3>1
  <2>5. TrapsAccounted'
    <3> HIDE DEF D
    <3>1. metrics.traps = Cardinality(D) + unbooked + metrics.merges + metrics.timeouts
                          + metrics.ghosts
      BY DEF TrapsAccounted, D
    <3>2. unbooked' \in Nat /\ Cardinality(DOMAIN simulated') = Cardinality(D \ old)
      BY <2>1, <2>2
    <3>3. QED
      BY <2>1, <2>2, <2>3, <2>4, <3>1, <3>2 DEF TrapsAccounted
  <2>6. unbooked' \in Nat /\ IsFiniteSet(DOMAIN simulated')
    BY <2>1, <2>2
  <2>7. QED
    BY <2>4, <2>5, <2>6
<1>4. CASE abort_toxic
  <2>1. /\ DOMAIN simulated' = {}
        /\ metrics' = [metrics EXCEPT !.aborts = metrics.aborts + 1]
        /\ unbooked' = unbooked + Cardinality(D)
    BY <1>4 DEF abort_toxic
  <2>2. IsFiniteSet(DOMAIN simulated') /\ Cardinality(DOMAIN simulated') = 0
    BY <2>1, FS_EmptySet
  <2>3. /\ metrics' \in [traps : Nat, merges : Nat, timeouts : Nat, ghosts : Nat, aborts : Nat]
        /\ metrics'.traps = metrics.traps /\ metrics'.merges = metrics.merges
        /\ metrics'.timeouts = metrics.timeouts /\ metrics'.ghosts = metrics.ghosts
    BY <2>1
  <2>4. unbooked' \in Nat
    BY <1>c, <2>1
  <2>5. TrapsAccounted'
    <3> HIDE DEF D
    <3>1. metrics.traps = Cardinality(D) + unbooked + metrics.merges + metrics.timeouts
                          + metrics.ghosts
      BY DEF TrapsAccounted, D
    <3>2. QED
      BY <1>c, <2>1, <2>2, <2>3, <2>4, <3>1 DEF TrapsAccounted
  <2>6. QED
    BY <2>2, <2>3, <2>4, <2>5
<1>5. CASE Age
  <2>1. DOMAIN simulated' = D /\ UNCHANGED <<metrics, unbooked>>
    BY <1>5 DEF Age
  <2>2. QED
    BY <2>1 DEF TrapsAccounted
<1>6. CASE UNCHANGED dryRunVars
  BY <1>6 DEF dryRunVars, TrapsAccounted
<1>7. QED
  BY <1>1, <1>2, <1>3, <1>4, <1>5, <1>6 DEF DryRunNext

(* Every trap is open, in one of the metrics, or ended unbooked, for any   *)
(* traps, trades and time-outs (dry_run_engine.rs:67-163).                 *)
THEOREM TrapsCorrect == DryRunSpec => []TrapsAccounted
<1>1. DryRunInit => TrapsInv
  <2> SUFFICES ASSUME DryRunInit PROVE TrapsInv
    OBVIOUS
  <2>1. DOMAIN simulated = {} /\ IsFiniteSet({}) /\ Cardinality({}) = 0
    BY FS_EmptySet DEF DryRunInit
  <2>2. QED
    BY <2>1 DEF DryRunInit, TrapsInv, TrapsAccounted
<1>2. TrapsInv => TrapsAccounted
  BY DEF TrapsInv
<1>3. QED
  BY <1>1, <1>2, TrapsInvStep, PTL DEF DryRunSpec
-----------------------------------------------------------------------------
(* What a ladder's fills cost.                                             *)

(* A set that every level keeps to is kept by filling the whole ladder.    *)
LEMMA FillStays ==
  ASSUME NEW q, NEW n \in Nat, DOMAIN q = 1..n, NEW J, NEW base \in J,
         \A i \in 1..n, s \in J : FillLevel(s, q[i]) \in J
  PROVE  FoldLeft(FillLevel, base, q) \in J
<1> DEFINE G(h) == [T \in SUBSET DOMAIN q |->
                      IF T = {} THEN base ELSE FillLevel(h[T \ {Max(T)}], q[Max(T)])]
           I == CHOOSE h : h = G(h)
           step == [z \in (1..n) \X J |-> FillLevel(z[2], q[z[1]])]
<1>1. \A i \in 1..n, s \in J : step[<<i, s>>] = FillLevel(s, q[i]) /\ step[<<i, s>>] \in J
  OBVIOUS
<1>2. PICK g \in [SUBSET (1..n) -> J] : Follows(g, 1..n, base, step)
  <2> HIDE DEF step
  <2>1. QED
    BY <1>1, FoldExists
<1>3. ASSUME NEW T \in SUBSET (1..n), T # {}
      PROVE  /\ T \ {Max(T)} \in SUBSET (1..n)
             /\ Max(T) \in 1..n
  BY <1>3, LastPosition
<1>4. g = G(g)
  <2>1. ASSUME NEW T \in SUBSET (1..n)
        PROVE  g[T] = IF T = {} THEN base ELSE FillLevel(g[T \ {Max(T)}], q[Max(T)])
    <3>1. CASE T = {}
      BY <1>2, <3>1 DEF Follows
    <3>2. CASE T # {}
      <4>1. g[T] = step[<<Max(T), g[T \ {Max(T)}]>>]
        BY <1>2, <3>2 DEF Follows
      <4>2. g[T \ {Max(T)}] \in J /\ Max(T) \in 1..n
        BY <1>3, <3>2
      <4> HIDE DEF step
      <4>3. QED
        BY <3>2, <4>1, <4>2, <1>1
    <3>3. QED
      BY <3>1, <3>2
  <2>2. QED
    BY <2>1
<1>5. I = G(I)
  <2> HIDE DEF G
  <2>1. QED
    BY <1>4
<1>6. FoldLeft(FillLevel, base, q) = I[DOMAIN q]
  BY DEF FoldLeft, MapThenFoldSet
<1> HIDE DEF I
<1>7. \A T \in SUBSET (1..n) :
        I[T] = IF T = {} THEN base ELSE FillLevel(I[T \ {Max(T)}], q[Max(T)])
  BY <1>5
<1>8. I[{}] \in J
  BY <1>7
<1>9. ASSUME NEW T \in SUBSET (1..n), T # {}, I[T \ {Max(T)}] \in J
      PROVE  I[T] \in J
  BY <1>3, <1>7, <1>9
<1>10. I[1..n] \in J
  BY <1>8, <1>9, FoldStays
<1>11. QED
  BY <1>6, <1>10

Priced == {s \in [filled : Nat, cost : Nat, price : Nat, size : Nat] :
             30 * s.filled <= s.cost /\ s.cost <= 45 * s.filled}

FilledTrap == {p \in [yes : Nat, no : Nat, yesCost : Nat, noCost : Nat, age : Nat] :
                 /\ 30 * p.yes <= p.yesCost /\ p.yesCost <= 45 * p.yes
                 /\ 30 * p.no <= p.noCost /\ p.noCost <= 45 * p.no}

FillInv == simulated \in [DOMAIN simulated -> FilledTrap]

(* Whatever a level reckons from the one total, it adds a positive number  *)
(* of shares at its own price.                                             *)
LEMMA LevelPriced ==
  ASSUME NEW s \in Priced, NEW i \in 1..3
  PROVE  FillLevel(s, Ladder[i]) \in Priced
<1> DEFINE l == Ladder[i]
<1>1. l.price \in {30, 40, 45} /\ l.size \in Nat
  BY DEF Ladder
<1> HIDE DEF l
<1>2. LevelRest(s, l) \in Int
  <2>1. s.cost \div l.price \in Int
    BY <1>1 DEF Priced
  <2>2. QED
    BY <1>1, <2>1 DEF LevelRest, Priced
<1> DEFINE fill == IF s.size < LevelRest(s, l) THEN s.size ELSE LevelRest(s, l)
<1>3. fill \in Int
  BY <1>2 DEF Priced
<1>4. FillLevel(s, l) = IF s.price <= l.price /\ fill > 0
                        THEN [s EXCEPT !.filled = @ + fill, !.cost = @ + l.price * fill]
                        ELSE s
  BY DEF FillLevel
<1> HIDE DEF fill
<1>5. CASE s.price <= l.price /\ fill > 0
  <2>1. l.price * fill \in Nat /\ 30 * fill <= l.price * fill /\ l.price * fill <= 45 * fill
    BY <1>1, <1>3, <1>5
  <2>2. /\ 30 * (s.filled + fill) <= s.cost + l.price * fill
        /\ s.cost + l.price * fill <= 45 * (s.filled + fill)
    BY <1>3, <2>1 DEF Priced
  <2>3. FillLevel(s, l) = [s EXCEPT !.filled = s.filled + fill, !.cost = s.cost + l.price * fill]
    BY <1>4, <1>5
  <2>4. FillLevel(s, l) \in Priced
    <3> DEFINE f == s.filled + fill
               c == s.cost + l.price * fill
    <3>1. f \in Nat /\ c \in Nat /\ 30 * f <= c /\ c <= 45 * f
      BY <1>3, <1>5, <2>1, <2>2 DEF Priced
    <3>2. FillLevel(s, l) = [s EXCEPT !.filled = f, !.cost = c]
      BY <2>3
    <3> HIDE DEF f, c
    <3>3. QED
      BY <3>1, <3>2 DEF Priced
  <2>5. QED
    BY <2>4 DEF l
<1>6. CASE ~(s.price <= l.price /\ fill > 0)
  BY <1>4, <1>6 DEF l
<1>7. QED
  BY <1>5, <1>6

LEMMA LadderPriced ==
  ASSUME NEW filled \in Nat, NEW cost \in Nat, NEW price \in Nat, NEW size \in Nat,
         30 * filled <= cost, cost <= 45 * filled
  PROVE  fill_ladder(filled, cost, price, size) \in Priced
<1> DEFINE base == [filled |-> filled, cost |-> cost, price |-> price, size |-> size]
<1>1. base \in Priced
  BY DEF Priced
<1>2. DOMAIN Ladder = 1..3 /\ 3 \in Nat
  BY DEF Ladder
<1>3. FoldLeft(FillLevel, base, Ladder) \in Priced
  <2> HIDE DEF base
  <2>1. QED
    BY <1>1, <1>2, LevelPriced, FillStays
<1>4. QED
  BY <1>3 DEF fill_ladder

LEMMA FillInvStep == FillInv /\ [DryRunNext]_dryRunVars => FillInv'
<1> SUFFICES ASSUME FillInv, [DryRunNext]_dryRunVars
             PROVE  FillInv'
  OBVIOUS
<1> USE DEF FillInv
<1>1. ASSUME NEW s \in Slug, place_simulated(s)
      PROVE  FillInv'
  <2>1. Empty \in FilledTrap
    BY DEF Empty, FilledTrap
  <2>2. QED
    BY <1>1, <2>1 DEF place_simulated
<1>2. ASSUME NEW s \in Slug, NEW buy \in BOOLEAN, NEW price \in TradePrice,
             NEW size \in TradeSize, evaluate_trade(s, buy, price, size), s \in DOMAIN simulated
      PROVE  FillInv'
  <2> DEFINE p == simulated[s]
             y == fill_ladder(p.yes, p.yesCost, price, size)
             n == fill_ladder(p.no, p.noCost, price, size)
             q == IF buy THEN [p EXCEPT !.yes = y.filled, !.yesCost = y.cost]
                         ELSE [p EXCEPT !.no = n.filled, !.noCost = n.cost]
  <2>1. p \in FilledTrap
    BY <1>2
  <2>2. y \in Priced /\ n \in Priced
    <3>1. price \in Nat /\ size \in Nat
      BY DryRunAssumption
    <3> HIDE DEF p
    <3>2. QED
      BY <2>1, <3>1, LadderPriced DEF FilledTrap
  <2>3. q \in FilledTrap
    <3> HIDE DEF p, y, n
    <3>1. QED
      BY <2>1, <2>2 DEF FilledTrap, Priced
  <2>4. \/ simulated' = Without(simulated, {s})
        \/ simulated' = [simulated EXCEPT ![s] = q]
    BY <1>2 DEF evaluate_trade
  <2> HIDE DEF q
  <2>5. QED
    BY <2>3, <2>4 DEF Without
<1>3. CASE check_timeouts
  <2>1. PICK old : simulated' = Without(simulated, old)
    BY <1>3 DEF check_timeouts
  <2>2. QED
    BY <2>1 DEF Without
<1>4. CASE abort_toxic
  BY <1>4 DEF abort_toxic
<1>5. CASE Age
  <2>1. simulated' = [s \in DOMAIN simulated |->
                        [simulated[s] EXCEPT !.age = IF @ <= Lifetime THEN @ + 1 ELSE @]]
    BY <1>5 DEF Age
  <2>2. ASSUME NEW s \in DOMAIN simulated
        PROVE  [simulated[s] EXCEPT !.age = IF @ <= Lifetime THEN @ + 1 ELSE @] \in FilledTrap
    <3>1. simulated[s] \in FilledTrap
      OBVIOUS
    <3>2. QED
      BY <3>1 DEF FilledTrap
  <2>3. QED
    BY <2>1, <2>2
<1>6. CASE UNCHANGED simulated
  BY <1>6
<1>7. ASSUME NEW s \in Slug, NEW buy \in BOOLEAN, NEW price \in TradePrice,
             NEW size \in TradeSize, evaluate_trade(s, buy, price, size)
      PROVE  FillInv'
  <2>1. CASE s \in DOMAIN simulated
    BY <1>2, <1>7, <2>1
  <2>2. CASE s \notin DOMAIN simulated
    BY <1>6, <1>7, <2>2 DEF evaluate_trade
  <2>3. QED
    BY <2>1, <2>2
<1>8. QED
  BY <1>1, <1>3, <1>4, <1>5, <1>6, <1>7 DEF DryRunNext, dryRunVars

(* A side's shares cost between the lowest and the highest price of the    *)
(* ladder, whatever trades come, at whatever price and of whatever size    *)
(* (dry_run_engine.rs:107-120).                                            *)
THEOREM FillsCorrect == DryRunSpec => []FillsPriced
<1>1. DryRunInit => FillInv
  BY DEF DryRunInit, FillInv
<1>2. FillInv => FillsPriced
  <2> SUFFICES ASSUME FillInv, NEW s \in DOMAIN simulated
               PROVE  /\ simulated[s].yesCost \in 30 * simulated[s].yes..45 * simulated[s].yes
                      /\ simulated[s].noCost \in 30 * simulated[s].no..45 * simulated[s].no
    BY DEF FillsPriced
  <2>1. simulated[s] \in FilledTrap
    BY DEF FillInv
  <2>2. QED
    BY <2>1 DEF FilledTrap
<1>3. QED
  BY <1>1, <1>2, FillInvStep, PTL DEF DryRunSpec
-----------------------------------------------------------------------------
(* The live merger: what it asks for while it knows the wallet.            *)

Counted(f) == \A m \in Wallet : f[m].yes \in Nat /\ f[m].no \in Nat

(* A covered market that is still to be looked at has the shares it was    *)
(* reported with, and nothing of it is on its way that could take them.    *)
CoveredSafe ==
  \A m \in Wallet : m \in covered /\ m \in todo
    => underway[m] = <<>> /\ report[m].yes <= held[m].yes /\ report[m].no <= held[m].no

MergerInv ==
  /\ held \in [Wallet -> Shares]
  /\ DOMAIN indexed = Wallet /\ Counted(indexed) /\ Counted(report)
  /\ underway \in [Wallet -> Seq(Nat)]
  /\ CoveredSafe
  /\ OwnAsksCovered

LEMMA AmountIsLess ==
  ASSUME Counted(report), NEW m \in Wallet
  PROVE  /\ Amount(report[m]) \in Nat
         /\ Amount(report[m]) <= report[m].yes /\ Amount(report[m]) <= report[m].no
  BY DEF Counted, Amount, Lesser

(* A side of a market gains or loses shares.                               *)
LEMMA SideChanged ==
  ASSUME held \in [Wallet -> Shares], NEW m \in Wallet, NEW s \in {"yes", "no"}, NEW v \in Nat
  PROVE  /\ [held EXCEPT ![m][s] = v] \in [Wallet -> Shares]
         /\ \A k \in Wallet \ {m} : [held EXCEPT ![m][s] = v][k] = held[k]
         /\ v >= held[m][s] => /\ [held EXCEPT ![m][s] = v][m].yes >= held[m].yes
                               /\ [held EXCEPT ![m][s] = v][m].no >= held[m].no
<1>1. CASE s = "yes"
  <2>1. [held EXCEPT ![m][s] = v] = [held EXCEPT ![m] = [held[m] EXCEPT !.yes = v]]
    BY <1>1
  <2>2. [held[m] EXCEPT !.yes = v] \in Shares
    BY DEF Shares
  <2>3. QED
    BY <1>1, <2>1, <2>2 DEF Shares
<1>2. CASE s = "no"
  <2>1. [held EXCEPT ![m][s] = v] = [held EXCEPT ![m] = [held[m] EXCEPT !.no = v]]
    BY <1>2
  <2>2. [held[m] EXCEPT !.no = v] \in Shares
    BY DEF Shares
  <2>3. QED
    BY <1>2, <2>1, <2>2 DEF Shares
<1>3. QED
  BY <1>1, <1>2

(* Sending a request for a market that is looked at, and dropping it.      *)
LEMMA AskKeeps ==
  ASSUME MergerInv, NEW m \in Wallet, NEW n \in Nat,
         underway' = [underway EXCEPT ![m] = Append(@, n)] \/ underway' = underway,
         todo' = todo \ {m}, UNCHANGED <<held, indexed, report, covered>>,
         ~overAsked'
  PROVE  MergerInv'
<1> USE DEF MergerInv
<1>1. underway' \in [Wallet -> Seq(Nat)] /\ \A k \in Wallet \ {m} : underway'[k] = underway[k]
  <2>1. underway[m] \in Seq(Nat)
    OBVIOUS
  <2>2. Append(underway[m], n) \in Seq(Nat)
    BY <2>1
  <2>3. CASE underway' = [underway EXCEPT ![m] = Append(underway[m], n)]
    BY <2>2, <2>3
  <2>4. CASE underway' = underway
    BY <2>4
  <2>5. QED
    BY <2>3, <2>4
<1>2. CoveredSafe'
  BY <1>1 DEF CoveredSafe
<1>3. QED
  BY <1>1, <1>2 DEF Counted, OwnAsksCovered

LEMMA MergerInvStep == MergerInv /\ [PolyNext]_polyVars => MergerInv'
<1> SUFFICES ASSUME MergerInv, [PolyNext]_polyVars
             PROVE  MergerInv'
  OBVIOUS
<1> USE PolyMergerAssumption DEF MergerInv
<1>1. ASSUME NEW m \in Wallet, Resolve(m)
      PROVE  MergerInv'
  BY <1>1 DEF Resolve, CoveredSafe, Counted, OwnAsksCovered
<1>2. ASSUME NEW m \in Wallet, NEW s \in {"yes", "no"}, NEW n \in BoughtShares, Buy(m, s, n)
      PROVE  MergerInv'
  <2>1. /\ held' = [held EXCEPT ![m][s] = held[m][s] + n]
        /\ UNCHANGED <<indexed, underway, todo, report, covered, overAsked>>
    BY <1>2 DEF Buy
  <2>2. held[m][s] \in Nat /\ held[m][s] + n \in Nat /\ held[m][s] + n >= held[m][s]
    BY DEF Shares
  <2>3. /\ held' \in [Wallet -> Shares]
        /\ \A k \in Wallet : held'[k].yes >= held[k].yes /\ held'[k].no >= held[k].no
    BY <2>1, <2>2, SideChanged DEF Shares
  <2>4. CoveredSafe'
    <3> SUFFICES ASSUME NEW k \in Wallet, k \in covered, k \in todo
                 PROVE  /\ underway[k] = <<>>
                        /\ report[k].yes <= held'[k].yes /\ report[k].no <= held'[k].no
      BY <2>1 DEF CoveredSafe
    <3>1. /\ underway[k] = <<>>
          /\ report[k].yes <= held[k].yes /\ report[k].no <= held[k].no
      BY DEF CoveredSafe
    <3>2. /\ held[k].yes \in Nat /\ held'[k].yes \in Nat
          /\ held[k].no \in Nat /\ held'[k].no \in Nat
          /\ report[k].yes \in Nat /\ report[k].no \in Nat
          /\ held'[k].yes >= held[k].yes /\ held'[k].no >= held[k].no
      BY <2>3 DEF Shares, Counted
    <3>3. QED
      BY <3>1, <3>2
  <2>5. QED
    BY <2>1, <2>3, <2>4 DEF Counted, OwnAsksCovered
<1>3. ASSUME NEW m \in Wallet, NEW s \in {"yes", "no"}, NEW n \in BoughtShares, Spend(m, s, n)
      PROVE  MergerInv'
  <2>1. /\ held' = [held EXCEPT ![m][s] = held[m][s] - n] /\ held[m][s] >= n
        /\ covered' = covered \ {m}
        /\ UNCHANGED <<indexed, underway, todo, report, overAsked>>
    BY <1>3 DEF Spend
  <2>2. held[m][s] - n \in Nat
    <3>1. n \in Nat /\ held[m][s] \in Nat
      BY DEF Shares
    <3>2. QED
      BY <2>1, <3>1
  <2>3. held' \in [Wallet -> Shares] /\ \A k \in Wallet \ {m} : held'[k] = held[k]
    <3> DEFINE v == held[m][s] - n
    <3>1. held' = [held EXCEPT ![m][s] = v]
      BY <2>1
    <3>2. v \in Nat
      BY <2>2
    <3> HIDE DEF v
    <3>3. QED
      BY <3>1, <3>2, SideChanged
  <2>4. CoveredSafe'
    BY <2>1, <2>3 DEF CoveredSafe
  <2>5. QED
    BY <2>1, <2>3, <2>4 DEF Counted, OwnAsksCovered
<1>4. ASSUME NEW m \in Wallet, Index(m)
      PROVE  MergerInv'
  <2>1. /\ indexed' = [indexed EXCEPT ![m] = Holding(m)]
        /\ UNCHANGED <<held, underway, todo, report, covered, overAsked>>
    BY <1>4 DEF Index
  <2>2. Holding(m).yes \in Nat /\ Holding(m).no \in Nat
    BY DEF Holding, Shares
  <2>3. DOMAIN indexed' = Wallet /\ Counted(indexed')
    BY <2>1, <2>2 DEF Counted
  <2>4. QED
    BY <2>1, <2>3 DEF CoveredSafe, Counted, OwnAsksCovered
<1>5. ASSUME NEW m \in Wallet, NEW i \in 1..MaxUnderway, Serve(m, i)
      PROVE  MergerInv'
  <2> DEFINE n == underway[m][i]
  <2>1. /\ i \in DOMAIN underway[m]
        /\ underway' = [underway EXCEPT ![m] = RemoveAt(underway[m], i)]
        /\ UNCHANGED <<indexed, todo, report, covered, overAsked>>
    BY <1>5 DEF Serve
  <2>2. underway[m] \in Seq(Nat) /\ n \in Nat /\ RemoveAt(underway[m], i) \in Seq(Nat)
    <3>1. underway[m] \in Seq(Nat) /\ i \in 1..Len(underway[m])
      BY <2>1
    <3>2. n \in Nat
      BY <3>1
    <3>3. /\ SubSeq(underway[m], 1, i - 1) \in Seq(Nat)
          /\ SubSeq(underway[m], i + 1, Len(underway[m])) \in Seq(Nat)
      BY <3>1
    <3>4. QED
      BY <3>1, <3>2, <3>3 DEF RemoveAt
  <2>3. /\ underway' \in [Wallet -> Seq(Nat)]
        /\ \A k \in Wallet \ {m} : underway'[k] = underway[k]
    BY <2>1, <2>2
  <2>4. held' \in [Wallet -> Shares] /\ \A k \in Wallet \ {m} : held'[k] = held[k]
    <3>1. \/ held' = held
          \/ /\ n <= held[m].yes /\ n <= held[m].no
             /\ held' = [held EXCEPT ![m] = [yes |-> held[m].yes - n, no |-> held[m].no - n]]
          \/ held' = [held EXCEPT ![m] = [yes |-> 0, no |-> 0]]
      BY <1>5 DEF Serve
    <3>2. CASE held' = held
      BY <3>2
    <3>3. CASE /\ n <= held[m].yes /\ n <= held[m].no
               /\ held' = [held EXCEPT ![m] = [yes |-> held[m].yes - n, no |-> held[m].no - n]]
      <4>1. [yes |-> held[m].yes - n, no |-> held[m].no - n] \in Shares
        BY <2>2, <3>3 DEF Shares
      <4>2. QED
        BY <3>3, <4>1
    <3>4. CASE held' = [held EXCEPT ![m] = [yes |-> 0, no |-> 0]]
      <4>1. [yes |-> 0, no |-> 0] \in Shares
        BY DEF Shares
      <4>2. QED
        BY <3>4, <4>1
    <3>5. QED
      BY <3>1, <3>2, <3>3, <3>4
  <2>5. ~(m \in covered /\ m \in todo)
    BY <2>1 DEF CoveredSafe
  <2>6. CoveredSafe'
    BY <2>1, <2>3, <2>4, <2>5 DEF CoveredSafe
  <2>7. QED
    BY <2>1, <2>3, <2>4, <2>6 DEF Counted, OwnAsksCovered
<1>6. CASE get_positions
  <2>1. PICK whole \in [Wallet -> SUBSET {"yes", "no"}] :
          report' = [m \in Wallet |->
                       IF m \in todo'
                       THEN [yes  |-> IF "yes" \in whole[m] THEN indexed[m].yes ELSE 0,
                             no   |-> IF "no" \in whole[m] THEN indexed[m].no ELSE 0,
                             over |-> indexed[m].over]
                       ELSE NoHolding]
    BY <1>6 DEF get_positions
  <2>2. /\ covered' = {m \in todo' : indexed[m] = Holding(m) /\ underway[m] = <<>>}
        /\ UNCHANGED <<held, indexed, underway, overAsked>>
    BY <1>6 DEF get_positions
  <2>3. ASSUME NEW m \in Wallet
        PROVE  /\ report'[m].yes = 0 \/ report'[m].yes = indexed[m].yes
               /\ report'[m].no = 0 \/ report'[m].no = indexed[m].no
    BY <2>1 DEF NoHolding
  <2>4. Counted(report')
    <3> SUFFICES ASSUME NEW m \in Wallet
                 PROVE  report'[m].yes \in Nat /\ report'[m].no \in Nat
      BY DEF Counted
    <3>1. indexed[m].yes \in Nat /\ indexed[m].no \in Nat
      BY DEF Counted
    <3>2. QED
      BY <2>3, <3>1
  <2>5. CoveredSafe'
    <3> SUFFICES ASSUME NEW m \in Wallet, m \in covered'
                 PROVE  /\ underway[m] = <<>>
                        /\ report'[m].yes <= held[m].yes /\ report'[m].no <= held[m].no
      BY <2>2 DEF CoveredSafe
    <3>1. indexed[m] = Holding(m) /\ underway[m] = <<>>
      BY <2>2
    <3>2. indexed[m].yes = held[m].yes /\ indexed[m].no = held[m].no
      BY <3>1 DEF Holding
    <3>3. held[m].yes \in Nat /\ held[m].no \in Nat
      BY DEF Shares
    <3>4. QED
      BY <2>3, <3>1, <3>2, <3>3
  <2>6. QED
    BY <2>2, <2>4, <2>5 DEF Counted, OwnAsksCovered
<1>7. ASSUME NEW m \in Wallet, merge(m)
      PROVE  MergerInv'
  <2> DEFINE n == Amount(report[m])
  <2>1. /\ m \in todo /\ underway' = [underway EXCEPT ![m] = Append(@, n)]
        /\ todo' = todo \ {m} /\ UNCHANGED <<held, indexed, report, covered>>
        /\ overAsked' = (overAsked \/ (m \in covered /\ (n > held[m].yes \/ n > held[m].no)))
    BY <1>7 DEF merge, AskFor, NotesAsk
  <2>2. /\ n \in Nat /\ n <= report[m].yes /\ n <= report[m].no
        /\ report[m].yes \in Nat /\ report[m].no \in Nat
        /\ held[m].yes \in Nat /\ held[m].no \in Nat
    BY AmountIsLess DEF Counted, Shares
  <2>3. m \in covered => report[m].yes <= held[m].yes /\ report[m].no <= held[m].no
    BY <2>1 DEF CoveredSafe
  <2> HIDE DEF n
  <2>4. ~overAsked'
    <3>1. ~overAsked
      BY DEF OwnAsksCovered
    <3>2. ~(m \in covered /\ (n > held[m].yes \/ n > held[m].no))
      BY <2>2, <2>3
    <3>3. QED
      BY <2>1, <3>1, <3>2
  <2>5. QED
    BY <2>1, <2>2, <2>4, AskKeeps
<1>8. ASSUME NEW m \in Wallet, redeem(m)
      PROVE  MergerInv'
  <2>1. /\ \/ underway' = [underway EXCEPT ![m] = Append(@, Redeem)]
           \/ underway' = underway
        /\ todo' = todo \ {m} /\ UNCHANGED <<held, indexed, report, covered, overAsked>>
    BY <1>8 DEF redeem, AskFor
  <2>2. Redeem \in Nat /\ ~overAsked'
    BY <2>1 DEF Redeem, OwnAsksCovered
  <2>3. QED
    BY <2>1, <2>2, AskKeeps
<1>9. CASE UNCHANGED polyVars
  BY <1>9 DEF polyVars, CoveredSafe, Counted, OwnAsksCovered
<1>10. QED
  BY <1>1, <1>2, <1>3, <1>4, <1>5, <1>6, <1>7, <1>8, <1>9 DEF PolyNext

(* While the merger knows the wallet, it never asks again of shares that   *)
(* it has asked for, however late its requests are served                  *)
(* (merger.rs:69, 142-158).                                                *)
THEOREM MergerCorrect == PolySpec => []OwnAsksCovered
<1>1. PolyInit => MergerInv
  BY DEF PolyInit, MergerInv, CoveredSafe, Counted, NoHolding, OwnAsksCovered, Shares
<1>2. MergerInv => OwnAsksCovered
  BY DEF MergerInv
<1>3. QED
  BY <1>1, <1>2, MergerInvStep, PTL DEF PolySpec
=============================================================================
