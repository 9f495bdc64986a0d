---------------------------- MODULE HotPathProofs ----------------------------
(* Proofs about the synchronous hot path, for any markets and prices.      *)
EXTENDS HotPath, FoldLemmas

(* A set that every command keeps to is kept by applying them all.         *)
LEMMA ApplyStays ==
  ASSUME NEW q, NEW n \in Nat, DOMAIN q = 1..n, NEW J, NEW base \in J,
         \A i \in 1..n, s \in J : Apply(s, q[i]) \in J
  PROVE  FoldLeft(Apply, base, q) \in J
<1> DEFINE G(h) == [T \in SUBSET DOMAIN q |->
                      IF T = {} THEN base ELSE Apply(h[T \ {Max(T)}], q[Max(T)])]
           I == CHOOSE h : h = G(h)
           step == [z \in (1..n) \X J |-> Apply(z[2], q[z[1]])]
<1>1. \A i \in 1..n, s \in J : step[<<i, s>>] = Apply(s, q[i]) /\ step[<<i, s>>] \in J
  OBVIOUS
<1>2. PICK g \in [SUBSET (1..n) -> J] : Follows(g, 1..n, base, step)
  <2> HIDE DEF step
  <2>1. QED
    BY <1>1, FoldExists
<1>3. ASSUME NEW T \in SUBSET (1..n), T # {}
      PROVE  /\ T \ {Max(T)} \in SUBSET (1..n)
             /\ Max(T) \in 1..n
  BY <1>3, LastPosition
<1>4. g = G(g)
  <2>1. ASSUME NEW T \in SUBSET (1..n)
        PROVE  g[T] = IF T = {} THEN base ELSE Apply(g[T \ {Max(T)}], q[Max(T)])
    <3>1. CASE T = {}
      BY <1>2, <3>1 DEF Follows
    <3>2. CASE T # {}
      <4>1. g[T] = step[<<Max(T), g[T \ {Max(T)}]>>]
        BY <1>2, <3>2 DEF Follows
      <4>2. g[T \ {Max(T)}] \in J /\ Max(T) \in 1..n
        BY <1>3, <3>2
      <4> HIDE DEF step
      <4>3. QED
        BY <3>2, <4>1, <4>2, <1>1
    <3>3. QED
      BY <3>1, <3>2
  <2>2. QED
    BY <2>1
<1>5. I = G(I)
  <2> HIDE DEF G
  <2>1. QED
    BY <1>4
<1>6. FoldLeft(Apply, base, q) = I[DOMAIN q]
  BY DEF FoldLeft, MapThenFoldSet
<1> HIDE DEF I
<1>7. \A T \in SUBSET (1..n) :
        I[T] = IF T = {} THEN base ELSE Apply(I[T \ {Max(T)}], q[Max(T)])
  BY <1>5
<1>8. I[{}] \in J
  BY <1>7
<1>9. ASSUME NEW T \in SUBSET (1..n), T # {}, I[T \ {Max(T)}] \in J
      PROVE  I[T] \in J
  BY <1>3, <1>7, <1>9
<1>10. I[1..n] \in J
  BY <1>8, <1>9, FoldStays
<1>11. QED
  BY <1>6, <1>10

(* The same of the markers of a message.                                    *)
LEMMA ScanStays ==
  ASSUME NEW q, NEW n \in Nat, DOMAIN q = 1..n, NEW J, NEW base \in J,
         \A i \in 1..n, s \in J : Scan(s, q[i]) \in J
  PROVE  FoldLeft(Scan, base, q) \in J
<1> DEFINE G(h) == [T \in SUBSET DOMAIN q |->
                      IF T = {} THEN base ELSE Scan(h[T \ {Max(T)}], q[Max(T)])]
           I == CHOOSE h : h = G(h)
           step == [z \in (1..n) \X J |-> Scan(z[2], q[z[1]])]
<1>1. \A i \in 1..n, s \in J : step[<<i, s>>] = Scan(s, q[i]) /\ step[<<i, s>>] \in J
  OBVIOUS
<1>2. PICK g \in [SUBSET (1..n) -> J] : Follows(g, 1..n, base, step)
  <2> HIDE DEF step
  <2>1. QED
    BY <1>1, FoldExists
<1>3. ASSUME NEW T \in SUBSET (1..n), T # {}
      PROVE  /\ T \ {Max(T)} \in SUBSET (1..n)
             /\ Max(T) \in 1..n
  BY <1>3, LastPosition
<1>4. g = G(g)
  <2>1. ASSUME NEW T \in SUBSET (1..n)
        PROVE  g[T] = IF T = {} THEN base ELSE Scan(g[T \ {Max(T)}], q[Max(T)])
    <3>1. CASE T = {}
      BY <1>2, <3>1 DEF Follows
    <3>2. CASE T # {}
      <4>1. g[T] = step[<<Max(T), g[T \ {Max(T)}]>>]
        BY <1>2, <3>2 DEF Follows
      <4>2. g[T \ {Max(T)}] \in J /\ Max(T) \in 1..n
        BY <1>3, <3>2
      <4> HIDE DEF step
      <4>3. QED
        BY <3>2, <4>1, <4>2, <1>1
    <3>3. QED
      BY <3>1, <3>2
  <2>2. QED
    BY <2>1
<1>5. I = G(I)
  <2> HIDE DEF G
  <2>1. QED
    BY <1>4
<1>6. FoldLeft(Scan, base, q) = I[DOMAIN q]
  BY DEF FoldLeft, MapThenFoldSet
<1> HIDE DEF I
<1>7. \A T \in SUBSET (1..n) :
        I[T] = IF T = {} THEN base ELSE Scan(I[T \ {Max(T)}], q[Max(T)])
  BY <1>5
<1>8. I[{}] \in J
  BY <1>7
<1>9. ASSUME NEW T \in SUBSET (1..n), T # {}, I[T \ {Max(T)}] \in J
      PROVE  I[T] \in J
  BY <1>3, <1>7, <1>9
<1>10. I[1..n] \in J
  BY <1>8, <1>9, FoldStays
<1>11. QED
  BY <1>6, <1>10
-----------------------------------------------------------------------------
Hash       == {"slice", "str"} \X HotToken
SliceHash  == {"slice"} \X HotToken
StartKey   == {StartKeys(p) : p \in StartPairs} \cup {StartKeys(Flip(p)) : p \in StartPairs}
CommandKey == {CommandKeys(p) : p \in NewPairs}
Key        == StartKey \cup CommandKey
PairMap    == UNION {[D -> Key] : D \in SUBSET Hash}
WaitMap    == UNION {[D -> Nat] : D \in SUBSET Hash}
Book       == [bid : Nat, ask : Nat]
BookMap    == UNION {[D -> Book] : D \in SUBSET SliceHash}
HotCommand == {Command(op, k) : op \in {"add", "remove"}, k \in CommandKey}
Edge       == [yes : Hash, no : Hash, yesAsk : Nat, noAsk : Nat,
               yesSize : Nat, noSize : Nat]
QueuedEdge == {e \in Edge : <<e.yes, e.no>> \in CommandKey}

Agree(m, w) ==
  /\ DOMAIN w = DOMAIN m
  /\ \A h \in DOMAIN m :
        /\ h \in {m[h][1], m[h][2]}
        /\ \A i \in 1..2 : m[h][i] \in DOMAIN m /\ m[m[h][i]] = m[h]

(* A best ask was received, or none was.                                   *)
Received(books, q) ==
  \A h \in DOMAIN books : books[h].ask = NoAsk \/ <<h, books[h].ask>> \in q

HotInv ==
  /\ pairs \in PairMap /\ wait \in WaitMap /\ Agree(pairs, wait)
  /\ tokenBooks \in BookMap /\ quoted \subseteq Hash \X Nat
  /\ Received(tokenBooks, quoted)
  /\ commands \in Seq(HotCommand) /\ added \subseteq CommandKey
  /\ edges \in Seq(QueuedEdge)
  /\ handled = {}

(* A key is two hashes; those of a command are of slices, those of the     *)
(* start-up maps of strings.                                               *)
LEMMA KeyShape ==
  /\ \A k \in StartKey : \E t, u \in HotToken : k = <<<<"str", t>>, <<"str", u>>>>
  /\ \A k \in CommandKey : \E t, u \in HotToken : k = <<<<"slice", t>>, <<"slice", u>>>>
<1>1. \A p \in StartPairs \cup NewPairs : p[1] \in HotToken /\ p[2] \in HotToken
  BY DEF HotToken
<1>2. QED
  BY <1>1 DEF StartKey, CommandKey, StartKeys, CommandKeys, Flip, hash_token, fast_hash

(* Keys that share a hash with that of a command are that one.             *)
LEMMA CommandKeyAlone ==
  ASSUME NEW k \in Key, NEW c \in CommandKey, {k[1], k[2]} \cap {c[1], c[2]} # {}
  PROVE  k = c
<1>1. k \in CommandKey
  <2>1. k \notin StartKey
    <3> SUFFICES ASSUME k \in StartKey PROVE FALSE
      OBVIOUS
    <3>1. PICK t, u \in HotToken : k = <<<<"str", t>>, <<"str", u>>>>
      BY KeyShape
    <3>2. PICK v, w \in HotToken : c = <<<<"slice", v>>, <<"slice", w>>>>
      BY KeyShape
    <3>3. QED
      BY <3>1, <3>2
  <2>2. QED
    BY <2>1 DEF Key
<1>2. PICK p \in NewPairs : k = <<<<"slice", p[1]>>, <<"slice", p[2]>>>>
  BY <1>1 DEF CommandKey, CommandKeys, fast_hash
<1>3. PICK q \in NewPairs : c = <<<<"slice", q[1]>>, <<"slice", q[2]>>>>
  BY DEF CommandKey, CommandKeys, fast_hash
<1>4. {p[1], p[2]} \cap {q[1], q[2]} # {}
  BY <1>2, <1>3
<1>5. p = q
  BY <1>4, HotPathAssumption
<1>6. QED
  BY <1>2, <1>3, <1>5

LEMMA HashFinite == IsFiniteSet(Hash)
<1> DEFINE All == StartPairs \cup NewPairs
           ends == [p \in All |-> {p[1], p[2]}]
           Sets == {ends[p] : p \in All}
<1>1. IsFiniteSet(All)
  BY HotPathAssumption, FS_Union
<1>2. IsFiniteSet(Sets)
  <2>1. ends \in Surjection(All, Sets)
    BY DEF Surjection
  <2> HIDE DEF All, ends, Sets
  <2>2. QED
    BY <1>1, <2>1, FS_Surjection
<1>3. \A s \in Sets : IsFiniteSet(s)
  <2>1. \A x, y : IsFiniteSet({x, y})
    <3> TAKE x, y
    <3>1. IsFiniteSet({x}) /\ IsFiniteSet({y})
      BY FS_Singleton
    <3>2. {x, y} = {x} \cup {y}
      OBVIOUS
    <3>3. QED
      BY <3>1, <3>2, FS_Union
  <2> TAKE s \in Sets
  <2>2. PICK x, y : s = {x, y}
    OBVIOUS
  <2>3. QED
    BY <2>1, <2>2
<1>4. IsFiniteSet(HotToken)
  <2>1. HotToken = UNION Sets
    BY DEF HotToken
  <2> HIDE DEF Sets
  <2>2. QED
    BY <1>2, <1>3, <2>1, FS_UNION
<1>5. IsFiniteSet({"slice", "str"})
  <2>1. {"slice", "str"} = {"slice"} \cup {"str"}
    OBVIOUS
  <2>2. IsFiniteSet({"slice"}) /\ IsFiniteSet({"str"})
    BY FS_Singleton
  <2>3. QED
    BY <2>1, <2>2, FS_Union
<1>6. QED
  BY <1>4, <1>5, FS_Product DEF Hash
-----------------------------------------------------------------------------
LEMMA InitHot == HotInit => HotInv
<1> SUFFICES ASSUME HotInit PROVE HotInv
  OBVIOUS
<1> USE DEF HotInit
<1>1. pairs \in [{} -> Key] /\ wait \in [{} -> Nat] /\ tokenBooks \in [{} -> Book]
  OBVIOUS
<1>2. pairs \in PairMap /\ wait \in WaitMap /\ tokenBooks \in BookMap
  <2>1. {} \in SUBSET Hash /\ {} \in SUBSET SliceHash
    OBVIOUS
  <2>2. QED
    BY <1>1, <2>1 DEF PairMap, WaitMap, BookMap
<1>3. Agree(pairs, wait) /\ Received(tokenBooks, quoted)
  BY DEF Agree, Received
<1>4. QED
  BY <1>2, <1>3 DEF HotInv

-----------------------------------------------------------------------------
HotState ==
  {s \in [pairs : PairMap, wait : WaitMap, tokenBooks : BookMap] :
     Agree(s.pairs, s.wait) /\ Received(s.tokenBooks, quoted)}

LEMMA PairMapIs ==
  ASSUME NEW m
  PROVE  /\ m \in PairMap <=> DOMAIN m \subseteq Hash /\ m \in [DOMAIN m -> Key]
         /\ m \in WaitMap <=> DOMAIN m \subseteq Hash /\ m \in [DOMAIN m -> Nat]
         /\ m \in BookMap <=> DOMAIN m \subseteq SliceHash /\ m \in [DOMAIN m -> Book]
  BY DEF PairMap, WaitMap, BookMap

(* Adding a pair points both of its tokens at it and takes no token from   *)
(* another; removing it forgets both.                                      *)
LEMMA ApplyKeepsHotState ==
  ASSUME NEW s \in HotState, NEW c \in HotCommand
  PROVE  Apply(s, c) \in HotState
<1>1. PICK op \in {"add", "remove"}, k \in CommandKey : c = [op |-> op, yes |-> k[1], no |-> k[2]]
  BY DEF HotCommand, Command
<1>2. PICK t, u \in HotToken : k = <<<<"slice", t>>, <<"slice", u>>>>
  BY KeyShape
<1> DEFINE hs == {k[1], k[2]}
<1>3. hs \subseteq SliceHash /\ hs \subseteq Hash /\ k = <<k[1], k[2]>> /\ k \in Key
  BY <1>2 DEF SliceHash, Hash, Key
<1>4. /\ DOMAIN s.pairs \subseteq Hash /\ s.pairs \in [DOMAIN s.pairs -> Key]
      /\ DOMAIN s.wait \subseteq Hash /\ s.wait \in [DOMAIN s.wait -> Nat]
      /\ DOMAIN s.tokenBooks \subseteq SliceHash /\ s.tokenBooks \in [DOMAIN s.tokenBooks -> Book]
  BY PairMapIs DEF HotState
<1>5. Agree(s.pairs, s.wait) /\ Received(s.tokenBooks, quoted)
  BY DEF HotState
<1>6. \A h \in DOMAIN s.pairs \ hs :
         s.pairs[h][1] \in DOMAIN s.pairs \ hs /\ s.pairs[h][2] \in DOMAIN s.pairs \ hs
  <2> TAKE h \in DOMAIN s.pairs \ hs
  <2>1. h \in {s.pairs[h][1], s.pairs[h][2]} /\ s.pairs[h] \in Key
    BY <1>4, <1>5 DEF Agree
  <2>2. s.pairs[h] # k
    BY <2>1
  <2>3. {s.pairs[h][1], s.pairs[h][2]} \cap hs = {}
    BY <2>1, <2>2, CommandKeyAlone
  <2>4. s.pairs[h][1] \in DOMAIN s.pairs /\ s.pairs[h][2] \in DOMAIN s.pairs
    BY <1>5 DEF Agree
  <2>5. QED
    BY <2>3, <2>4
<1> DEFINE m == s.pairs
           w == s.wait
           o == s.tokenBooks
<1>7. CASE op = "add"
  <2> DEFINE m2 == [h \in hs \cup DOMAIN m |-> IF h \in hs THEN k ELSE m[h]]
             w2 == [h \in hs \cup DOMAIN w |-> IF h \in hs THEN 0 ELSE w[h]]
             o2 == [h \in DOMAIN o \cup hs |-> IF h \in DOMAIN o THEN o[h] ELSE NewBook]
  <2>1. Apply(s, c) = [pairs |-> m2, wait |-> w2, tokenBooks |-> o2]
    <3>1. Over([h \in hs |-> k], m) = m2
      BY DEF Over
    <3>2. Over([h \in hs |-> 0], w) = w2
      BY DEF Over
    <3>3. Over(o, [h \in hs |-> NewBook]) = o2
      BY DEF Over
    <3>4. c.op = "add" /\ c.yes = k[1] /\ c.no = k[2] /\ k = <<k[1], k[2]>>
      BY <1>1, <1>3, <1>7
    <3> HIDE DEF m2, w2, o2
    <3>5. QED
      BY <3>1, <3>2, <3>3, <3>4 DEF Apply
  <2>2. m2 \in PairMap
    BY <1>3, <1>4, PairMapIs
  <2>3. w2 \in WaitMap
    BY <1>3, <1>4, PairMapIs
  <2>4. o2 \in BookMap
    <3>1. NewBook \in Book
      BY DEF NewBook, NoAsk, Book
    <3>2. QED
      BY <1>3, <1>4, <3>1, PairMapIs
  <2>5. Agree(m2, w2)
    <3>1. DOMAIN w2 = DOMAIN m2
      BY <1>5 DEF Agree
    <3>2. ASSUME NEW h \in hs
          PROVE  /\ h \in {m2[h][1], m2[h][2]}
                 /\ \A i \in 1..2 : m2[h][i] \in DOMAIN m2 /\ m2[m2[h][i]] = m2[h]
      <4>1. m2[h] = k
        OBVIOUS
      <4>2. \A i \in 1..2 : k[i] \in hs /\ k[i] \in DOMAIN m2 /\ m2[k[i]] = k
        OBVIOUS
      <4> HIDE DEF m2
      <4>3. QED
        BY <4>1, <4>2
    <3>3. ASSUME NEW h \in DOMAIN m \ hs
          PROVE  /\ h \in {m2[h][1], m2[h][2]}
                 /\ \A i \in 1..2 : m2[h][i] \in DOMAIN m2 /\ m2[m2[h][i]] = m2[h]
      <4>1. m2[h] = m[h]
        OBVIOUS
      <4>2. /\ h \in {m[h][1], m[h][2]}
            /\ \A i \in 1..2 : m[h][i] \in DOMAIN m \ hs /\ m[m[h][i]] = m[h]
        BY <1>5, <1>6 DEF Agree
      <4>3. \A x \in DOMAIN m \ hs : m2[x] = m[x] /\ x \in DOMAIN m2
        OBVIOUS
      <4> HIDE DEF m2
      <4>4. QED
        BY <4>1, <4>2, <4>3
    <3>4. QED
      BY <3>1, <3>2, <3>3 DEF Agree
  <2>6. Received(o2, quoted)
    BY <1>5 DEF Received, NewBook
  <2>7. QED
    BY <2>1, <2>2, <2>3, <2>4, <2>5, <2>6 DEF HotState
<1>8. CASE op = "remove"
  <2> DEFINE m2 == [h \in DOMAIN m \ hs |-> m[h]]
             w2 == [h \in DOMAIN w \ hs |-> w[h]]
  <2>1. Apply(s, c) = [pairs |-> m2, wait |-> w2, tokenBooks |-> o]
    BY <1>1, <1>3, <1>8 DEF Apply, HotState
  <2>2. m2 \in PairMap
    BY <1>4, PairMapIs
  <2>3. w2 \in WaitMap
    BY <1>4, PairMapIs
  <2>4. o \in BookMap
    BY DEF HotState
  <2>5. Agree(m2, w2)
    <3>1. DOMAIN w2 = DOMAIN m2
      BY <1>5 DEF Agree
    <3>2. ASSUME NEW h \in DOMAIN m \ hs
          PROVE  /\ h \in {m2[h][1], m2[h][2]}
                 /\ \A i \in 1..2 : m2[h][i] \in DOMAIN m2 /\ m2[m2[h][i]] = m2[h]
      <4>1. m2[h] = m[h]
        OBVIOUS
      <4>2. /\ h \in {m[h][1], m[h][2]}
            /\ \A i \in 1..2 : m[h][i] \in DOMAIN m \ hs /\ m[m[h][i]] = m[h]
        BY <1>5, <1>6 DEF Agree
      <4>3. \A x \in DOMAIN m \ hs : m2[x] = m[x] /\ x \in DOMAIN m2
        OBVIOUS
      <4> HIDE DEF m2
      <4>4. QED
        BY <4>1, <4>2, <4>3
    <3>3. QED
      BY <3>1, <3>2 DEF Agree
  <2>6. QED
    BY <1>5, <2>1, <2>2, <2>3, <2>4, <2>5 DEF HotState
<1>9. QED
  BY <1>7, <1>8

-----------------------------------------------------------------------------
(* However the start-up map is visited, each of its tokens belongs to one  *)
(* pair.                                                                   *)
LEMMA ConnectKeepsInv == HotInv /\ ConnectHot => HotInv'
<1> SUFFICES ASSUME HotInv, ConnectHot PROVE HotInv'
  OBVIOUS
<1>1. PICK flipped \in SUBSET StartPairs :
         pairs' = BothWays({StartKeys(IF p \in flipped THEN Flip(p) ELSE p) : p \in StartPairs})
  BY DEF ConnectHot
<1> DEFINE key(p) == StartKeys(IF p \in flipped THEN Flip(p) ELSE p)
           ps == {key(p) : p \in StartPairs}
           D == UNION {{k[1], k[2]} : k \in ps}
           m == BothWays(ps)
<1>2. m = [h \in D |-> CHOOSE k \in ps : h \in {k[1], k[2]}]
  BY DEF BothWays
<1>3. \A p \in StartPairs : /\ p[1] \in HotToken /\ p[2] \in HotToken
                            /\ {key(p)[1], key(p)[2]} = {<<"str", p[1]>>, <<"str", p[2]>>}
                            /\ key(p) \in StartKey
  BY DEF HotToken, StartKeys, Flip, hash_token, StartKey
<1>4. \A k \in ps : k \in Key /\ k[1] \in Hash /\ k[2] \in Hash
  <2> SUFFICES ASSUME NEW p \in StartPairs
               PROVE  key(p) \in Key /\ key(p)[1] \in Hash /\ key(p)[2] \in Hash
    OBVIOUS
  <2>1. {key(p)[1], key(p)[2]} \subseteq Hash
    BY <1>3 DEF Hash
  <2> HIDE DEF key
  <2>2. QED
    BY <1>3, <2>1 DEF Key
<1>5. \A k, l \in ps : {k[1], k[2]} \cap {l[1], l[2]} # {} => k = l
  <2> SUFFICES ASSUME NEW p \in StartPairs, NEW q \in StartPairs,
                      {key(p)[1], key(p)[2]} \cap {key(q)[1], key(q)[2]} # {}
               PROVE  key(p) = key(q)
    OBVIOUS
  <2>1. {<<"str", p[1]>>, <<"str", p[2]>>} \cap {<<"str", q[1]>>, <<"str", q[2]>>} # {}
    <3> HIDE DEF key
    <3>1. QED
      BY <1>3
  <2>2. {p[1], p[2]} \cap {q[1], q[2]} # {}
    BY <2>1
  <2>3. QED
    BY <2>2, HotPathAssumption
<1> HIDE DEF ps
<1>6. ASSUME NEW h \in D
      PROVE  /\ m[h] \in ps /\ h \in {m[h][1], m[h][2]}
             /\ \A i \in 1..2 : m[h][i] \in D
  <2>1. PICK k \in ps : h \in {k[1], k[2]}
    OBVIOUS
  <2>2. m[h] \in ps /\ h \in {m[h][1], m[h][2]}
    BY <1>2, <2>1
  <2>3. QED
    BY <2>2
<1>7. DOMAIN m = D /\ m \in [D -> ps]
  BY <1>2, <1>6
<1> HIDE DEF m, D
<1>8. ASSUME NEW h \in D, NEW i \in 1..2
      PROVE  m[m[h][i]] = m[h]
  <2>1. m[h] \in ps /\ m[h][i] \in D
    BY <1>6
  <2>2. m[m[h][i]] \in ps /\ m[h][i] \in {m[m[h][i]][1], m[m[h][i]][2]}
    BY <1>6, <2>1
  <2>3. m[h][i] \in {m[h][1], m[h][2]}
    OBVIOUS
  <2>4. QED
    BY <1>5, <2>1, <2>2, <2>3
<1>9. D \subseteq Hash
  BY <1>4 DEF D
<1>10. pairs' = m
  BY <1>1 DEF m, ps
<1>11. pairs' \in PairMap
  BY <1>4, <1>7, <1>9, <1>10, PairMapIs
<1>12. wait' = [h \in D |-> 0]
  BY <1>7, <1>10 DEF ConnectHot
<1>13. wait' \in WaitMap
  BY <1>9, <1>12, PairMapIs
<1>14. Agree(pairs', wait')
  BY <1>6, <1>7, <1>8, <1>10, <1>12 DEF Agree
<1>15. tokenBooks' \in BookMap /\ Received(tokenBooks', {})
  <2>1. tokenBooks' = [h \in {fast_hash(t) : t \in UNION {{p[1], p[2]} : p \in StartPairs}}
                        |-> NewBook]
    BY DEF ConnectHot
  <2> DEFINE H == {fast_hash(t) : t \in UNION {{p[1], p[2]} : p \in StartPairs}}
  <2>2. H \subseteq SliceHash
    BY DEF fast_hash, SliceHash, HotToken
  <2>3. tokenBooks' = [h \in H |-> NewBook]
    BY <2>1
  <2> HIDE DEF H
  <2>4. NewBook \in Book /\ NewBook.ask = NoAsk
    BY DEF NewBook, NoAsk, Book
  <2>5. QED
    BY <2>2, <2>3, <2>4, PairMapIs DEF Received
<1>16. quoted' = {} /\ UNCHANGED <<commands, edges, added, handled>>
  BY DEF ConnectHot
<1>17. QED
  BY <1>11, <1>13, <1>14, <1>15, <1>16 DEF HotInv

LEMMA DrainKeepsInv == HotInv /\ Drain => HotInv'
<1> SUFFICES ASSUME HotInv, Drain PROVE HotInv'
  OBVIOUS
<1> DEFINE s == FoldLeft(Apply, hot, commands)
           n == Len(commands)
<1>1. hot \in HotState
  BY DEF hot, HotState, HotInv
<1>2. n \in Nat /\ DOMAIN commands = 1..n /\ \A i \in 1..n : commands[i] \in HotCommand
  BY DEF HotInv
<1>3. s \in HotState
  <2>1. \A i \in 1..n, t \in HotState : Apply(t, commands[i]) \in HotState
    BY <1>2, ApplyKeepsHotState
  <2> HIDE DEF n
  <2>2. QED
    BY <1>1, <1>2, <2>1, ApplyStays
<1>4. /\ pairs' = s.pairs /\ wait' = s.wait /\ tokenBooks' = s.tokenBooks
      /\ commands' = <<>> /\ UNCHANGED <<edges, quoted, added, handled>>
  BY DEF Drain
<1> HIDE DEF s
<1>5. commands' \in Seq(HotCommand)
  BY <1>4
<1>6. QED
  BY <1>3, <1>4, <1>5 DEF HotState, HotInv
-----------------------------------------------------------------------------
Scanned ==
  {s \in [token : SUBSET SliceHash, bid : BOOLEAN, tokenBooks : BookMap,
          quoted : SUBSET (Hash \X Nat)] : Received(s.tokenBooks, s.quoted)}

LEMMA ScanKeepsScanned ==
  ASSUME NEW s \in Scanned, NEW m \in Marker
  PROVE  Scan(s, m) \in Scanned
<1>1. CASE m \in [asset : HotToken]
  <2>1. fast_hash(m.asset) \in SliceHash
    BY <1>1 DEF fast_hash, SliceHash
  <2>2. Scan(s, m) = [s EXCEPT !.token = {fast_hash(m.asset)}]
    BY <1>1 DEF Scan
  <2>3. QED
    BY <2>1, <2>2 DEF Scanned
<1>2. CASE m \in [bid : BOOLEAN]
  <2>1. Scan(s, m) = [s EXCEPT !.bid = m.bid]
    BY <1>2 DEF Scan
  <2>2. QED
    BY <1>2, <2>1 DEF Scanned
<1>3. CASE m \in [price : HotPrice]
  <2> DEFINE o == s.tokenBooks
             known == s.token \cap DOMAIN o
             o2 == [h \in DOMAIN o |-> IF h \in known THEN update(o[h], s.bid, m.price)
                                       ELSE o[h]]
             q2 == s.quoted \cup (s.token \X {m.price})
  <2>1. Scan(s, m) = [s EXCEPT !.tokenBooks = o2, !.quoted = q2]
    BY <1>3 DEF Scan
  <2>2. m.price \in Nat
    BY <1>3, HotPathAssumption
  <2>3. DOMAIN o \subseteq SliceHash /\ o \in [DOMAIN o -> Book] /\ Received(o, s.quoted)
    BY PairMapIs DEF Scanned
  <2>4. ASSUME NEW b \in Book
        PROVE  /\ update(b, s.bid, m.price) \in Book
               /\ update(b, s.bid, m.price).ask \in {b.ask, m.price}
    BY <2>2 DEF update, Book
  <2>5. o2 \in BookMap
    BY <2>3, <2>4, PairMapIs
  <2>6. SliceHash \subseteq Hash
    BY DEF SliceHash, Hash
  <2>7. q2 \in SUBSET (Hash \X Nat)
    BY <2>2, <2>6 DEF Scanned
  <2>8. Received(o2, q2)
    <3> SUFFICES ASSUME NEW h \in DOMAIN o
                 PROVE  o2[h].ask = NoAsk \/ <<h, o2[h].ask>> \in q2
      BY DEF Received
    <3>1. o[h].ask = NoAsk \/ <<h, o[h].ask>> \in s.quoted
      BY <2>3 DEF Received
    <3>2. o[h] \in Book
      BY <2>3
    <3>3. CASE h \in known
      <4>1. o2[h].ask \in {o[h].ask, m.price}
        BY <2>4, <3>2, <3>3
      <4>2. <<h, m.price>> \in q2
        BY <3>3
      <4> HIDE DEF o2
      <4>3. QED
        BY <3>1, <4>1, <4>2
    <3>4. CASE h \notin known
      BY <3>1, <3>4
    <3>5. QED
      BY <3>3, <3>4
  <2>9. QED
    <3> HIDE DEF o2, q2
    <3>1. QED
      BY <2>1, <2>5, <2>7, <2>8 DEF Scanned
<1>4. QED
  BY <1>1, <1>2, <1>3 DEF Marker

LEMMA ParseIsScanned ==
  ASSUME HotInv, NEW msg \in Messages
  PROVE  parse(msg) \in Scanned
<1> DEFINE base == [token |-> {}, bid |-> FALSE, tokenBooks |-> tokenBooks, quoted |-> quoted]
           n == Len(msg)
<1>1. base \in Scanned
  BY DEF Scanned, HotInv
<1>2. msg \in Seq(Marker)
  BY HotPathAssumption
<1>3. n \in Nat /\ DOMAIN msg = 1..n /\ \A i \in 1..n : msg[i] \in Marker
  BY <1>2
<1>4. \A i \in 1..n, t \in Scanned : Scan(t, msg[i]) \in Scanned
  BY <1>3, ScanKeepsScanned
<1>5. FoldLeft(Scan, base, msg) \in Scanned
  <2> HIDE DEF n, base
  <2>1. QED
    BY <1>1, <1>3, <1>4, ScanStays
<1>6. QED
  BY <1>5 DEF parse

(* The edges a step may queue: of prices received and of a tracked pair.   *)
SeenEdge ==
  {e \in Edge : /\ {<<e.yes, e.yesAsk>>, <<e.no, e.noAsk>>} \subseteq quoted'
                /\ <<e.yes, e.no>> \in {pairs[h] : h \in DOMAIN pairs} \cap CommandKey
                /\ e.yesAsk + e.noAsk \in 900..980}

(* What a text offers to the channel: the edges that were waiting, and     *)
(* one for each pair that shows one.                                       *)
LEMMA TextOffers ==
  ASSUME HotInv, NEW msg \in Messages, ReadText(msg)
  PROVE  \E fresh \in Seq(SeenEdge) :
            \E len \in 0..(Len(edges) + Len(fresh)) :
               edges' = SubSeq(edges \o fresh, 1, len)
<1> DEFINE s == parse(msg)
           due == {h \in DOMAIN pairs : wait[h] = 0}
           hit == {h \in due : ShowsEdge(s.tokenBooks, pairs[h])}
<1>1. quoted' = s.quoted
  BY DEF ReadText
<1>2. s \in Scanned
  BY ParseIsScanned
<1>3. PICK order \in SetToSeqs(hit) :
         LET offered == edges \o [i \in DOMAIN order |-> EdgeOf(s.tokenBooks, pairs[order[i]])]
         IN  edges' = SubSeq(offered, 1, IF Len(offered) < MaxEdges
                                         THEN Len(offered) ELSE MaxEdges)
  BY DEF ReadText
<1> DEFINE o == s.tokenBooks
           q == s.quoted
<1>4. DOMAIN o \subseteq SliceHash /\ o \in [DOMAIN o -> Book] /\ Received(o, q)
  BY <1>2, PairMapIs DEF Scanned
<1> HIDE DEF s
<1>5. DOMAIN pairs \subseteq Hash /\ pairs \in [DOMAIN pairs -> Key]
  BY PairMapIs DEF HotInv
<1>6. ASSUME NEW h \in hit
      PROVE  EdgeOf(o, pairs[h]) \in SeenEdge
  <2> DEFINE k == pairs[h]
             e == EdgeOf(o, k)
  <2>1. ShowsEdge(o, k) /\ k \in Key /\ h \in DOMAIN pairs
    BY <1>5
  <2>2. k[1] \in DOMAIN o /\ k[2] \in DOMAIN o
    BY <2>1 DEF ShowsEdge
  <2>3. k[1] \in SliceHash /\ k[2] \in SliceHash /\ o[k[1]] \in Book /\ o[k[2]] \in Book
    BY <2>2, <1>4
  <2>4. k \in CommandKey
    <3>1. k \notin StartKey
      BY <2>3, KeyShape DEF SliceHash
    <3>2. QED
      BY <2>1, <3>1 DEF Key
  <2>5. k = <<k[1], k[2]>>
    BY <2>4, KeyShape
  <2>6. /\ <<k[1], o[k[1]].ask>> \in q /\ <<k[2], o[k[2]].ask>> \in q
        /\ o[k[1]].ask + o[k[2]].ask \in 900..980
    <3> HIDE DEF o, k
    <3>1. o[k[1]].ask # NoAsk /\ o[k[2]].ask # NoAsk
      BY <2>1 DEF ShowsEdge
    <3>2. Combined(o, k) \in 900..980
      BY <2>1 DEF ShowsEdge
    <3>3. o[k[1]].ask + o[k[2]].ask \in 900..980
      BY <3>2 DEF Combined
    <3>4. QED
      BY <1>4, <2>2, <3>1, <3>3 DEF Received
  <2>7. e = [yes |-> k[1], no |-> k[2], yesAsk |-> o[k[1]].ask, noAsk |-> o[k[2]].ask,
             yesSize |-> ParsedSize, noSize |-> ParsedSize]
    BY DEF EdgeOf
  <2>8. e \in Edge
    <3>1. SliceHash \subseteq Hash
      BY DEF SliceHash, Hash
    <3>2. QED
      BY <2>3, <2>7, <3>1 DEF Edge, Book, ParsedSize
  <2>9. k \in {pairs[x] : x \in DOMAIN pairs}
    BY <2>1
  <2> HIDE DEF k, e
  <2>10. /\ e.yes = k[1] /\ e.no = k[2]
         /\ e.yesAsk = o[k[1]].ask /\ e.noAsk = o[k[2]].ask
    BY <2>7
  <2>11. e \in SeenEdge
    BY <1>1, <2>4, <2>5, <2>6, <2>8, <2>9, <2>10 DEF SeenEdge
  <2>12. QED
    BY <2>11 DEF e, k
<1>7. /\ Cardinality(hit) \in Nat
      /\ order \in [1..Cardinality(hit) -> hit]
  <2>1. IsFiniteSet(hit)
    <3>1. hit \subseteq Hash
      BY <1>5
    <3> HIDE DEF hit
    <3>2. QED
      BY <3>1, HashFinite, FS_Subset
  <2> HIDE DEF hit
  <2>2. QED
    BY <2>1, FS_CardinalityType DEF SetToSeqs
<1> DEFINE n == Cardinality(hit)
           fresh == [i \in DOMAIN order |-> EdgeOf(o, pairs[order[i]])]
<1> HIDE DEF hit
<1>8. fresh \in Seq(SeenEdge) /\ Len(fresh) = n
  <2>1. DOMAIN order = 1..n /\ n \in Nat
    BY <1>7
  <2>2. \A i \in 1..n : EdgeOf(o, pairs[order[i]]) \in SeenEdge
    BY <1>6, <1>7
  <2>3. fresh = [i \in 1..n |-> EdgeOf(o, pairs[order[i]])]
    BY <2>1
  <2> HIDE DEF fresh, o, n
  <2>4. QED
    BY <2>1, <2>2, <2>3
<1> HIDE DEF fresh
<1>9. edges \in Seq(QueuedEdge)
  BY DEF HotInv
<1> DEFINE offered == edges \o fresh
           len == IF Len(offered) < MaxEdges THEN Len(offered) ELSE MaxEdges
<1>10. edges' = SubSeq(offered, 1, len)
  BY <1>3 DEF fresh, o
<1>11. len \in 0..(Len(edges) + Len(fresh))
  <2>1. Len(offered) = Len(edges) + Len(fresh) /\ Len(edges) \in Nat /\ Len(fresh) \in Nat
    BY <1>8, <1>9
  <2>2. QED
    BY <2>1, HotPathAssumption
<1>12. QED
  BY <1>8, <1>10, <1>11

LEMMA TextKeepsInv ==
  ASSUME HotInv, NEW msg \in Messages, ReadText(msg)
  PROVE  HotInv'
<1> DEFINE s == parse(msg)
<1>1. s \in Scanned
  BY ParseIsScanned
<1>2. tokenBooks' = s.tokenBooks /\ quoted' = s.quoted /\ UNCHANGED <<pairs, commands, added, handled>>
  BY DEF ReadText
<1> HIDE DEF s
<1>3. tokenBooks' \in BookMap /\ quoted' \subseteq Hash \X Nat /\ Received(tokenBooks', quoted')
  BY <1>1, <1>2 DEF Scanned
<1>4. wait' \in WaitMap /\ DOMAIN wait' = DOMAIN wait
  <2>1. DOMAIN wait \subseteq Hash /\ wait \in [DOMAIN wait -> Nat]
    BY PairMapIs DEF HotInv
  <2>2. wait' = [h \in DOMAIN wait |-> IF h \in {x \in DOMAIN pairs : wait[x] = 0}
                                      THEN RateLimit ELSE wait[h]]
    BY DEF ReadText
  <2>3. RateLimit \in Nat
    BY HotPathAssumption
  <2>4. QED
    BY <2>1, <2>2, <2>3, PairMapIs
<1>5. Agree(pairs', wait')
  BY <1>2, <1>4 DEF Agree, HotInv
<1>6. edges' \in Seq(QueuedEdge)
  <2>1. PICK fresh \in Seq(SeenEdge) : \E len \in 0..(Len(edges) + Len(fresh)) :
               edges' = SubSeq(edges \o fresh, 1, len)
    BY TextOffers
  <2>2. \A e \in SeenEdge : e \in QueuedEdge
    BY DEF QueuedEdge, SeenEdge
  <2>3. fresh \in Seq(QueuedEdge)
    <3>1. fresh \in [1..Len(fresh) -> SeenEdge] /\ Len(fresh) \in Nat
      OBVIOUS
    <3>2. fresh \in [1..Len(fresh) -> QueuedEdge]
      BY <2>2, <3>1
    <3>3. QED
      BY <3>1, <3>2
  <2>4. edges \o fresh \in Seq(QueuedEdge) /\ Len(edges \o fresh) = Len(edges) + Len(fresh)
    BY <2>3 DEF HotInv
  <2>5. PICK len \in 0..Len(edges \o fresh) : edges' = SubSeq(edges \o fresh, 1, len)
    BY <2>1, <2>4
  <2>6. QED
    <3> DEFINE all == edges \o fresh
    <3>1. all \in Seq(QueuedEdge) /\ len \in 0..Len(all) /\ edges' = SubSeq(all, 1, len)
      BY <2>4, <2>5
    <3> HIDE DEF all
    <3>2. QED
      BY <3>1
<1>7. QED
  BY <1>2, <1>3, <1>4, <1>5, <1>6 DEF HotInv

LEMMA CommandOf ==
  ASSUME NEW op \in {"add", "remove"}, NEW k \in CommandKey
  PROVE  Command(op, k) \in HotCommand
  BY DEF HotCommand

LEMMA RolloverKeepsInv == HotInv /\ Rollover => HotInv'
<1> SUFFICES ASSUME HotInv, Rollover PROVE HotInv'
  OBVIOUS
<1>1. CASE \E p \in NewPairs : SendAdd(p)
  <2>1. PICK p \in NewPairs : SendAdd(p)
    BY <1>1
  <2>2. CommandKeys(p) \in CommandKey
    BY DEF CommandKey
  <2>3. /\ commands' = Append(commands, Command("add", CommandKeys(p)))
        /\ added' = added \cup {CommandKeys(p)}
        /\ UNCHANGED <<pc, hotVars, edges, handled>>
    BY <2>1 DEF SendAdd
  <2>4. commands' \in Seq(HotCommand) /\ added' \subseteq CommandKey
    <3>1. Command("add", CommandKeys(p)) \in HotCommand
      BY <2>2, CommandOf
    <3>2. commands \in Seq(HotCommand) /\ added \subseteq CommandKey
      BY DEF HotInv
    <3>3. QED
      BY <2>2, <2>3, <3>1, <3>2
  <2>5. QED
    BY <2>3, <2>4 DEF HotInv, hotVars
<1>2. CASE \E hs \in added : SendRemove(hs)
  <2>1. PICK hs \in added : SendRemove(hs)
    BY <1>2
  <2>2. hs \in CommandKey
    BY DEF HotInv
  <2>3. /\ commands' = Append(commands, Command("remove", hs))
        /\ added' = added \ {hs}
        /\ UNCHANGED <<pc, hotVars, edges, handled>>
    BY <2>1 DEF SendRemove
  <2>4. commands' \in Seq(HotCommand) /\ added' \subseteq CommandKey
    <3>1. Command("remove", hs) \in HotCommand
      BY <2>2, CommandOf
    <3>2. commands \in Seq(HotCommand) /\ added \subseteq CommandKey
      BY DEF HotInv
    <3>3. QED
      BY <2>3, <3>1, <3>2
  <2>5. QED
    BY <2>3, <2>4 DEF HotInv, hotVars
<1>3. QED
  BY <1>1, <1>2 DEF Rollover

(* The background task looks for hashes of slices among those of strings.  *)
LEMMA BackgroundKeepsInv == HotInv /\ Background => HotInv'
<1> SUFFICES ASSUME HotInv, Background PROVE HotInv'
  OBVIOUS
<1>1. edges # <<>> /\ edges \in Seq(QueuedEdge)
  BY DEF HotInv, Background
<1>2. Head(edges) \in QueuedEdge /\ Tail(edges) \in Seq(QueuedEdge)
  BY <1>1
<1> DEFINE e == Head(edges)
<1>3. e.yes \notin hash_to_id
  <2>1. <<e.yes, e.no>> \in CommandKey
    BY <1>2 DEF QueuedEdge
  <2> HIDE DEF e
  <2>2. PICK t, u \in HotToken : <<e.yes, e.no>> = <<<<"slice", t>>, <<"slice", u>>>>
    BY <2>1, KeyShape
  <2>3. e.yes = <<"slice", t>>
    BY <2>2
  <2>4. QED
    BY <2>3 DEF hash_to_id, hash_token
<1>4. handled' = handled
  BY <1>3 DEF Background, process_edge
<1>5. edges' \in Seq(QueuedEdge) /\ UNCHANGED <<pc, hotVars, commands, added>>
  BY <1>2 DEF Background
<1>6. QED
  BY <1>4, <1>5 DEF HotInv, hotVars

LEMMA TickKeepsInv == HotInv /\ Tick => HotInv'
<1> SUFFICES ASSUME HotInv, Tick PROVE HotInv'
  OBVIOUS
<1>1. DOMAIN wait \subseteq Hash /\ wait \in [DOMAIN wait -> Nat]
  BY PairMapIs DEF HotInv
<1>2. wait' = [h \in DOMAIN wait |-> IF wait[h] > 0 THEN wait[h] - 1 ELSE 0]
  BY DEF Tick
<1>3. wait' \in WaitMap /\ DOMAIN wait' = DOMAIN wait
  BY <1>1, <1>2, PairMapIs
<1>4. UNCHANGED <<pc, pairs, tokenBooks, quoted, commands, edges, added, handled>>
  BY DEF Tick
<1>5. QED
  BY <1>3, <1>4 DEF HotInv, Agree

LEMMA NextKeepsInv == HotInv /\ [HotNext]_hotPathVars => HotInv'
<1> SUFFICES ASSUME HotInv, [HotNext]_hotPathVars PROVE HotInv'
  OBVIOUS
<1>1. CASE UNCHANGED <<hotVars, commands, edges, added, handled>>
  BY <1>1 DEF HotInv, hotVars
<1>2. CASE Drain
  BY <1>2, DrainKeepsInv
<1>3. CASE ConnectHot
  BY <1>3, ConnectKeepsInv
<1>4. CASE \E msg \in Messages : ReadText(msg)
  BY <1>4, TextKeepsInv
<1>5. CASE Tick
  BY <1>5, TickKeepsInv
<1>6. CASE Rollover
  BY <1>6, RolloverKeepsInv
<1>7. CASE Background
  BY <1>7, BackgroundKeepsInv
<1>8. CASE ConnectPanics \/ ReadOther \/ ReadFails \/ UNCHANGED hotPathVars
  BY <1>1, <1>8 DEF ConnectPanics, ReadOther, ReadFails, hotPathVars
<1>9. QED
  BY <1>2, <1>3, <1>4, <1>5, <1>6, <1>7, <1>8 DEF HotNext, Loop

LEMMA HotInvHolds == HotSpec => []HotInv
<1>1. QED
  BY InitHot, NextKeepsInv, PTL DEF HotSpec
-----------------------------------------------------------------------------
(* Whatever is added, removed or rebuilt, and however the start-up map is  *)
(* visited, both tokens of a tracked pair lead to it, for any markets      *)
(* (hft_hot_path.rs:203-227).                                              *)
THEOREM PairsCorrect == HotSpec => []PairsAgree
<1>1. HotInv => PairsAgree
  BY DEF HotInv, Agree, PairsAgree
<1>2. QED
  BY <1>1, HotInvHolds, PTL

(* Whatever the exchange sends, an edge is only ever of a pair rollover    *)
(* added, and the background task goes on with none (token_map.rs:14,      *)
(* hft_hot_path.rs:126, background_wiring.rs:35-49).                       *)
THEOREM EdgesCorrect == HotSpec => []EdgesOnlyFromRollover
<1>1. HotInv => EdgesOnlyFromRollover
  <2> SUFFICES ASSUME HotInv, NEW i \in DOMAIN edges
               PROVE  \E p \in NewPairs : <<edges[i].yes, edges[i].no>> = CommandKeys(p)
    BY DEF HotInv, EdgesOnlyFromRollover
  <2>1. edges[i] \in QueuedEdge
    BY DEF HotInv
  <2>2. QED
    BY <2>1 DEF QueuedEdge, CommandKey
<1>2. QED
  BY <1>1, HotInvHolds, PTL

(* An edge that is queued is of prices received on the connection that is  *)
(* up, for a pair tracked at that moment (hft_hot_path.rs:265).            *)
THEOREM EdgesFresh == HotSpec => EdgesFromThisConnection
<1> DEFINE Fresh == \A i \in DOMAIN edges' :
          i > Len(edges) =>
             LET e == edges'[i]
             IN  /\ {<<e.yes, e.yesAsk>>, <<e.no, e.noAsk>>} \subseteq quoted'
                 /\ <<e.yes, e.no>> \in {pairs[h] : h \in DOMAIN pairs}
                 /\ e.yesAsk + e.noAsk \in 900..980
<1>1. ASSUME HotInv, HotNext
      PROVE  Fresh
  <2>1. edges \in Seq(QueuedEdge)
    BY <1>1 DEF HotInv
  <2>2. CASE edges' = edges
    BY <2>1, <2>2
  <2>3. CASE Background
    <3>1. edges # <<>> /\ edges' = Tail(edges)
      BY <2>3 DEF Background
    <3>2. QED
      BY <2>1, <3>1
  <2>4. CASE \E msg \in Messages : ReadText(msg)
    <3>1. PICK fresh \in Seq(SeenEdge) : \E len \in 0..(Len(edges) + Len(fresh)) :
                 edges' = SubSeq(edges \o fresh, 1, len)
      BY <1>1, <2>4, TextOffers
    <3>2. PICK len \in 0..(Len(edges) + Len(fresh)) : edges' = SubSeq(edges \o fresh, 1, len)
      BY <3>1
    <3>3. ASSUME NEW i \in DOMAIN edges', i > Len(edges)
          PROVE  edges'[i] \in SeenEdge
      <4>1. i \in 1..len /\ edges'[i] = (edges \o fresh)[i]
        BY <2>1, <3>1, <3>2, <3>3
      <4>2. (edges \o fresh)[i] = fresh[i - Len(edges)] /\ i - Len(edges) \in 1..Len(fresh)
        BY <2>1, <3>1, <3>2, <3>3, <4>1
      <4>3. QED
        BY <3>1, <4>1, <4>2
    <3>4. ASSUME NEW i \in DOMAIN edges', i > Len(edges)
          PROVE  /\ {<<edges'[i].yes, edges'[i].yesAsk>>, <<edges'[i].no, edges'[i].noAsk>>}
                       \subseteq quoted'
                 /\ <<edges'[i].yes, edges'[i].no>> \in {pairs[h] : h \in DOMAIN pairs}
                 /\ edges'[i].yesAsk + edges'[i].noAsk \in 900..980
      <4> DEFINE e == edges'[i]
      <4>1. e \in SeenEdge
        BY <3>3, <3>4
      <4> HIDE DEF e
      <4>2. /\ {<<e.yes, e.yesAsk>>, <<e.no, e.noAsk>>} \subseteq quoted'
            /\ <<e.yes, e.no>> \in {pairs[h] : h \in DOMAIN pairs}
            /\ e.yesAsk + e.noAsk \in 900..980
        BY <4>1 DEF SeenEdge
      <4>3. QED
        BY <4>2 DEF e
    <3>5. QED
      BY <3>4
  <2>5. QED
    BY <1>1, <2>2, <2>3, <2>4 DEF HotNext, Loop, Drain, ConnectHot, ConnectPanics, ReadOther,
       ReadFails, Tick, Rollover, SendAdd, SendRemove
<1>2. HotInv /\ [HotNext]_hotPathVars => [Fresh]_hotPathVars
  BY <1>1
<1> HIDE DEF Fresh
<1>3. HotSpec => [][Fresh]_hotPathVars
  BY <1>2, HotInvHolds, PTL DEF HotSpec
<1>4. QED
  BY <1>3 DEF Fresh, EdgesFromThisConnection
=============================================================================
