------------------------------- MODULE HotPath -------------------------------
(***************************************************************************)
(* The synchronous hot path (src/src/hft_hot_path.rs) inside the reconnect *)
(* loop of src/src/bin/hft_pingpong_v2.rs, between two bounded channels:   *)
(* commands from the rollover thread and edges to the background thread.   *)
(*                                                                         *)
(* A token is known by a hash, and the code has two hash functions: that   *)
(* of a byte slice, which the hot path computes, and that of a string,     *)
(* which built the start-up maps.  The hasher feeds them different bytes   *)
(* for the same token (a length before it, 0xff after it), so a hash is    *)
(* the token with the function's name.  A message is the sequence of the   *)
(* markers the parser looks for.  Prices are in thousandths of a dollar.   *)
(***************************************************************************)
EXTENDS Integers, Sequences, FiniteSets, SequencesExt

CONSTANTS StartPairs,  \* the markets of the start-up maps, as <<yes, no>>
          NewPairs,    \* the markets rollover may add
          HotPrice,    \* prices a message may carry
          Messages,    \* the text messages the exchange may send
          RateLimit,   \* ticks in EVAL_RATE_LIMIT_MS
          MaxCommands, \* capacity of the rollover channel
          MaxEdges     \* capacity of the opportunity channel

HotToken == UNION {{p[1], p[2]} : p \in StartPairs \cup NewPairs}
Marker   == [asset : HotToken] \cup [price : HotPrice] \cup [bid : BOOLEAN]

fast_hash(t) == <<"slice", t>>

hash_token(t) == <<"str", t>>

(* The pairs known at the start are keyed one way, those of the rollover   *)
(* the other.                                                              *)
StartKeys(p)   == <<hash_token(p[1]), hash_token(p[2])>>
CommandKeys(p) == <<fast_hash(p[1]), fast_hash(p[2])>>

ASSUME HotPathAssumption ==
    /\ IsFiniteSet(StartPairs) /\ IsFiniteSet(NewPairs)
    /\ \A p \in StartPairs \cup NewPairs : p[1] # p[2]
    /\ \A p, q \in StartPairs \cup NewPairs :
          {p[1], p[2]} \cap {q[1], q[2]} # {} => p = q
    /\ HotPrice \subseteq Nat
    /\ Messages \subseteq Seq(Marker)
    /\ RateLimit \in Nat \ {0} /\ MaxCommands \in Nat \ {0} /\ MaxEdges \in Nat

VARIABLES
    pc,         \* connecting, top of the loop, read, or dead (a panic)
    pairs,      \* token_pairs: hash -> <<yes hash, no hash>>
    wait,       \* eval_trackers: hash -> ticks until it may be evaluated again
    tokenBooks, \* hash -> best bid and best ask
    commands,   \* the rollover channel
    edges,      \* the opportunity channel
    quoted,     \* history: <<hash, price>> received on this connection
    added,      \* history: pairs rollover has added and not removed
    handled     \* history: legs the background task went on with

hotVars     == <<pairs, wait, tokenBooks, quoted>>
hotPathVars == <<pc, hotVars, commands, edges, added, handled>>

NoAsk   == 1000000 \* u64::MAX of TokenBookState::new
NewBook == [bid |-> 0, ask |-> NoAsk]

(* A map with the entries of another where it has none of its own.         *)
Over(f, g) == [h \in DOMAIN f \cup DOMAIN g |-> IF h \in DOMAIN f THEN f[h] ELSE g[h]]

HotInit ==
    /\ pc = "connecting"
    /\ pairs = <<>> /\ wait = <<>> /\ tokenBooks = <<>>
    /\ commands = <<>> /\ edges = <<>>
    /\ quoted = {} /\ added = {} /\ handled = {}
-----------------------------------------------------------------------------
(* The reconnect loop.                                                     *)

(* The pairs by each of their tokens.  The start-up map holds every pair   *)
(* in both directions and the last one visited decides which token is YES. *)
BothWays(ps) == [h \in UNION {{p[1], p[2]} : p \in ps} |->
                    CHOOSE p \in ps : h \in {p[1], p[2]}]

Flip(p) == <<p[2], p[1]>>

(* Mutant: the books of the last connection are kept.                      *)
ConnectHot_KeepBooks ==
    /\ pc = "connecting"
    /\ \E flipped \in SUBSET StartPairs :
          pairs' = BothWays({StartKeys(IF p \in flipped THEN Flip(p) ELSE p)
                                : p \in StartPairs})
    /\ wait' = [h \in DOMAIN pairs' |-> 0]
    /\ tokenBooks' = Over([h \in {fast_hash(t) :
                                 t \in UNION {{p[1], p[2]} : p \in StartPairs}} |-> NewBook],
                          tokenBooks)
    /\ quoted' = {}
    /\ pc' = "top"
    /\ UNCHANGED <<commands, edges, added, handled>>

ConnectHot ==
    /\ pc = "connecting"
    /\ \E flipped \in SUBSET StartPairs :
          pairs' = BothWays({StartKeys(IF p \in flipped THEN Flip(p) ELSE p)
                                : p \in StartPairs})
    /\ wait' = [h \in DOMAIN pairs' |-> 0]
    /\ tokenBooks' = [h \in {fast_hash(t) : t \in UNION {{p[1], p[2]} : p \in StartPairs}}
                        |-> NewBook]
    /\ quoted' = {}
    /\ pc' = "top"
    /\ UNCHANGED <<commands, edges, added, handled>>

(* Every step of connecting is an expect(): failure ends the main thread.  *)
ConnectPanics ==
    /\ pc = "connecting"
    /\ pc' = "dead"
    /\ UNCHANGED <<hotVars, commands, edges, added, handled>>
-----------------------------------------------------------------------------
(* The hot path: apply all commands, then read one message.                *)

hot == [pairs |-> pairs, wait |-> wait, tokenBooks |-> tokenBooks]

(* Mutant: only the YES token is mapped.                                   *)
Apply_YesOnly(s, c) ==
    [s EXCEPT !.pairs = Over([h \in {c.yes} |-> <<c.yes, c.no>>], @),
              !.wait = Over([h \in {c.yes, c.no} |-> 0], @),
              !.tokenBooks = Over(@, [h \in {c.yes, c.no} |-> NewBook])]

(* What one command does; a book that is there already is kept, and        *)
(* RemovePair leaves the books.                                            *)
Apply(s, c) ==
    LET hs == {c.yes, c.no}
    IN  IF c.op = "add"
        THEN [pairs     |-> Over([h \in hs |-> <<c.yes, c.no>>], s.pairs),
              wait      |-> Over([h \in hs |-> 0], s.wait),
              tokenBooks |-> Over(s.tokenBooks, [h \in hs |-> NewBook])]
        ELSE [s EXCEPT !.pairs = [h \in DOMAIN @ \ hs |-> @[h]],
                       !.wait  = [h \in DOMAIN @ \ hs |-> @[h]]]

(* Mutant: one command per turn, and none when there are several.          *)
Drain_NoBurst ==
    /\ pc = "top"
    /\ LET s == IF Len(commands) = 1 THEN Apply(hot, Head(commands)) ELSE hot
       IN  pairs' = s.pairs /\ wait' = s.wait /\ tokenBooks' = s.tokenBooks
    /\ commands' = IF Len(commands) = 1 THEN <<>> ELSE commands
    /\ pc' = "read"
    /\ UNCHANGED <<edges, quoted, added, handled>>

Drain ==
    /\ pc = "top"
    /\ LET s == FoldLeft(Apply, hot, commands)
       IN  pairs' = s.pairs /\ wait' = s.wait /\ tokenBooks' = s.tokenBooks
    /\ commands' = <<>>
    /\ pc' = "read"
    /\ UNCHANGED <<edges, quoted, added, handled>>

update(book, isBid, p) ==
    IF isBid THEN [book EXCEPT !.bid = IF p > @ THEN p ELSE @]
             ELSE [book EXCEPT !.ask = IF p < @ THEN p ELSE @]

(* One marker.  The side is that of the last side marker before the price, *)
(* the token that of the last asset marker.                                *)
Scan(s, m) ==
    CASE "asset" \in DOMAIN m -> [s EXCEPT !.token = {fast_hash(m.asset)}]
      [] "bid" \in DOMAIN m   -> [s EXCEPT !.bid = m.bid]
      [] OTHER ->
           LET known == s.token \cap DOMAIN s.tokenBooks
           IN  [s EXCEPT !.tokenBooks = [h \in DOMAIN @ |->
                                           IF h \in known THEN update(@[h], s.bid, m.price)
                                           ELSE @[h]],
                         !.quoted = @ \cup (s.token \X {m.price})]

parse(msg) ==
    FoldLeft(Scan, [token |-> {}, bid |-> FALSE, tokenBooks |-> tokenBooks,
                    quoted |-> quoted], msg)

(* The edge a pair's books show, if they show one.                         *)
Combined(books, p) == books[p[1]].ask + books[p[2]].ask

ShowsEdge(books, p) ==
    /\ {p[1], p[2]} \subseteq DOMAIN books
    /\ \A i \in 1..2 : books[p[i]].ask \notin {0, NoAsk}
    /\ Combined(books, p) \in 900..980

(* The parser gives every price the same size.                             *)
ParsedSize == 100

EdgeOf(books, p) == [yes |-> p[1], no |-> p[2],
                     yesAsk |-> books[p[1]].ask, noAsk |-> books[p[2]].ask,
                     yesSize |-> ParsedSize, noSize |-> ParsedSize]

(* A text: the books, then every pair once under each of its tokens that   *)
(* may be evaluated again, in the order of the map.  What does not fit     *)
(* into the channel is dropped.                                            *)
ReadText(msg) ==
    LET s   == parse(msg)
        due == {h \in DOMAIN pairs : wait[h] = 0}
        hit == {h \in due : ShowsEdge(s.tokenBooks, pairs[h])}
    IN  /\ pc = "read"
        /\ tokenBooks' = s.tokenBooks
        /\ quoted' = s.quoted
        /\ wait' = [h \in DOMAIN wait |-> IF h \in due THEN RateLimit ELSE wait[h]]
        /\ \E order \in SetToSeqs(hit) :
              LET offered == edges \o [i \in DOMAIN order |->
                                          EdgeOf(s.tokenBooks, pairs[order[i]])]
              IN  edges' = SubSeq(offered, 1, IF Len(offered) < MaxEdges
                                              THEN Len(offered) ELSE MaxEdges)
        /\ pc' = "top"
        /\ UNCHANGED <<pairs, commands, added, handled>>

(* A Pong, or a frame that is no text.                                     *)
ReadOther ==
    /\ pc = "read"
    /\ pc' = "top"
    /\ UNCHANGED <<hotVars, commands, edges, added, handled>>

(* Thirty seconds of silence, or an error.                                 *)
ReadFails ==
    /\ pc = "read"
    /\ pc' = "connecting"
    /\ UNCHANGED <<hotVars, commands, edges, added, handled>>

Tick ==
    /\ \E h \in DOMAIN wait : wait[h] > 0
    /\ wait' = [h \in DOMAIN wait |-> IF wait[h] > 0 THEN wait[h] - 1 ELSE 0]
    /\ UNCHANGED <<pc, pairs, tokenBooks, quoted, commands, edges, added, handled>>
-----------------------------------------------------------------------------
(* The rollover thread, as the channel shows it, and the background one.   *)

(* Nothing in the repository builds a command of this type; the sender is  *)
(* given the hash under which the hot path can find a token.               *)
Command(op, hs) == [op |-> op, yes |-> hs[1], no |-> hs[2]]

SendAdd(p) ==
    LET hs == CommandKeys(p)
    IN  /\ hs \notin added
        /\ Len(commands) < MaxCommands
        /\ commands' = Append(commands, Command("add", hs))
        /\ added' = added \cup {hs}
        /\ UNCHANGED <<pc, hotVars, edges, handled>>

SendRemove(hs) ==
    /\ Len(commands) < MaxCommands
    /\ commands' = Append(commands, Command("remove", hs))
    /\ added' = added \ {hs}
    /\ UNCHANGED <<pc, hotVars, edges, handled>>

Rollover ==
    \/ \E p \in NewPairs : SendAdd(p)
    \/ \E hs \in added : SendRemove(hs)

(* The hashes the start-up maps lead back to tokens by.                    *)
hash_to_id == {hash_token(t) : t \in UNION {{p[1], p[2]} : p \in StartPairs}}

(* The leg with more depth rests, and NO when there is no telling.         *)
determine_maker_taker(e) ==
    IF e.yesSize > e.noSize THEN [maker |-> e.yes, taker |-> e.no]
                            ELSE [maker |-> e.no, taker |-> e.yes]

(* An edge with a hash that is not known is given up; the legs of the      *)
(* others are all that is left to do, in a dry run as in a live one.       *)
process_edge(e) ==
    handled' = IF {e.yes, e.no} \subseteq hash_to_id
               THEN handled \cup {determine_maker_taker(e)} ELSE handled

(* An edge is taken and handed to a task of its own.                       *)
Background ==
    /\ edges # <<>>
    /\ process_edge(Head(edges))
    /\ edges' = Tail(edges)
    /\ UNCHANGED <<pc, hotVars, commands, added>>
-----------------------------------------------------------------------------
Loop == ConnectPanics \/ ReadOther \/ ReadFails \/ Drain \/ ConnectHot

HotNext == Loop \/ (\E msg \in Messages : ReadText(msg)) \/ Tick \/ Rollover \/ Background

HotSpec == HotInit /\ [][HotNext]_hotPathVars

(* The main thread goes on: a read that brings no text brings something    *)
(* else or fails after thirty seconds, and after a text the loop is at its *)
(* top again.                                                              *)
HotFairSpec == HotSpec /\ WF_hotPathVars(Loop)
-----------------------------------------------------------------------------
(* Whatever was added, removed or rebuilt, and in which order the start-up *)
(* map was visited, both tokens of a tracked pair lead to that pair, and   *)
(* just those are limited in their rate                                    *)
(* (hft_hot_path.rs:203-227, bin/hft_pingpong_v2.rs:225-229).              *)
PairsAgree ==
    /\ DOMAIN wait = DOMAIN pairs
    /\ \A h \in DOMAIN pairs :
          /\ h \in {pairs[h][1], pairs[h][2]}
          /\ \A i \in 1..2 : /\ pairs[h][i] \in DOMAIN pairs
                             /\ pairs[pairs[h][i]] = pairs[h]

(* An edge that is queued was seen on the connection that is up: both of   *)
(* its prices were received on it, for the two tokens of a pair tracked at *)
(* that moment, and together they are in the band (hft_hot_path.rs:265).   *)
EdgesFromThisConnection ==
    [][\A i \in DOMAIN edges' :
          i > Len(edges) =>
             LET e == edges'[i]
             IN  /\ {<<e.yes, e.yesAsk>>, <<e.no, e.noAsk>>} \subseteq quoted'
                 /\ <<e.yes, e.no>> \in {pairs[h] : h \in DOMAIN pairs}
                 /\ e.yesAsk + e.noAsk \in 900..980]_hotPathVars

(* What rollover queues, at whatever moment of an outage, is applied in    *)
(* the end, unless reconnecting ends the program (hft_hot_path.rs:203).    *)
CommandsApplied == commands # <<>> ~> (commands = <<>> \/ pc = "dead")

(* What comes of the two hash functions: an edge is only ever of a pair    *)
(* that rollover added under the hot path's own hash, since the start-up   *)
(* pairs are hashed as strings and have no books; and the background task, *)
(* which looks hashes up among the strings', goes on with no edge at all   *)
(* (token_map.rs:14, hft_hot_path.rs:126, 181, background_wiring.rs:35-49).*)
EdgesOnlyFromRollover ==
    /\ \A i \in DOMAIN edges :
          \E p \in NewPairs : <<edges[i].yes, edges[i].no>> = CommandKeys(p)
    /\ handled = {}
-----------------------------------------------------------------------------
(* Statements of the repository that the code does not keep.               *)

StartHashes == {fast_hash(t) : t \in UNION {{p[1], p[2]} : p \in StartPairs}}

(* "Token Hash -> Token ID Mapping for Hot Path Resolution", "hasher for   *)
(* hot path tokens" (token_map.rs:1, 13): the hash of a start-up token for *)
(* which the hot path has booked a quote leads back to its token.          *)
QuotesResolve ==
    \A q \in quoted : q[1] \in StartHashes => q[1] \in hash_to_id

(* "markets will transition seamlessly" (bin/hft_pingpong_v2.rs:232): a    *)
(* pair that rollover added and did not remove is tracked, or its command  *)
(* is still to be applied.                                                 *)
AddedPairsTracked ==
    \A hs \in added :
        \/ pc \in {"connecting", "dead"}
        \/ hs[1] \in DOMAIN pairs
        \/ \E i \in DOMAIN commands : commands[i].yes = hs[1]
=============================================================================
