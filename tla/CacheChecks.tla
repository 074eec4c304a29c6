----------------------------- MODULE CacheChecks -----------------------------
(* What lies under the caches, over every short history and every way the keys *)
(* may collide: the flat tables and the memo (CacheTables), the packed pages    *)
(* (PackedPages), the budgets of the shards.                                   *)
EXTENDS Cutwidth

T == INSTANCE CacheTables
P == INSTANCE PackedPages WITH InitialCapacity <- 4, Words <- 1

-----------------------------------------------------------------------------
TableKeys   == {"a", "b", "c"}
TableHashes == [TableKeys -> {0, 3}]
Histories   == UNION {[1..n -> TableKeys \X {1, 2}] : n \in 0..4}
TableLimits == {[entries |-> 0, memory |-> 0, perKey |-> 0],
                [entries |-> 2, memory |-> 0, perKey |-> 0],
                [entries |-> 0, memory |-> 4, perKey |-> 0],
                [entries |-> 0, memory |-> 11, perKey |-> 1]}

TableAfter(limits, h, history) ==
    FoldLeft(LAMBDA t, r : T!TableRecords(t, h, r[1], r[2]), T!NewTable(4, limits), history)

(* What the table should know: the largest threshold recorded of each key it   *)
(* has taken in, the first as many as its limits allow.                       *)
Admitted(limits, history) ==
    LET firsts == {i \in DOMAIN history : \A j \in 1..(i - 1) : history[j][1] # history[i][1]}
        room == IF limits.entries = 2 \/ limits.memory = 4 THEN 2 ELSE 3
    IN  {history[i][1] : i \in {i \in firsts : Cardinality({j \in firsts : j <= i}) <= room}}

(* A flat table proves exactly what was recorded of the keys it could take,    *)
(* whatever collides and whenever it grew; a probe always ends.                *)
ASSUME TablesExact ==
    \A limits \in TableLimits, h \in TableHashes, history \in Histories :
        LET table == TableAfter(limits, h, history)
        IN  \A key \in TableKeys :
                /\ T!Stopping(table, h, key) # {}
                /\ \A t \in 1..2 :
                    T!TableProves(table, h, key, t)
                        <=> /\ key \in Admitted(limits, history)
                            /\ \E i \in DOMAIN history : history[i][1] = key /\ history[i][2] >= t

(* A table for one threshold says nothing of any other.                       *)
ASSUME FixedTablesExact ==
    \A h \in TableHashes, history \in [1..2 -> TableKeys \X {1, 2}], key \in TableKeys, t \in 1..2 :
        LET table == FoldLeft(LAMBDA s, r : T!FixedRecords(s, h, r[1], r[2], 2),
                              T!NewTable(4, [entries |-> 0, memory |-> 0, perKey |-> 0]), history)
        IN  T!FixedProves(table, h, key, t, 2) <=> t = 2 /\ <<key, 2>> \in ToSet(history)

(* Divided between shards, a budget is used up and no shard is left without a   *)
(* limit; the word64 caches keep the second only.                             *)
ASSUME ShardBudgets ==
    \A total \in 1..20, shards \in 1..8 :
        LET n == T!EffectiveShards(shards, total, 0, 16)
            divided == T!DividedBudget(total, n)
        IN  /\ n \in 1..shards
            /\ MapThenSumSet(LAMBDA i : divided[i], DOMAIN divided) = total
            /\ \A i \in DOMAIN divided : divided[i] > 0
            /\ \A i \in 0..(shards - 1) : T!RoundedBudget(total, shards)[i] > 0
-----------------------------------------------------------------------------
(* Keys of different depths, two of them alike but for the key itself.         *)
PageKeys == {{1}, {2}, {1, 2}, {1, 2, 3}, {3}}
PageHash(same) ==
    [key \in PageKeys |->
        [slot |-> IF key \in same THEN 3 ELSE Cardinality(key),
         finger |-> IF key \in same THEN 1 ELSE 3,
         bits |-> IF key \in same THEN {7} ELSE {Cardinality(key), 70}]]
PageHashes == {PageHash({}), PageHash({{1}, {2}}), PageHash(PageKeys)}
PageHistories == {q \in [1..5 -> PageKeys] : q[1] = {1, 2}}
Freeze == [entries |-> 0, memory |-> 0, replacement |-> "freeze", pageCapacity |-> 8]
Clock  == [entries |-> 4, memory |-> 0, replacement |-> "clock", pageCapacity |-> 4]
PageOptions == {Freeze, Clock, [Freeze EXCEPT !.entries = 3], [Freeze EXCEPT !.memory = 100]}

PagesAfter(options, h, history) ==
    FoldLeft(LAMBDA c, key : P!RecordFailed(c, h, key), P!NewPages(options), history)

(* The packed pages prove exactly the keys they have taken in and kept: neither *)
(* the filter, the fingerprints nor the probing loses or invents one. While     *)
(* they freeze, they keep every key recorded as long as they grow.             *)
ASSUME PagesExact ==
    \A options \in PageOptions, h \in PageHashes, history \in PageHistories :
        LET c == PagesAfter(options, h, history)
            kept == UNION {ToSet(c.pages[i].keys) : i \in DOMAIN c.pages}
        IN  /\ kept \subseteq ToSet(history)
            /\ \A key \in PageKeys : P!ProvesFailed(c, h, key) <=> key \in kept
            /\ \A key \in PageKeys : Cardinality(P!Holding(c, h, key)) <= 1
            /\ ~c.saturated => kept = ToSet(history)

(* restore takes over every image snapshot makes, but for one case: a sweep     *)
(* that only demotes pages leaves the hand of the clock past the last page      *)
(* (recycle_page returns before it is reduced), and restore refuses the image. *)
ASSUME SnapshotsRestore ==
    \A options \in PageOptions, h \in PageHashes, history \in PageHistories :
        LET c == PagesAfter(options, h, history)
        IN  /\ P!ValidSnapshot(c) <=> c.hand < Len(c.pages)
            /\ c.hand >= Len(c.pages) => c.options.replacement = "clock" /\ c.saturated

(* An image changed in one place is refused.                                   *)
ASSUME SnapshotsFailClosed ==
    LET c == PagesAfter(Freeze, PageHash({}), <<{1}, {2}, {1, 2}>>)
        s == CHOOSE s \in P!Occupied(c.pages[1]) : TRUE
    IN  \A bad \in {[c EXCEPT !.size = 2], [c EXCEPT !.stats.entries = 2], [c EXCEPT !.hand = 9],
                    [c EXCEPT !.stats.memory = @ + 1], [c EXCEPT !.options.entries = 2],
                    [c EXCEPT !.pages[1].depthSum = @ + 1], [c EXCEPT !.pages[1].maxDepth = 0],
                    [c EXCEPT !.pages[1].control[s] = 0], [c EXCEPT !.pages[1].dense[s] = 7],
                    [c EXCEPT !.pages[1].dense = [i \in DOMAIN @ |-> 0]],
                    [c EXCEPT !.pages[1].keys = Front(@)]} :
            ~P!ValidSnapshot(bad)
-----------------------------------------------------------------------------
Bent == SimpleGraph(4, {<<0, 1>>, <<1, 2>>, <<0, 2>>, <<2, 3>>})

MemoHashes == {[S \in SUBSET Vertices(Bent) |-> 0],
               [S \in SUBSET Vertices(Bent) |-> Cardinality(S)],
               [S \in SUBSET Vertices(Bent) |-> MapThenSumSet(LAMBDA v : 2 ^ v, S)]}
MemoQueries == {{}, {2}, {0, 2}} \X {1, 2, 3}

(* The memo never changes what the oracle says: after any two evaluations, each *)
(* perhaps interrupted, every value kept is the exact one of its prefix and    *)
(* depth, and so is every complete answer.                                    *)
ASSUME MemoExact ==
    \A h \in MemoHashes, a \in MemoQueries, b \in MemoQueries, polls \in {0, 2, 5, 99} :
        LET first == T!Evaluate(Bent, h, T!NewMemo(5), a[1], a[2], polls)
            second == T!Evaluate(Bent, h, first.memo, b[1], b[2], 99)
        IN  /\ first.complete => first.bound = FiniteHorizon(Bent, a[1], a[2])
            /\ second.complete /\ second.bound = FiniteHorizon(Bent, b[1], b[2])
            /\ \A i \in DOMAIN second.memo :
                LET s == second.memo[i]
                IN  s.taken => s.bound = FiniteHorizon(Bent, s.prefix, s.depth)
=============================================================================
