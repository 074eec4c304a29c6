----------------------------- MODULE CacheTables -----------------------------
(* What the caches are made of: the flat tables with linear probing behind the *)
(* caches of failed prefixes (decision_cache.cpp), how a budget is divided     *)
(* between shards, and the table that remembers the values of the              *)
(* finite-horizon oracle (node_memo.cpp). h is the hash of a key.              *)
EXTENDS Cutwidth

Empty == [taken |-> FALSE]

(* limits: max_entries and, in slots, max_memory_bytes, 0 for none; words and  *)
(* keysRoom are the key arena of DynamicDecisionCache, 0 for the tables that   *)
(* keep the key in the slot; fixed is the one threshold a table serves.        *)
NewTable(capacity, limits) ==
    [slots |-> [i \in 0..(capacity - 1) |-> Empty], size |-> 0,
     initial |-> capacity, limits |-> limits]

Capacity(T) == Cardinality(DOMAIN T.slots)

(* below_load_limit: 7/10 without floating point.                             *)
BelowLoadLimit(entries, capacity) == entries <= (capacity * 7) \div 10

(* Slots that stop a probe: the key's or an empty one.                         *)
Stopping(T, h, key) ==
    {j \in 0..(Capacity(T) - 1) :
        LET s == T.slots[(h[key] + j) % Capacity(T)] IN ~s.taken \/ s.key = key}

Find(T, h, key) == (h[key] + Min(Stopping(T, h, key))) % Capacity(T)

TableProves(T, h, key, t) ==
    LET s == T.slots[Find(T, h, key)] IN s.taken /\ t <= s.failed

(* The fixed-threshold table answers and records at its threshold only.       *)
FixedProves(T, h, key, t, threshold) == t = threshold /\ TableProves(T, h, key, t)

Fits(T, capacity) ==
    T.limits.memory = 0 \/ capacity + T.limits.perKey * (T.size + 1) <= T.limits.memory

(* Every entry is inserted again, in the order of the old slots.              *)
Rehashed(T, h, capacity) ==
    FoldLeft(LAMBDA s, i :
                IF ~T.slots[i].taken THEN s
                ELSE [s EXCEPT !.slots[Find(s, h, T.slots[i].key)] = T.slots[i]],
             [T EXCEPT !.slots = [i \in 0..(capacity - 1) |-> Empty]],
             [i \in 1..Capacity(T) |-> i - 1])

(* ensure_insert_capacity, reserve_for_insert: the table doubles when one more  *)
(* entry would pass the load limit, unless it may not.                        *)
Grown(T, h) ==
    IF BelowLoadLimit(T.size + 1, Capacity(T)) \/ ~Fits(T, 2 * Capacity(T)) THEN T
    ELSE Rehashed(T, h, 2 * Capacity(T))

MayInsert(T) ==
    /\ T.limits.entries = 0 \/ T.size < T.limits.entries
    /\ BelowLoadLimit(T.size + 1, Capacity(T)) \/ Fits(T, 2 * Capacity(T))

(* The slot found is used again unless the table has grown.                    *)
Inserted(T, h, key, t) ==
    LET G == Grown(T, h)
    IN  IF ~Fits(G, Capacity(G)) THEN G
        ELSE [G EXCEPT !.slots[Find(G, h, key)] = [taken |-> TRUE, key |-> key, failed |-> t],
                       !.size = @ + 1]

TableRecords(T, h, key, t) ==
    LET i == Find(T, h, key)
    IN  IF T.slots[i].taken THEN [T EXCEPT !.slots[i].failed = Max({@, t})]
        ELSE IF MayInsert(T) THEN Inserted(T, h, key, t)
        ELSE T

FixedRecords(T, h, key, t, threshold) ==
    IF t = threshold THEN TableRecords(T, h, key, t) ELSE T
-----------------------------------------------------------------------------
(* Shards. In a shard's options 0 would mean that it has no limit.             *)

(* ShardedDynamicDecisionCache and its fixed-threshold sibling: no more shards *)
(* than entries, the remainder to the first of them.                          *)
EffectiveShards(shards, entries, memory, footprint) ==
    Max({1, Min({shards} \cup (IF entries = 0 THEN {} ELSE {entries})
                         \cup (IF memory = 0 THEN {} ELSE {Max({1, memory \div footprint})}))})

DividedBudget(total, shards) ==
    [i \in 0..(shards - 1) |-> total \div shards + (IF i < total % shards THEN 1 ELSE 0)]

(* The word64 caches: at least one per shard, which may exceed the total.      *)
RoundedBudget(total, shards) ==
    [i \in 0..(shards - 1) |-> IF total = 0 THEN 0 ELSE Max({1, total \div shards})]
-----------------------------------------------------------------------------
(* NodeMemoTable: a slot per hash, overwritten; memo maps slots to entries.    *)

NewMemo(size) == [i \in 0..(size - 1) |-> Empty]

MemoSlot(memo, h, P) == h[P] % Cardinality(DOMAIN memo)

MemoFinds(memo, h, P, d) ==
    LET s == memo[MemoSlot(memo, h, P)] IN s.taken /\ s.prefix = P /\ s.depth = d

MemoStore(memo, h, P, d, bound) ==
    LET i == MemoSlot(memo, h, P)
        s == memo[i]
    IN  IF s.taken => s.prefix # P \/ d >= s.depth \/ bound > s.bound
        THEN [memo EXCEPT ![i] = [taken |-> TRUE, prefix |-> P, depth |-> d, bound |-> bound]]
        ELSE memo

(* evaluate: polls counts the polls of the flag and the clock that still say   *)
(* "go on"; an evaluation that is interrupted stores nothing.                  *)
RECURSIVE Evaluate(_, _, _, _, _, _)
Evaluate(g, h, memo, P, d, polls) ==
    LET left == Vertices(g) \ P
        stored(m, value) == [memo |-> MemoStore(m, h, P, d, value), bound |-> value,
                             complete |-> TRUE]
        child(s, v) ==
            IF ~s.complete THEN s
            ELSE IF s.polls = 0 THEN [s EXCEPT !.complete = FALSE]
            ELSE LET r == Evaluate(g, h, s.memo, P \cup {v}, d - 1, s.polls - 1)
                 IN  [memo |-> r.memo, complete |-> r.complete, polls |-> r.polls,
                      least |-> IF r.complete THEN Min({s.least, r.bound}) ELSE s.least]
        all == FoldLeft(child, [memo |-> memo, complete |-> TRUE, polls |-> polls - 1,
                                least |-> EdgeCount(g) + 1], Sorted(left, <))
    IN  IF MemoFinds(memo, h, P, d)
        THEN [memo |-> memo, bound |-> memo[MemoSlot(memo, h, P)].bound, complete |-> TRUE,
              polls |-> polls]
        ELSE IF d = 0 \/ left = {} THEN stored(memo, Cut(g, P)) @@ [polls |-> polls]
        ELSE IF polls = 0 \/ ~all.complete
             THEN [memo |-> IF polls = 0 THEN memo ELSE all.memo, bound |-> Cut(g, P),
                   complete |-> FALSE, polls |-> 0]
        ELSE stored(all.memo, Max({Cut(g, P), all.least})) @@ [polls |-> all.polls]
=============================================================================
