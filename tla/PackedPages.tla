----------------------------- MODULE PackedPages -----------------------------
(* FixedThresholdDynamicCache (decision_cache.cpp) as it lies in memory, one    *)
(* shard: pages ("segments") of control bytes and dense indices into the keys   *)
(* of the page, a Bloom filter over each, and the image of it all that          *)
(* snapshot takes and restore refuses or takes over. FailureCache is the same    *)
(* cache with sets of keys for pages. Sizes are in bytes, as in the code.       *)
EXTENDS Integers, SequencesExt, FiniteSetsExt

CONSTANTS
    InitialCapacity,   \* slots of the smallest page, 16 in the code
    Words              \* 64-bit words of a key

\* The clock does not depend on the sizes FailureCache gives its pages.
F == INSTANCE FailureCache
        WITH FirstPage <- InitialCapacity, PageLimit <- 0, MaxRoom <- 0, MaxEntries <- 0

Slots(page) == Cardinality(DOMAIN page.control)

LoadLimit(capacity) == (capacity * 7) \div 10

Retained(capacity) == (capacity \div 10) * 7 + ((capacity % 10) * 7) \div 10

BloomWords(capacity) == (capacity * 8 + 63) \div 64

(* Control bytes, 4-byte indices, the keys a full page retains, the filter.     *)
PageBytes(capacity) ==
    capacity + 4 * capacity + 8 * Words * Retained(capacity) + 8 * BloomWords(capacity)

Total(value(_), pages) == MapThenSumSet(LAMBDA i : value(pages[i]), DOMAIN pages)
Used(pages) == Total(LAMBDA page : PageBytes(Slots(page)), pages)

NewPage(capacity) ==
    [control |-> [i \in 0..(capacity - 1) |-> 0], dense |-> [i \in 0..(capacity - 1) |-> 0],
     keys |-> << >>, bloom |-> {}, size |-> 0, depthSum |-> 0, maxDepth |-> 0,
     referenced |-> TRUE]

Cleared(page) == NewPage(Slots(page))

(* refresh_stats.                                                             *)
Refreshed(C) ==
    [C EXCEPT !.stats = [entries |-> C.size, capacity |-> Total(Slots, C.pages),
                         memory |-> Used(C.pages)]]

FitsAdditional(C, capacity) ==
    C.options.memory = 0 \/ Used(C.pages) + PageBytes(capacity) <= C.options.memory

AddPage(C, capacity) ==
    IF FitsAdditional(C, capacity) THEN Refreshed([C EXCEPT !.pages = Append(@, NewPage(capacity))])
    ELSE C

NewPages(options) ==
    AddPage(Refreshed([options |-> options, pages |-> << >>, size |-> 0, hand |-> 0,
                       saturated |-> FALSE, stats |-> << >>]), InitialCapacity)
-----------------------------------------------------------------------------
(* One page. h[key] is the hash: the slot its low bits say, the odd fingerprint  *)
(* of its high bits and the two bits of the filter.                            *)

Bloom(page, h, key) == {b % (64 * BloomWords(Slots(page))) : b \in h[key].bits}

BloomMaybeContains(page, h, key) == Bloom(page, h, key) \subseteq page.bloom

(* Fingerprints only select candidates: a hit compares the complete key.        *)
KeyEqual(page, slot, key) == page.keys[page.dense[slot] + 1] = key

Ends(page, h, key) ==
    {j \in 0..(Slots(page) - 1) :
        LET slot == (h[key].slot + j) % Slots(page)
        IN  \/ page.control[slot] = 0
            \/ page.control[slot] = h[key].finger /\ KeyEqual(page, slot, key)}

Find(page, h, key) == (h[key].slot + Min(Ends(page, h, key))) % Slots(page)

Holds(page, h, key) ==
    BloomMaybeContains(page, h, key) /\ page.control[Find(page, h, key)] # 0

Holding(C, h, key) == {i \in DOMAIN C.pages : Holds(C.pages[i], h, key)}

ProvesFailed(C, h, key) == Holding(C, h, key) # {}

(* proves_failed asks the newest page first, record_failed the oldest; a key is  *)
(* in one page at most.                                                       *)
Promoted(C, i) ==
    IF C.options.replacement = "clock" THEN [C EXCEPT !.pages[i].referenced = TRUE] ELSE C
-----------------------------------------------------------------------------
(* record_failed.                                                             *)

Back(C) == Last(C.pages)

BackTakes(C) == C.pages # << >> /\ Back(C).size + 1 <= LoadLimit(Slots(Back(C)))

NextCapacity(C) ==
    IF C.pages = << >> THEN InitialCapacity
    ELSE IF C.options.replacement = "clock"
         THEN Max({InitialCapacity, Min({2 * Slots(Back(C)), C.options.pageCapacity})})
    ELSE 2 * Slots(Back(C))

HasCapacity(C) ==
    /\ C.options.entries = 0 \/ C.size < C.options.entries
    /\ BackTakes(C) \/ FitsAdditional(C, NextCapacity(C))

EnsuredCapacity(C) == IF BackTakes(C) THEN C ELSE AddPage(C, NextCapacity(C))

(* recycle_page: the clock of FailureCache, over the keys the pages hold.       *)
Swept(C) ==
    F!Swept([hand |-> C.hand,
             pages |-> [i \in DOMAIN C.pages |->
                [keys |-> ToSet(C.pages[i].keys), room |-> Slots(C.pages[i]),
                 hot |-> C.pages[i].referenced]]])

Demoted(C, s) ==
    [C EXCEPT !.hand = s.hand,
              !.pages = [i \in DOMAIN @ |-> [@[i] EXCEPT !.referenced = s.hot[i]]]]

RecycledPage(C, s) ==
    LET n == Len(C.pages)
        pages == [Demoted(C, s).pages EXCEPT ![s.best] = Cleared(@)]
    IN  Refreshed([C EXCEPT !.hand = s.hand % n, !.size = @ - C.pages[s.best].size,
                            !.pages = [pages EXCEPT ![s.best] = pages[n], ![n] = pages[s.best]]])

InsertedKey(C, h, key) ==
    LET n == Len(C.pages)
        page == C.pages[n]
        slot == Find(page, h, key)
        filled == [page EXCEPT !.control[slot] = h[key].finger, !.dense[slot] = page.size,
                               !.keys = Append(@, key), !.bloom = @ \cup Bloom(page, h, key),
                               !.size = @ + 1, !.depthSum = @ + Cardinality(key),
                               !.maxDepth = Max({@, Cardinality(key)}), !.referenced = TRUE]
    IN  [C EXCEPT !.pages[n] = filled, !.size = @ + 1, !.stats.entries = C.size + 1]

RecordFailed(C, h, key) ==
    LET full == [C EXCEPT !.saturated = TRUE]
    IN  IF Holding(C, h, key) # {} THEN Promoted(C, Min(Holding(C, h, key)))
        ELSE IF C.saturated /\ C.options.replacement = "freeze" THEN C
        ELSE IF HasCapacity(C) THEN InsertedKey(EnsuredCapacity(C), h, key)
        ELSE IF C.options.replacement = "freeze" \/ C.size = 0 THEN full
        ELSE IF Swept(C).best = 0 THEN Demoted(full, Swept(C))
        ELSE InsertedKey(RecycledPage(full, Swept(C)), h, key)
-----------------------------------------------------------------------------
(* snapshot copies the cache; restore takes the copy over if it is valid.       *)

PowerOfTwo(n) == \E e \in 0..n : 2 ^ e = n

Occupied(page) == {slot \in DOMAIN page.control : page.control[slot] # 0}

(* Every slot taken has a key of its own, and the depths are those of the keys. *)
ValidPage(page) ==
    /\ DOMAIN page.control # {} /\ PowerOfTwo(Slots(page))
    /\ DOMAIN page.dense = DOMAIN page.control
    /\ Len(page.keys) = page.size
    /\ \A slot \in Occupied(page) : page.dense[slot] < page.size
    /\ \A a, b \in Occupied(page) : page.dense[a] = page.dense[b] => a = b
    /\ Cardinality(Occupied(page)) = page.size
    /\ page.depthSum =
        MapThenSumSet(LAMBDA slot : Cardinality(page.keys[page.dense[slot] + 1]), Occupied(page))
    /\ page.maxDepth =
        Max({0} \cup {Cardinality(page.keys[page.dense[slot] + 1]) : slot \in Occupied(page)})

(* validate_fixed_snapshot.                                                   *)
ValidSnapshot(S) ==
    LET o == S.options
    IN  /\ o.replacement = "clock" =>
            o.pageCapacity >= InitialCapacity /\ PowerOfTwo(o.pageCapacity)
        /\ \A i \in DOMAIN S.pages : ValidPage(S.pages[i])
        /\ S.size = Total(LAMBDA page : page.size, S.pages)
        /\ o.entries # 0 => S.size <= o.entries
        /\ o.memory # 0 => Used(S.pages) <= o.memory
        /\ S.stats = Refreshed(S).stats
        /\ S.pages # << >> => S.hand < Len(S.pages)
=============================================================================
