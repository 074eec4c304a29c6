---------------------------- MODULE FailureCache ----------------------------
(* The caches of failed prefixes (decision_cache.cpp), one shard each. A key  *)
(* is a set of placed vertices. "cross" keeps the largest threshold a key has *)
(* failed at; "freeze" and "clock" serve one threshold and keep their keys in *)
(* pages (the packed segments), whose hashing and probing are left out.       *)
EXTENDS Integers, SequencesExt, FiniteSetsExt

CONSTANTS
    FirstPage,   \* keys the first page holds; later pages hold twice as many
    PageLimit,   \* replacement_page_capacity, in keys
    MaxRoom,     \* max_memory_bytes, in keys over all pages
    MaxEntries   \* max_entries

ColdSample == 4

NewCache(mode) ==
    [mode |-> mode, failed |-> << >>, hand |-> 0, saturated |-> FALSE,
     pages |-> IF mode = "cross" THEN << >>
               ELSE <<[keys |-> {}, room |-> FirstPage, hot |-> TRUE]>>]

Keys(c)       == UNION {c.pages[i].keys : i \in DOMAIN c.pages}
Entries(c)    == IF c.mode = "cross" THEN DOMAIN c.failed ELSE Keys(c)
PagesRoom(c)  == MapThenSumSet(LAMBDA i : c.pages[i].room, DOMAIN c.pages)
Depth(page)   == MapThenSumSet(LAMBDA key : Cardinality(key), page.keys)

(* A hit proves a failure at the threshold or at a larger one. Mutant: at any. *)
ProvesAnything(c, key, k) ==
    IF c.mode = "cross" THEN key \in DOMAIN c.failed ELSE key \in Keys(c)
Proves(c, key, k) ==
    IF c.mode = "cross" THEN key \in DOMAIN c.failed /\ k <= c.failed[key] ELSE key \in Keys(c)

(* A page that answers is used again before it is recycled.                   *)
Touched(c, key) ==
    IF c.mode # "clock" THEN c
    ELSE [c EXCEPT !.pages = [i \in DOMAIN @ |->
             IF key \in @[i].keys THEN [@[i] EXCEPT !.hot = TRUE] ELSE @[i]]]

NextRoom(c) ==
    IF c.mode = "clock" THEN Min({2 * Last(c.pages).room, PageLimit}) ELSE 2 * Last(c.pages).room

BackHasRoom(c) == Cardinality(Last(c.pages).keys) < Last(c.pages).room
CanGrow(c)     == PagesRoom(c) + NextRoom(c) <= MaxRoom
BelowLimit(c)  == MaxEntries = 0 \/ Cardinality(Entries(c)) < MaxEntries

Grown(c) ==
    IF BackHasRoom(c) THEN c
    ELSE [c EXCEPT !.pages = Append(@, [keys |-> {}, room |-> NextRoom(c), hot |-> TRUE])]

(* One revolution of the clock over the largest pages: a hot one is demoted,  *)
(* of the first cold ones the shallowest on average is the victim.            *)
Swept(c) ==
    LET largest == Max({0} \cup {p.room : p \in {q \in ToSet(c.pages) : q.keys # {}}})
        shallower(i, j) == Depth(c.pages[i]) * Cardinality(c.pages[j].keys)
                              < Depth(c.pages[j]) * Cardinality(c.pages[i].keys)
        visit(s, turn) ==
            LET i == (s.hand % Len(c.pages)) + 1
                on == [s EXCEPT !.hand = @ + 1]
            IN  IF s.cold = ColdSample THEN s
                ELSE IF c.pages[i].keys = {} \/ c.pages[i].room # largest THEN on
                ELSE IF s.hot[i] THEN [on EXCEPT !.hot[i] = FALSE]
                ELSE [on EXCEPT !.cold = @ + 1,
                                !.best = IF @ = 0 \/ shallower(i, @) THEN i ELSE @]
    IN  FoldLeft(visit, [hand |-> c.hand, hot |-> [i \in DOMAIN c.pages |-> c.pages[i].hot],
                         cold |-> 0, best |-> 0], [i \in DOMAIN c.pages |-> i])

Demoted(c, s) ==
    [c EXCEPT !.hand = s.hand,
              !.pages = [i \in DOMAIN @ |-> [@[i] EXCEPT !.hot = s.hot[i]]]]

(* The victim is emptied and becomes the page that is filled.                 *)
Recycled(c, s) ==
    LET n == Len(c.pages)
        emptied == [Demoted(c, s).pages EXCEPT ![s.best].keys = {}, ![s.best].hot = TRUE]
    IN  [c EXCEPT !.hand = s.hand % n,
                  !.pages = [emptied EXCEPT ![s.best] = emptied[n], ![n] = emptied[s.best]]]

(* ensure_capacity and, when it fails, recycle_page: a cache with room at its  *)
(* back, or one whose back is full when the insertion is refused.             *)
MadeRoom(c) ==
    IF BelowLimit(c) /\ (BackHasRoom(c) \/ CanGrow(c)) THEN [ok |-> TRUE, cache |-> Grown(c)]
    ELSE LET full == [c EXCEPT !.saturated = TRUE]
             s == Swept(full)
         IN  IF c.mode # "clock" THEN [ok |-> FALSE, cache |-> full]
             ELSE IF s.best = 0 THEN [ok |-> FALSE, cache |-> Demoted(full, s)]
             ELSE [ok |-> TRUE, cache |-> Recycled(full, s)]

Inserted(c, key) ==
    [c EXCEPT !.pages[Len(c.pages)] = [@ EXCEPT !.keys = @ \cup {key}, !.hot = TRUE]]

RecordedAt(c, key) ==
    IF key \in Keys(c) THEN Touched(c, key)
    ELSE IF c.saturated /\ c.mode = "freeze" THEN c
    ELSE IF MadeRoom(c).ok THEN Inserted(MadeRoom(c).cache, key)
    ELSE MadeRoom(c).cache

Strengthened(c, key, k) ==
    IF key \in DOMAIN c.failed THEN [c EXCEPT !.failed[key] = Max({@, k})]
    ELSE IF BelowLimit(c)
         THEN [c EXCEPT !.failed = [x \in DOMAIN @ \cup {key} |-> IF x = key THEN k ELSE @[x]]]
    ELSE [c EXCEPT !.saturated = TRUE]

Recorded(c, key, k) == IF c.mode = "cross" THEN Strengthened(c, key, k) ELSE RecordedAt(c, key)
=============================================================================
