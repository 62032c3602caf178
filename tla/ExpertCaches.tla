---------------------------- MODULE ExpertCaches ----------------------------
(***************************************************************************)
(* ExpertCache (src/expert_cache.cpp) with the eviction policies of        *)
(* cache_policy.h, as functions of the requests: a request is the record   *)
(* [id, layer, bytes, step].  The trace simulator runs one trace through a *)
(* cache of every policy, the scheduler one route step at a time.          *)
(***************************************************************************)
EXTENDS Integers, FiniteSets, SequencesExt

CONSTANTS
    RecencyWindow,  \* PolicyTuning::recency_window, 256
    Lattice,    \* distance of the doubles just below 2^64, 2048
    Never       \* numeric_limits<uint64_t>::max(), above every step

ASSUME CachesAssumption ==
    RecencyWindow \in Nat \ {0} /\ Lattice \in Nat \ {0} /\ Never \in Nat

Policies == {"lru", "lfu", "recency_frequency", "oracle"}

(* entries maps a resident expert to what ExpertEntry keeps of it; layers is
   layer_resident_counts_, "most" global_max_access_count_.                *)
Empty == [entries |-> <<>>, used |-> 0, layers |-> <<>>, most |-> 0,
          hits |-> 0, misses |-> 0, evicted |-> <<>>]

Resident(c) == DOMAIN c.entries
CountOf(c, layer) == IF layer \in DOMAIN c.layers THEN c.layers[layer] ELSE 0
Busiest(c) == Max({1} \cup {c.layers[l] : l \in DOMAIN c.layers})

\* mutant: an expert without a later use counts as used at once
NeverIsSoon(reqs, id, step) ==
    LET later == {reqs[i].step : i \in {n \in DOMAIN reqs : reqs[n].id = id /\ reqs[n].step > step}}
    IN  IF later = {} THEN step ELSE Min(later)

(* FutureTraceOracle::next_use_after: upper_bound, so strictly later. *)
NextUse(reqs, id, step) ==
    LET later == {reqs[i].step : i \in {n \in DOMAIN reqs : reqs[n].id = id /\ reqs[n].step > step}}
    IN  IF later = {} THEN Never ELSE Min(later)

Age(e, step) == IF step >= e.touch THEN step - e.touch ELSE 0

(* Scores are doubles in the code.  The weights 0.70, 0.30 and 0.10 are
   brought to one denominator; UINT64_MAX - count is rounded to a double, and
   doubles of that size are Lattice apart.                                 *)
Score(c, id, policy, step, future) ==
    LET e == c.entries[id]
        most == Max({1, c.most})
        recent == IF Age(e, step) > RecencyWindow THEN RecencyWindow ELSE Age(e, step)
    IN  CASE policy = "lru" -> Age(e, step)
          [] policy = "lfu" -> -((e.count + Lattice \div 2) \div Lattice)
          [] policy = "oracle" -> NextUse(future, id, step)
          [] OTHER -> 70 * recent * most * Busiest(c)
                      - 30 * e.count * RecencyWindow * Busiest(c)
                      + 10 * e.epoch * RecencyWindow * most

(* The first entry of the highest score, in the order in which the hash
   table iterates.                                                         *)
Victim(c, order, policy, step, future) ==
    LET score(id) == Score(c, id, policy, step, future)
        worst == {id \in Resident(c) : \A o \in Resident(c) : score(id) >= score(o)}
    IN  order[Min({i \in DOMAIN order : order[i] \in worst})]

Evict(c, id) ==
    [c EXCEPT !.entries = [o \in Resident(c) \ {id} |-> c.entries[o]],
              !.used = @ - c.entries[id].bytes,
              !.layers[c.entries[id].layer] = IF @ > 0 THEN @ - 1 ELSE @,
              !.evicted = Append(@, id)]

EnsureSpace(c, order, policy, cap, r, future) ==
    LET after[k \in 0..Cardinality(Resident(c))] ==
            IF k = 0 THEN c
            ELSE LET prev == after[k - 1]
                 IN  Evict(prev, Victim(prev, order, policy, r.step, future))
        enough == {k \in DOMAIN after : after[k].used + r.bytes <= cap}
    IN  after[Min(enough)]

\* mutant: a hit does not refresh the entry
HitKeepsAge(c, r) ==
    LET count == c.entries[r.id].count + 1
    IN  [c EXCEPT !.entries[r.id].count = count, !.most = Max({@, count}), !.hits = @ + 1]

Hit(c, r) ==
    LET count == c.entries[r.id].count + 1
    IN  [c EXCEPT !.entries[r.id] = [@ EXCEPT !.touch = r.step, !.count = count],
                  !.most = Max({@, count}),
                  !.hits = @ + 1]

\* A map with the value of one key put in or replaced.
With(map, key, value) == [x \in DOMAIN map \cup {key} |-> IF x = key THEN value ELSE map[x]]

Insert(c, r) ==
    LET layers == With(c.layers, r.layer, CountOf(c, r.layer) + 1)
        entry == [bytes |-> r.bytes, layer |-> r.layer, touch |-> r.step,
                  count |-> 1, epoch |-> layers[r.layer]]
    IN  [c EXCEPT !.entries = With(@, r.id, entry),
                  !.layers = layers,
                  !.used = @ + r.bytes]

\* mutant: an expert above the capacity is let in
InsertsOversize(c, order, policy, cap, r, future) ==
    IF r.id \in Resident(c) THEN Hit(c, r)
    ELSE LET missed == [c EXCEPT !.misses = @ + 1]
         IN  IF r.bytes > cap THEN Insert(missed, r)
             ELSE Insert(EnsureSpace(missed, order, policy, cap, r, future), r)

(* touch_or_insert; "future" is what the oracle knows. *)
TouchOrInsert(c, order, policy, cap, r, future) ==
    IF r.id \in Resident(c) THEN Hit(c, r)
    ELSE LET missed == [c EXCEPT !.misses = @ + 1]
         IN  IF r.bytes > cap THEN missed
             ELSE Insert(EnsureSpace(missed, order, policy, cap, r, future), r)

(* run_policy of trace_sim.cpp: every request is a step of its own. *)
Simulate(order, policy, cap, reqs) ==
    LET after[k \in 0..Len(reqs)] ==
            IF k = 0 THEN Empty ELSE TouchOrInsert(after[k - 1], order, policy, cap, reqs[k], reqs)
    IN  after[Len(reqs)]

\* mutant: the number of the route step is not handed on
ProcessAtZero(c, order, policy, cap, step, route, bytesOf) ==
    LET known == SelectSeq(route.experts, LAMBDA x : x \in DOMAIN bytesOf)
        request(x) == [id |-> x, layer |-> route.layer, bytes |-> bytesOf[x], step |-> 0]
    IN  FoldLeft(LAMBDA d, x : TouchOrInsert(d, order, policy, cap, request(x), <<>>), c, known)

(* OnlineDecodeScheduler::process: the experts of a route step share its
   number; an expert that the manifest lacks is skipped.                   *)
ProcessRoute(c, order, policy, cap, step, route, bytesOf) ==
    LET known == SelectSeq(route.experts, LAMBDA x : x \in DOMAIN bytesOf)
        request(x) == [id |-> x, layer |-> route.layer, bytes |-> bytesOf[x], step |-> step]
    IN  FoldLeft(LAMBDA d, x : TouchOrInsert(d, order, policy, cap, request(x), <<>>), c, known)
=============================================================================
