----------------------------- MODULE KernelCache -----------------------------
(***************************************************************************)
(* runtime::KernelCache: compiled modules indexed by shape signature.  A   *)
(* signature is a sequence of input shapes, a shape a sequence of          *)
(* dimensions.  Every method runs under the cache's own mutex and is one   *)
(* step, but GetExact and GetFuzzy hand out a POINTER to the slot, which   *)
(* the caller dereferences after the mutex is released: a slot is named by *)
(* its signature.                                                          *)
(***************************************************************************)
EXTENDS Integers, Sequences, FiniteSetsExt

VARIABLE cache          \* cache_: a function from the cached signatures

\* The (input, dimension) pairs of a signature.
Positions(sig) ==
    UNION {{<<i, d>> : d \in 1..Len(sig[i])} : i \in 1..Len(sig)}

SameRank(query, cached) ==
    /\ Len(query) = Len(cached)
    /\ \A i \in 1..Len(query) : Len(query[i]) = Len(cached[i])

\* A kernel for signature `big` can serve an input of signature `small`.
Covers(big, small) ==
    /\ SameRank(small, big)
    /\ \A p \in Positions(small) : small[p[1]][p[2]] <= big[p[1]][p[2]]

\* By how much the dimensions of `big` exceed those of `small`, in total.
TotalExcess(big, small) ==
    MapThenSumSet(LAMBDA p : big[p[1]][p[2]] - small[p[1]][p[2]], Positions(small))

\* Mutant of ShapeDistance: the comparison of the dimensions is turned round.
ShapeDistanceFlipped(query, cached) ==
    IF /\ SameRank(query, cached)
       /\ \A p \in Positions(query) : cached[p[1]][p[2]] <= query[p[1]][p[2]]
    THEN TotalExcess(query, cached)
    ELSE -1

\* -1 when the cached kernel cannot serve the query: another number of inputs
\* or of dimensions, or a dimension smaller than the query's.
ShapeDistance(query, cached) ==
    IF /\ SameRank(query, cached)
       /\ \A p \in Positions(query) : cached[p[1]][p[2]] >= query[p[1]][p[2]]
    THEN TotalExcess(cached, query)
    ELSE -1

Has(sig) == sig \in DOMAIN cache

Candidates(sig) == {c \in DOMAIN cache : ShapeDistance(sig, c) >= 0}

\* Mutant of GetFuzzy: the first compatible slot is taken, near or not.
GetFuzzyFirst(sig) == Candidates(sig)

\* The slots GetFuzzy may return: the nearest candidates; which one of equally
\* near slots depends on the iteration order of the unordered_map.
GetFuzzy(sig) ==
    {c \in Candidates(sig) :
        \A d \in Candidates(sig) : ShapeDistance(sig, c) <= ShapeDistance(sig, d)}

\* Mutant of Put: the new entry replaces the whole map.
PutEvicts(sig, module) == cache' = [s \in {sig} |-> module]

\* cache_[sig] = std::move(module): inserts, or assigns over the old module.
Put(sig, module) ==
    cache' = [s \in DOMAIN cache \cup {sig} |->
                 IF s = sig THEN module ELSE cache[s]]
=============================================================================
