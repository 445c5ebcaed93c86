--------------------------- MODULE MCAdapterParts ---------------------------
(* What the ONNX Runtime adapter must keep true under faults and races: the   *)
(* bucket pools of one model, racing loads of two models, and the governed    *)
(* allocator. The three share no state, so each behaviour moves one of them   *)
(* (part) and leaves the others where they start: interleaving them would     *)
(* reach nothing new.                                                         *)
EXTENDS Naturals, FiniteSets, TLC

CONSTANTS
  Calls, Loaders, FirstBucket, EvictBuckets, RaceBucket,  \* BucketSessions
  EvictLimits, RaceLimits, PoolSize, MaxModels,
  Backends, Clients, Threads, Pointers                    \* GovernedAllocator

VARIABLES
  part,
  limit, loaded, models, loader, built, own, raced, call, size,
  registered, boxed, clients, live, instance, closing, thread, context, saved,
  held, charged, refused

Sessions == INSTANCE BucketSessions WITH
  Buckets <- {FirstBucket, RaceBucket} \union EvictBuckets,
  Limits <- EvictLimits \union RaceLimits
Allocator == INSTANCE GovernedAllocator

ASSUME PartsAssumption == Sessions!BucketAssumption /\ Allocator!AllocatorAssumption

sessionVars == <<limit, loaded, models, loader, built, own, raced, call, size>>
allocatorVars ==
  <<registered, boxed, clients, live, instance, closing, thread, context, saved,
    held, charged, refused>>
allVars == <<part, sessionVars, allocatorVars>>

Init ==
  /\ part \in {"evict", "race", "allocator"}
  /\ Sessions!Init /\ Allocator!Init
  /\ limit \in IF part = "evict" THEN EvictLimits ELSE RaceLimits

\* The buckets are interchangeable: the one a model's first call asks for is
\* FirstBucket, and the others, the calls and the loading threads are symmetric.
Canonical(f) == \A m \in DOMAIN f : f[m].primary_bucket_key \in {"none", FirstBucket}
Symmetry == Permutations(EvictBuckets) \union Permutations(Calls) \union Permutations(Loaders)

\* The calls of one model, loaded by one thread at a time, over many buckets, each with one
\* session.
EvictBound ==
  /\ loaded' <= 1
  /\ \A l, k \in Loaders : loader'[l] # "idle" /\ loader'[k] # "idle" => l = k
  /\ \A c \in Calls : call'[c].bucket # RaceBucket
  /\ \A p \in Sessions!Pools : p # Sessions!primary_pool(1) => size'[p] <= 1

\* Racing loads of two models, with two buckets, the second only while at most one
\* thread loads, and both calls on it only while none does.
RaceBound ==
  /\ \A c \in Calls : call'[c].bucket \notin EvictBuckets
  /\ Cardinality({l \in Loaders : loader'[l] # "idle"})
       + Cardinality({c \in Calls : call'[c].bucket = RaceBucket}) <= 2

Next ==
  \/ part = "evict" /\ Sessions!Next /\ Canonical(models') /\ EvictBound
       /\ UNCHANGED <<part, allocatorVars>>
  \/ part = "race" /\ Sessions!Next /\ Canonical(models') /\ RaceBound
       /\ UNCHANGED <<part, allocatorVars>>
  \/ part = "allocator" /\ Allocator!Next
       /\ UNCHANGED <<part, sessionVars>>

Spec == Init /\ [][Next]_allVars

-----------------------------------------------------------------------------
(* The components' properties, each in the behaviours that move its component. *)

\* Map, queue and slot are consistent and the sessions alive bounded (load,
\* pool_for_request).
PoolsAccounted == part # "allocator" => Sessions!PoolsAccounted

\* No load replaces a model, no eviction a bucket asked for since (load,
\* touch_bucket_lru).
ReplacesInOrder ==
  [][Sessions!EvictsLeastRecent /\ Sessions!NeverReplaced]_allVars

\* Memory is charged to the client that asked for it until it is given back.
MemoryAccounted == part = "allocator" => Allocator!MemoryAccounted
=============================================================================
