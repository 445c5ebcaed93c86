------------------------- MODULE AdapterPartsProofs -------------------------
(***************************************************************************)
(* Proofs about the parts of the ONNX Runtime adapter that MCAdapterParts  *)
(* checks, for every number of calls, loaders, buckets and models, every   *)
(* max_bucket_sessions, and every set of instances, keys and addresses.    *)
(*                                                                         *)
(* SessionInv: each model's queue holds the keys of its map in the order   *)
(*   in which they were last asked for, within the capacity; whoever       *)
(*   published a model that the preprocessor refuses is about to notice.   *)
(* PoolsInv adds the sizes: pools in use have sessions, no fewer than run, *)
(*   and a call's pool is one of the model it looked up.                   *)
(* AllocatorInv: a key belongs to one instance; the scopes of a thread are *)
(*   those of what it does, so that what it allocates is charged to the    *)
(*   instance it works for and an instance with memory keeps its key.      *)
(***************************************************************************)
EXTENDS MCAdapterParts, SequenceTheorems, FiniteSetTheorems, TLAPS

-----------------------------------------------------------------------------
(* The bucket map and its queue.                                           *)

Buckets == {FirstBucket, RaceBucket} \union EvictBuckets

LEMMA BucketConstants ==
  /\ Sessions!None \notin Buckets /\ EvictLimits \union RaceLimits \subseteq Nat
  /\ PoolSize \in Nat \ {0} /\ MaxModels \in Nat /\ IsFiniteSet(Calls)
  /\ IsFiniteSet(Loaders)
<1>1. /\ Sessions!IsFiniteSet(Calls) => IsFiniteSet(Calls)
      /\ Sessions!IsFiniteSet(Loaders) => IsFiniteSet(Loaders)
  BY DEF Sessions!IsFiniteSet, IsFiniteSet
<1> QED
  BY <1>1, PartsAssumption DEF PartsAssumption, Sessions!BucketAssumption, Buckets

Has(q, b) == \E i \in 1 .. Len(q) : q[i] = b

\* Every key stands once, before those asked for since.
Ordered(q, since) ==
  \A i, j \in 1 .. Len(q) : i < j => q[i] # q[j] /\ q[j] \in since[q[i]]

LEMMA RemoveFirstOf ==
  ASSUME NEW S, NEW q \in Seq(S), NEW k \in 1 .. Len(q),
         \A i \in 1 .. Len(q) : q[i] = q[k] => i = k
  PROVE  LET t == Sessions!RemoveFirst(q, q[k])
         IN  /\ t \in Seq(S) /\ Len(t) = Len(q) - 1
             /\ \A i \in 1 .. Len(t) : t[i] = IF i < k THEN q[i] ELSE q[i + 1]
<1> DEFINE b == q[k]
           I == {i \in 1 .. Len(q) : q[i] = b}
<1>1. I = {k}
  OBVIOUS
<1>2. Sessions!Min(I) = k
  BY <1>1 DEF Sessions!Min
<1>3. Sessions!SelectInSeq(q, LAMBDA v : v = b) = k
  BY <1>1, <1>2 DEF Sessions!SelectInSeq
<1>4. Sessions!RemoveFirst(q, b) = SubSeq(q, 1, k - 1) \o SubSeq(q, k + 1, Len(q))
  BY <1>3 DEF Sessions!RemoveFirst, Sessions!RemoveAt
<1> DEFINE t == Sessions!RemoveFirst(q, b)
           u == SubSeq(q, 1, k - 1)
           v == SubSeq(q, k + 1, Len(q))
<1>5. u \in Seq(S) /\ Len(u) = k - 1 /\ \A i \in 1 .. k - 1 : u[i] = q[i]
  OBVIOUS
<1>6. v \in Seq(S) /\ Len(v) = Len(q) - k /\ \A i \in 1 .. Len(q) - k : v[i] = q[i + k]
  OBVIOUS
<1> HIDE DEF u, v
<1>7. /\ u \o v \in Seq(S) /\ Len(u \o v) = Len(q) - 1
      /\ \A i \in 1 .. Len(q) - 1 :
           (u \o v)[i] = IF i < k THEN u[i] ELSE v[i - (k - 1)]
  <2>1. /\ u \o v \in Seq(S) /\ Len(u \o v) = Len(u) + Len(v)
        /\ \A i \in 1 .. Len(u) + Len(v) :
             (u \o v)[i] = IF i <= Len(u) THEN u[i] ELSE v[i - Len(u)]
    BY <1>5, <1>6, ConcatProperties
  <2> QED
    BY <1>5, <1>6, <2>1
<1>8. \A i \in 1 .. Len(q) - 1 : i >= k => v[i - (k - 1)] = q[i + 1]
  <2> SUFFICES ASSUME NEW i \in 1 .. Len(q) - 1, i >= k PROVE v[i - (k - 1)] = q[i + 1]
    OBVIOUS
  <2>1. i - (k - 1) \in 1 .. Len(q) - k /\ (i - (k - 1)) + k = i + 1
    OBVIOUS
  <2> QED
    BY <1>6, <2>1
<1>9. t = u \o v
  BY <1>4 DEF u, v
<1> HIDE DEF t
<1>10. /\ t \in Seq(S) /\ Len(t) = Len(q) - 1
       /\ \A i \in 1 .. Len(t) : t[i] = IF i < k THEN q[i] ELSE q[i + 1]
  <2>1. t \in Seq(S) /\ Len(t) = Len(q) - 1
    BY <1>7, <1>9
  <2>2. ASSUME NEW i \in 1 .. Len(q) - 1
        PROVE  t[i] = IF i < k THEN q[i] ELSE q[i + 1]
    <3>1. i < k => i \in 1 .. k - 1
      OBVIOUS
    <3> QED
      BY <1>5, <1>7, <1>8, <1>9, <3>1
  <2> QED
    BY <2>1, <2>2
<1> QED
  BY <1>10 DEF t

\* Asking for a bucket moves its key to the back of the queue.
LEMMA Touched ==
  ASSUME NEW S, NEW q \in Seq(S), NEW since \in [S -> SUBSET S], Ordered(q, since),
         NEW b \in S
  PROVE  LET u == Sessions!touch_bucket_lru(q, b)
             asked == [x \in S |-> IF x = b THEN {} ELSE since[x] \union {b}]
         IN  /\ u \in Seq(S) /\ Ordered(u, asked) /\ Len(u) \in 1 .. Len(q) + 1
             /\ Has(q, b) => Len(u) = Len(q)
             /\ \A x : Has(u, x) <=> (x = b \/ Has(q, x))
<1> DEFINE t == Sessions!RemoveFirst(q, b)
           u == Append(t, b)
           asked == [x \in S |-> IF x = b THEN {} ELSE since[x] \union {b}]
<1>1. /\ t \in Seq(S) /\ Len(t) \in Nat
      /\ IF Has(q, b) THEN Len(t) = Len(q) - 1 ELSE Len(t) = Len(q)
      /\ \A i \in 1 .. Len(t) : t[i] # b
      /\ \A i, j \in 1 .. Len(t) : i < j => t[i] # t[j] /\ t[j] \in since[t[i]]
      /\ \A x : Has(t, x) <=> Has(q, x) /\ x # b
  <2>1. CASE ~Has(q, b)
    <3>1. t = q
      BY <2>1 DEF Has, Sessions!RemoveFirst
    <3> QED
      BY <2>1, <3>1 DEF Has, Ordered
  <2>2. CASE Has(q, b)
    <3>1. PICK k \in 1 .. Len(q) : q[k] = b
      BY <2>2 DEF Has
    <3>2. \A i \in 1 .. Len(q) : q[i] = q[k] => i = k
      BY DEF Ordered
    <3>3. /\ t \in Seq(S) /\ Len(t) = Len(q) - 1
          /\ \A i \in 1 .. Len(t) : t[i] = IF i < k THEN q[i] ELSE q[i + 1]
      BY <3>1, <3>2, RemoveFirstOf
    <3> HIDE DEF t
    <3> DEFINE old(i) == IF i < k THEN i ELSE i + 1
    <3>4. \A i \in 1 .. Len(t) : old(i) \in 1 .. Len(q) /\ old(i) # k /\ t[i] = q[old(i)]
      BY <3>3
    <3>5. \A i, j \in 1 .. Len(t) : i < j => old(i) < old(j)
      OBVIOUS
    <3>6. \A i \in 1 .. Len(q) : i # k => \E j \in 1 .. Len(t) : t[j] = q[i]
      <4> SUFFICES ASSUME NEW i \in 1 .. Len(q), i # k PROVE \E j \in 1 .. Len(t) : t[j] = q[i]
        OBVIOUS
      <4>1. CASE i < k
        BY <3>3, <4>1
      <4>2. CASE i > k
        <5>1. i - 1 \in 1 .. Len(t) /\ t[i - 1] = q[i]
          BY <3>3, <4>2
        <5> QED
          BY <5>1
      <4> QED
        BY <4>1, <4>2
    <3> HIDE DEF old
    <3>7. \A i \in 1 .. Len(t) : t[i] # b
      BY <3>1, <3>2, <3>4
    <3>8. \A i, j \in 1 .. Len(t) : i < j => t[i] # t[j] /\ t[j] \in since[t[i]]
      BY <3>4, <3>5 DEF Ordered
    <3>9. \A x : Has(t, x) <=> Has(q, x) /\ x # b
      BY <3>1, <3>4, <3>6, <3>7 DEF Has
    <3> QED
      BY <2>2, <3>3, <3>7, <3>8, <3>9
  <2> QED
    BY <2>1, <2>2
<1> HIDE DEF t
<1>2. /\ u \in Seq(S) /\ Len(u) = Len(t) + 1 /\ u[Len(u)] = b
      /\ \A i \in 1 .. Len(t) : u[i] = t[i]
  BY <1>1
<1> HIDE DEF u
<1>3. ASSUME NEW i \in 1 .. Len(u), NEW j \in 1 .. Len(u), i < j
      PROVE  u[i] # u[j] /\ u[j] \in asked[u[i]]
  <2>1. i \in 1 .. Len(t) /\ u[i] = t[i] /\ t[i] \in S /\ t[i] # b
    BY <1>1, <1>2, <1>3
  <2>2. asked[u[i]] = since[t[i]] \union {b}
    BY <2>1
  <2>3. CASE j = Len(u)
    BY <1>2, <2>1, <2>2, <2>3
  <2>4. CASE j # Len(u)
    <3>1. j \in 1 .. Len(t) /\ u[j] = t[j]
      BY <1>1, <1>2, <2>4
    <3> QED
      BY <1>1, <1>3, <2>1, <2>2, <3>1
  <2> QED
    BY <2>3, <2>4
<1>4. \A x : Has(u, x) <=> (x = b \/ Has(q, x))
  <2>1. \A x : Has(u, x) <=> (x = b \/ Has(t, x))
    <3>1. \A i \in 1 .. Len(u) : i = Len(u) \/ i \in 1 .. Len(t)
      BY <1>1, <1>2
    <3>2. Len(u) \in 1 .. Len(u) /\ \A i \in 1 .. Len(t) : i \in 1 .. Len(u)
      BY <1>1, <1>2
    <3> QED
      BY <1>2, <3>1, <3>2 DEF Has
  <2> QED
    BY <1>1, <2>1
<1>5. u = Sessions!touch_bucket_lru(q, b)
  BY DEF u, t, Sessions!touch_bucket_lru
<1>6. Ordered(u, asked)
  BY <1>3 DEF Ordered
<1>7. Len(u) \in 1 .. Len(q) + 1 /\ (Has(q, b) => Len(u) = Len(q))
  BY <1>1, <1>2
<1> HIDE DEF asked
<1>8. /\ u \in Seq(S) /\ Ordered(u, asked) /\ Len(u) \in 1 .. Len(q) + 1
      /\ Has(q, b) => Len(u) = Len(q)
      /\ \A x : Has(u, x) <=> (x = b \/ Has(q, x))
  BY <1>2, <1>4, <1>6, <1>7
<1> QED
  BY <1>5, <1>8 DEF asked

ModelFields == {"valid", "primary_bucket_key", "sessions", "lru", "since"}

\* A model's queue holds the keys of its map, within the capacity; the map is empty
\* until the primary pool has a key, and its pools are the model's own.
QueueOK(m, r, cap) ==
  /\ DOMAIN r = ModelFields /\ r.valid \in BOOLEAN
  /\ r.primary_bucket_key \in Buckets \union {Sessions!None}
  /\ r.lru \in Seq(Buckets) /\ r.since \in [Buckets -> SUBSET Buckets]
  /\ Ordered(r.lru, r.since) /\ Len(r.lru) <= cap
  /\ \A b : b \in DOMAIN r.sessions <=> Has(r.lru, b)
  /\ ~Has(r.lru, r.primary_bucket_key)
  /\ r.primary_bucket_key = Sessions!None => r.lru = <<>>
  /\ \A b \in DOMAIN r.sessions :
       r.sessions[b] \in Sessions!Pools /\ r.sessions[b][1] = m /\ r.sessions[b][2] = b

Queues == DOMAIN models = Sessions!Models
          /\ \A m \in Sessions!Models : QueueOK(m, models[m], Sessions!secondary_capacity)

CallRecords ==
  [at : {"idle", "pool", "acquire", "run"}, model : 0 .. MaxModels,
   bucket : Buckets \union {Sessions!None}, pool : Sessions!Pools \union {Sessions!NoPool}]

CallsBound ==
  /\ call \in [Calls -> CallRecords]
  /\ \A c \in Calls : call[c].at # "idle" => call[c].model # 0 /\ call[c].bucket \in Buckets

\* Whoever published a model that the preprocessor refuses is about to notice.
SlotWatched ==
  /\ loaded \in 0 .. MaxModels
  /\ loader \in [Loaders -> {"idle", "build", "publish", "validate", "undo"}]
  /\ loaded # 0 /\ models[loaded].valid = FALSE =>
       \E l \in Loaders : loader[l] \in {"validate", "undo"}

SessionInv ==
  limit \in EvictLimits \union RaceLimits /\ Queues /\ CallsBound /\ SlotWatched

LEMMA Capacity == ASSUME limit \in Nat PROVE Sessions!secondary_capacity \in Nat \ {0}
<1> DEFINE S == {limit - 1, 1}
<1>1. \E x \in S : \A y \in S : x >= y
  OBVIOUS
<1>2. Sessions!Max(S) \in S /\ Sessions!Max(S) >= 1
  BY <1>1 DEF Sessions!Max
<1> QED
  BY <1>2 DEF Sessions!secondary_capacity

LEMMA FreshQueue ==
  ASSUME NEW m, NEW cap \in Nat, NEW ok \in BOOLEAN
  PROVE  QueueOK(m, Sessions!LoadedModel(ok), cap) /\ Sessions!LoadedModel(ok).valid = ok
<1> DEFINE r == Sessions!LoadedModel(ok)
<1>1. /\ DOMAIN r = ModelFields /\ r.valid = ok /\ r.primary_bucket_key = Sessions!None
      /\ r.lru = <<>> /\ r.sessions = <<>>
      /\ r.since = [b \in Buckets |-> {}]
  BY DEF Sessions!LoadedModel, ModelFields, Buckets
<1> HIDE DEF r
<1>2. r.lru \in Seq(Buckets) /\ Len(r.lru) = 0 /\ DOMAIN r.sessions = {}
  BY <1>1
<1>3. r.since \in [Buckets -> SUBSET Buckets]
  BY <1>1
<1>4. \A b : ~Has(r.lru, b)
  BY <1>2 DEF Has
<1>5. Ordered(r.lru, r.since)
  BY <1>2 DEF Ordered
<1>6. QueueOK(m, r, cap) /\ r.valid = ok
  BY <1>1, <1>2, <1>3, <1>4, <1>5 DEF QueueOK
<1> QED
  BY <1>6 DEF r

LEMMA SessionInit == Sessions!Init => SessionInv
<1> SUFFICES ASSUME Sessions!Init PROVE SessionInv
  OBVIOUS
<1>1. limit \in Nat /\ Sessions!secondary_capacity \in Nat
  BY BucketConstants, Capacity DEF Sessions!Init
<1>2. Queues
  BY <1>1, FreshQueue DEF Sessions!Init, Queues, Sessions!NoModel
<1>3. CallsBound
  <2>1. Sessions!NoCall \in CallRecords /\ Sessions!NoCall.at = "idle"
    BY BucketConstants DEF Sessions!NoCall, CallRecords
  <2> QED
    BY <2>1 DEF Sessions!Init, CallsBound
<1>4. SlotWatched
  BY BucketConstants DEF Sessions!Init, SlotWatched
<1> QED
  BY <1>2, <1>3, <1>4 DEF SessionInv, Sessions!Init

\* The map has as many pools as the queue has keys.
LEMMA QueueCardinality ==
  ASSUME NEW m, NEW r, NEW cap, QueueOK(m, r, cap)
  PROVE  /\ IsFiniteSet(DOMAIN r.sessions) /\ Cardinality(DOMAIN r.sessions) = Len(r.lru)
         /\ Sessions!Cardinality(DOMAIN r.sessions) = Len(r.lru)
<1> DEFINE q == r.lru
<1>1. q \in Seq(Buckets) /\ Len(q) \in Nat /\ DOMAIN q = 1 .. Len(q)
  BY DEF QueueOK
<1>2. q \in [1 .. Len(q) -> DOMAIN r.sessions]
  <2>1. \A i \in 1 .. Len(q) : q[i] \in DOMAIN r.sessions
    BY DEF QueueOK, Has
  <2>2. q = [i \in 1 .. Len(q) |-> q[i]]
    BY <1>1
  <2> QED
    BY <2>1, <2>2
<1>3. \A i, j \in 1 .. Len(q) : q[i] = q[j] => i = j
  BY <1>1 DEF QueueOK, Ordered
<1>4. \A b \in DOMAIN r.sessions : \E i \in 1 .. Len(q) : q[i] = b
  BY DEF QueueOK, Has
<1> HIDE DEF q
<1>5. q \in Bijection(1 .. Len(q), DOMAIN r.sessions)
  BY <1>2, <1>3, <1>4 DEF Bijection, Injection, Surjection, IsInjective
<1>6. IsFiniteSet(1 .. Len(q)) /\ Cardinality(1 .. Len(q)) = Len(q)
  BY <1>1, FS_Interval
<1>7. ExistsBijection(1 .. Len(q), DOMAIN r.sessions)
  BY <1>5 DEF ExistsBijection
<1>8. IsFiniteSet(DOMAIN r.sessions) /\ Cardinality(DOMAIN r.sessions) = Len(q)
  BY <1>6, <1>7, FS_Bijection
<1>9. Sessions!Cardinality(DOMAIN r.sessions) = Cardinality(DOMAIN r.sessions)
  BY DEF Sessions!Cardinality, Cardinality
<1> QED
  BY <1>8, <1>9 DEF q

\* Room for one more pool costs at most the first key of the queue, which was asked for
\* before all the others.
LEMMA Evicted ==
  ASSUME NEW m, NEW r, NEW cap \in Nat \ {0}, cap = Sessions!secondary_capacity,
         QueueOK(m, r, cap)
  PROVE  LET room == Sessions!Evict(r.lru, r.sessions)
         IN  /\ room.lru \in Seq(Buckets) /\ Len(room.lru) < cap
             /\ Ordered(room.lru, r.since)
             /\ \A b : b \in DOMAIN room.sessions <=> Has(room.lru, b)
             /\ \A b \in DOMAIN room.sessions :
                  b \in DOMAIN r.sessions /\ room.sessions[b] = r.sessions[b]
             /\ \A b \in DOMAIN r.sessions \ DOMAIN room.sessions :
                  DOMAIN r.sessions \ {b} \subseteq r.since[b]
<1> DEFINE q == r.lru
           s == r.sessions
           n == IF Sessions!Cardinality(DOMAIN s) < Sessions!secondary_capacity THEN 0
                ELSE Sessions!Cardinality(DOMAIN s) - Sessions!secondary_capacity + 1
           u == SubSeq(q, n + 1, Len(q))
           kept == DOMAIN s \ Sessions!Range(SubSeq(q, 1, n))
           t == [b \in kept |-> s[b]]
<1>1. Sessions!Cardinality(DOMAIN s) = Len(q)
  BY QueueCardinality
<1>2. /\ q \in Seq(Buckets) /\ Len(q) \in Nat /\ Len(q) <= cap /\ Ordered(q, r.since)
      /\ \A b : b \in DOMAIN s <=> Has(q, b)
  BY DEF QueueOK
<1>3. n \in {0, 1} /\ (n = 0 => Len(q) < cap) /\ (n = 1 => Len(q) = cap)
  BY <1>1, <1>2
<1> HIDE DEF n
<1>4. u \in Seq(Buckets) /\ Len(u) = Len(q) - n /\ \A i \in 1 .. Len(u) : u[i] = q[i + n]
  <2>1. n <= Len(q)
    BY <1>2, <1>3
  <2>2. CASE n = 0
    BY <1>2, <2>2
  <2>3. CASE n = 1
    BY <1>2, <2>1, <2>3
  <2> QED
    BY <1>3, <2>2, <2>3
<1>5. Sessions!Range(SubSeq(q, 1, n)) = {q[i] : i \in 1 .. n}
  <2>1. CASE n = 0
    BY <1>2, <2>1 DEF Sessions!Range
  <2>2. CASE n = 1
    BY <1>2, <1>3, <2>2 DEF Sessions!Range
  <2> QED
    BY <1>3, <2>1, <2>2
<1>6. \A b : b \in DOMAIN s => b \in kept \/ (n = 1 /\ b = q[1])
  BY <1>3, <1>5
<1>7. \A b : b \in kept <=> b \in DOMAIN s /\ ~(n = 1 /\ b = q[1])
  BY <1>3, <1>5
<1> HIDE DEF kept
<1>8. DOMAIN t = kept /\ \A b \in kept : t[b] = s[b]
  OBVIOUS
<1>9. \A b : Has(u, b) <=> b \in kept
  <2>1. ASSUME NEW b, Has(u, b) PROVE b \in kept
    <3>1. PICK i \in 1 .. Len(u) : u[i] = b
      BY <2>1 DEF Has
    <3>2. i + n \in 1 .. Len(q) /\ q[i + n] = b
      BY <1>2, <1>3, <1>4, <3>1
    <3>3. n = 1 => q[1] # b
      <4>1. n = 1 => 1 \in 1 .. Len(q) /\ 1 < i + n
        BY <1>2, <1>3, <3>2
      <4> QED
        BY <1>2, <3>2, <4>1 DEF Ordered
    <3> QED
      BY <1>2, <1>7, <3>2, <3>3 DEF Has
  <2>2. ASSUME NEW b \in kept PROVE Has(u, b)
    <3>1. PICK i \in 1 .. Len(q) : q[i] = b
      BY <1>2, <1>7 DEF Has
    <3>2. n = 1 => i # 1
      BY <1>7, <3>1
    <3>3. i - n \in 1 .. Len(u) /\ (i - n) + n = i
      BY <1>2, <1>3, <1>4, <3>2
    <3> QED
      BY <1>4, <3>1, <3>3 DEF Has
  <2> QED
    BY <2>1, <2>2
<1>10. Ordered(u, r.since)
  <2> SUFFICES ASSUME NEW i \in 1 .. Len(u), NEW j \in 1 .. Len(u), i < j
               PROVE  u[i] # u[j] /\ u[j] \in r.since[u[i]]
    BY DEF Ordered
  <2>1. i + n \in 1 .. Len(q) /\ j + n \in 1 .. Len(q) /\ i + n < j + n
    BY <1>2, <1>3, <1>4
  <2> QED
    BY <1>2, <1>4, <2>1 DEF Ordered
<1>11. ASSUME NEW b \in DOMAIN s \ kept
       PROVE  DOMAIN s \ {b} \subseteq r.since[b]
  <2>1. n = 1 /\ b = q[1] /\ 1 \in 1 .. Len(q)
    BY <1>2, <1>3, <1>7
  <2> SUFFICES ASSUME NEW x \in DOMAIN s, x # b PROVE x \in r.since[b]
    OBVIOUS
  <2>2. PICK j \in 1 .. Len(q) : q[j] = x
    BY <1>2 DEF Has
  <2>3. 1 < j
    BY <2>1, <2>2
  <2> QED
    BY <1>2, <2>1, <2>2, <2>3 DEF Ordered
<1>12. Sessions!Evict(q, s) = [lru |-> u, sessions |-> t]
  BY DEF Sessions!Evict, n, kept
<1>13. Len(u) < cap
  BY <1>2, <1>3, <1>4
<1> HIDE DEF u, t
<1>14. Sessions!Evict(q, s).lru = u /\ Sessions!Evict(q, s).sessions = t
  BY <1>12
<1> QED
  BY <1>4, <1>7, <1>8, <1>9, <1>10, <1>11, <1>13, <1>14

Watch == {"validate", "undo"}

LEMMA LiveIsModel ==
  ASSUME CallsBound, loaded \in 0 .. MaxModels PROVE Sessions!LiveModels \subseteq Sessions!Models
<1>1. \A c \in Calls : call[c].model \in 0 .. MaxModels
  BY DEF CallsBound, CallRecords
<1> QED
  BY <1>1, BucketConstants DEF Sessions!LiveModels, Sessions!Models

\* The preprocessor's verdict on the model in the slot does not change.
KeepsValid ==
  loaded' # 0 /\ loaded' = loaded => models'[loaded].valid = models[loaded].valid

\* What a step must do to the models, whoever drops the last reference to one.
LEMMA KeepsOrder ==
  ASSUME SessionInv, limit' = limit, NEW f, DOMAIN f = Sessions!Models,
         ASSUME NEW m \in Sessions!Models
         PROVE  /\ QueueOK(m, f[m], Sessions!secondary_capacity)
                /\ f[m].valid = models[m].valid
                /\ \A b \in DOMAIN models[m].sessions \ DOMAIN f[m].sessions :
                     DOMAIN models[m].sessions \ {b} \subseteq models[m].since[b],
         models' = f \/ models' = Sessions!DropModels(f),
         CallsBound', loaded' \in {0, loaded},
         loader' \in [Loaders -> {"idle", "build", "publish", "validate", "undo"}],
         \/ loaded' = 0 \/ models[loaded].valid = TRUE
         \/ \A l \in Loaders : loader[l] \in Watch => loader'[l] \in Watch
  PROVE  SessionInv' /\ Sessions!EvictsLeastRecent /\ Sessions!NeverReplaced /\ KeepsValid
<1>1. loaded' \in 0 .. MaxModels
  BY BucketConstants DEF SessionInv, SlotWatched
<1>2. Sessions!LiveModels' \subseteq Sessions!Models
  <2>1. \A c \in Calls : call'[c].model \in 0 .. MaxModels
    BY DEF CallsBound, CallRecords
  <2> QED
    BY <1>1, <2>1, BucketConstants DEF Sessions!LiveModels, Sessions!Models
<1>3. \A m \in Sessions!LiveModels' : models'[m] = f[m]
  BY <1>2 DEF Sessions!DropModels
<1>4. Sessions!secondary_capacity' = Sessions!secondary_capacity
      /\ Sessions!secondary_capacity \in Nat
  BY BucketConstants, Capacity DEF Sessions!secondary_capacity, SessionInv
<1>5. Queues'
  <2>1. DOMAIN models' = Sessions!Models
    BY DEF Sessions!DropModels
  <2>2. \A m \in Sessions!Models : models'[m] = f[m] \/ models'[m] = Sessions!LoadedModel(FALSE)
    BY DEF Sessions!DropModels, Sessions!NoModel
  <2> QED
    BY <1>4, <2>1, <2>2, FreshQueue DEF Queues
<1>6. loaded' # 0 => loaded' \in Sessions!LiveModels' /\ models'[loaded'].valid = models[loaded].valid
  BY <1>1, <1>2, <1>3 DEF Sessions!LiveModels
<1>7. SlotWatched'
  BY <1>1, <1>6 DEF SlotWatched, SessionInv, Watch
<1>8. Sessions!EvictsLeastRecent
  <2> SUFFICES ASSUME NEW m \in Sessions!LiveModels \intersect Sessions!LiveModels',
                      NEW b \in DOMAIN models[m].sessions \ DOMAIN models'[m].sessions
               PROVE  DOMAIN models[m].sessions \ {b} \subseteq models[m].since[b]
    BY DEF Sessions!EvictsLeastRecent
  <2> QED
    BY <1>2, <1>3
<1>9. Sessions!NeverReplaced
  BY DEF Sessions!NeverReplaced
<1>10. limit' \in EvictLimits \union RaceLimits
  BY DEF SessionInv
<1> QED
  BY <1>5, <1>6, <1>7, <1>8, <1>9, <1>10 DEF SessionInv, KeepsValid

SessionStep ==
  SessionInv' /\ Sessions!EvictsLeastRecent /\ Sessions!NeverReplaced /\ KeepsValid

LEMMA SameModels ==
  ASSUME SessionInv, NEW m \in Sessions!Models
  PROVE  /\ QueueOK(m, models[m], Sessions!secondary_capacity)
         /\ models[m].valid = models[m].valid
         /\ \A b \in DOMAIN models[m].sessions \ DOMAIN models[m].sessions :
              DOMAIN models[m].sessions \ {b} \subseteq models[m].since[b]
BY DEF SessionInv, Queues

\* Loading until the write lock, and publishing when the slot turned out to be taken.
LEMMA LoaderSteps ==
  ASSUME SessionInv, NEW l \in Loaders,
         \/ Sessions!StartLoad(l) \/ Sessions!BuildPool(l) \/ Sessions!BuildFails(l)
         \/ (Sessions!Publish(l) /\ loaded # 0) \/ Sessions!Validate(l)
  PROVE  SessionStep
<1>1. UNCHANGED <<limit, loaded, models, call>>
  BY DEF Sessions!StartLoad, Sessions!BuildPool, Sessions!BuildFails, Sessions!Publish,
         Sessions!Validate, Sessions!Return
<1>2. CallsBound'
  BY <1>1 DEF SessionInv, CallsBound
<1>3. \E v \in {"idle", "build", "publish", "validate", "undo"} : 
        /\ loader' = [loader EXCEPT ![l] = v]
        /\ models[loaded].valid = TRUE \/ v = "undo" \/ loader[l] \notin Watch
  BY DEF Sessions!StartLoad, Sessions!BuildPool, Sessions!BuildFails, Sessions!Publish,
         Sessions!Validate, Sessions!Return, Watch
<1>4. loader' \in [Loaders -> {"idle", "build", "publish", "validate", "undo"}]
  BY <1>3 DEF SessionInv, SlotWatched
<1>5. models[loaded].valid = TRUE
      \/ \A k \in Loaders : loader[k] \in Watch => loader'[k] \in Watch
  BY <1>3 DEF SessionInv, SlotWatched, Watch
<1>6. DOMAIN models = Sessions!Models
  BY DEF SessionInv, Queues
<1> QED
  BY <1>1, <1>2, <1>4, <1>5, <1>6, KeepsOrder, SameModels DEF SessionStep

\* The slot was empty: the new model is nobody's, so no live one changes.
LEMMA PublishStep ==
  ASSUME SessionInv, NEW l \in Loaders, Sessions!Publish(l), loaded = 0
  PROVE  SessionStep
<1>1. PICK m \in Sessions!Models \ Sessions!LiveModels, ok \in BOOLEAN :
        loaded' = m /\ models' = [models EXCEPT ![m] = Sessions!LoadedModel(ok)]
  BY DEF Sessions!Publish, Sessions!Least
<1>2. /\ loader' = [loader EXCEPT ![l] = "validate"] /\ UNCHANGED <<limit, call>>
  BY DEF Sessions!Publish
<1>3. Sessions!secondary_capacity' = Sessions!secondary_capacity
      /\ Sessions!secondary_capacity \in Nat
  BY <1>2, BucketConstants, Capacity DEF Sessions!secondary_capacity, SessionInv
<1>4. Queues'
  <2>1. DOMAIN models' = Sessions!Models
    BY <1>1 DEF SessionInv, Queues
  <2>2. \A k \in Sessions!Models : models'[k] = IF k = m THEN Sessions!LoadedModel(ok) ELSE models[k]
    BY <1>1 DEF SessionInv, Queues
  <2> QED
    BY <1>3, <2>1, <2>2, FreshQueue DEF SessionInv, Queues
<1>5. CallsBound'
  BY <1>2 DEF SessionInv, CallsBound
<1>6. SlotWatched'
  <2>1. loaded' \in 0 .. MaxModels
    BY <1>1, BucketConstants DEF Sessions!Models
  <2>2. loader' \in [Loaders -> {"idle", "build", "publish", "validate", "undo"}]
        /\ loader'[l] = "validate"
    BY <1>2 DEF SessionInv, SlotWatched
  <2> QED
    BY <2>1, <2>2 DEF SlotWatched
<1>7. Sessions!EvictsLeastRecent
  <2> SUFFICES ASSUME NEW k \in Sessions!LiveModels \intersect Sessions!LiveModels'
               PROVE  models'[k] = models[k]
    BY DEF Sessions!EvictsLeastRecent
  <2> QED
    BY <1>1 DEF SessionInv, Queues
<1>8. Sessions!NeverReplaced
  BY DEF Sessions!NeverReplaced
<1> QED
  BY <1>1, <1>2, <1>4, <1>5, <1>6, <1>7, <1>8, BucketConstants
     DEF SessionInv, SessionStep, KeepsValid, Sessions!Models

\* Emptying the slot drops the models that no call uses.
LEMMA ClearStep ==
  ASSUME SessionInv, Sessions!Unload \/ \E l \in Loaders : Sessions!Undo(l)
  PROVE  SessionStep
<1>1. /\ loaded' = 0 /\ UNCHANGED <<limit, call>> /\ models' = Sessions!DropModels(models)
  BY DEF Sessions!Unload, Sessions!Undo, Sessions!ClearSlot
<1>2. loader' \in [Loaders -> {"idle", "build", "publish", "validate", "undo"}]
  BY DEF Sessions!Unload, Sessions!Undo, Sessions!Return, SessionInv, SlotWatched
<1>3. CallsBound'
  BY <1>1 DEF SessionInv, CallsBound
<1>4. DOMAIN models = Sessions!Models
  BY DEF SessionInv, Queues
<1> QED
  BY <1>1, <1>2, <1>3, <1>4, KeepsOrder, SameModels DEF SessionStep

\* Calls that look up the model, take a session or return.
LEMMA CallSteps ==
  ASSUME SessionInv, NEW c \in Calls,
         Sessions!Begin(c) \/ Sessions!Acquire(c) \/ Sessions!Grow(c) \/ Sessions!End(c)
  PROVE  SessionStep
<1>1. /\ UNCHANGED <<limit, loaded, loader>>
      /\ models' = models \/ models' = Sessions!DropModels(models)
  BY DEF Sessions!Begin, Sessions!Acquire, Sessions!Grow, Sessions!End
<1>2. CallsBound'
  <2>1. call[c] \in CallRecords /\ Sessions!NoCall \in CallRecords
    BY BucketConstants DEF SessionInv, CallsBound, Sessions!NoCall, CallRecords
  <2>2. PICK r \in CallRecords :
          /\ call' = [call EXCEPT ![c] = r]
          /\ r.at # "idle" => r.model # 0 /\ r.bucket \in Buckets
    <3>1. CASE Sessions!Begin(c)
      <4>1. PICK b \in Buckets : call' = [call EXCEPT ![c] =
              [Sessions!NoCall EXCEPT !.at = "pool", !.model = loaded, !.bucket = b]]
        BY <3>1 DEF Sessions!Begin, Buckets
      <4> DEFINE r == [Sessions!NoCall EXCEPT !.at = "pool", !.model = loaded, !.bucket = b]
      <4>2. r \in CallRecords /\ r.model # 0 /\ r.bucket \in Buckets
        BY <3>1, BucketConstants
           DEF Sessions!NoCall, CallRecords, Sessions!Begin, SessionInv, SlotWatched
      <4> QED
        BY <4>1, <4>2
    <3>2. CASE Sessions!Acquire(c) \/ Sessions!Grow(c)
      <4> DEFINE r == [call[c] EXCEPT !.at = "run"]
      <4>1. r \in CallRecords /\ r.model = call[c].model /\ r.bucket = call[c].bucket
        BY <2>1 DEF CallRecords
      <4>2. call[c].model # 0 /\ call[c].bucket \in Buckets
        BY <3>2 DEF Sessions!Acquire, Sessions!Grow, SessionInv, CallsBound
      <4>3. call' = [call EXCEPT ![c] = r]
        BY <3>2 DEF Sessions!Acquire, Sessions!Grow
      <4> HIDE DEF r
      <4> QED
        BY <4>1, <4>2, <4>3
    <3>3. CASE Sessions!End(c)
      BY <2>1, <3>3 DEF Sessions!End, Sessions!NoCall
    <3> QED
      BY <3>1, <3>2, <3>3
  <2> QED
    BY <2>2 DEF SessionInv, CallsBound
<1>3. DOMAIN models = Sessions!Models
  BY DEF SessionInv, Queues
<1>4. loader' \in [Loaders -> {"idle", "build", "publish", "validate", "undo"}]
  BY <1>1 DEF SessionInv, SlotWatched
<1>5. \A l \in Loaders : loader[l] \in Watch => loader'[l] \in Watch
  BY <1>1
<1> QED
  BY <1>1, <1>2, <1>3, <1>4, <1>5, KeepsOrder, SameModels DEF SessionStep

\* A call that was given a pool, or none.
LEMMA PoolGiven ==
  ASSUME SessionInv, NEW c \in Calls, call[c].at = "pool", NEW p \in Sessions!Pools,
         \/ call' = [call EXCEPT ![c].at = "acquire", ![c].pool = p]
         \/ call' = [call EXCEPT ![c] = Sessions!NoCall]
  PROVE  CallsBound'
<1>1. call[c] \in CallRecords /\ Sessions!NoCall \in CallRecords
  BY BucketConstants DEF SessionInv, CallsBound, Sessions!NoCall, CallRecords
<1> DEFINE r == [call[c] EXCEPT !.at = "acquire", !.pool = p]
<1>2. r \in CallRecords /\ r.model = call[c].model /\ r.bucket = call[c].bucket
  BY <1>1 DEF CallRecords
<1>3. call[c].model # 0 /\ call[c].bucket \in Buckets
  BY DEF SessionInv, CallsBound
<1>4. call' = [call EXCEPT ![c] = r] \/ call' = [call EXCEPT ![c] = Sessions!NoCall]
  OBVIOUS
<1>5. Sessions!NoCall.at = "idle"
  BY DEF Sessions!NoCall
<1> HIDE DEF r
<1> QED
  BY <1>1, <1>2, <1>3, <1>4, <1>5 DEF SessionInv, CallsBound

\* The model of a call at the pool lookup, whose record becomes r.
LEMMA LookupStep ==
  ASSUME SessionInv, NEW c \in Calls, call[c].at = "pool", CallsBound',
         UNCHANGED <<limit, loaded, loader>>, NEW r,
         QueueOK(call[c].model, r, Sessions!secondary_capacity),
         r.valid = models[call[c].model].valid,
         \A b \in DOMAIN models[call[c].model].sessions \ DOMAIN r.sessions :
           DOMAIN models[call[c].model].sessions \ {b} \subseteq models[call[c].model].since[b],
         NEW f, f = [models EXCEPT ![call[c].model] = r],
         models' = f \/ models' = Sessions!DropModels(f)
  PROVE  SessionStep
<1>1. DOMAIN f = Sessions!Models /\ call[c].model \in Sessions!Models
  BY BucketConstants DEF SessionInv, Queues, CallsBound, CallRecords, Sessions!Models
<1>2. ASSUME NEW m \in Sessions!Models
      PROVE  /\ QueueOK(m, f[m], Sessions!secondary_capacity)
             /\ f[m].valid = models[m].valid
             /\ \A b \in DOMAIN models[m].sessions \ DOMAIN f[m].sessions :
                  DOMAIN models[m].sessions \ {b} \subseteq models[m].since[b]
  <2>1. m # call[c].model => f[m] = models[m]
    BY DEF SessionInv, Queues
  <2>2. m = call[c].model => f[m] = r
    BY <1>1 DEF SessionInv, Queues
  <2> QED
    BY <2>1, <2>2, SameModels
<1>3. loader' \in [Loaders -> {"idle", "build", "publish", "validate", "undo"}]
  BY DEF SessionInv, SlotWatched
<1> QED
  BY <1>1, <1>2, <1>3, KeepsOrder DEF SessionStep

LEMMA CallOf ==
  ASSUME SessionInv, NEW c \in Calls, call[c].at = "pool"
  PROVE  /\ call[c].model \in Sessions!Models /\ call[c].bucket \in Buckets
         /\ QueueOK(call[c].model, models[call[c].model], Sessions!secondary_capacity)
         /\ Sessions!Asked(call[c].model, call[c].bucket) \in [Buckets -> SUBSET Buckets]
<1>1. call[c].model \in Sessions!Models /\ call[c].bucket \in Buckets
  BY BucketConstants DEF SessionInv, CallsBound, CallRecords, Sessions!Models
<1>2. QueueOK(call[c].model, models[call[c].model], Sessions!secondary_capacity)
  BY <1>1 DEF SessionInv, Queues
<1>3. Sessions!Asked(call[c].model, call[c].bucket) \in [Buckets -> SUBSET Buckets]
  BY <1>1, <1>2 DEF QueueOK, Sessions!Asked, Buckets
<1> QED
  BY <1>1, <1>2, <1>3

\* A key that is not in the queue may be asked for.
LEMMA AskedElsewhere ==
  ASSUME NEW q \in Seq(Buckets), NEW m, NEW b \in Buckets, Ordered(q, models[m].since), ~Has(q, b),
         models[m].since \in [Buckets -> SUBSET Buckets]
  PROVE  Ordered(q, Sessions!Asked(m, b))
<1> SUFFICES ASSUME NEW i \in 1 .. Len(q), NEW j \in 1 .. Len(q), i < j
             PROVE  q[i] # q[j] /\ q[j] \in Sessions!Asked(m, b)[q[i]]
  BY DEF Ordered
<1>1. q[i] # q[j] /\ q[j] \in models[m].since[q[i]] /\ q[i] # b /\ q[i] \in Buckets
  BY DEF Ordered, Has
<1>2. Sessions!Asked(m, b)[q[i]] = models[m].since[q[i]] \union {b}
  BY <1>1 DEF Sessions!Asked, Buckets
<1> QED
  BY <1>1, <1>2

LEMMA PrimaryPoolStep ==
  ASSUME SessionInv, NEW c \in Calls, Sessions!PrimaryPool(c) PROVE SessionStep
<1> DEFINE m == call[c].model
           b == call[c].bucket
           r == models[m]
           s == [r EXCEPT !.primary_bucket_key = b, !.since = Sessions!Asked(m, b)]
<1>1. /\ call[c].at = "pool" /\ Sessions!UsesPrimary(m, b)
      /\ call' = [call EXCEPT ![c].at = "acquire", ![c].pool = Sessions!primary_pool(m)]
      /\ UNCHANGED <<limit, loaded, loader>>
      /\ models' = IF limit <= 1 THEN models
                   ELSE [models EXCEPT ![m].primary_bucket_key = b,
                                       ![m].since = Sessions!Asked(m, b)]
  BY DEF Sessions!PrimaryPool
<1>2. /\ m \in Sessions!Models /\ b \in Buckets /\ QueueOK(m, r, Sessions!secondary_capacity)
      /\ Sessions!Asked(m, b) \in [Buckets -> SUBSET Buckets]
  BY <1>1, CallOf
<1>3. Sessions!primary_pool(m) \in Sessions!Pools
  <2>1. Sessions!Cardinality(Calls) \in Nat
    <3>1. Sessions!Cardinality(Calls) = Cardinality(Calls)
      BY DEF Sessions!Cardinality, Cardinality
    <3> QED
      BY <3>1, BucketConstants, FS_CardinalityType
  <2> QED
    BY <1>2, <2>1 DEF Sessions!primary_pool, Sessions!Pools
<1>4. CallsBound'
  BY <1>1, <1>3, PoolGiven
<1>5. DOMAIN models = Sessions!Models
  BY DEF SessionInv, Queues
<1>6. CASE limit <= 1
  <2>1. loader' \in [Loaders -> {"idle", "build", "publish", "validate", "undo"}]
    BY <1>1 DEF SessionInv, SlotWatched
  <2> QED
    BY <1>1, <1>4, <1>5, <1>6, <2>1, KeepsOrder, SameModels DEF SessionStep
<1>7. CASE ~(limit <= 1)
  <2>1. /\ DOMAIN s = ModelFields /\ s.valid = r.valid /\ s.primary_bucket_key = b
        /\ s.lru = r.lru /\ s.sessions = r.sessions /\ s.since = Sessions!Asked(m, b)
    BY <1>2 DEF QueueOK, ModelFields
  <2>2. models' = [models EXCEPT ![m] = s]
    BY <1>1, <1>5, <1>7
  <2>3. r.primary_bucket_key \in {Sessions!None, b}
    BY <1>1, <1>7 DEF Sessions!UsesPrimary
  <2>4. ~Has(r.lru, b)
    <3>1. r.primary_bucket_key = Sessions!None => Len(r.lru) = 0
      BY <1>2 DEF QueueOK
    <3> QED
      BY <1>2, <2>3, <3>1 DEF QueueOK, Has
  <2>5. Ordered(r.lru, Sessions!Asked(m, b))
    BY <1>2, <2>4, AskedElsewhere DEF QueueOK
  <2> HIDE DEF s
  <2>6. QueueOK(m, s, Sessions!secondary_capacity)
    BY <1>2, <2>1, <2>4, <2>5, BucketConstants DEF QueueOK
  <2> QED
    BY <1>1, <1>4, <2>1, <2>2, <2>6, LookupStep
<1> QED
  BY <1>6, <1>7

LEMMA KnownBucketStep ==
  ASSUME SessionInv, NEW c \in Calls, Sessions!KnownBucket(c) PROVE SessionStep
<1> DEFINE m == call[c].model
           b == call[c].bucket
           r == models[m]
           u == Sessions!touch_bucket_lru(r.lru, b)
           s == [r EXCEPT !.lru = u, !.since = Sessions!Asked(m, b)]
<1>1. /\ call[c].at = "pool" /\ ~Sessions!UsesPrimary(m, b) /\ b \in DOMAIN r.sessions
      /\ call' = [call EXCEPT ![c].at = "acquire", ![c].pool = r.sessions[b]]
      /\ UNCHANGED <<limit, loaded, loader>>
      /\ models' = [models EXCEPT ![m].lru = Sessions!touch_bucket_lru(@, b),
                                  ![m].since = Sessions!Asked(m, b)]
  BY DEF Sessions!KnownBucket
<1>2. /\ m \in Sessions!Models /\ b \in Buckets /\ QueueOK(m, r, Sessions!secondary_capacity)
      /\ Sessions!Asked(m, b) \in [Buckets -> SUBSET Buckets]
  BY <1>1, CallOf
<1>3. r.sessions[b] \in Sessions!Pools
  BY <1>1, <1>2 DEF QueueOK
<1>4. CallsBound'
  BY <1>1, <1>3, PoolGiven
<1>5. /\ DOMAIN s = ModelFields /\ s.valid = r.valid
      /\ s.primary_bucket_key = r.primary_bucket_key /\ s.lru = u
      /\ s.sessions = r.sessions /\ s.since = Sessions!Asked(m, b)
  BY <1>2 DEF QueueOK, ModelFields
<1>6. models' = [models EXCEPT ![m] = s]
  BY <1>1, <1>2 DEF SessionInv, Queues
<1>7. /\ u \in Seq(Buckets) /\ Ordered(u, Sessions!Asked(m, b)) /\ Len(u) = Len(r.lru)
      /\ \A x : Has(u, x) <=> x = b \/ Has(r.lru, x)
  <2>1. r.lru \in Seq(Buckets) /\ r.since \in [Buckets -> SUBSET Buckets]
        /\ Ordered(r.lru, r.since) /\ Has(r.lru, b)
    BY <1>1, <1>2 DEF QueueOK
  <2> DEFINE asked == [x \in Buckets |-> IF x = b THEN {} ELSE r.since[x] \union {b}]
  <2>2. Sessions!Asked(m, b) = asked
    BY DEF Sessions!Asked, Buckets
  <2>3. /\ u \in Seq(Buckets) /\ Ordered(u, asked) /\ Len(u) = Len(r.lru)
        /\ \A x : Has(u, x) <=> x = b \/ Has(r.lru, x)
    <3> DEFINE q == r.lru
               sn == r.since
    <3>1. q \in Seq(Buckets) /\ sn \in [Buckets -> SUBSET Buckets] /\ Ordered(q, sn) /\ Has(q, b)
      BY <2>1
    <3> HIDE DEF q, r, b, sn
    <3>2. LET v == Sessions!touch_bucket_lru(q, b)
              ask == [x \in Buckets |-> IF x = b THEN {} ELSE sn[x] \union {b}]
          IN  /\ v \in Seq(Buckets) /\ Ordered(v, ask) /\ Len(v) \in 1 .. Len(q) + 1
              /\ Has(q, b) => Len(v) = Len(q)
              /\ \A x : Has(v, x) <=> (x = b \/ Has(q, x))
      BY <1>2, <3>1, Touched
    <3> QED
      BY <3>1, <3>2 DEF q, sn
  <2> HIDE DEF asked, u
  <2> QED
    BY <2>2, <2>3
<1>8. Has(r.lru, b) /\ b # r.primary_bucket_key /\ r.primary_bucket_key # Sessions!None
  BY <1>1, <1>2 DEF QueueOK, Sessions!UsesPrimary
<1> HIDE DEF s, u
<1>9. QueueOK(m, s, Sessions!secondary_capacity)
  <2>1. DOMAIN s.sessions = DOMAIN r.sessions /\ \A x : Has(u, x) <=> Has(r.lru, x)
    BY <1>5, <1>7, <1>8
  <2> QED
    BY <1>2, <1>5, <1>7, <1>8, <2>1 DEF QueueOK
<1> QED
  BY <1>1, <1>4, <1>5, <1>6, <1>9, LookupStep

\* A new bucket: the pool evicted for it is the one asked for first.
LEMMA NewBucketStep ==
  ASSUME SessionInv, NEW c \in Calls, Sessions!NewBucket(c) PROVE SessionStep
<1> DEFINE m == call[c].model
           b == call[c].bucket
           r == models[m]
           room == Sessions!Evict(r.lru, r.sessions)
           cap == Sessions!secondary_capacity
<1>1. /\ call[c].at = "pool" /\ ~Sessions!UsesPrimary(m, b) /\ b \notin DOMAIN r.sessions
      /\ UNCHANGED <<limit, loaded, loader>>
  BY DEF Sessions!NewBucket
<1>2. /\ m \in Sessions!Models /\ b \in Buckets /\ QueueOK(m, r, cap)
      /\ Sessions!Asked(m, b) \in [Buckets -> SUBSET Buckets]
  BY <1>1, CallOf
<1>3. cap \in Nat \ {0}
  BY BucketConstants, Capacity DEF SessionInv
<1>4. /\ room.lru \in Seq(Buckets) /\ Len(room.lru) < cap
      /\ Ordered(room.lru, r.since)
      /\ \A x : x \in DOMAIN room.sessions <=> Has(room.lru, x)
      /\ \A x \in DOMAIN room.sessions :
           x \in DOMAIN r.sessions /\ room.sessions[x] = r.sessions[x]
      /\ \A x \in DOMAIN r.sessions \ DOMAIN room.sessions :
           DOMAIN r.sessions \ {x} \subseteq r.since[x]
  BY <1>2, <1>3, Evicted
<1>5. ~Has(room.lru, b) /\ ~Has(room.lru, r.primary_bucket_key)
      /\ b # r.primary_bucket_key /\ r.primary_bucket_key # Sessions!None
  BY <1>1, <1>2, <1>4 DEF QueueOK, Sessions!UsesPrimary
<1>6. r.since \in [Buckets -> SUBSET Buckets] /\ DOMAIN r = ModelFields
  BY <1>2 DEF QueueOK
<1> HIDE DEF room, cap
<1>7. CASE /\ call' = [call EXCEPT ![c] = Sessions!NoCall]
           /\ models' = Sessions!DropModels(
                [models EXCEPT ![m].lru = room.lru, ![m].sessions = room.sessions,
                               ![m].since = Sessions!Asked(m, b)])
  <2> DEFINE s == [r EXCEPT !.lru = room.lru, !.sessions = room.sessions,
                            !.since = Sessions!Asked(m, b)]
             f == [models EXCEPT ![m] = s]
  <2>1. /\ DOMAIN s = ModelFields /\ s.valid = r.valid
        /\ s.primary_bucket_key = r.primary_bucket_key /\ s.lru = room.lru
        /\ s.sessions = room.sessions /\ s.since = Sessions!Asked(m, b)
    BY <1>6 DEF ModelFields
  <2>2. f = [models EXCEPT ![m].lru = room.lru, ![m].sessions = room.sessions,
                           ![m].since = Sessions!Asked(m, b)]
    OBVIOUS
  <2>3. models' = Sessions!DropModels(f)
    BY <1>7, <2>2
  <2>4. Ordered(room.lru, Sessions!Asked(m, b))
    BY <1>2, <1>4, <1>5, <1>6, AskedElsewhere
  <2>5. CallsBound'
    <3>1. \E p : p \in Sessions!Pools
      <4>1. Sessions!Cardinality(Calls) = Cardinality(Calls)
        BY DEF Sessions!Cardinality, Cardinality
      <4>2. Sessions!Cardinality(Calls) \in Nat
        BY <4>1, BucketConstants, FS_CardinalityType
      <4>3. <<m, b, 0>> \in Sessions!Pools
        BY <1>2, <4>2 DEF Sessions!Pools, Buckets
      <4> QED
        BY <4>3
    <3> QED
      BY <1>1, <1>7, <3>1, PoolGiven
  <2> HIDE DEF s
  <2>6. QueueOK(m, s, cap)
    <3>1. Len(s.lru) <= cap
      BY <1>3, <1>4, <2>1
    <3>2. \A x \in DOMAIN s.sessions :
            s.sessions[x] \in Sessions!Pools /\ s.sessions[x][1] = m /\ s.sessions[x][2] = x
      BY <1>2, <1>4, <2>1 DEF QueueOK
    <3>3. s.valid \in BOOLEAN /\ s.primary_bucket_key \in Buckets \union {Sessions!None}
      BY <1>2, <2>1 DEF QueueOK
    <3> QED
      BY <1>2, <1>4, <1>5, <2>1, <2>4, <3>1, <3>2, <3>3 DEF QueueOK
  <2> HIDE DEF f
  <2>7. f = [models EXCEPT ![m] = s]
    BY DEF f
  <2> QED
    BY <1>1, <1>4, <2>1, <2>3, <2>5, <2>6, <2>7, LookupStep DEF cap
<1>8. CASE \E p \in Sessions!Pools :
             /\ p[1] = m /\ p[2] = b
             /\ call' = [call EXCEPT ![c].at = "acquire", ![c].pool = p]
             /\ models' = [models EXCEPT
                   ![m].lru = Sessions!touch_bucket_lru(room.lru, b),
                   ![m].sessions = [x \in DOMAIN room.sessions \union {b} |->
                                       IF x = b THEN p ELSE room.sessions[x]],
                   ![m].since = Sessions!Asked(m, b)]
  <2>1. PICK p \in Sessions!Pools :
             /\ p[1] = m /\ p[2] = b
             /\ call' = [call EXCEPT ![c].at = "acquire", ![c].pool = p]
             /\ models' = [models EXCEPT
                   ![m].lru = Sessions!touch_bucket_lru(room.lru, b),
                   ![m].sessions = [x \in DOMAIN room.sessions \union {b} |->
                                       IF x = b THEN p ELSE room.sessions[x]],
                   ![m].since = Sessions!Asked(m, b)]
    BY <1>8
  <2> DEFINE u == Sessions!touch_bucket_lru(room.lru, b)
             t == [x \in DOMAIN room.sessions \union {b} |->
                     IF x = b THEN p ELSE room.sessions[x]]
             asked == [x \in Buckets |-> IF x = b THEN {} ELSE r.since[x] \union {b}]
             s == [r EXCEPT !.lru = u, !.sessions = t, !.since = Sessions!Asked(m, b)]
  <2>2. Sessions!Asked(m, b) = asked
    BY DEF Sessions!Asked, Buckets
  <2>3. /\ u \in Seq(Buckets) /\ Ordered(u, asked) /\ Len(u) \in 1 .. Len(room.lru) + 1
        /\ \A x : Has(u, x) <=> x = b \/ Has(room.lru, x)
    <3> DEFINE q == room.lru
               sn == r.since
    <3>1. q \in Seq(Buckets) /\ sn \in [Buckets -> SUBSET Buckets] /\ Ordered(q, sn)
      BY <1>4, <1>6
    <3> HIDE DEF q, r, b, sn
    <3>2. LET v == Sessions!touch_bucket_lru(q, b)
              ask == [x \in Buckets |-> IF x = b THEN {} ELSE sn[x] \union {b}]
          IN  /\ v \in Seq(Buckets) /\ Ordered(v, ask) /\ Len(v) \in 1 .. Len(q) + 1
              /\ Has(q, b) => Len(v) = Len(q)
              /\ \A x : Has(v, x) <=> (x = b \/ Has(q, x))
      BY <1>2, <3>1, Touched
    <3> QED
      BY <3>2 DEF q, sn
  <2>4. models' = [models EXCEPT ![m] = s]
    BY <2>1
  <2>5. DOMAIN t = DOMAIN room.sessions \union {b} /\ t[b] = p
        /\ \A x \in DOMAIN room.sessions : x # b => t[x] = room.sessions[x]
    OBVIOUS
  <2>6. p[1] = m /\ p[2] = b
    BY <2>1
  <2> HIDE DEF u, t, asked
  <2>7. /\ DOMAIN s = ModelFields /\ s.valid = r.valid
        /\ s.primary_bucket_key = r.primary_bucket_key /\ s.lru = u
        /\ s.sessions = t /\ s.since = asked
    BY <1>6, <2>2 DEF ModelFields
  <2> HIDE DEF s
  <2>8. QueueOK(m, s, cap)
    <3>1. Len(s.lru) <= cap
      BY <1>3, <1>4, <2>3, <2>7
    <3>2. \A x \in DOMAIN s.sessions :
            s.sessions[x] \in Sessions!Pools /\ s.sessions[x][1] = m /\ s.sessions[x][2] = x
      <4>1. \A x \in DOMAIN room.sessions :
              room.sessions[x] \in Sessions!Pools /\ room.sessions[x][1] = m /\ room.sessions[x][2] = x
        BY <1>2, <1>4 DEF QueueOK
      <4> HIDE DEF r
      <4> QED
        BY <2>1, <2>5, <2>6, <2>7, <4>1
    <3>3. s.valid \in BOOLEAN /\ s.primary_bucket_key \in Buckets \union {Sessions!None}
      BY <1>2, <2>7 DEF QueueOK
    <3>4. \A x : x \in DOMAIN s.sessions <=> Has(s.lru, x)
      BY <1>4, <2>3, <2>5, <2>7
    <3>5. ~Has(s.lru, s.primary_bucket_key) /\ s.primary_bucket_key # Sessions!None
      BY <1>5, <2>3, <2>7
    <3>6. s.since \in [Buckets -> SUBSET Buckets]
      BY <1>2, <2>2, <2>7
    <3> QED
      BY <2>3, <2>7, <3>1, <3>2, <3>3, <3>4, <3>5, <3>6 DEF QueueOK
  <2>9. \A x \in DOMAIN r.sessions \ DOMAIN s.sessions : DOMAIN r.sessions \ {x} \subseteq r.since[x]
    BY <1>4, <2>5, <2>7
  <2>10. CallsBound'
    BY <1>1, <2>1, PoolGiven
  <2> QED
    BY <1>1, <2>4, <2>7, <2>8, <2>9, <2>10, LookupStep DEF cap
<1>9. Sessions!Cardinality(Calls) \in Nat
  <2>1. Sessions!Cardinality(Calls) = Cardinality(Calls)
    BY DEF Sessions!Cardinality, Cardinality
  <2> QED
    BY <2>1, BucketConstants, FS_CardinalityType
<1>10. \A n \in 0 .. Sessions!Cardinality(Calls) :
         <<m, b, n>> \in Sessions!Pools /\ <<m, b, n>>[1] = m /\ <<m, b, n>>[2] = b
  BY <1>2, <1>9 DEF Sessions!Pools, Buckets
<1>11. ASSUME ~(/\ call' = [call EXCEPT ![c] = Sessions!NoCall]
                /\ models' = Sessions!DropModels(
                     [models EXCEPT ![m].lru = room.lru, ![m].sessions = room.sessions,
                                    ![m].since = Sessions!Asked(m, b)]))
       PROVE  SessionStep
  <2>1. PICK p \in {<<m, b, n>> : n \in Sessions!Least({n \in 0 .. Sessions!Cardinality(Calls) : <<m, b, n>> \notin Sessions!Alive})} :
             /\ call' = [call EXCEPT ![c].at = "acquire", ![c].pool = p]
             /\ models' = [models EXCEPT
                   ![m].lru = Sessions!touch_bucket_lru(room.lru, b),
                   ![m].sessions = [x \in DOMAIN room.sessions \union {b} |->
                                       IF x = b THEN p ELSE room.sessions[x]],
                   ![m].since = Sessions!Asked(m, b)]
    BY <1>11 DEF Sessions!NewBucket, room
  <2>2. p \in Sessions!Pools /\ p[1] = m /\ p[2] = b
    BY <1>10 DEF Sessions!Least
  <2> QED
    BY <1>8, <2>1, <2>2
<1> QED
  BY <1>7, <1>11

LEMMA SessionNext == SessionInv /\ [Sessions!Next]_sessionVars => SessionStep
<1>1. ASSUME SessionInv, Sessions!Next PROVE SessionStep
  <2>1. CASE Sessions!Unload
    BY <1>1, <2>1, ClearStep
  <2>2. ASSUME NEW l \in Loaders,
               \/ Sessions!StartLoad(l) \/ Sessions!BuildPool(l) \/ Sessions!BuildFails(l)
               \/ Sessions!Publish(l) \/ Sessions!Validate(l) \/ Sessions!Undo(l)
        PROVE  SessionStep
    BY <1>1, <2>2, LoaderSteps, PublishStep, ClearStep
  <2>3. ASSUME NEW c \in Calls,
               \/ Sessions!Begin(c) \/ Sessions!PrimaryPool(c) \/ Sessions!KnownBucket(c)
               \/ Sessions!NewBucket(c) \/ Sessions!Acquire(c) \/ Sessions!Grow(c)
               \/ Sessions!End(c)
        PROVE  SessionStep
    BY <1>1, <2>3, CallSteps, PrimaryPoolStep, KnownBucketStep, NewBucketStep
  <2> QED
    BY <1>1, <2>1, <2>2, <2>3 DEF Sessions!Next
<1>2. ASSUME SessionInv, UNCHANGED sessionVars PROVE SessionStep
  <2>1. UNCHANGED <<limit, loaded, models, loader, call>>
    BY <1>2 DEF sessionVars
  <2>2. CallsBound' /\ loader' \in [Loaders -> {"idle", "build", "publish", "validate", "undo"}]
    BY <1>2, <2>1 DEF SessionInv, CallsBound, SlotWatched
  <2>3. DOMAIN models = Sessions!Models
    BY <1>2 DEF SessionInv, Queues
  <2> QED
    BY <1>2, <2>1, <2>2, <2>3, KeepsOrder, SameModels DEF SessionStep
<1> QED
  BY <1>1, <1>2

LEMMA SessionInvariant == Spec => []SessionInv
<1>1. Init => SessionInv
  BY SessionInit DEF Init
<1>2. SessionInv /\ [Next]_allVars => SessionInv'
  BY SessionNext DEF Next, allVars, SessionStep
<1> QED
  BY <1>1, <1>2, PTL DEF Spec

\* No load replaces a loaded model, and the pool that pool_for_request evicts is the
\* one whose bucket was not asked for the longest, however calls, loads and unloads
\* interleave (load, touch_bucket_lru of model.rs).
THEOREM ReplacesInOrderHolds == Spec => ReplacesInOrder
<1>1. SessionInv /\ [Next]_allVars =>
        [Sessions!EvictsLeastRecent /\ Sessions!NeverReplaced]_allVars
  BY SessionNext DEF Next, allVars, SessionStep
<1> QED
  BY <1>1, SessionInvariant, PTL DEF Spec, ReplacesInOrder

LEMMA QueueLists == SessionInv => Sessions!LruIsTheMap
<1> SUFFICES ASSUME SessionInv, NEW m \in Sessions!LiveModels
             PROVE  LET s == models[m].sessions
                    IN  /\ Sessions!Range(models[m].lru) = DOMAIN s
                        /\ Len(models[m].lru) = Sessions!Cardinality(DOMAIN s)
                        /\ Sessions!Cardinality(DOMAIN s) <= Sessions!secondary_capacity
                        /\ models[m].primary_bucket_key \notin DOMAIN s
                        /\ Sessions!IsInjective(s)
  BY DEF Sessions!LruIsTheMap
<1> DEFINE r == models[m]
<1>1. m \in Sessions!Models
  BY LiveIsModel DEF SessionInv, SlotWatched
<1>2. QueueOK(m, r, Sessions!secondary_capacity)
  BY <1>1 DEF SessionInv, Queues
<1> HIDE DEF r
<1>3. Sessions!Range(r.lru) = DOMAIN r.sessions
  BY <1>2 DEF QueueOK, Has, Sessions!Range
<1>4. Len(r.lru) = Sessions!Cardinality(DOMAIN r.sessions)
  BY <1>2, QueueCardinality
<1>5. Sessions!IsInjective(r.sessions)
  BY <1>2 DEF QueueOK, Sessions!IsInjective
<1>6. r.primary_bucket_key \notin DOMAIN r.sessions
  BY <1>2 DEF QueueOK
<1>7. Len(r.lru) <= Sessions!secondary_capacity
  BY <1>2 DEF QueueOK
<1> QED
  BY <1>3, <1>4, <1>5, <1>6, <1>7 DEF r

LEMMA SlotIsValid == SessionInv => Sessions!ServedIsValid
<1> SUFFICES ASSUME SessionInv, \A l \in Loaders : loader[l] \notin Watch, loaded # 0
             PROVE  models[loaded].valid
  BY DEF Sessions!ServedIsValid, Sessions!Watching, Watch
<1>1. loaded \in Sessions!Models
  BY BucketConstants DEF SessionInv, SlotWatched, Sessions!Models
<1>2. models[loaded].valid \in BOOLEAN
  BY <1>1 DEF SessionInv, Queues, QueueOK
<1>3. models[loaded].valid # FALSE
  BY DEF SessionInv, SlotWatched, Watch
<1> QED
  BY <1>2, <1>3

-----------------------------------------------------------------------------
(* Sums over finite sets. What holds of the empty set and with each set of *)
(* its subsets holds of all: there is no smallest set without it.          *)

\* The recursion that sums a function over the subsets of a set.
Chosen(s) == CHOOSE x \in s : TRUE
Summed(g, F, s) == IF s = {} THEN 0 ELSE F[Chosen(s)] + g[s \ {Chosen(s)}]
SumOf(g, F, U) == g = [s \in U |-> Summed(g, F, s)]

LEMMA LeastOf ==
  ASSUME NEW T \in SUBSET Nat, T # {}
  PROVE  \E n \in T : \A k \in T : n <= k
<1> DEFINE R == OpToRel(<, Nat)
<1>1. IsWellFoundedOn(R, Nat)
  BY NatLessThanWellFounded
<1>2. \A k, n \in Nat : k < n => <<k, n>> \in R
  BY DEF OpToRel
<1> HIDE DEF R
<1>3. PICK n \in T : \A k \in T : <<k, n>> \notin R
  BY <1>1, WFMin
<1>4. ASSUME NEW k \in T PROVE n <= k
  <2>1. k \in Nat /\ n \in Nat
    OBVIOUS
  <2>2. ~(k < n)
    BY <1>2, <1>3, <2>1
  <2> QED
    BY <2>1, <2>2
<1> QED
  BY <1>4

\* There is such a function: the smallest sets for which there would be none have
\* subsets for which there is one.
LEMMA SumExists ==
  ASSUME NEW S, IsFiniteSet(S), NEW F
  PROVE  \E g : SumOf(g, F, SUBSET S)
<1> DEFINE Upto(n) == {s \in SUBSET S : Cardinality(s) <= n}
           T == {n \in Nat : ~ \E g : SumOf(g, F, Upto(n))}
<1>1. \A s \in SUBSET S : Cardinality(s) \in 0 .. Cardinality(S) /\ IsFiniteSet(s)
  BY FS_Subset, FS_CardinalityType
<1>2. \A s \in SUBSET S : s # {} =>
        Chosen(s) \in s /\ Cardinality(s \ {Chosen(s)}) = Cardinality(s) - 1
  BY <1>1, FS_RemoveElement DEF Chosen
<1>3. T = {}
  <2> SUFFICES ASSUME T # {} PROVE FALSE
    OBVIOUS
  <2>1. PICK n \in T : \A k \in T : n <= k
    BY LeastOf
  <2>2. n = 0 => FALSE
    <3> SUFFICES ASSUME n = 0 PROVE \E g : SumOf(g, F, Upto(n))
      BY <2>1
    <3>1. Upto(n) \subseteq {{}}
      BY <1>1, FS_EmptySet
    <3> DEFINE g == [s \in Upto(n) |-> 0]
    <3>2. SumOf(g, F, Upto(n))
      BY <3>1 DEF SumOf, Summed
    <3> QED
      BY <3>2
  <2>3. n # 0 => FALSE
    <3> SUFFICES ASSUME n # 0 PROVE \E g : SumOf(g, F, Upto(n))
      BY <2>1
    <3>1. n - 1 \in Nat /\ n - 1 \notin T
      <4>1. n \in Nat /\ n - 1 \in Nat /\ ~(n <= n - 1)
        OBVIOUS
      <4> QED
        BY <2>1, <4>1
    <3>2. PICK h : SumOf(h, F, Upto(n - 1))
      BY <3>1
    <3> DEFINE g == [s \in Upto(n) |-> Summed(h, F, s)]
    <3>3. \A s \in Upto(n - 1) : s \in Upto(n) /\ g[s] = h[s]
      <4> SUFFICES ASSUME NEW s \in Upto(n - 1) PROVE s \in Upto(n) /\ g[s] = h[s]
        OBVIOUS
      <4>1. s \in Upto(n)
        BY <1>1, <3>1
      <4>2. h[s] = Summed(h, F, s)
        BY <3>2 DEF SumOf
      <4> QED
        BY <4>1, <4>2
    <3>4. \A s \in Upto(n) : Summed(g, F, s) = Summed(h, F, s)
      <4>1. ASSUME NEW s \in Upto(n), s # {}
            PROVE  g[s \ {Chosen(s)}] = h[s \ {Chosen(s)}]
        <5>1. s \ {Chosen(s)} \in Upto(n - 1)
          BY <1>1, <1>2, <2>1, <4>1
        <5> QED
          BY <3>3, <5>1
      <4> HIDE DEF g, Upto
      <4> QED
        BY <4>1 DEF Summed
    <3> HIDE DEF Upto
    <3>5. g = [s \in Upto(n) |-> Summed(g, F, s)]
      <4> DEFINE k == [s \in Upto(n) |-> Summed(g, F, s)]
      <4>1. \A s \in Upto(n) : k[s] = g[s]
        BY <3>4
      <4> HIDE DEF g
      <4>2. DOMAIN k = DOMAIN g /\ g = [s \in Upto(n) |-> g[s]]
        BY DEF g
      <4> QED
        BY <4>1, <4>2
    <3> QED
      BY <3>5 DEF SumOf
  <2> QED
    BY <2>2, <2>3
<1>4. Cardinality(S) \in Nat /\ Upto(Cardinality(S)) = SUBSET S
  BY <1>1, FS_CardinalityType
<1>5. \E g : SumOf(g, F, Upto(Cardinality(S)))
  BY <1>3, <1>4
<1> QED
  BY <1>4, <1>5

\* A sum of numbers up to K is at most K for each.
LEMMA SumBound ==
  ASSUME NEW S, IsFiniteSet(S), NEW K \in Nat, NEW F, \A x \in S : F[x] \in 0 .. K,
         NEW g, SumOf(g, F, SUBSET S)
  PROVE  \A s \in SUBSET S : g[s] \in Nat /\ g[s] <= K * Cardinality(s)
<1> DEFINE Good(s) == g[s] \in Nat /\ g[s] <= K * Cardinality(s)
           T == {n \in Nat : \E s \in SUBSET S : Cardinality(s) = n /\ ~Good(s)}
<1>1. \A s \in SUBSET S : Cardinality(s) \in Nat /\ IsFiniteSet(s)
  BY FS_Subset, FS_CardinalityType
<1>2. ASSUME T # {} PROVE FALSE
  <2>1. PICK n \in T : \A k \in T : n <= k
    BY <1>2, LeastOf
  <2>2. PICK s \in SUBSET S : Cardinality(s) = n /\ ~Good(s)
    BY <2>1
  <2>3. g[s] = Summed(g, F, s)
    BY DEF SumOf
  <2>4. s # {}
    <3> SUFFICES ASSUME s = {} PROVE Good(s)
      BY <2>2
    <3>1. g[s] = 0 /\ Cardinality(s) = 0
      BY <2>3, FS_EmptySet DEF Summed
    <3> QED
      BY <3>1
  <2> DEFINE x == Chosen(s)
             t == s \ {x}
  <2>5. x \in s /\ t \in SUBSET S /\ Cardinality(t) = n - 1 /\ g[s] = F[x] + g[t]
    BY <1>1, <2>2, <2>3, <2>4, FS_RemoveElement DEF Chosen, Summed
  <2> HIDE DEF x, t
  <2>6. Good(t)
    <3>1. n - 1 \in Nat
      BY <1>1, <2>5
    <3>2. n - 1 \notin T
      BY <2>1
    <3> QED
      BY <2>5, <3>1, <3>2
  <2>7. F[x] \in 0 .. K
    BY <2>5
  <2>8. K * n = K * (n - 1) + K
    BY <2>1
  <2>9. K * n \in Nat /\ K * (n - 1) \in Int
    BY <2>1
  <2>10. Good(s)
    BY <2>2, <2>5, <2>6, <2>7, <2>8, <2>9
  <2> QED
    BY <2>2, <2>10
<1> QED
  BY <1>1, <1>2

\* What the sums of the community modules compute.
LEMMA SumIsAtMost ==
  ASSUME NEW S, IsFiniteSet(S), NEW K \in Nat, \A p \in S : size[p] \in 0 .. K
  PROVE  /\ Sessions!MapThenSumSet(LAMBDA p : size[p], S) \in Nat
         /\ Sessions!MapThenSumSet(LAMBDA p : size[p], S) <= K * Cardinality(S)
<1> DEFINE g == CHOOSE g : SumOf(g, size, SUBSET S)
<1>1. SumOf(g, size, SUBSET S)
  BY SumExists
<1>2. Sessions!MapThenSumSet(LAMBDA p : size[p], S) = g[S]
  BY DEF Sessions!MapThenSumSet, Sessions!MapThenFoldSet, SumOf, Summed, Chosen
<1> HIDE DEF g
<1>3. g[S] \in Nat /\ g[S] <= K * Cardinality(S)
  BY <1>1, SumBound
<1> QED
  BY <1>2, <1>3

LEMMA BuiltAtMost ==
  ASSUME NEW S, IsFiniteSet(S), NEW K \in Nat, \A l \in S : built[l] \in 0 .. K
  PROVE  /\ Sessions!MapThenSumSet(LAMBDA l : built[l], S) \in Nat
         /\ Sessions!MapThenSumSet(LAMBDA l : built[l], S) <= K * Cardinality(S)
<1> DEFINE g == CHOOSE g : SumOf(g, built, SUBSET S)
<1>1. SumOf(g, built, SUBSET S)
  BY SumExists
<1>2. Sessions!MapThenSumSet(LAMBDA l : built[l], S) = g[S]
  BY DEF Sessions!MapThenSumSet, Sessions!MapThenFoldSet, SumOf, Summed, Chosen
<1> HIDE DEF g
<1>3. g[S] \in Nat /\ g[S] <= K * Cardinality(S)
  BY <1>1, SumBound
<1> QED
  BY <1>2, <1>3

-----------------------------------------------------------------------------
(* The loading threads.                                                    *)

\* A thread holds sessions until it publishes, a whole pool when it does; while its
\* model was not unloaded under it the slot holds it, and there is one such thread.
LoadOK ==
  /\ built \in [Loaders -> 0 .. PoolSize] /\ own \in [Loaders -> 0 .. MaxModels]
  /\ \A l \in Loaders :
       /\ loader[l] \notin {"build", "publish"} => built[l] = 0
       /\ loader[l] = "build" => built[l] < PoolSize
       /\ loader[l] = "publish" => built[l] = PoolSize
       /\ l \in raced => loader[l] \in Watch
       /\ loader[l] \in Watch /\ l \notin raced =>
            /\ loaded = own[l] /\ own[l] # 0
            /\ loader[l] = "undo" => ~models[loaded].valid
  /\ raced \subseteq Loaders
  /\ \A l, k \in Loaders \ raced :
       loader[l] \in Watch /\ loader[k] \in Watch => l = k

LEMMA LoadInit == Sessions!Init => LoadOK
BY BucketConstants DEF Sessions!Init, LoadOK, Watch

LEMMA LoadBuilds ==
  ASSUME SessionInv, LoadOK, NEW l \in Loaders,
         Sessions!StartLoad(l) \/ Sessions!BuildPool(l) \/ Sessions!BuildFails(l)
  PROVE  LoadOK'
<1>1. UNCHANGED <<loaded, models, own, raced>>
  BY DEF Sessions!StartLoad, Sessions!BuildPool, Sessions!BuildFails
<1>2. PICK v \in {"idle", "build", "publish"}, n \in 0 .. PoolSize :
        /\ loader' = [loader EXCEPT ![l] = v] /\ built' = [built EXCEPT ![l] = n]
        /\ loader[l] \notin Watch
        /\ v = "idle" => n = 0
        /\ v = "build" => n < PoolSize
        /\ v = "publish" => n = PoolSize
  <2>1. PoolSize \in Nat \ {0} /\ built[l] \in 0 .. PoolSize
    BY BucketConstants DEF LoadOK
  <2>2. CASE Sessions!StartLoad(l)
    <3>1. built[l] = 0 /\ built' = [built EXCEPT ![l] = 0] /\ loader' = [loader EXCEPT ![l] = "build"]
          /\ loader[l] \notin Watch
      <4>1. built[l] = 0
        BY <2>2 DEF Sessions!StartLoad, LoadOK
      <4>2. built' = [built EXCEPT ![l] = 0]
        BY <2>2, <4>1 DEF Sessions!StartLoad, LoadOK
      <4> QED
        BY <2>2, <4>1, <4>2 DEF Sessions!StartLoad, Watch
    <3>2. 0 \in 0 .. PoolSize /\ 0 < PoolSize
      BY <2>1
    <3> USE <3>2
    <3> WITNESS "build" \in {"idle", "build", "publish"}, 0 \in 0 .. PoolSize
    <3> QED
      BY <3>1, <3>2
  <2>3. CASE Sessions!BuildPool(l)
    <3>1. built[l] < PoolSize /\ loader[l] \notin Watch
      BY <2>3 DEF Sessions!BuildPool, LoadOK, Watch
    <3>2. /\ built' = [built EXCEPT ![l] = built[l] + 1]
          /\ loader' = [loader EXCEPT ![l] = IF built[l] + 1 = PoolSize THEN "publish" ELSE "build"]
      BY <2>3 DEF Sessions!BuildPool
    <3>3. built[l] + 1 \in 0 .. PoolSize
      BY <2>1, <3>1
    <3>4. CASE built[l] + 1 = PoolSize
      BY <3>1, <3>2, <3>3, <3>4
    <3>5. CASE built[l] + 1 # PoolSize
      <4>1. built[l] + 1 < PoolSize
        BY <2>1, <3>3, <3>5
      <4> QED
        BY <3>1, <3>2, <3>3, <3>5, <4>1
    <3> QED
      BY <3>4, <3>5
  <2>4. CASE Sessions!BuildFails(l)
    <3>1. built' = [built EXCEPT ![l] = 0] /\ loader' = [loader EXCEPT ![l] = "idle"]
          /\ loader[l] \notin Watch
      BY <2>4 DEF Sessions!BuildFails, Watch
    <3>2. 0 \in 0 .. PoolSize
      BY <2>1
    <3> USE <3>2
    <3> WITNESS "idle" \in {"idle", "build", "publish"}, 0 \in 0 .. PoolSize
    <3> QED
      BY <3>1
  <2> QED
    BY <2>2, <2>3, <2>4
<1>3. \A k \in Loaders : /\ loader'[k] = IF k = l THEN v ELSE loader[k]
                         /\ built'[k] = IF k = l THEN n ELSE built[k]
  BY <1>2 DEF SessionInv, SlotWatched, LoadOK
<1>4. v \notin Watch
  BY DEF Watch
<1>5. built' \in [Loaders -> 0 .. PoolSize]
  BY <1>2 DEF LoadOK
<1>6. \A k \in Loaders : loader'[k] \in Watch => loader'[k] = loader[k] /\ k # l
  BY <1>3, <1>4
<1>7. \A k \in Loaders : k \in raced => loader'[k] \in Watch
  BY <1>2, <1>3 DEF LoadOK
<1> QED
  BY <1>1, <1>2, <1>3, <1>5, <1>6, <1>7 DEF LoadOK, Watch

LEMMA LoadPublishes ==
  ASSUME SessionInv, LoadOK, NEW l \in Loaders, Sessions!Publish(l)
  PROVE  LoadOK'
<1>1. /\ loader[l] = "publish" /\ UNCHANGED raced /\ built' = [built EXCEPT ![l] = 0]
  BY DEF Sessions!Publish
<1>2. /\ built' \in [Loaders -> 0 .. PoolSize]
      /\ \A k \in Loaders : built'[k] = IF k = l THEN 0 ELSE built[k]
  BY <1>1, BucketConstants DEF LoadOK
<1>3. l \notin raced
  BY <1>1 DEF LoadOK, Watch
<1>4. CASE loaded # 0
  <2>1. UNCHANGED <<loaded, models, own>> /\ loader' = [loader EXCEPT ![l] = "idle"]
    BY <1>4 DEF Sessions!Publish
  <2>2. \A k \in Loaders : loader'[k] = IF k = l THEN "idle" ELSE loader[k]
    BY <2>1 DEF SessionInv, SlotWatched
  <2> QED
    BY <1>1, <1>2, <1>3, <2>1, <2>2 DEF LoadOK, Watch
<1>5. CASE loaded = 0
  <2>1. PICK m \in Sessions!Models : loaded' = m /\ own' = [own EXCEPT ![l] = m]
    BY <1>5 DEF Sessions!Publish, Sessions!Least
  <2>2. loader' = [loader EXCEPT ![l] = "validate"]
    BY <1>5 DEF Sessions!Publish
  <2>3. m \in 0 .. MaxModels /\ m # 0
    BY BucketConstants DEF Sessions!Models
  <2>4. \A k \in Loaders : /\ loader'[k] = IF k = l THEN "validate" ELSE loader[k]
                           /\ own'[k] = IF k = l THEN m ELSE own[k]
    BY <2>1, <2>2 DEF SessionInv, SlotWatched, LoadOK
  <2>5. own' \in [Loaders -> 0 .. MaxModels]
    BY <2>1, <2>3 DEF LoadOK
  <2>6. \A k \in Loaders : loader[k] \in Watch => k \in raced
    BY <1>5 DEF LoadOK
  <2> QED
    BY <1>1, <1>2, <1>3, <2>1, <2>3, <2>4, <2>5, <2>6 DEF LoadOK, Watch
<1> QED
  BY <1>4, <1>5

LEMMA LoadValidates ==
  ASSUME SessionInv, LoadOK, NEW l \in Loaders, Sessions!Validate(l)
  PROVE  LoadOK'
<1>1. loader[l] = "validate" /\ UNCHANGED <<loaded, models, built>> /\ built[l] = 0
  BY DEF Sessions!Validate, LoadOK
<1>2. CASE loaded # 0 /\ models[loaded].valid
  <2>1. /\ loader' = [loader EXCEPT ![l] = "idle"] /\ own' = [own EXCEPT ![l] = 0]
        /\ raced' = raced \ {l}
    BY <1>2 DEF Sessions!Validate, Sessions!Return
  <2>2. \A k \in Loaders : /\ loader'[k] = IF k = l THEN "idle" ELSE loader[k]
                           /\ own'[k] = IF k = l THEN 0 ELSE own[k]
    BY <2>1 DEF SessionInv, SlotWatched, LoadOK
  <2>3. own' \in [Loaders -> 0 .. MaxModels]
    BY <2>1, BucketConstants DEF LoadOK
  <2> QED
    BY <1>1, <2>1, <2>2, <2>3 DEF LoadOK, Watch
<1>3. CASE ~(loaded # 0 /\ models[loaded].valid)
  <2>1. loader' = [loader EXCEPT ![l] = "undo"] /\ UNCHANGED <<own, raced>>
    BY <1>3 DEF Sessions!Validate
  <2>2. \A k \in Loaders : loader'[k] = IF k = l THEN "undo" ELSE loader[k]
    BY <2>1 DEF SessionInv, SlotWatched
  <2>3. l \notin raced => loaded # 0 /\ ~models[loaded].valid
    BY <1>1, <1>3 DEF LoadOK, Watch
  <2> QED
    BY <1>1, <2>1, <2>2, <2>3 DEF LoadOK, Watch
<1> QED
  BY <1>2, <1>3

\* An undo by a thread whose model was not unloaded under it leaves no other such
\* thread; every other one that empties the slot marks them all.
LEMMA LoadClears ==
  ASSUME SessionInv, LoadOK, Sessions!Unload \/ \E l \in Loaders : Sessions!Undo(l)
  PROVE  LoadOK'
<1>1. UNCHANGED built
  BY DEF Sessions!Unload, Sessions!Undo, Sessions!ClearSlot
<1>2. CASE Sessions!Unload
  <2>1. raced' = {k \in Loaders : loader[k] \in Watch} /\ UNCHANGED <<loader, own>>
    BY <1>2 DEF Sessions!Unload, Sessions!Watching, Watch
  <2> QED
    BY <1>1, <2>1 DEF LoadOK
<1>3. ASSUME NEW l \in Loaders, Sessions!Undo(l) PROVE LoadOK'
  <2>1. /\ loader[l] = "undo" /\ loader' = [loader EXCEPT ![l] = "idle"]
        /\ own' = [own EXCEPT ![l] = 0]
        /\ raced' = (IF l \in raced THEN {k \in Loaders : loader[k] \in Watch} ELSE raced) \ {l}
    BY <1>3 DEF Sessions!Undo, Sessions!Return, Sessions!Watching, Watch
  <2>2. \A k \in Loaders : loader'[k] = IF k = l THEN "idle" ELSE loader[k]
    BY <2>1 DEF SessionInv, SlotWatched
  <2>3. own' \in [Loaders -> 0 .. MaxModels]
    BY <2>1, BucketConstants DEF LoadOK
  <2>4. raced' = {k \in Loaders : k # l /\ loader[k] \in Watch}
    BY <2>1 DEF LoadOK, Watch
  <2>5. \A k \in Loaders : loader'[k] \in Watch <=> k \in raced'
    BY <2>2, <2>4 DEF Watch
  <2> QED
    BY <1>1, <2>1, <2>2, <2>3, <2>4, <2>5 DEF LoadOK, Watch
<1> QED
  BY <1>2, <1>3

LEMMA LoadNext ==
  ASSUME SessionInv, LoadOK, [Sessions!Next]_sessionVars, KeepsValid
  PROVE  LoadOK'
<1>1. ASSUME UNCHANGED <<loader, built, own, raced, loaded>> PROVE LoadOK'
  BY <1>1 DEF LoadOK, KeepsValid
<1>2. CASE Sessions!Unload
  BY <1>2, LoadClears
<1>3. ASSUME NEW l \in Loaders,
             \/ Sessions!StartLoad(l) \/ Sessions!BuildPool(l) \/ Sessions!BuildFails(l)
             \/ Sessions!Publish(l) \/ Sessions!Validate(l) \/ Sessions!Undo(l)
      PROVE  LoadOK'
  BY <1>3, LoadBuilds, LoadPublishes, LoadValidates, LoadClears
<1>4. ASSUME NEW c \in Calls,
             \/ Sessions!Begin(c) \/ Sessions!PrimaryPool(c) \/ Sessions!KnownBucket(c)
             \/ Sessions!NewBucket(c) \/ Sessions!Acquire(c) \/ Sessions!Grow(c)
             \/ Sessions!End(c)
      PROVE  UNCHANGED <<loader, built, own, raced, loaded>>
  BY <1>4 DEF Sessions!Begin, Sessions!PrimaryPool, Sessions!KnownBucket, Sessions!NewBucket,
              Sessions!Acquire, Sessions!Grow, Sessions!End
<1>5. CASE UNCHANGED sessionVars
  BY <1>1, <1>5 DEF sessionVars
<1> QED
  BY <1>1, <1>2, <1>3, <1>4, <1>5 DEF Sessions!Next

-----------------------------------------------------------------------------
(* The sessions of the pools.                                              *)

\* A call has a pool from the lookup on, one of the model it looked up.
HasItsPool(r) ==
  /\ r.at \in {"idle", "pool"} <=> r.pool = Sessions!NoPool
  /\ r.at = "idle" => r.model = 0
  /\ r.pool # Sessions!NoPool => r.pool[1] = r.model

\* Pools in use have sessions, no fewer than run.
Sized ==
  /\ size \in [Sessions!Pools -> 0 .. PoolSize]
  /\ \A c \in Calls : HasItsPool(call[c])
  /\ \A p \in Sessions!Alive : size[p] > 0 /\ Sessions!Running(p) <= size[p]

PoolsInv == SessionInv /\ Sized /\ LoadOK

Runs(p) == {c \in Calls : call[c].at = "run" /\ call[c].pool = p}

LEMMA RunsFinite ==
  ASSUME NEW p
  PROVE  /\ IsFiniteSet(Runs(p)) /\ Cardinality(Runs(p)) \in Nat
         /\ Sessions!Running(p) = Cardinality(Runs(p))
<1>1. IsFiniteSet(Runs(p))
  BY BucketConstants, FS_Subset DEF Runs
<1>2. Sessions!Running(p) = Cardinality(Runs(p))
  BY DEF Sessions!Running, Runs, Sessions!Cardinality, Cardinality
<1> QED
  BY <1>1, <1>2, FS_CardinalityType

\* The same after a step.
LEMMA RunsFiniteNext ==
  ASSUME NEW p
  PROVE  /\ IsFiniteSet(Runs(p)') /\ Cardinality(Runs(p)') \in Nat
         /\ Sessions!Running(p)' = Cardinality(Runs(p)')
<1>1. IsFiniteSet(Runs(p)')
  BY BucketConstants, FS_Subset DEF Runs
<1>2. Sessions!Running(p)' = Cardinality(Runs(p)')
  BY DEF Sessions!Running, Runs, Sessions!Cardinality, Cardinality
<1> QED
  BY <1>1, <1>2, FS_CardinalityType

LEMMA NobodyRuns ==
  ASSUME NEW p, \A c \in Calls : call[c].pool # p
  PROVE  Sessions!Running(p) = 0
<1>1. Runs(p) = {}
  BY DEF Runs
<1> QED
  BY <1>1, RunsFinite, FS_EmptySet

LEMMA SizedInit == Sessions!Init => Sized
<1> SUFFICES ASSUME Sessions!Init PROVE Sized
  OBVIOUS
<1>1. \A c \in Calls : call[c] = Sessions!NoCall
  BY DEF Sessions!Init
<1>2. HasItsPool(Sessions!NoCall) /\ Sessions!NoCall.pool = Sessions!NoPool
      /\ Sessions!NoCall.model = 0
  BY DEF HasItsPool, Sessions!NoCall
<1>3. Sessions!Alive = {}
  <2>1. Sessions!LiveModels = {}
    BY <1>1, <1>2 DEF Sessions!LiveModels, Sessions!Init
  <2> QED
    BY <1>1, <1>2, <2>1 DEF Sessions!Alive
<1>4. size \in [Sessions!Pools -> 0 .. PoolSize]
  BY BucketConstants DEF Sessions!Init
<1> QED
  BY <1>1, <1>2, <1>3, <1>4 DEF Sized

LEMMA NoPoolIsNone == Sessions!NoPool \notin Sessions!Pools
BY DEF Sessions!NoPool, Sessions!Pools

LEMMA PrimaryIsPool ==
  ASSUME NEW m \in Sessions!Models
  PROVE  Sessions!primary_pool(m) \in Sessions!Pools /\ Sessions!primary_pool(m)[1] = m
<1>1. Sessions!Cardinality(Calls) = Cardinality(Calls)
  BY DEF Sessions!Cardinality, Cardinality
<1>2. Sessions!Cardinality(Calls) \in Nat
  BY <1>1, BucketConstants, FS_CardinalityType
<1> QED
  BY <1>2 DEF Sessions!primary_pool, Sessions!Pools

\* Whoever is alive is a pool, of a live model unless a call has it.
LEMMA AliveArePools ==
  ASSUME PoolsInv
  PROVE  /\ Sessions!Alive \subseteq Sessions!Pools
         /\ \A p \in Sessions!Alive : p[1] \in Sessions!LiveModels
<1>1. Sessions!LiveModels \subseteq Sessions!Models
  BY LiveIsModel DEF PoolsInv, SessionInv, SlotWatched
<1>2. \A c \in Calls : call[c].pool # Sessions!NoPool =>
        call[c].pool \in Sessions!Pools /\ call[c].pool[1] \in Sessions!LiveModels
  <2> SUFFICES ASSUME NEW c \in Calls, call[c].pool # Sessions!NoPool
               PROVE  call[c].pool \in Sessions!Pools /\ call[c].pool[1] \in Sessions!LiveModels
    OBVIOUS
  <2>1. call[c] \in CallRecords /\ HasItsPool(call[c])
    BY DEF PoolsInv, SessionInv, CallsBound, Sized
  <2>2. call[c].at # "idle" /\ call[c].pool[1] = call[c].model
    BY <2>1 DEF HasItsPool
  <2>3. call[c].model # 0
    BY <2>2 DEF PoolsInv, SessionInv, CallsBound
  <2> QED
    BY <2>1, <2>2, <2>3 DEF CallRecords, Sessions!LiveModels
<1>3. \A m \in Sessions!LiveModels : \A p \in Sessions!PoolsOf(m) :
        p \in Sessions!Pools /\ p[1] = m
  <2> SUFFICES ASSUME NEW m \in Sessions!LiveModels, NEW p \in Sessions!PoolsOf(m)
               PROVE  p \in Sessions!Pools /\ p[1] = m
    OBVIOUS
  <2>1. QueueOK(m, models[m], Sessions!secondary_capacity)
    BY <1>1 DEF PoolsInv, SessionInv, Queues
  <2>2. CASE p = Sessions!primary_pool(m)
    BY <1>1, <2>2, PrimaryIsPool
  <2>3. CASE p \in Sessions!Range(models[m].sessions)
    BY <2>1, <2>3 DEF QueueOK, Sessions!Range
  <2> QED
    BY <2>2, <2>3 DEF Sessions!PoolsOf
<1> QED
  BY <1>2, <1>3 DEF Sessions!Alive

\* No call starts to run in p.
LEMMA FewerRuns ==
  ASSUME NEW p,
         \A c \in Calls : call'[c].at = "run" /\ call'[c].pool = p =>
                            call[c].at = "run" /\ call[c].pool = p
  PROVE  Sessions!Running(p)' <= Sessions!Running(p)
<1>1. Runs(p)' \subseteq Runs(p)
  BY DEF Runs
<1>2. Cardinality(Runs(p)') <= Cardinality(Runs(p))
  BY <1>1, RunsFinite, FS_Subset
<1> QED
  BY <1>2, RunsFinite, RunsFiniteNext

\* What is alive after a step is what was and what it created.
LEMMA AliveAfter ==
  ASSUME NEW new,
         \A m \in Sessions!LiveModels' :
           /\ Sessions!primary_pool(m) \in Sessions!Alive \union new
           /\ Sessions!Range(models'[m].sessions) \subseteq Sessions!Alive \union new,
         \A c \in Calls : call'[c].pool \in Sessions!Alive \union new \union {Sessions!NoPool}
  PROVE  Sessions!Alive' \subseteq Sessions!Alive \union new
<1> DEFINE A == Sessions!Alive \union new
<1>1. \A m \in Sessions!LiveModels' : Sessions!PoolsOf(m)' \subseteq A
  <2> SUFFICES ASSUME NEW m \in Sessions!LiveModels' PROVE Sessions!PoolsOf(m)' \subseteq A
    OBVIOUS
  <2>1. Sessions!PoolsOf(m)' =
          {Sessions!primary_pool(m)} \union Sessions!Range(models'[m].sessions)
    BY DEF Sessions!PoolsOf, Sessions!primary_pool, Sessions!Range
  <2> QED
    BY <2>1
<1>2. \A c \in Calls : call'[c].pool \in A \union {Sessions!NoPool}
  OBVIOUS
<1> HIDE DEF A
<1>3. Sessions!Alive' \subseteq A
  BY <1>1, <1>2 DEF Sessions!Alive
<1> QED
  BY <1>3 DEF A

\* Sizes change for the better or where nobody refers to the pool any more.
LEMMA SizesAfter ==
  ASSUME PoolsInv, NEW f \in [Sessions!Pools -> 0 .. PoolSize],
         size' = f \/ size' = Sessions!DropPools(f),
         \A c \in Calls : HasItsPool(call'[c]),
         \A p \in Sessions!Alive' :
           p \in Sessions!Pools /\ f[p] > 0 /\ Sessions!Running(p)' <= f[p]
  PROVE  Sized'
<1>1. size' \in [Sessions!Pools -> 0 .. PoolSize]
  BY BucketConstants DEF Sessions!DropPools
<1>2. \A p \in Sessions!Alive' : size'[p] = f[p]
  BY DEF Sessions!DropPools
<1> QED
  BY <1>1, <1>2 DEF Sized

\* A step that creates no pool, loads no model and starts no run.
LEMMA NothingNew ==
  ASSUME PoolsInv, size' = size \/ size' = Sessions!DropPools(size),
         Sessions!LiveModels' \subseteq Sessions!LiveModels,
         \A m \in Sessions!LiveModels' :
           Sessions!Range(models'[m].sessions) \subseteq Sessions!Range(models[m].sessions),
         \A c \in Calls :
           /\ HasItsPool(call'[c])
           /\ call'[c].pool \in Sessions!Alive \union {Sessions!NoPool}
           /\ call'[c].at = "run" => call[c].at = "run" /\ call'[c].pool = call[c].pool
  PROVE  Sized'
<1>1. \A m \in Sessions!LiveModels : Sessions!PoolsOf(m) \subseteq Sessions!Alive
  BY DEF Sessions!Alive
<1>2. Sessions!Alive' \subseteq Sessions!Alive \union {}
  BY <1>1, AliveAfter DEF Sessions!PoolsOf
<1>3. ASSUME NEW p \in Sessions!Alive'
      PROVE  p \in Sessions!Pools /\ size[p] > 0 /\ Sessions!Running(p)' <= size[p]
  <2>1. p \in Sessions!Alive
    BY <1>2
  <2>2. Sessions!Running(p)' <= Sessions!Running(p)
    BY FewerRuns
  <2>3. size[p] \in Nat /\ size[p] > 0 /\ Sessions!Running(p) <= size[p] /\ p \in Sessions!Pools
    BY <2>1, AliveArePools, BucketConstants DEF PoolsInv, Sized
  <2> QED
    BY <2>2, <2>3, RunsFinite, RunsFiniteNext
<1>4. size \in [Sessions!Pools -> 0 .. PoolSize]
  BY DEF PoolsInv, Sized
<1> QED
  BY <1>3, <1>4, SizesAfter

LEMMA PoolOfCall ==
  ASSUME PoolsInv, NEW c \in Calls
  PROVE  /\ HasItsPool(call[c]) /\ call[c] \in CallRecords
         /\ call[c].pool \in Sessions!Alive \union {Sessions!NoPool}
         /\ call[c].model # 0 => call[c].model \in Sessions!LiveModels
BY DEF PoolsInv, Sized, SessionInv, CallsBound, Sessions!Alive, Sessions!LiveModels

LEMMA SizedLoaders ==
  ASSUME PoolsInv, UNCHANGED <<loaded, models, call, size>>
  PROVE  Sized'
<1>1. Sessions!LiveModels' = Sessions!LiveModels
  BY DEF Sessions!LiveModels
<1> QED
  BY <1>1, NothingNew, PoolOfCall

LEMMA SizedClear ==
  ASSUME PoolsInv, Sessions!ClearSlot, size' = Sessions!DropPools(size)
  PROVE  Sized'
<1>1. Sessions!LiveModels' \subseteq Sessions!LiveModels
  BY DEF Sessions!LiveModels, Sessions!ClearSlot
<1>2. \A m \in Sessions!LiveModels' : models'[m] = models[m]
  <2>1. Sessions!LiveModels \subseteq Sessions!Models
    BY LiveIsModel DEF PoolsInv, SessionInv, SlotWatched
  <2> QED
    BY <1>1, <2>1 DEF Sessions!ClearSlot, Sessions!DropModels
<1>3. UNCHANGED call
  BY DEF Sessions!ClearSlot
<1> QED
  BY <1>1, <1>2, <1>3, NothingNew, PoolOfCall

\* A new model's primary pool is nobody's: calls have pools of models they use.
LEMMA SizedPublish ==
  ASSUME PoolsInv, NEW l \in Loaders, Sessions!Publish(l), loaded = 0
  PROVE  Sized'
<1>1. PICK m \in Sessions!Models \ Sessions!LiveModels, ok \in BOOLEAN :
        /\ loaded' = m /\ models' = [models EXCEPT ![m] = Sessions!LoadedModel(ok)]
        /\ size' = [size EXCEPT ![Sessions!primary_pool(m)] = PoolSize]
  <2>1. built[l] = PoolSize
    BY DEF Sessions!Publish, PoolsInv, LoadOK
  <2> QED
    BY <2>1 DEF Sessions!Publish, Sessions!Least
<1>2. UNCHANGED call
  BY DEF Sessions!Publish
<1> DEFINE q == Sessions!primary_pool(m)
<1>3. q \in Sessions!Pools /\ q \notin Sessions!Alive
  BY PrimaryIsPool, AliveArePools
<1>4. Sessions!LiveModels' = Sessions!LiveModels \union {m}
  BY <1>1, <1>2, BucketConstants DEF Sessions!LiveModels, Sessions!Models
<1>5. Sessions!Alive' \subseteq Sessions!Alive \union {q}
  <2>1. \A k \in Sessions!LiveModels : Sessions!PoolsOf(k) \subseteq Sessions!Alive
    BY DEF Sessions!Alive
  <2>2. \A k \in Sessions!LiveModels : models'[k] = models[k]
    BY <1>1 DEF PoolsInv, SessionInv, Queues
  <2>3. models'[m].sessions = <<>>
    BY <1>1 DEF PoolsInv, SessionInv, Queues, Sessions!LoadedModel
  <2>4. Sessions!Range(models'[m].sessions) = {}
    BY <2>3 DEF Sessions!Range
  <2> QED
    BY <1>2, <1>4, <2>1, <2>2, <2>4, AliveAfter, PoolOfCall DEF Sessions!PoolsOf
<1>6. [size EXCEPT ![q] = PoolSize] \in [Sessions!Pools -> 0 .. PoolSize]
  <2>1. PoolSize \in 0 .. PoolSize /\ size \in [Sessions!Pools -> 0 .. PoolSize]
    BY BucketConstants DEF PoolsInv, Sized
  <2> HIDE DEF q
  <2> QED
    BY <2>1
<1> DEFINE f == [size EXCEPT ![q] = PoolSize]
<1>7. f[q] = PoolSize /\ \A p \in Sessions!Alive : f[p] = size[p]
  BY <1>3 DEF PoolsInv, Sized
<1> HIDE DEF f, q
<1>8. ASSUME NEW p \in Sessions!Alive'
      PROVE  p \in Sessions!Pools /\ f[p] > 0 /\ Sessions!Running(p)' <= f[p]
  <2>1. Sessions!Running(p)' = Sessions!Running(p)
    BY <1>2 DEF Sessions!Running
  <2>2. CASE p = q
    <3>1. \A c \in Calls : call[c].pool # q
      BY <1>3, NoPoolIsNone, PoolOfCall
    <3> QED
      BY <1>3, <1>7, <2>1, <2>2, <3>1, NobodyRuns, BucketConstants
  <2>3. CASE p \in Sessions!Alive
    BY <1>7, <2>1, <2>3, AliveArePools DEF PoolsInv, Sized
  <2> QED
    BY <1>5, <2>2, <2>3
<1> QED
  BY <1>1, <1>2, <1>6, <1>8, SizesAfter, PoolOfCall DEF f, q

\* A call whose record becomes r: it starts no run and has no new pool.
LEMMA CallMoves ==
  ASSUME PoolsInv, NEW c \in Calls, NEW r, call' = [call EXCEPT ![c] = r], HasItsPool(r),
         r.pool \in Sessions!Alive \union {Sessions!NoPool},
         r.model \in Sessions!LiveModels \union {0},
         r.at = "run" => call[c].at = "run" /\ r.pool = call[c].pool,
         UNCHANGED loaded, size' = size \/ size' = Sessions!DropPools(size),
         NEW f, models' = f \/ models' = Sessions!DropModels(f),
         \A m \in Sessions!LiveModels :
           Sessions!Range(f[m].sessions) \subseteq Sessions!Range(models[m].sessions)
  PROVE  Sized'
<1>1. \A d \in Calls : call'[d] = IF d = c THEN r ELSE call[d]
  BY DEF PoolsInv, SessionInv, CallsBound
<1>2. Sessions!LiveModels' \subseteq Sessions!LiveModels
  <2>1. \A d \in Calls : call'[d].model \in Sessions!LiveModels \union {0}
    BY <1>1, PoolOfCall
  <2>2. loaded' \in Sessions!LiveModels \union {0}
    BY DEF Sessions!LiveModels
  <2>3. Sessions!LiveModels' = ({loaded'} \union {call'[d].model : d \in Calls}) \ {0}
    BY DEF Sessions!LiveModels
  <2> QED
    BY <2>1, <2>2, <2>3
<1>3. \A m \in Sessions!LiveModels' : models'[m] = f[m]
  <2>1. Sessions!LiveModels \subseteq Sessions!Models
    BY LiveIsModel DEF PoolsInv, SessionInv, SlotWatched
  <2> QED
    BY <1>2, <2>1 DEF Sessions!DropModels
<1> QED
  BY <1>1, <1>2, <1>3, NothingNew, PoolOfCall

LEMMA NoCallHasNone ==
  /\ HasItsPool(Sessions!NoCall) /\ Sessions!NoCall.pool = Sessions!NoPool
  /\ Sessions!NoCall.model = 0 /\ Sessions!NoCall.at = "idle"
BY DEF HasItsPool, Sessions!NoCall

LEMMA SizedBegin ==
  ASSUME PoolsInv, NEW c \in Calls, Sessions!Begin(c) PROVE Sized'
<1>1. PICK b : call' = [call EXCEPT ![c] =
        [Sessions!NoCall EXCEPT !.at = "pool", !.model = loaded, !.bucket = b]]
  BY DEF Sessions!Begin
<1> DEFINE r == [Sessions!NoCall EXCEPT !.at = "pool", !.model = loaded, !.bucket = b]
<1>2. HasItsPool(r) /\ r.pool = Sessions!NoPool /\ r.model = loaded /\ r.at = "pool"
  BY DEF HasItsPool, Sessions!NoCall
<1>3. loaded \in Sessions!LiveModels
  BY DEF Sessions!Begin, Sessions!LiveModels
<1>4. UNCHANGED <<loaded, models, size>>
  BY DEF Sessions!Begin
<1> HIDE DEF r
<1> QED
  BY <1>1, <1>2, <1>3, <1>4, CallMoves DEF r

LEMMA SizedEnd ==
  ASSUME PoolsInv, NEW c \in Calls, Sessions!End(c) PROVE Sized'
<1>1. /\ call' = [call EXCEPT ![c] = Sessions!NoCall] /\ UNCHANGED loaded
      /\ models' = Sessions!DropModels(models) /\ size' = Sessions!DropPools(size)
  BY DEF Sessions!End
<1> QED
  BY <1>1, NoCallHasNone, CallMoves

\* The record of a call that was given pool p.
Given(c, p) == [call[c] EXCEPT !.at = "acquire", !.pool = p]

LEMMA GivenPool ==
  ASSUME PoolsInv, NEW c \in Calls, call[c].at = "pool", NEW p \in Sessions!Pools,
         p[1] = call[c].model, call' = [call EXCEPT ![c].at = "acquire", ![c].pool = p]
  PROVE  /\ call' = [call EXCEPT ![c] = Given(c, p)] /\ HasItsPool(Given(c, p))
         /\ Given(c, p).pool = p /\ Given(c, p).at = "acquire"
         /\ Given(c, p).model = call[c].model
         /\ call[c].model \in Sessions!LiveModels /\ call[c].model \in Sessions!Models
<1>1. call[c] \in CallRecords /\ call[c].model # 0
  BY DEF PoolsInv, SessionInv, CallsBound
<1>2. /\ Given(c, p).pool = p /\ Given(c, p).at = "acquire"
      /\ Given(c, p).model = call[c].model
  BY <1>1 DEF Given, CallRecords
<1>3. call' = [call EXCEPT ![c] = Given(c, p)]
  BY DEF Given
<1>4. HasItsPool(Given(c, p))
  BY <1>1, <1>2, NoPoolIsNone DEF HasItsPool
<1>5. call[c].model \in Sessions!Models
  BY CallOf DEF PoolsInv
<1> QED
  BY <1>1, <1>2, <1>3, <1>4, <1>5, PoolOfCall

\* A call that is given a pool of its model's.
LEMMA GivenKnown ==
  ASSUME PoolsInv, NEW c \in Calls, call[c].at = "pool", NEW p \in Sessions!Pools,
         p[1] = call[c].model, p \in Sessions!Alive,
         call' = [call EXCEPT ![c].at = "acquire", ![c].pool = p], UNCHANGED <<loaded, size>>,
         \A k \in Sessions!LiveModels : models'[k].sessions = models[k].sessions
  PROVE  Sized'
<1> DEFINE r == Given(c, p)
<1>1. /\ call' = [call EXCEPT ![c] = r] /\ HasItsPool(r) /\ r.pool = p /\ r.at = "acquire"
      /\ r.model \in Sessions!LiveModels
  BY GivenPool
<1> HIDE DEF r
<1>2. r.at # "run" /\ size' = size /\ loaded' = loaded
  BY <1>1
<1>3. \A k \in Sessions!LiveModels :
        Sessions!Range(models'[k].sessions) \subseteq Sessions!Range(models[k].sessions)
  OBVIOUS
<1> QED
  BY <1>1, <1>2, <1>3, CallMoves

LEMMA SizedPrimary ==
  ASSUME PoolsInv, NEW c \in Calls, Sessions!PrimaryPool(c) PROVE Sized'
<1> DEFINE m == call[c].model
           p == Sessions!primary_pool(m)
<1>1. /\ call[c].at = "pool" /\ call' = [call EXCEPT ![c].at = "acquire", ![c].pool = p]
      /\ UNCHANGED <<loaded, size>>
      /\ models' = IF limit <= 1 THEN models
                   ELSE [models EXCEPT ![m].primary_bucket_key = call[c].bucket,
                                       ![m].since = Sessions!Asked(m, call[c].bucket)]
  BY DEF Sessions!PrimaryPool
<1>2. m \in Sessions!Models /\ QueueOK(m, models[m], Sessions!secondary_capacity)
  BY <1>1, CallOf DEF PoolsInv
<1>3. p \in Sessions!Pools /\ p[1] = m
  BY <1>2, PrimaryIsPool
<1>4. \A k \in Sessions!Models : models'[k].sessions = models[k].sessions
  <2>1. DOMAIN models = Sessions!Models
    BY DEF PoolsInv, SessionInv, Queues
  <2>2. \A k \in Sessions!Models : k # m => models'[k] = models[k]
    BY <1>1, <2>1
  <2>3. models'[m].sessions = models[m].sessions
    <3>1. DOMAIN models[m] = ModelFields
      BY <1>2 DEF QueueOK
    <3> QED
      BY <1>1, <1>2, <2>1, <3>1 DEF ModelFields
  <2> QED
    BY <2>2, <2>3
<1>5. Sessions!LiveModels \subseteq Sessions!Models
  BY LiveIsModel DEF PoolsInv, SessionInv, SlotWatched
<1> HIDE DEF p
<1>6. m \in Sessions!LiveModels /\ p \in Sessions!Alive
  <2>1. m \in Sessions!LiveModels
    BY <1>1, <1>3, GivenPool
  <2> QED
    BY <2>1 DEF Sessions!Alive, Sessions!PoolsOf, p
<1> QED
  BY <1>1, <1>3, <1>4, <1>5, <1>6, GivenKnown

LEMMA SizedKnown ==
  ASSUME PoolsInv, NEW c \in Calls, Sessions!KnownBucket(c) PROVE Sized'
<1> DEFINE m == call[c].model
           b == call[c].bucket
           p == models[m].sessions[b]
<1>1. /\ call[c].at = "pool" /\ b \in DOMAIN models[m].sessions
      /\ call' = [call EXCEPT ![c].at = "acquire", ![c].pool = p]
      /\ UNCHANGED <<loaded, size>>
      /\ models' = [models EXCEPT ![m].lru = Sessions!touch_bucket_lru(@, b),
                                  ![m].since = Sessions!Asked(m, b)]
  BY DEF Sessions!KnownBucket
<1>2. m \in Sessions!Models /\ QueueOK(m, models[m], Sessions!secondary_capacity)
  BY <1>1, CallOf DEF PoolsInv
<1>3. p \in Sessions!Pools /\ p[1] = m
  BY <1>1, <1>2 DEF QueueOK
<1>4. \A k \in Sessions!Models : models'[k].sessions = models[k].sessions
  <2>1. DOMAIN models = Sessions!Models
    BY DEF PoolsInv, SessionInv, Queues
  <2>2. \A k \in Sessions!Models : k # m => models'[k] = models[k]
    BY <1>1, <2>1
  <2>3. models'[m].sessions = models[m].sessions
    <3>1. DOMAIN models[m] = ModelFields
      BY <1>2 DEF QueueOK
    <3> QED
      BY <1>1, <1>2, <2>1, <3>1 DEF ModelFields
  <2> QED
    BY <2>2, <2>3
<1>5. Sessions!LiveModels \subseteq Sessions!Models
  BY LiveIsModel DEF PoolsInv, SessionInv, SlotWatched
<1>6. m \in Sessions!LiveModels /\ p \in Sessions!Alive
  <2>1. m \in Sessions!LiveModels
    BY <1>1, <1>3, GivenPool
  <2>2. p \in Sessions!Range(models[m].sessions)
    BY <1>1 DEF Sessions!Range
  <2> QED
    BY <2>1, <2>2 DEF Sessions!Alive, Sessions!PoolsOf
<1> HIDE DEF p
<1> QED
  BY <1>1, <1>3, <1>4, <1>5, <1>6, GivenKnown

\* What a call evicts is no longer its model's; a new pool has a session nobody runs.
LEMMA SizedNew ==
  ASSUME PoolsInv, NEW c \in Calls, Sessions!NewBucket(c) PROVE Sized'
<1> DEFINE m == call[c].model
           b == call[c].bucket
           room == Sessions!Evict(models[m].lru, models[m].sessions)
<1>1. call[c].at = "pool" /\ UNCHANGED loaded
  BY DEF Sessions!NewBucket
<1>2. /\ m \in Sessions!Models /\ b \in Buckets /\ DOMAIN models = Sessions!Models
      /\ QueueOK(m, models[m], Sessions!secondary_capacity)
  BY <1>1, CallOf DEF PoolsInv, SessionInv, Queues
<1>3. m \in Sessions!LiveModels /\ Sessions!LiveModels \subseteq Sessions!Models
  <2>1. m # 0
    BY <1>1 DEF PoolsInv, SessionInv, CallsBound
  <2> QED
    BY <2>1, PoolOfCall, LiveIsModel DEF PoolsInv, SessionInv, SlotWatched
<1>4. \A x \in DOMAIN room.sessions :
        x \in DOMAIN models[m].sessions /\ room.sessions[x] = models[m].sessions[x]
  <2>1. Sessions!secondary_capacity \in Nat \ {0}
    BY BucketConstants, Capacity DEF PoolsInv, SessionInv
  <2> QED
    BY <1>2, <2>1, Evicted
<1>5. Sessions!Range(room.sessions) \subseteq Sessions!Range(models[m].sessions)
  BY <1>4 DEF Sessions!Range
<1>6. DOMAIN models[m] = ModelFields
  BY <1>2 DEF QueueOK
<1> HIDE DEF room
<1>7. CASE /\ call' = [call EXCEPT ![c] = Sessions!NoCall]
           /\ models' = Sessions!DropModels(
                [models EXCEPT ![m].lru = room.lru, ![m].sessions = room.sessions,
                               ![m].since = Sessions!Asked(m, b)])
           /\ size' = Sessions!DropPools(size)
  <2> DEFINE f == [models EXCEPT ![m].lru = room.lru, ![m].sessions = room.sessions,
                                 ![m].since = Sessions!Asked(m, b)]
  <2>1. f[m].sessions = room.sessions
    BY <1>2, <1>6 DEF ModelFields
  <2>2. \A k \in Sessions!Models : k # m => f[k] = models[k]
    BY <1>2
  <2> HIDE DEF f
  <2>3. \A k \in Sessions!LiveModels :
          Sessions!Range(f[k].sessions) \subseteq Sessions!Range(models[k].sessions)
    BY <1>3, <1>5, <2>1, <2>2
  <2>4. models' = Sessions!DropModels(f)
    BY <1>7 DEF f
  <2> QED
    BY <1>1, <1>7, <2>3, <2>4, NoCallHasNone, CallMoves
<1>8. ASSUME NEW p \in Sessions!Pools, p[1] = m, p[2] = b, p \notin Sessions!Alive,
             call' = [call EXCEPT ![c].at = "acquire", ![c].pool = p],
             models' = [models EXCEPT
                   ![m].lru = Sessions!touch_bucket_lru(room.lru, b),
                   ![m].sessions = [x \in DOMAIN room.sessions \union {b} |->
                                       IF x = b THEN p ELSE room.sessions[x]],
                   ![m].since = Sessions!Asked(m, b)],
             size' = Sessions!DropPools([size EXCEPT ![p] = 1])
      PROVE  Sized'
  <2> DEFINE t == [x \in DOMAIN room.sessions \union {b} |->
                     IF x = b THEN p ELSE room.sessions[x]]
             f == [size EXCEPT ![p] = 1]
             r == Given(c, p)
  <2>1. models'[m].sessions = t
    BY <1>2, <1>6, <1>8 DEF ModelFields
  <2>2. \A k \in Sessions!Models : k # m => models'[k] = models[k]
    BY <1>2, <1>8
  <2>3. Sessions!Range(t) \subseteq Sessions!Range(models[m].sessions) \union {p}
    BY <1>4 DEF Sessions!Range
  <2> HIDE DEF t
  <2>4. /\ call' = [call EXCEPT ![c] = r] /\ HasItsPool(r) /\ r.pool = p /\ r.at = "acquire"
        /\ r.model = m
    BY <1>1, <1>8, GivenPool
  <2> HIDE DEF r
  <2>5. \A d \in Calls : call'[d] = IF d = c THEN r ELSE call[d]
    BY <2>4 DEF PoolsInv, SessionInv, CallsBound
  <2>6. Sessions!LiveModels' \subseteq Sessions!LiveModels
    <3>1. \A d \in Calls : call'[d].model = call[d].model
      BY <2>4, <2>5
    <3> QED
      BY <1>1, <3>1 DEF Sessions!LiveModels
  <2>7. Sessions!Alive' \subseteq Sessions!Alive \union {p}
    <3>1. \A k \in Sessions!LiveModels : Sessions!PoolsOf(k) \subseteq Sessions!Alive
      BY DEF Sessions!Alive
    <3>2. \A k \in Sessions!LiveModels :
            Sessions!Range(models'[k].sessions) \subseteq Sessions!Alive \union {p}
      BY <1>3, <2>1, <2>2, <2>3, <3>1 DEF Sessions!PoolsOf
    <3>3. \A d \in Calls : call'[d].pool \in Sessions!Alive \union {p} \union {Sessions!NoPool}
      BY <2>4, <2>5, PoolOfCall
    <3>4. \A k \in Sessions!LiveModels : Sessions!primary_pool(k) \in Sessions!Alive
      BY <3>1 DEF Sessions!PoolsOf
    <3> QED
      BY <2>6, <3>2, <3>3, <3>4, AliveAfter
  <2>8. f \in [Sessions!Pools -> 0 .. PoolSize] /\ f[p] = 1
        /\ \A q \in Sessions!Alive : f[q] = size[q]
    <3>1. size \in [Sessions!Pools -> 0 .. PoolSize] /\ 1 \in 0 .. PoolSize
      BY BucketConstants DEF PoolsInv, Sized
    <3>2. Sessions!Alive \subseteq Sessions!Pools /\ p \notin Sessions!Alive
      BY <1>8, AliveArePools
    <3> QED
      BY <3>1, <3>2
  <2> HIDE DEF f
  <2>9. \A q : Sessions!Running(q)' <= Sessions!Running(q)
    BY <2>4, <2>5, FewerRuns
  <2>10. ASSUME NEW q \in Sessions!Alive'
         PROVE  q \in Sessions!Pools /\ f[q] > 0 /\ Sessions!Running(q)' <= f[q]
    <3>1. CASE q = p
      <4>1. \A d \in Calls : call[d].pool # p
        BY <1>8, NoPoolIsNone, PoolOfCall
      <4>2. Sessions!Running(p) = 0
        BY <4>1, NobodyRuns
      <4> QED
        BY <2>8, <2>9, <3>1, <4>2, RunsFiniteNext
    <3>2. CASE q \in Sessions!Alive
      <4>1. size[q] \in Nat /\ size[q] > 0 /\ Sessions!Running(q) <= size[q]
            /\ q \in Sessions!Pools
        BY <3>2, AliveArePools, BucketConstants DEF PoolsInv, Sized
      <4>2. Sessions!Running(q)' <= Sessions!Running(q)
        BY <2>9
      <4> QED
        BY <2>8, <3>2, <4>1, <4>2, RunsFinite, RunsFiniteNext
    <3> QED
      BY <2>7, <3>1, <3>2
  <2>11. size' = Sessions!DropPools(f)
    BY <1>8 DEF f
  <2>12. \A d \in Calls : HasItsPool(call'[d])
    BY <2>4, <2>5, PoolOfCall
  <2> QED
    BY <2>8, <2>10, <2>11, <2>12, SizesAfter
<1>9. Sessions!Cardinality(Calls) \in Nat
  <2>1. Sessions!Cardinality(Calls) = Cardinality(Calls)
    BY DEF Sessions!Cardinality, Cardinality
  <2> QED
    BY <2>1, BucketConstants, FS_CardinalityType
<1>10. \A n \in 0 .. Sessions!Cardinality(Calls) :
         <<m, b, n>> \in Sessions!Pools /\ <<m, b, n>>[1] = m /\ <<m, b, n>>[2] = b
  BY <1>2, <1>9 DEF Sessions!Pools, Buckets
<1>11. ASSUME ~(/\ call' = [call EXCEPT ![c] = Sessions!NoCall]
                /\ models' = Sessions!DropModels(
                     [models EXCEPT ![m].lru = room.lru, ![m].sessions = room.sessions,
                                    ![m].since = Sessions!Asked(m, b)])
                /\ size' = Sessions!DropPools(size))
       PROVE  Sized'
  <2>1. PICK p \in {<<m, b, n>> : n \in Sessions!Least({n \in 0 .. Sessions!Cardinality(Calls) : <<m, b, n>> \notin Sessions!Alive})} :
             /\ call' = [call EXCEPT ![c].at = "acquire", ![c].pool = p]
             /\ models' = [models EXCEPT
                   ![m].lru = Sessions!touch_bucket_lru(room.lru, b),
                   ![m].sessions = [x \in DOMAIN room.sessions \union {b} |->
                                       IF x = b THEN p ELSE room.sessions[x]],
                   ![m].since = Sessions!Asked(m, b)]
             /\ size' = Sessions!DropPools([size EXCEPT ![p] = 1])
    BY <1>11 DEF Sessions!NewBucket, room
  <2>2. p \in Sessions!Pools /\ p[1] = m /\ p[2] = b /\ p \notin Sessions!Alive
    BY <1>10 DEF Sessions!Least
  <2> QED
    BY <1>8, <2>1, <2>2
<1> QED
  BY <1>7, <1>11

\* A call starts to run in its pool, which has or is given a session for it.
LEMMA SizedRun ==
  ASSUME PoolsInv, NEW c \in Calls, Sessions!Acquire(c) \/ Sessions!Grow(c) PROVE Sized'
<1>0. PICK q : q = call[c].pool
  OBVIOUS
<1> DEFINE r == [call[c] EXCEPT !.at = "run"]
<1>1. /\ call[c].at = "acquire" /\ call' = [call EXCEPT ![c].at = "run"]
      /\ UNCHANGED <<loaded, models>>
  BY DEF Sessions!Acquire, Sessions!Grow
<1>2. call[c] \in CallRecords /\ HasItsPool(call[c])
  BY PoolOfCall
<1>3. call' = [call EXCEPT ![c] = r] /\ r.at = "run" /\ r.pool = q /\ r.model = call[c].model
  BY <1>0, <1>1, <1>2 DEF CallRecords
<1>4. HasItsPool(r) /\ q # Sessions!NoPool
  BY <1>0, <1>1, <1>2, <1>3 DEF HasItsPool
<1> HIDE DEF r
<1>5. \A d \in Calls : call'[d] = IF d = c THEN r ELSE call[d]
  BY <1>3 DEF PoolsInv, SessionInv, CallsBound
<1>6. q \in Sessions!Alive /\ q \in Sessions!Pools /\ size[q] \in 0 .. PoolSize
      /\ Sessions!Running(q) <= size[q]
  <2>1. q \in Sessions!Alive
    BY <1>0, <1>4, PoolOfCall
  <2> QED
    BY <2>1, AliveArePools DEF PoolsInv, Sized
<1>7. Sessions!Alive' \subseteq Sessions!Alive
  <2>1. \A d \in Calls : call'[d].model = call[d].model /\ call'[d].pool = call[d].pool
    BY <1>0, <1>3, <1>5
  <2> QED
    BY <1>1, <2>1 DEF Sessions!Alive, Sessions!LiveModels, Sessions!PoolsOf
<1>8. Sessions!Running(q)' = Sessions!Running(q) + 1
  <2>1. Runs(q)' = Runs(q) \union {c} /\ c \notin Runs(q)
    BY <1>1, <1>3, <1>5 DEF Runs
  <2> QED
    BY <2>1, RunsFinite, RunsFiniteNext, FS_AddElement
<1>9. \A p : p # q => Sessions!Running(p)' <= Sessions!Running(p)
  BY <1>3, <1>5, FewerRuns
<1>10. \A d \in Calls : HasItsPool(call'[d])
  BY <1>4, <1>5, PoolOfCall
<1>11. PICK f \in [Sessions!Pools -> 0 .. PoolSize] :
         size' = f /\ f[q] >= Sessions!Running(q) + 1 /\ f[q] > 0
         /\ \A p \in Sessions!Pools : p # q => f[p] = size[p]
  <2>1. size \in [Sessions!Pools -> 0 .. PoolSize] /\ Sessions!Running(q) \in Nat
    BY RunsFinite DEF PoolsInv, Sized
  <2>2. CASE Sessions!Acquire(c)
    <3>1. size' = size /\ Sessions!Running(q) < size[q]
      BY <1>0, <2>2 DEF Sessions!Acquire
    <3>2. size[q] >= Sessions!Running(q) + 1 /\ size[q] > 0
      BY <1>6, <2>1, <3>1, BucketConstants
    <3> QED
      BY <2>1, <3>1, <3>2
  <2>3. CASE Sessions!Grow(c)
    <3>1. /\ size' = [size EXCEPT ![q] = @ + 1] /\ Sessions!Running(q) = size[q]
          /\ size[q] < PoolSize
      BY <1>0, <2>3 DEF Sessions!Grow
    <3>2. size[q] + 1 \in 0 .. PoolSize /\ size[q] + 1 > 0
      BY <1>6, <3>1, BucketConstants
    <3> DEFINE v == size[q] + 1
               f == [size EXCEPT ![q] = v]
    <3> HIDE DEF v
    <3>3. f \in [Sessions!Pools -> 0 .. PoolSize] /\ f[q] = v
          /\ \A p \in Sessions!Pools : p # q => f[p] = size[p]
      BY <1>6, <2>1, <3>2 DEF v
    <3>4. size' = f /\ v >= Sessions!Running(q) + 1 /\ v > 0
      BY <1>6, <3>1, <3>2, BucketConstants DEF v
    <3> QED
      BY <3>3, <3>4
  <2> QED
    BY <2>2, <2>3
<1>12. ASSUME NEW p \in Sessions!Alive'
       PROVE  p \in Sessions!Pools /\ f[p] > 0 /\ Sessions!Running(p)' <= f[p]
  <2>1. CASE p = q
    BY <1>6, <1>8, <1>11, <2>1, RunsFinite, BucketConstants
  <2>2. CASE p # q
    <3>1. p \in Sessions!Alive /\ p \in Sessions!Pools
      BY <1>7, AliveArePools
    <3>2. size[p] \in Nat /\ size[p] > 0 /\ Sessions!Running(p) <= size[p]
      BY <3>1, BucketConstants DEF PoolsInv, Sized
    <3>3. Sessions!Running(p)' <= Sessions!Running(p)
      BY <1>9, <2>2
    <3> QED
      BY <1>11, <2>2, <3>1, <3>2, <3>3, RunsFinite, RunsFiniteNext
  <2> QED
    BY <2>1, <2>2
<1> QED
  BY <1>10, <1>11, <1>12, SizesAfter

LEMMA PoolsNext == PoolsInv /\ [Sessions!Next]_sessionVars => PoolsInv'
<1>1. ASSUME PoolsInv, Sessions!Next PROVE Sized'
  <2>1. CASE Sessions!Unload
    BY <1>1, <2>1, SizedClear DEF Sessions!Unload
  <2>2. ASSUME NEW l \in Loaders,
               \/ Sessions!StartLoad(l) \/ Sessions!BuildPool(l) \/ Sessions!BuildFails(l)
               \/ Sessions!Publish(l) \/ Sessions!Validate(l) \/ Sessions!Undo(l)
        PROVE  Sized'
    <3>1. CASE Sessions!Undo(l)
      BY <1>1, <3>1, SizedClear DEF Sessions!Undo
    <3>2. CASE Sessions!Publish(l) /\ loaded = 0
      BY <1>1, <3>2, SizedPublish
    <3>3. CASE Sessions!Publish(l) /\ loaded # 0
      BY <1>1, <3>3, SizedLoaders DEF Sessions!Publish
    <3>4. CASE \/ Sessions!StartLoad(l) \/ Sessions!BuildPool(l) \/ Sessions!BuildFails(l)
               \/ Sessions!Validate(l)
      BY <1>1, <3>4, SizedLoaders
         DEF Sessions!StartLoad, Sessions!BuildPool, Sessions!BuildFails, Sessions!Validate
    <3> QED
      BY <2>2, <3>1, <3>2, <3>3, <3>4
  <2>3. ASSUME NEW c \in Calls,
               \/ Sessions!Begin(c) \/ Sessions!PrimaryPool(c) \/ Sessions!KnownBucket(c)
               \/ Sessions!NewBucket(c) \/ Sessions!Acquire(c) \/ Sessions!Grow(c)
               \/ Sessions!End(c)
        PROVE  Sized'
    BY <1>1, <2>3, SizedBegin, SizedPrimary, SizedKnown, SizedNew, SizedRun, SizedEnd
  <2> QED
    BY <1>1, <2>1, <2>2, <2>3 DEF Sessions!Next
<1>2. ASSUME PoolsInv, UNCHANGED sessionVars PROVE Sized'
  BY <1>2, SizedLoaders DEF sessionVars
<1> QED
  BY <1>1, <1>2, SessionNext, LoadNext DEF PoolsInv, SessionStep

LEMMA PoolsTyped == ASSUME PoolsInv PROVE Sessions!TypeOK
<1>1. Sessions!LiveModels \subseteq Sessions!Models
  BY LiveIsModel DEF PoolsInv, SessionInv, SlotWatched
<1>2. ASSUME NEW m \in Sessions!LiveModels
      PROVE  /\ models[m].valid \in BOOLEAN
             /\ models[m].primary_bucket_key \in Buckets \union {Sessions!None}
             /\ DOMAIN models[m].sessions \subseteq Buckets
             /\ Sessions!Range(models[m].lru) \subseteq Buckets
             /\ Sessions!PoolsOf(m) \subseteq Sessions!Pools
  <2>1. QueueOK(m, models[m], Sessions!secondary_capacity)
    BY <1>1 DEF PoolsInv, SessionInv, Queues
  <2>2. Sessions!PoolsOf(m) \subseteq Sessions!Pools
    BY AliveArePools DEF Sessions!Alive
  <2>3. \A i \in 1 .. Len(models[m].lru) : models[m].lru[i] \in Buckets
    BY <2>1 DEF QueueOK
  <2>4. DOMAIN models[m].lru = 1 .. Len(models[m].lru)
    BY <2>1 DEF QueueOK
  <2>5. DOMAIN models[m].sessions \subseteq Buckets
    BY <2>1, <2>3 DEF QueueOK, Has
  <2> QED
    BY <2>1, <2>2, <2>3, <2>4, <2>5 DEF QueueOK, Sessions!Range
<1>3. /\ limit \in EvictLimits \union RaceLimits /\ loaded \in 0 .. MaxModels
      /\ DOMAIN models = Sessions!Models
      /\ loader \in [Loaders -> {"idle", "build", "publish", "validate", "undo"}]
      /\ call \in [Calls -> CallRecords]
      /\ size \in [Sessions!Pools -> 0 .. PoolSize]
      /\ \A p \in Sessions!Alive : size[p] > 0 /\ Sessions!Running(p) <= size[p]
  BY DEF PoolsInv, SessionInv, Sized, Queues, SlotWatched, CallsBound
<1>4. /\ built \in [Loaders -> 0 .. PoolSize] /\ own \in [Loaders -> 0 .. MaxModels]
      /\ \A l \in Loaders \ Sessions!Loading : built[l] = 0
      /\ raced \subseteq Sessions!Watching
  BY DEF PoolsInv, LoadOK, Sessions!Loading, Sessions!Watching, Watch
<1> QED
  BY <1>2, <1>3, <1>4 DEF Sessions!TypeOK, CallRecords, Buckets

\* The pools of the live models: one and one for each key of the queue.
Kept == UNION {Sessions!PoolsOf(m) : m \in Sessions!LiveModels}

\* A pool's place: its model and its key's place in the queue, 0 for the primary one.
PlaceIn(p, q) == CHOOSE i \in 1 .. Len(q) : q[i] = p[2]
Place(p) ==
  <<p[1], IF p = Sessions!primary_pool(p[1]) THEN 0 ELSE PlaceIn(p, models[p[1]].lru)>>

LEMMA KeptBounded ==
  ASSUME PoolsInv, IsFiniteSet(Sessions!LiveModels)
  PROVE  /\ IsFiniteSet(Kept)
         /\ Cardinality(Kept) <= Cardinality(Sessions!LiveModels) * (Sessions!secondary_capacity + 1)
<1> DEFINE cap == Sessions!secondary_capacity
           L == Sessions!LiveModels
<1>1. cap \in Nat /\ L \subseteq Sessions!Models
  BY Capacity, BucketConstants, LiveIsModel DEF PoolsInv, SessionInv, SlotWatched
<1>2. ASSUME NEW p \in Kept
      PROVE  /\ p[1] \in L
             /\ \/ p = Sessions!primary_pool(p[1])
                \/ /\ PlaceIn(p, models[p[1]].lru) \in 1 .. cap
                   /\ models[p[1]].lru[PlaceIn(p, models[p[1]].lru)] = p[2]
                   /\ p = models[p[1]].sessions[p[2]]
  <2>1. PICK m \in L : p \in Sessions!PoolsOf(m)
    BY DEF Kept
  <2>2. QueueOK(m, models[m], cap) /\ m \in Sessions!Models
    BY <1>1 DEF PoolsInv, SessionInv, Queues
  <2>3. CASE p = Sessions!primary_pool(m)
    BY <2>2, <2>3, PrimaryIsPool
  <2>4. CASE p \in Sessions!Range(models[m].sessions)
    <3>1. PICK b \in DOMAIN models[m].sessions : p = models[m].sessions[b]
      BY <2>4 DEF Sessions!Range
    <3>2. p[1] = m /\ p[2] = b /\ Has(models[m].lru, b)
      BY <2>2, <3>1 DEF QueueOK
    <3> DEFINE q == models[m].lru
    <3>3. \E i \in 1 .. Len(q) : q[i] = p[2]
      BY <3>2 DEF Has
    <3>4. PlaceIn(p, q) \in 1 .. Len(q) /\ q[PlaceIn(p, q)] = p[2]
      BY <3>3 DEF PlaceIn
    <3>5. Len(q) \in Nat /\ Len(q) <= cap
      BY <2>2 DEF QueueOK
    <3>6. PlaceIn(p, q) \in 1 .. cap
      BY <1>1, <3>4, <3>5
    <3> QED
      BY <3>1, <3>2, <3>4, <3>6
  <2> QED
    BY <2>1, <2>3, <2>4 DEF Sessions!PoolsOf
<1> DEFINE f == [p \in Kept |-> Place(p)]
<1>3. \A p \in Kept : Place(p) \in L \X (0 .. cap)
  BY <1>1, <1>2 DEF Place
<1>4. \A p, q \in Kept : Place(p) = Place(q) => p = q
  <2> SUFFICES ASSUME NEW p \in Kept, NEW q \in Kept, Place(p) = Place(q) PROVE p = q
    OBVIOUS
  <2>1. p[1] = q[1] /\ Place(p)[2] = Place(q)[2]
    BY DEF Place
  <2>2. CASE p = Sessions!primary_pool(p[1])
    <3>1. Place(q)[2] = 0
      BY <2>1, <2>2 DEF Place
    <3>2. q = Sessions!primary_pool(q[1])
      <4>1. \A i \in 1 .. cap : i # 0
        BY <1>1
      <4> QED
        BY <1>2, <3>1, <4>1 DEF Place
    <3> QED
      BY <2>1, <2>2, <3>2
  <2>3. CASE q = Sessions!primary_pool(q[1])
    <3>1. Place(p)[2] = 0
      BY <2>1, <2>3 DEF Place
    <3>2. p = Sessions!primary_pool(p[1])
      <4>1. \A i \in 1 .. cap : i # 0
        BY <1>1
      <4> QED
        BY <1>2, <3>1, <4>1 DEF Place
    <3> QED
      BY <2>1, <2>3, <3>2
  <2>4. CASE p # Sessions!primary_pool(p[1]) /\ q # Sessions!primary_pool(q[1])
    <3> DEFINE u == models[p[1]].lru
    <3>1. PlaceIn(p, u) = PlaceIn(q, u)
      BY <2>1, <2>4 DEF Place
    <3>2. p[2] = q[2]
      BY <1>2, <2>1, <2>4, <3>1
    <3> QED
      BY <1>2, <2>1, <2>4, <3>2
  <2> QED
    BY <2>2, <2>3, <2>4
<1> HIDE DEF cap, L
<1>5. f \in Injection(Kept, L \X (0 .. cap))
  BY <1>3, <1>4 DEF Injection, IsInjective
<1>6. IsFiniteSet(0 .. cap) /\ Cardinality(0 .. cap) = cap + 1
  BY <1>1, FS_Interval
<1>7. IsFiniteSet(L \X (0 .. cap)) /\ Cardinality(L \X (0 .. cap)) = Cardinality(L) * (cap + 1)
  BY <1>6, FS_Product DEF L
<1>8. IsFiniteSet(Kept) /\ Cardinality(Kept) <= Cardinality(L) * (cap + 1)
  BY <1>5, <1>7, FS_Injection
<1> QED
  BY <1>8 DEF L, cap

LEMMA SessionsAreBounded == ASSUME PoolsInv PROVE Sessions!SessionsBounded
<1> DEFINE A == Sessions!Alive
           L == Sessions!LiveModels
           E == Sessions!OnEvicted
           cap == Sessions!secondary_capacity
<1>1. IsFiniteSet(L) /\ cap \in Nat
  <2>1. L \subseteq Sessions!Models
    BY LiveIsModel DEF PoolsInv, SessionInv, SlotWatched
  <2>2. IsFiniteSet(Sessions!Models)
    BY BucketConstants, FS_Interval DEF Sessions!Models
  <2> QED
    BY <2>1, <2>2, FS_Subset, Capacity, BucketConstants DEF PoolsInv, SessionInv
<1>2. IsFiniteSet(E)
  BY BucketConstants, FS_Subset DEF Sessions!OnEvicted
<1>3. IsFiniteSet(Kept) /\ Cardinality(Kept) <= Cardinality(L) * (cap + 1)
  BY <1>1, KeptBounded
<1> DEFINE Used == {call[c].pool : c \in E}
           f == [c \in E |-> call[c].pool]
<1>4. IsFiniteSet(Used) /\ Cardinality(Used) <= Cardinality(E)
  <2>1. f \in Surjection(E, Used)
    BY DEF Surjection
  <2> HIDE DEF f, Used
  <2> QED
    BY <1>2, <2>1, FS_Surjection
<1>5. A \subseteq Kept \union Used
  <2>1. ASSUME NEW c \in Calls, call[c].pool # Sessions!NoPool, c \notin E
        PROVE  call[c].pool \in Kept
    <3>1. call[c].pool \in Sessions!PoolsOf(call[c].model)
      BY <2>1 DEF Sessions!OnEvicted
    <3>2. call[c].model # 0
      BY <2>1 DEF PoolsInv, Sized, SessionInv, CallsBound, HasItsPool
    <3>3. call[c].model \in L
      BY <3>2, PoolOfCall
    <3> QED
      BY <3>1, <3>3 DEF Kept
  <2> QED
    BY <2>1 DEF Sessions!Alive, Kept
<1>6. IsFiniteSet(Kept \union Used)
      /\ Cardinality(Kept \union Used) <= Cardinality(Kept) + Cardinality(Used)
  <2> HIDE DEF Used
  <2>1. IsFiniteSet(Kept \cap Used)
    BY <1>3, FS_Intersection
  <2>2. Cardinality(Kept) \in Nat /\ Cardinality(Used) \in Nat /\ Cardinality(Kept \cap Used) \in Nat
    BY <1>3, <1>4, <2>1, FS_CardinalityType
  <2>3. IsFiniteSet(Kept \union Used)
        /\ Cardinality(Kept \union Used) = Cardinality(Kept) + Cardinality(Used) - Cardinality(Kept \cap Used)
    BY <1>3, <1>4, FS_Union
  <2> QED
    BY <2>2, <2>3
<1> HIDE DEF Used, f
<1>7. IsFiniteSet(A) /\ Cardinality(A) <= Cardinality(Kept \union Used)
  BY <1>5, <1>6, FS_Subset
<1>8. \A p \in A : size[p] \in 0 .. PoolSize
  BY AliveArePools DEF PoolsInv, Sized
<1> DEFINE sum == Sessions!MapThenSumSet(LAMBDA p : size[p], A)
<1>9. sum \in Nat /\ sum <= PoolSize * Cardinality(A)
  BY <1>7, <1>8, SumIsAtMost, BucketConstants
<1> HIDE DEF sum, A, L, E, cap
<1> DEFINE W == Sessions!Loading
           more == Sessions!MapThenSumSet(LAMBDA l : built[l], W)
<1>15. IsFiniteSet(W) /\ more \in Nat /\ more <= PoolSize * Cardinality(W)
  <2>1. IsFiniteSet(W)
    BY BucketConstants, FS_Subset DEF Sessions!Loading
  <2>2. \A l \in W : built[l] \in 0 .. PoolSize
    BY DEF PoolsInv, LoadOK, Sessions!Loading
  <2> QED
    BY <2>1, <2>2, BuiltAtMost, BucketConstants
<1> HIDE DEF W, more
<1>10. /\ Cardinality(A) \in Nat /\ Cardinality(L) \in Nat /\ Cardinality(E) \in Nat
       /\ Cardinality(Kept) \in Nat /\ Cardinality(Used) \in Nat
       /\ Cardinality(Kept \union Used) \in Nat
  BY <1>1, <1>2, <1>3, <1>4, <1>6, <1>7, FS_CardinalityType
<1> DEFINE n == (1 + cap) * Cardinality(L) + Cardinality(E)
<1>11. n \in Nat /\ Cardinality(A) <= n
  <2>1. Cardinality(L) * (cap + 1) = (1 + cap) * Cardinality(L) /\ (1 + cap) * Cardinality(L) \in Nat
    BY <1>1, <1>10
  <2> QED
    BY <1>3, <1>4, <1>6, <1>7, <1>10, <2>1
<1> HIDE DEF n
<1>12. PoolSize * Cardinality(A) <= PoolSize * n /\ PoolSize * n \in Nat /\ PoolSize * Cardinality(A) \in Nat
  <2>1. \A k, a, b \in Nat : a <= b => k * a <= k * b /\ k * a \in Nat /\ k * b \in Nat
    OBVIOUS
  <2> QED
    BY <1>10, <1>11, <2>1, BucketConstants
<1>13. sum <= PoolSize * n
  BY <1>9, <1>12
<1>14. /\ Sessions!Cardinality(L) = Cardinality(L) /\ Sessions!Cardinality(E) = Cardinality(E)
       /\ Sessions!Cardinality(W) = Cardinality(W)
  BY DEF Sessions!Cardinality, Cardinality
<1>16. sum + more <= PoolSize * (n + Cardinality(W))
  <2>1. Cardinality(W) \in Nat
    BY <1>15, FS_CardinalityType
  <2>2. \A k, a, b \in Nat : k * (a + b) = k * a + k * b /\ k * a \in Nat /\ k * b \in Nat
    OBVIOUS
  <2>3. PoolSize * (n + Cardinality(W)) = PoolSize * n + PoolSize * Cardinality(W)
        /\ PoolSize * n \in Nat /\ PoolSize * Cardinality(W) \in Nat
    BY <1>11, <2>1, <2>2, BucketConstants
  <2> QED
    BY <1>9, <1>13, <1>15, <2>3
<1> QED
  BY <1>14, <1>16 DEF Sessions!SessionsBounded, sum, more, A, L, E, W, cap, n

LEMMA PoolsAreAccounted == PoolsInv => Sessions!PoolsAccounted
<1>1. ASSUME PoolsInv PROVE Sessions!UndoIsOwn
  BY <1>1 DEF PoolsInv, LoadOK, Sessions!UndoIsOwn, Sessions!Watching, Watch
<1> QED
  BY <1>1, QueueLists, SlotIsValid, PoolsTyped, SessionsAreBounded
     DEF PoolsInv, Sessions!PoolsAccounted

LEMMA PoolsInit == Sessions!Init => PoolsInv
BY SessionInit, SizedInit, LoadInit DEF PoolsInv

\* Through loads, unloads and evictions, for every number of calls, loaders, buckets
\* and models: the queue of a model holds each key of its bucket map once and never
\* the primary pool's, so that eviction always finds a pool, and the map never exceeds
\* its capacity (pool_for_request); the sessions alive exceed the configured number by
\* no more than the calls on evicted pools and on unloaded models and the threads that
\* load account for; a model that the preprocessor refuses is served only while a load
\* is still about to check it; and a load whose model the host did not unload under it
\* takes back no model but its own refused one (load_model of lib.rs).
THEOREM PoolsAccountedHolds == Spec => []PoolsAccounted
<1>1. Init => PoolsInv
  BY PoolsInit DEF Init
<1>2. PoolsInv /\ [Next]_allVars => PoolsInv'
  BY PoolsNext DEF Next, allVars
<1>3. PoolsInv => PoolsAccounted
  BY PoolsAreAccounted DEF PoolsAccounted
<1> QED
  BY <1>1, <1>2, <1>3, PTL DEF Spec

\* The same and ReplacesInOrder for the whole of BucketSessions, without the bounds
\* that keep the instance small (load, pool_for_request).
THEOREM BucketSessionsCorrect ==
  Sessions!Spec => /\ []Sessions!PoolsAccounted
                   /\ [][Sessions!EvictsLeastRecent /\ Sessions!NeverReplaced]_sessionVars
<1>1. Sessions!Init => PoolsInv
  BY PoolsInit
<1>2. PoolsInv /\ [Sessions!Next]_sessionVars =>
        PoolsInv' /\ [Sessions!EvictsLeastRecent /\ Sessions!NeverReplaced]_sessionVars
  BY SessionNext, PoolsNext DEF PoolsInv, SessionStep
<1>3. PoolsInv => Sessions!PoolsAccounted
  BY PoolsAreAccounted
<1> QED
  BY <1>1, <1>2, <1>3, PTL DEF Sessions!Spec, Sessions!vars, sessionVars

-----------------------------------------------------------------------------
(* The governed allocator.                                                 *)

NoKey == Allocator!None

\* A key belongs to one instance; an instance that shuts down still has its key; without
\* the registry's box there is no client.
KeysOwned ==
  /\ \A b, c \in Backends : instance[b] = instance[c] /\ instance[b] # NoKey => b = c
  /\ \A b \in closing : instance[b] # NoKey
  /\ registered = boxed
  /\ boxed = FALSE => \A b \in Backends : instance[b] = NoKey

\* A thread that works for an instance keeps it open, and its scopes are those of
\* what it does, the call's below that of a session it creates.
WorksFor(t) ==
  LET w == thread[t]
      scope(class) == [client |-> instance[w.of], class |-> class]
  IN  \/ w.at = "idle" /\ w.of = NoKey
         /\ context[t] = Allocator!NoContext /\ saved[t] = <<>>
      \/ /\ w.of \in Backends \ closing /\ instance[w.of] # NoKey
         /\ \/ w.at = "load" /\ context[t] = scope("weights")
               /\ saved[t] = <<Allocator!NoContext>>
            \/ w.at = "infer" /\ context[t] = scope("workspace")
               /\ saved[t] = <<Allocator!NoContext>>
            \/ w.at = "build" /\ context[t] = scope("weights")
               /\ saved[t] = <<Allocator!NoContext, scope("workspace")>>

AllocatorInv ==
  /\ Allocator!TypeOK /\ KeysOwned
  /\ DOMAIN saved = Threads /\ \A t \in Threads : WorksFor(t)
  /\ Allocator!HeldIsCharged /\ Allocator!ChargedIsLive

LEMMA AllocatorConstants == NoKey \notin Clients /\ NoKey \notin Backends
BY PartsAssumption DEF PartsAssumption, Allocator!AllocatorAssumption, NoKey

LEMMA TwoEqual ==
  ASSUME NEW S, NEW s \in Seq(S), NEW t \in Seq(S), Len(s) = Len(t), Len(s) <= 2,
         Len(s) >= 1 => s[1] = t[1], Len(s) = 2 => s[2] = t[2]
  PROVE  s = t
<1>1. \A i \in 1 .. Len(s) : s[i] = t[i]
  OBVIOUS
<1> QED
  BY <1>1, SeqEqual

LEMMA Push == ASSUME NEW x, NEW y PROVE Append(<<x>>, y) = <<x, y>>
<1> DEFINE a == Append(<<x>>, y)
           c == <<x, y>>
<1>1. <<x>> \in Seq({x, y}) /\ Len(<<x>>) = 1 /\ y \in {x, y}
  OBVIOUS
<1>2. a \in Seq({x, y}) /\ Len(a) = 2 /\ a[1] = x /\ a[2] = y
  BY <1>1
<1>3. c \in Seq({x, y}) /\ Len(c) = 2 /\ c[1] = x /\ c[2] = y
  OBVIOUS
<1> HIDE DEF a, c
<1>4. a = c
  BY <1>2, <1>3, TwoEqual
<1> QED
  BY <1>4 DEF a, c

LEMMA Pop ==
  ASSUME NEW x, NEW y
  PROVE  Len(<<x, y>>) = 2 /\ <<x, y>>[2] = y /\ SubSeq(<<x, y>>, 1, 1) = <<x>>
<1> DEFINE c == <<x, y>>
           a == SubSeq(c, 1, 1)
           b == <<x>>
<1>1. c \in Seq({x, y}) /\ Len(c) = 2 /\ c[1] = x /\ c[2] = y
  OBVIOUS
<1>2. b \in Seq({x, y}) /\ Len(b) = 1 /\ b[1] = x
  OBVIOUS
<1> HIDE DEF b, c
<1>3. a \in Seq({x, y}) /\ Len(a) = 1 /\ a[1] = x
  BY <1>1
<1> HIDE DEF a
<1>4. a = b
  BY <1>2, <1>3, TwoEqual
<1> QED
  BY <1>1, <1>4 DEF a, b, c

LEMMA AllocatorInit == Allocator!Init => AllocatorInv
<1> SUFFICES ASSUME Allocator!Init PROVE AllocatorInv
  OBVIOUS
<1>1. registered \in BOOLEAN /\ boxed \in BOOLEAN /\ registered = boxed
  BY DEF Allocator!Init
<1>2. \A b \in Backends : instance[b] = NoKey
  BY DEF Allocator!Init, NoKey
<1>3. clients = {instance[b] : b \in Backends} \ {NoKey} /\ clients \subseteq Clients
  BY <1>2 DEF Allocator!Init
<1>4. /\ instance \in [Backends -> Clients \union {NoKey}]
      /\ live \in [Pointers -> Clients \union {NoKey}]
      /\ held \in [Pointers -> Backends \union {NoKey}]
      /\ charged \in [Pointers -> Clients \union {NoKey}]
  BY DEF Allocator!Init, NoKey
<1>5. thread \in [Threads -> [at : {"idle", "load", "infer", "build"},
                              of : Backends \union {NoKey}]]
  BY DEF Allocator!Init, Allocator!Idle, NoKey
<1>6. context \in [Threads -> [client : Clients \union {NoKey},
                               class : {"weights", "workspace", NoKey}]]
  BY DEF Allocator!Init, Allocator!NoContext, NoKey
<1>7. \A t \in Threads : saved[t] = <<>> /\ Len(saved[t]) <= 2
  BY DEF Allocator!Init
<1>8. Allocator!TypeOK
  BY <1>1, <1>3, <1>4, <1>5, <1>6, <1>7 DEF Allocator!Init, Allocator!TypeOK, NoKey
<1>9. KeysOwned
  BY <1>1, <1>2 DEF Allocator!Init, KeysOwned
<1>10. DOMAIN saved = Threads /\ \A t \in Threads : WorksFor(t)
  BY <1>7 DEF Allocator!Init, WorksFor, Allocator!Idle, NoKey
<1>11. Allocator!HeldIsCharged /\ Allocator!ChargedIsLive
  BY DEF Allocator!Init, Allocator!HeldIsCharged, Allocator!ChargedIsLive
<1> QED
  BY <1>8, <1>9, <1>10, <1>11 DEF AllocatorInv

LEMMA AllocatorImplies == AllocatorInv => Allocator!MemoryAccounted
<1> SUFFICES ASSUME AllocatorInv PROVE Allocator!MemoryAccounted
  OBVIOUS
<1>1. Allocator!ScopeMatchesWork
  <2> SUFFICES ASSUME NEW t \in Threads
               PROVE  context[t] =
                        CASE thread[t].at = "idle" -> Allocator!NoContext
                          [] thread[t].at = "infer" ->
                               [client |-> instance[thread[t].of], class |-> "workspace"]
                          [] OTHER ->
                               [client |-> instance[thread[t].of], class |-> "weights"]
    BY DEF Allocator!ScopeMatchesWork
  <2> QED
    BY DEF AllocatorInv, WorksFor
<1> QED
  BY <1>1 DEF AllocatorInv, KeysOwned, Allocator!MemoryAccounted, Allocator!PinnedWhileRegistered

\* A thread that works keeps its scopes while its instance keeps its key.
LEMMA AllocatorThreads ==
  ASSUME AllocatorInv, UNCHANGED <<thread, context, saved>>,
         \A b \in Backends \ closing :
           instance[b] # NoKey => instance'[b] = instance[b] /\ b \notin closing'
  PROVE  \A t \in Threads : WorksFor(t)'
<1> SUFFICES ASSUME NEW t \in Threads PROVE WorksFor(t)'
  OBVIOUS
<1>1. WorksFor(t)
  BY DEF AllocatorInv
<1>2. CASE thread[t].at = "idle"
  BY <1>1, <1>2 DEF WorksFor
<1>3. CASE thread[t].at # "idle"
  <2>1. thread[t].of \in Backends \ closing /\ instance[thread[t].of] # NoKey
    BY <1>1, <1>3 DEF WorksFor
  <2>2. instance'[thread[t].of] = instance[thread[t].of] /\ thread[t].of \notin closing'
    BY <2>1
  <2> QED
    BY <1>1, <1>3, <2>1, <2>2 DEF WorksFor
<1> QED
  BY <1>2, <1>3

\* A new key, in use by nobody, is given to an instance without one.
LEMMA AllocatorNewKey ==
  ASSUME AllocatorInv, NEW b \in Backends, instance[b] = NoKey, NEW k \in Clients \ clients,
         instance' = [instance EXCEPT ![b] = k], clients' = clients \union {k},
         registered' = boxed', boxed' = TRUE,
         UNCHANGED <<live, closing, thread, context, saved, held, charged, refused>>
  PROVE  AllocatorInv'
<1>1. /\ instance' \in [Backends -> Clients \union {NoKey}]
      /\ instance \in [Backends -> Clients \union {NoKey}]
      /\ \A c \in Backends : instance'[c] = IF c = b THEN k ELSE instance[c]
      /\ \A c \in Backends : instance[c] # k
  <2>1. instance \in [Backends -> Clients \union {NoKey}]
    BY DEF AllocatorInv, Allocator!TypeOK, NoKey
  <2>2. \A c \in Backends : instance[c] # NoKey => instance[c] \in clients
    BY DEF AllocatorInv, Allocator!TypeOK, NoKey
  <2> QED
    BY <2>1, <2>2, AllocatorConstants
<1>2. k # NoKey
  BY AllocatorConstants
<1>3. clients' = {instance'[c] : c \in Backends} \ {NoKey}
  <2>1. clients = {instance[c] : c \in Backends} \ {NoKey}
    BY DEF AllocatorInv, Allocator!TypeOK, NoKey
  <2> QED
    BY <1>1, <1>2, <2>1
<1>4. Allocator!TypeOK'
  <2>1. registered' \in BOOLEAN /\ boxed' \in BOOLEAN
    OBVIOUS
  <2> QED
    BY <1>1, <1>3, <2>1 DEF AllocatorInv, Allocator!TypeOK, NoKey
<1>5. KeysOwned'
  BY <1>1, <1>2 DEF AllocatorInv, KeysOwned, Allocator!TypeOK
<1>6. DOMAIN saved' = Threads /\ \A t \in Threads : WorksFor(t)'
  BY <1>1, AllocatorThreads DEF AllocatorInv
<1>7. Allocator!HeldIsCharged'
  <2>1. \A p \in Pointers : held[p] # NoKey => held[p] \in Backends /\ held[p] # b
    BY DEF AllocatorInv, Allocator!TypeOK, Allocator!HeldIsCharged, NoKey
  <2> QED
    BY <1>1, <2>1 DEF AllocatorInv, Allocator!HeldIsCharged, NoKey
<1>8. Allocator!ChargedIsLive'
  BY DEF AllocatorInv, Allocator!ChargedIsLive
<1> QED
  BY <1>4, <1>5, <1>6, <1>7, <1>8 DEF AllocatorInv

LEMMA AllocatorJoin ==
  ASSUME AllocatorInv, NEW b \in Backends,
         Allocator!JoinAllocator(b) \/ Allocator!RegisterAllocator(b)
  PROVE  AllocatorInv'
<1>1. CASE Allocator!JoinAllocator(b)
  <2>1. PICK k \in Clients \ clients :
          clients' = clients \union {k} /\ instance' = [instance EXCEPT ![b] = k]
    BY <1>1 DEF Allocator!JoinAllocator
  <2>2. boxed' = TRUE /\ registered' = boxed'
    BY <1>1 DEF Allocator!JoinAllocator, AllocatorInv, KeysOwned, Allocator!TypeOK
  <2> QED
    BY <1>1, <2>1, <2>2, AllocatorNewKey DEF Allocator!JoinAllocator, Allocator!threads, NoKey
<1>2. CASE Allocator!RegisterAllocator(b)
  <2>1. boxed = FALSE
    BY <1>2 DEF Allocator!RegisterAllocator, AllocatorInv, Allocator!TypeOK
  <2>2. clients = {}
    BY <2>1 DEF AllocatorInv, Allocator!TypeOK, KeysOwned, NoKey
  <2>3. PICK k \in Clients \ clients :
          clients' = clients \union {k} /\ instance' = [instance EXCEPT ![b] = k]
    BY <1>2, <2>2 DEF Allocator!RegisterAllocator
  <2>4. boxed' = TRUE /\ registered' = boxed'
    BY <1>2 DEF Allocator!RegisterAllocator
  <2> QED
    BY <1>2, <2>3, <2>4, AllocatorNewKey DEF Allocator!RegisterAllocator, Allocator!threads, NoKey
<1> QED
  BY <1>1, <1>2

LEMMA AllocatorShutdown ==
  ASSUME AllocatorInv, NEW b \in Backends, Allocator!Shutdown(b) PROVE AllocatorInv'
<1>1. /\ instance[b] # NoKey /\ closing' = closing \union {b}
      /\ \A t \in Threads : thread[t].of # b
      /\ UNCHANGED <<registered, boxed, clients, live, instance, thread, context, saved, held,
                     charged, refused>>
  BY DEF Allocator!Shutdown, Allocator!allocator, Allocator!threads, NoKey
<1>2. Allocator!TypeOK' /\ KeysOwned' /\ Allocator!HeldIsCharged' /\ Allocator!ChargedIsLive'
  BY <1>1 DEF AllocatorInv, Allocator!TypeOK, KeysOwned, Allocator!HeldIsCharged,
              Allocator!ChargedIsLive
<1>3. ASSUME NEW t \in Threads PROVE WorksFor(t)'
  BY <1>1 DEF AllocatorInv, WorksFor
<1> QED
  BY <1>1, <1>2, <1>3 DEF AllocatorInv

\* One thread moves between two activities, its scopes with it.
LEMMA AllocatorScope ==
  ASSUME AllocatorInv, NEW t \in Threads, NEW w, NEW x, NEW s,
         w \in [at : {"idle", "load", "infer", "build"}, of : Backends \union {NoKey}],
         x \in [client : Clients \union {NoKey}, class : {"weights", "workspace", NoKey}],
         Len(s) <= 2,
         thread' = [thread EXCEPT ![t] = w], context' = [context EXCEPT ![t] = x],
         saved' = [saved EXCEPT ![t] = s],
         WorksFor(t)',
         UNCHANGED <<registered, boxed, clients, live, instance, closing, held, charged, refused>>
  PROVE  AllocatorInv'
<1>1. /\ thread' \in [Threads -> [at : {"idle", "load", "infer", "build"},
                                  of : Backends \union {NoKey}]]
      /\ context' \in [Threads -> [client : Clients \union {NoKey},
                                   class : {"weights", "workspace", NoKey}]]
  BY DEF AllocatorInv, Allocator!TypeOK, NoKey
<1>2. \A u \in Threads : Len(saved'[u]) <= 2
  BY DEF AllocatorInv, Allocator!TypeOK
<1>3. Allocator!TypeOK'
  BY <1>1, <1>2 DEF AllocatorInv, Allocator!TypeOK, NoKey
<1>4. ASSUME NEW u \in Threads, u # t PROVE WorksFor(u)'
  <2>1. thread'[u] = thread[u] /\ context'[u] = context[u] /\ saved'[u] = saved[u]
    BY <1>4 DEF AllocatorInv, Allocator!TypeOK
  <2> QED
    BY <2>1 DEF AllocatorInv, WorksFor
<1>5. KeysOwned' /\ Allocator!HeldIsCharged' /\ Allocator!ChargedIsLive'
  BY DEF AllocatorInv, KeysOwned, Allocator!HeldIsCharged, Allocator!ChargedIsLive
<1> QED
  BY <1>3, <1>4, <1>5 DEF AllocatorInv

LEMMA AllocatorBegin ==
  ASSUME AllocatorInv, NEW t \in Threads, Allocator!Begin(t) PROVE AllocatorInv'
<1>1. thread[t].at = "idle" /\ context[t] = Allocator!NoContext /\ saved[t] = <<>>
  BY DEF Allocator!Begin, AllocatorInv, WorksFor
<1>2. PICK b \in Backends \ closing, at \in {"load", "infer"} :
        /\ instance[b] # NoKey
        /\ thread' = [thread EXCEPT ![t] = [at |-> at, of |-> b]]
        /\ Allocator!Enter(t, instance[b], IF at = "load" THEN "weights" ELSE "workspace")
  BY DEF Allocator!Begin, NoKey
<1> DEFINE w == [at |-> at, of |-> b]
           x == [client |-> instance[b], class |-> IF at = "load" THEN "weights" ELSE "workspace"]
           s == <<Allocator!NoContext>>
<1>3. instance[b] \in Clients
  BY <1>2 DEF AllocatorInv, Allocator!TypeOK, NoKey
<1>4. saved' = [saved EXCEPT ![t] = s] /\ context' = [context EXCEPT ![t] = x]
  BY <1>1, <1>2 DEF Allocator!Enter
<1>5. UNCHANGED <<registered, boxed, clients, live, instance, closing, held, charged, refused>>
  BY DEF Allocator!Begin, Allocator!allocator
<1>6. thread'[t] = w /\ context'[t] = x /\ saved'[t] = s
  BY <1>2, <1>4 DEF AllocatorInv, Allocator!TypeOK
<1>7. WorksFor(t)'
  BY <1>2, <1>5, <1>6 DEF WorksFor
<1>8. /\ w \in [at : {"idle", "load", "infer", "build"}, of : Backends \union {NoKey}]
      /\ x \in [client : Clients \union {NoKey}, class : {"weights", "workspace", NoKey}]
      /\ Len(s) <= 2
  BY <1>3
<1> QED
  BY <1>2, <1>4, <1>5, <1>7, <1>8, AllocatorScope

LEMMA AllocatorBeginSession ==
  ASSUME AllocatorInv, NEW t \in Threads, Allocator!BeginSession(t) PROVE AllocatorInv'
<1> DEFINE b == thread[t].of
           w == [thread[t] EXCEPT !.at = "build"]
           x == [client |-> instance[b], class |-> "weights"]
           s == <<Allocator!NoContext, [client |-> instance[b], class |-> "workspace"]>>
<1>1. /\ thread[t].at = "infer" /\ b \in Backends \ closing /\ instance[b] # NoKey
      /\ context[t] = [client |-> instance[b], class |-> "workspace"]
      /\ saved[t] = <<Allocator!NoContext>>
  BY DEF Allocator!BeginSession, AllocatorInv, WorksFor
<1>2. instance[b] \in Clients
  BY <1>1 DEF AllocatorInv, Allocator!TypeOK, NoKey
<1>3. Append(saved[t], context[t]) = s
  BY <1>1, Push
<1>4. /\ thread' = [thread EXCEPT ![t] = w] /\ context' = [context EXCEPT ![t] = x]
      /\ saved' = [saved EXCEPT ![t] = s]
  BY <1>3 DEF Allocator!BeginSession, Allocator!Enter
<1>5. UNCHANGED <<registered, boxed, clients, live, instance, closing, held, charged, refused>>
  BY DEF Allocator!BeginSession, Allocator!allocator
<1>6. /\ w \in [at : {"idle", "load", "infer", "build"}, of : Backends \union {NoKey}]
      /\ w.at = "build" /\ w.of = b
  BY DEF AllocatorInv, Allocator!TypeOK, NoKey
<1>7. thread'[t] = w /\ context'[t] = x /\ saved'[t] = s
  BY <1>4 DEF AllocatorInv, Allocator!TypeOK
<1>8. WorksFor(t)'
  <2> HIDE DEF w
  <2> QED
    BY <1>1, <1>5, <1>6, <1>7 DEF WorksFor
<1>9. /\ x \in [client : Clients \union {NoKey}, class : {"weights", "workspace", NoKey}]
      /\ Len(s) <= 2
  BY <1>2
<1> HIDE DEF w, x, s
<1> QED
  BY <1>4, <1>5, <1>6, <1>8, <1>9, AllocatorScope

LEMMA AllocatorEndSession ==
  ASSUME AllocatorInv, NEW t \in Threads, Allocator!EndSession(t) PROVE AllocatorInv'
<1> DEFINE b == thread[t].of
           w == [thread[t] EXCEPT !.at = "infer"]
           x == [client |-> instance[b], class |-> "workspace"]
           s == <<Allocator!NoContext>>
<1>1. /\ thread[t].at = "build" /\ b \in Backends \ closing /\ instance[b] # NoKey
      /\ saved[t] = <<Allocator!NoContext, x>>
  BY DEF Allocator!EndSession, AllocatorInv, WorksFor
<1>2. instance[b] \in Clients
  BY <1>1 DEF AllocatorInv, Allocator!TypeOK, NoKey
<1>3. /\ Len(saved[t]) = 2 /\ saved[t][Len(saved[t])] = x
      /\ SubSeq(saved[t], 1, Len(saved[t]) - 1) = s
  <2>1. Len(saved[t]) = 2
    BY <1>1, Pop
  <2>2. saved[t][2] = x /\ SubSeq(saved[t], 1, 1) = s
    BY <1>1, Pop
  <2> QED
    BY <2>1, <2>2
<1>4. /\ thread' = [thread EXCEPT ![t] = w] /\ context' = [context EXCEPT ![t] = x]
      /\ saved' = [saved EXCEPT ![t] = s]
  BY <1>3 DEF Allocator!EndSession, Allocator!Drop
<1>5. UNCHANGED <<registered, boxed, clients, live, instance, closing, held, charged, refused>>
  BY DEF Allocator!EndSession, Allocator!allocator
<1>6. /\ w \in [at : {"idle", "load", "infer", "build"}, of : Backends \union {NoKey}]
      /\ w.at = "infer" /\ w.of = b
  BY DEF AllocatorInv, Allocator!TypeOK, NoKey
<1>7. thread'[t] = w /\ context'[t] = x /\ saved'[t] = s
  BY <1>4 DEF AllocatorInv, Allocator!TypeOK
<1>8. WorksFor(t)'
  <2> HIDE DEF w
  <2> QED
    BY <1>1, <1>5, <1>6, <1>7 DEF WorksFor
<1>9. /\ x \in [client : Clients \union {NoKey}, class : {"weights", "workspace", NoKey}]
      /\ Len(s) <= 2
  BY <1>2
<1> HIDE DEF w, x, s
<1> QED
  BY <1>4, <1>5, <1>6, <1>8, <1>9, AllocatorScope

LEMMA AllocatorEnd ==
  ASSUME AllocatorInv, NEW t \in Threads, Allocator!End(t) PROVE AllocatorInv'
<1>1. saved[t] = <<Allocator!NoContext>>
  BY DEF Allocator!End, AllocatorInv, WorksFor
<1>2. /\ Len(saved[t]) = 1 /\ saved[t][Len(saved[t])] = Allocator!NoContext
      /\ SubSeq(saved[t], 1, Len(saved[t]) - 1) = <<>>
  BY <1>1
<1>3. /\ thread' = [thread EXCEPT ![t] = Allocator!Idle]
      /\ context' = [context EXCEPT ![t] = Allocator!NoContext]
      /\ saved' = [saved EXCEPT ![t] = <<>>]
  BY <1>2 DEF Allocator!End, Allocator!Drop
<1>4. UNCHANGED <<registered, boxed, clients, live, instance, closing, held, charged, refused>>
  BY DEF Allocator!End, Allocator!allocator
<1>5. thread'[t] = Allocator!Idle /\ context'[t] = Allocator!NoContext /\ saved'[t] = <<>>
  BY <1>3 DEF AllocatorInv, Allocator!TypeOK
<1>6. WorksFor(t)'
  BY <1>5 DEF WorksFor, Allocator!Idle, NoKey
<1>7. /\ Allocator!Idle \in [at : {"idle", "load", "infer", "build"},
                             of : Backends \union {NoKey}]
      /\ Allocator!NoContext \in [client : Clients \union {NoKey},
                                  class : {"weights", "workspace", NoKey}]
      /\ Len(<<>>) <= 2
  BY DEF Allocator!Idle, Allocator!NoContext, NoKey
<1> QED
  BY <1>3, <1>4, <1>6, <1>7, AllocatorScope

LEMMA AllocatorAllocate ==
  ASSUME AllocatorInv, NEW t \in Threads, NEW b \in Backends, Allocator!Allocate(t, b)
  PROVE  AllocatorInv'
<1>1. PICK p \in Pointers, k \in Allocator!ClientOf(t) :
        /\ charged[p] = NoKey
        /\ \/ /\ live[p] = NoKey /\ live' = [live EXCEPT ![p] = k]
              /\ charged' = [charged EXCEPT ![p] = k] /\ held' = [held EXCEPT ![p] = b]
              /\ refused' = refused \ {p}
           \/ /\ charged' = [charged EXCEPT ![p] = k] /\ refused' = refused \union {p}
              /\ UNCHANGED <<live, held>>
  BY DEF Allocator!Allocate, NoKey
<1>2. UNCHANGED <<registered, boxed, clients, instance, closing, thread, context, saved>>
  BY DEF Allocator!Allocate, Allocator!threads
<1>3. k = instance[b] /\ k \in clients /\ k \in Clients /\ instance[b] # NoKey
  <2>1. k = context[t].client /\ k \in clients
    BY DEF Allocator!ClientOf
  <2>2. k \in Clients /\ k # NoKey
    BY <2>1, AllocatorConstants DEF AllocatorInv, Allocator!TypeOK
  <2>3. WorksFor(t) /\ Allocator!NoContext.client = NoKey
    BY DEF AllocatorInv, Allocator!NoContext, NoKey
  <2>4. thread[t].of \in Backends /\ context[t].client = instance[thread[t].of]
    BY <2>1, <2>2, <2>3 DEF WorksFor
  <2>5. thread[t].of = b
    BY <2>4, AllocatorConstants DEF Allocator!Allocate, NoKey
  <2> QED
    BY <2>1, <2>2, <2>4, <2>5
<1>4. Allocator!TypeOK'
  <2>1. live' \in [Pointers -> Clients \union {NoKey}]
    BY <1>1, <1>3 DEF AllocatorInv, Allocator!TypeOK, NoKey
  <2>2. held' \in [Pointers -> Backends \union {NoKey}]
    BY <1>1 DEF AllocatorInv, Allocator!TypeOK, NoKey
  <2>3. charged' \in [Pointers -> Clients \union {NoKey}] /\ refused' \subseteq Pointers
    BY <1>1, <1>3 DEF AllocatorInv, Allocator!TypeOK, NoKey
  <2> QED
    BY <1>2, <2>1, <2>2, <2>3 DEF AllocatorInv, Allocator!TypeOK, NoKey
<1>5. KeysOwned'
  BY <1>2 DEF AllocatorInv, KeysOwned
<1>6. DOMAIN saved' = Threads /\ \A u \in Threads : WorksFor(u)'
  BY <1>2, AllocatorThreads DEF AllocatorInv
<1>7. Allocator!HeldIsCharged'
  <2>1. held[p] = NoKey
    BY <1>1 DEF AllocatorInv, Allocator!HeldIsCharged, NoKey
  <2> SUFFICES ASSUME NEW q \in Pointers, held'[q] # NoKey
               PROVE  /\ instance[held'[q]] # NoKey /\ live'[q] = instance[held'[q]]
                      /\ charged'[q] = instance[held'[q]]
    BY <1>2 DEF Allocator!HeldIsCharged, NoKey
  <2>2. CASE q = p
    BY <1>1, <1>3, <2>1, <2>2 DEF AllocatorInv, Allocator!TypeOK
  <2>3. CASE q # p
    <3>1. held'[q] = held[q] /\ live'[q] = live[q] /\ charged'[q] = charged[q]
      BY <1>1, <2>3 DEF AllocatorInv, Allocator!TypeOK
    <3> QED
      BY <3>1 DEF AllocatorInv, Allocator!HeldIsCharged, NoKey
  <2> QED
    BY <2>2, <2>3
<1>8. Allocator!ChargedIsLive'
  BY <1>1, <1>2, <1>3 DEF AllocatorInv, Allocator!TypeOK, Allocator!ChargedIsLive
<1> QED
  BY <1>4, <1>5, <1>6, <1>7, <1>8 DEF AllocatorInv

LEMMA AllocatorFree ==
  ASSUME AllocatorInv, NEW p \in Pointers, Allocator!Free(p) \/ Allocator!Forget(p)
  PROVE  AllocatorInv'
<1>1. UNCHANGED <<registered, boxed, clients, instance, closing, thread, context, saved>>
  BY DEF Allocator!Free, Allocator!Forget, Allocator!threads, Allocator!allocator
<1>2. /\ held' = [held EXCEPT ![p] = NoKey]
      /\ \/ live' = [live EXCEPT ![p] = NoKey] /\ charged' = [charged EXCEPT ![p] = NoKey]
            /\ refused' = refused
         \/ live' = live /\ charged' = [charged EXCEPT ![p] = NoKey] /\ refused' = refused
         \/ live' = live /\ charged' = charged /\ refused' \in {refused, refused \union {p}}
  BY DEF Allocator!Free, Allocator!Forget, Allocator!allocator, NoKey
<1>3. Allocator!TypeOK'
  <2>1. /\ live' \in [Pointers -> Clients \union {NoKey}]
        /\ held' \in [Pointers -> Backends \union {NoKey}]
        /\ charged' \in [Pointers -> Clients \union {NoKey}] /\ refused' \subseteq Pointers
    BY <1>2 DEF AllocatorInv, Allocator!TypeOK, NoKey
  <2> QED
    BY <1>1, <2>1 DEF AllocatorInv, Allocator!TypeOK, NoKey
<1>4. KeysOwned'
  BY <1>1 DEF AllocatorInv, KeysOwned
<1>5. DOMAIN saved' = Threads /\ \A u \in Threads : WorksFor(u)'
  BY <1>1, AllocatorThreads DEF AllocatorInv
<1>6. Allocator!HeldIsCharged'
  BY <1>1, <1>2 DEF AllocatorInv, Allocator!TypeOK, Allocator!HeldIsCharged, NoKey
<1>7. Allocator!ChargedIsLive'
  BY <1>1, <1>2 DEF AllocatorInv, Allocator!TypeOK, Allocator!ChargedIsLive, NoKey
<1> QED
  BY <1>3, <1>4, <1>5, <1>6, <1>7 DEF AllocatorInv

LEMMA AllocatorUnregister ==
  ASSUME AllocatorInv, NEW b \in Backends, Allocator!Unregister(b) PROVE AllocatorInv'
<1> DEFINE k == instance[b]
<1>1. /\ b \in closing /\ \A p \in Pointers : held[p] # b
      /\ instance' = [instance EXCEPT ![b] = NoKey] /\ clients' = clients \ {k}
      /\ closing' = closing \ {b}
      /\ UNCHANGED <<thread, context, saved, held>>
  BY DEF Allocator!Unregister, Allocator!SessionsDropped, Allocator!threads, NoKey
<1>2. PICK kept \in SUBSET Allocator!Returnable(b) :
        LET taken == Allocator!Returnable(b) \ kept
        IN  /\ charged' = [p \in Pointers |-> IF p \in taken THEN NoKey ELSE charged[p]]
            /\ refused' = (refused \ taken) \union kept
  BY DEF Allocator!Unregister, Allocator!Reclaim, NoKey
<1>3. live' = [p \in Pointers |-> IF p \in Allocator!Mine(b) THEN NoKey ELSE live[p]]
  BY DEF Allocator!Unregister, Allocator!Reclaim, NoKey
<1>4. /\ Allocator!Mine(b) = {p \in Pointers : live[p] = k}
      /\ Allocator!Returnable(b) = {p \in Pointers : live[p] = k /\ charged[p] = k}
  BY DEF Allocator!Mine, Allocator!Returnable
<1>5. k # NoKey /\ \A c \in Backends : c # b => instance[c] # k
  BY <1>1 DEF AllocatorInv, KeysOwned, NoKey
<1>6. \A c \in Backends : instance'[c] = IF c = b THEN NoKey ELSE instance[c]
  BY <1>1 DEF AllocatorInv, Allocator!TypeOK
<1>7. registered' \in BOOLEAN /\ boxed' \in BOOLEAN /\ registered' = boxed'
      /\ (boxed' = FALSE => clients' = {} \/ boxed = FALSE)
  BY DEF Allocator!Unregister, Allocator!UnregisterAllocator, AllocatorInv, KeysOwned,
         Allocator!TypeOK
<1>8. clients' = {instance'[c] : c \in Backends} \ {NoKey}
  <2>1. clients = {instance[c] : c \in Backends} \ {NoKey}
    BY DEF AllocatorInv, Allocator!TypeOK, NoKey
  <2> QED
    BY <1>1, <1>5, <1>6, <2>1
<1>9. Allocator!TypeOK'
  <2>1. instance' \in [Backends -> Clients \union {NoKey}]
    BY <1>1 DEF AllocatorInv, Allocator!TypeOK, NoKey
  <2>2. live' \in [Pointers -> Clients \union {NoKey}]
    BY <1>3 DEF AllocatorInv, Allocator!TypeOK, NoKey
  <2>3. charged' \in [Pointers -> Clients \union {NoKey}]
    BY <1>2 DEF AllocatorInv, Allocator!TypeOK, NoKey
  <2>4. refused' \subseteq Pointers
    BY <1>2, <1>4 DEF AllocatorInv, Allocator!TypeOK
  <2>5. clients' \subseteq Clients /\ closing' \subseteq Backends
    BY <1>1 DEF AllocatorInv, Allocator!TypeOK
  <2> QED
    BY <1>1, <1>7, <1>8, <2>1, <2>2, <2>3, <2>4, <2>5 DEF AllocatorInv, Allocator!TypeOK, NoKey
<1>10. KeysOwned'
  BY <1>1, <1>5, <1>6, <1>7, <1>8 DEF AllocatorInv, KeysOwned, Allocator!TypeOK
<1>11. DOMAIN saved' = Threads /\ \A u \in Threads : WorksFor(u)'
  BY <1>1, <1>6, AllocatorThreads DEF AllocatorInv
<1>12. Allocator!HeldIsCharged'
  <2> SUFFICES ASSUME NEW p \in Pointers, held[p] # NoKey
               PROVE  /\ instance'[held[p]] # NoKey /\ live'[p] = instance'[held[p]]
                      /\ charged'[p] = instance'[held[p]]
    BY <1>1 DEF Allocator!HeldIsCharged, NoKey
  <2>1. held[p] \in Backends /\ held[p] # b
    BY <1>1 DEF AllocatorInv, Allocator!TypeOK, NoKey
  <2>2. instance'[held[p]] = instance[held[p]] /\ instance[held[p]] # k
    BY <1>5, <1>6, <2>1
  <2>3. live[p] = instance[held[p]] /\ charged[p] = instance[held[p]] /\ live[p] # NoKey
    BY DEF AllocatorInv, Allocator!HeldIsCharged, NoKey
  <2> QED
    BY <1>2, <1>3, <1>4, <2>2, <2>3
<1>13. Allocator!ChargedIsLive'
  <2> SUFFICES ASSUME NEW p \in Pointers, charged'[p] # NoKey, p \notin refused'
               PROVE  live'[p] = charged'[p] /\ live'[p] \in clients'
    BY DEF Allocator!ChargedIsLive, NoKey
  <2>1. p \notin Allocator!Returnable(b) /\ charged'[p] = charged[p] /\ p \notin refused
    BY <1>2
  <2>2. live[p] = charged[p] /\ live[p] \in clients
    BY <2>1 DEF AllocatorInv, Allocator!ChargedIsLive, NoKey
  <2> QED
    BY <1>1, <1>3, <1>4, <2>1, <2>2
<1> QED
  BY <1>9, <1>10, <1>11, <1>12, <1>13 DEF AllocatorInv

LEMMA AllocatorStep == AllocatorInv /\ [Allocator!Next]_allocatorVars => AllocatorInv'
<1> SUFFICES ASSUME AllocatorInv, [Allocator!Next]_allocatorVars PROVE AllocatorInv'
  OBVIOUS
<1>1. CASE UNCHANGED allocatorVars
  <2>1. Allocator!TypeOK' /\ KeysOwned' /\ DOMAIN saved' = Threads
    BY <1>1 DEF allocatorVars, AllocatorInv, Allocator!TypeOK, KeysOwned
  <2>2. \A t \in Threads : WorksFor(t)'
    BY <1>1, AllocatorThreads DEF allocatorVars
  <2>3. Allocator!HeldIsCharged' /\ Allocator!ChargedIsLive'
    BY <1>1 DEF allocatorVars, AllocatorInv, Allocator!HeldIsCharged, Allocator!ChargedIsLive
  <2> QED
    BY <2>1, <2>2, <2>3 DEF AllocatorInv
<1> QED
  BY <1>1, AllocatorJoin, AllocatorShutdown, AllocatorUnregister, AllocatorBegin,
     AllocatorBeginSession, AllocatorEndSession, AllocatorEnd, AllocatorAllocate, AllocatorFree
     DEF Allocator!Next

\* Whatever ONNX Runtime forgets and the hosts refuse, and however scopes nest and
\* instances shut down, memory is charged to the client whose work asked for it as
\* long as a session has it, and what is charged is in the table of a registered
\* client unless its host refused to take it back (Alloc, Free, AllocationScope,
\* unregister_client).
THEOREM MemoryAccountedHolds == Spec => []MemoryAccounted
<1>1. Init => AllocatorInv
  BY AllocatorInit DEF Init
<1>2. AllocatorInv /\ [Next]_allVars => AllocatorInv'
  BY AllocatorStep DEF Next, allVars
<1>3. AllocatorInv => MemoryAccounted
  BY AllocatorImplies DEF MemoryAccounted
<1> QED
  BY <1>1, <1>2, <1>3, PTL DEF Spec
=============================================================================
