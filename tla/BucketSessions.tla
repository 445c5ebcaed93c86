--------------------------- MODULE BucketSessions ---------------------------
(***************************************************************************)
(* Loading and unloading of a stateless ONNX model and its shape buckets:   *)
(* load_model and unload of lib.rs, load, unload, pool_for_request and      *)
(* touch_bucket_lru of model.rs. Several threads may load, and calls keep   *)
(* the model and the pool they looked up (Arc) whatever happens to the      *)
(* slot and to the bucket map meanwhile. What happens inside one pool is    *)
(* in OrtSessionPool; here a pool is its number of sessions.                *)
(***************************************************************************)
EXTENDS Naturals, FiniteSets, FiniteSetsExt, Sequences, SequencesExt

CONSTANTS
    Calls,        \* threads that infer
    Loaders,      \* threads that load a model
    Buckets,      \* bucket keys the inputs of calls have
    Limits,       \* values of max_bucket_sessions
    PoolSize,     \* session_pool_size
    MaxModels     \* bound: models alive at a time

VARIABLES
    limit,        \* max_bucket_sessions of this backend
    loaded,       \* the model in the slot, 0 if none
    models,       \* each LoadedModel alive
    loader,       \* what each loading thread does
    built,        \* sessions each loading thread has created and not published
    own,          \* history: the model each loading thread published
    raced,        \* history: loading threads whose model was unloaded under them
    call,         \* what each inferring thread does
    size          \* sessions of each pool, idle or in use

vars == <<limit, loaded, models, loader, built, own, raced, call, size>>

None == "none"
Models == 1 .. MaxModels

BucketAssumption ==
    /\ None \notin Buckets /\ Limits \subseteq Nat
    /\ PoolSize \in Nat \ {0} /\ MaxModels \in Nat
    /\ IsFiniteSet(Calls) /\ IsFiniteSet(Loaders)

\* A pool's identity: its model, its bucket, and a number that tells it from
\* evicted pools of the same bucket. A model's primary pool has no bucket.
Pools == Models \X (Buckets \union {None}) \X (0 .. Cardinality(Calls))
primary_pool(m) == <<m, None, 0>>
NoPool == <<>>
NoCall == [at |-> "idle", model |-> 0, bucket |-> None, pool |-> NoPool]

\* A LoadedModel with an empty BucketSessionState. `since` is history: the
\* buckets asked for since a bucket was last asked for.
LoadedModel(ok) ==
    [valid |-> ok, primary_bucket_key |-> None, sessions |-> <<>>, lru |-> <<>>,
     since |-> [b \in Buckets |-> {}]]

\* What is left of a model that was dropped.
NoModel == LoadedModel(FALSE)

\* The pools of a published model: its primary one and those of its buckets.
PoolsOf(m) == {primary_pool(m)} \union Range(models[m].sessions)

\* The models somebody refers to: the slot and the calls.
LiveModels == ({loaded} \union {call[c].model : c \in Calls}) \ {0}

Alive ==
    ({call[c].pool : c \in Calls} \ {NoPool}) \union UNION {PoolsOf(m) : m \in LiveModels}

\* The threads that hold sessions of a model they have not published, and those that
\* have published one and still look at the slot.
Loading == {l \in Loaders : loader[l] \in {"build", "publish"}}
Watching == {l \in Loaders : loader[l] \in {"validate", "undo"}}

\* The number of a new pool or model: which one does not matter.
Least(ids) == {i \in ids : \A j \in ids : i <= j}

\* Arc: what nobody refers to any more is dropped, a pool with its sessions.
DropModels(f) ==
    LET live == LiveModels' IN [m \in Models |-> IF m \in live THEN f[m] ELSE NoModel]
DropPools(f) ==
    LET alive == Alive' IN [p \in Pools |-> IF p \in alive THEN f[p] ELSE 0]

Running(p) == Cardinality({c \in Calls : call[c].at = "run" /\ call[c].pool = p})

TypeOK ==
    /\ limit \in Limits
    /\ loaded \in 0 .. MaxModels
    /\ DOMAIN models = Models
    /\ \A m \in LiveModels :
        /\ models[m].valid \in BOOLEAN
        /\ models[m].primary_bucket_key \in Buckets \union {None}
        /\ DOMAIN models[m].sessions \subseteq Buckets
        /\ Range(models[m].lru) \subseteq Buckets
        /\ PoolsOf(m) \subseteq Pools
    /\ loader \in [Loaders -> {"idle", "build", "publish", "validate", "undo"}]
    /\ built \in [Loaders -> 0 .. PoolSize]
    /\ \A l \in Loaders \ Loading : built[l] = 0
    /\ own \in [Loaders -> 0 .. MaxModels]
    /\ raced \subseteq Watching
    /\ call \in [Calls ->
        [at : {"idle", "pool", "acquire", "run"}, model : 0 .. MaxModels,
         bucket : Buckets \union {None}, pool : Pools \union {NoPool}]]
    /\ size \in [Pools -> 0 .. PoolSize]
    /\ \A p \in Alive : size[p] > 0 /\ Running(p) <= size[p]

Init ==
    /\ limit \in Limits
    /\ loaded = 0
    /\ models = [m \in Models |-> NoModel]
    /\ loader = [l \in Loaders |-> "idle"]
    /\ built = [l \in Loaders |-> 0]
    /\ own = [l \in Loaders |-> 0]
    /\ raced = {}
    /\ call = [c \in Calls |-> NoCall]
    /\ size = [p \in Pools |-> 0]

-----------------------------------------------------------------------------
(* load_model and unload.                                                   *)

\* load refuses early when a model is loaded; the slot is not locked afterwards.
StartLoad(l) ==
    /\ loader[l] = "idle"
    /\ loaded = 0
    /\ loader' = [loader EXCEPT ![l] = "build"]
    /\ UNCHANGED <<limit, loaded, models, built, own, raced, call, size>>

\* create_session: the first session, whose metadata is read, and one after the other
\* those that prewarm_session_pool fills the primary pool with.
BuildPool(l) ==
    /\ loader[l] = "build"
    /\ built' = [built EXCEPT ![l] = @ + 1]
    /\ loader' = [loader EXCEPT ![l] = IF built[l] + 1 = PoolSize THEN "publish" ELSE "build"]
    /\ UNCHANGED <<limit, loaded, models, own, raced, call, size>>

\* The file, a session or its metadata cannot be had: `?` drops what was built.
BuildFails(l) ==
    /\ loader[l] = "build"
    /\ loader' = [loader EXCEPT ![l] = "idle"]
    /\ built' = [built EXCEPT ![l] = 0]
    /\ UNCHANGED <<limit, loaded, models, own, raced, call, size>>

\* Mutant: the second look at the slot, under the write lock, is left out.
Publish_Unchecked(l) ==
    /\ loader[l] = "publish"
    /\ \E m \in Least(Models \ LiveModels), ok \in BOOLEAN :
        /\ loaded' = m
        /\ own' = [own EXCEPT ![l] = m]
        /\ UNCHANGED <<limit, raced, call>>
        /\ models' = DropModels([models EXCEPT ![m] = LoadedModel(ok)])
        /\ size' = DropPools([size EXCEPT ![primary_pool(m)] = built[l]])
    /\ loader' = [loader EXCEPT ![l] = "validate"]
    /\ built' = [built EXCEPT ![l] = 0]

\* The write lock. A slot that is taken refuses the model, which is dropped with its
\* sessions. Whether the preprocessor will accept the model is open.
Publish(l) ==
    /\ loader[l] = "publish"
    /\ \/ /\ loaded # 0
          /\ loader' = [loader EXCEPT ![l] = "idle"]
          /\ UNCHANGED <<loaded, models, own, size>>
       \/ /\ loaded = 0
          /\ \E m \in Least(Models \ LiveModels), ok \in BOOLEAN :
                /\ loaded' = m
                /\ own' = [own EXCEPT ![l] = m]
                /\ models' = [models EXCEPT ![m] = LoadedModel(ok)]
                /\ size' = [size EXCEPT ![primary_pool(m)] = built[l]]
          /\ loader' = [loader EXCEPT ![l] = "validate"]
    /\ built' = [built EXCEPT ![l] = 0]
    /\ UNCHANGED <<limit, raced, call>>

\* load_model returns.
Return(l) ==
    /\ loader' = [loader EXCEPT ![l] = "idle"]
    /\ own' = [own EXCEPT ![l] = 0]

\* model_info and validate_model_info look at the slot again: it may be empty
\* or hold another thread's model by now.
Validate(l) ==
    /\ loader[l] = "validate"
    /\ \/ /\ loaded # 0 /\ models[loaded].valid
          /\ Return(l)
          /\ raced' = raced \ {l}
       \/ /\ ~(loaded # 0 /\ models[loaded].valid)
          /\ loader' = [loader EXCEPT ![l] = "undo"]
          /\ UNCHANGED <<own, raced>>
    /\ UNCHANGED <<limit, loaded, models, built, call, size>>

\* *loaded = None drops the slot's reference.
ClearSlot ==
    /\ loaded' = 0
    /\ UNCHANGED <<limit, built, call>>
    /\ models' = DropModels(models)

\* The failed validation unloads whatever the slot holds: for a thread whose own model
\* was unloaded meanwhile that is a model another thread published and looks at.
Undo(l) ==
    /\ loader[l] = "undo"
    /\ Return(l)
    /\ raced' = (IF l \in raced THEN Watching ELSE raced) \ {l}
    /\ ClearSlot
    /\ size' = DropPools(size)

\* The host unloads, perhaps while threads still validate.
Unload ==
    /\ loaded # 0
    /\ raced' = Watching
    /\ UNCHANGED <<loader, own>>
    /\ ClearSlot
    /\ size' = DropPools(size)

-----------------------------------------------------------------------------
(* infer: the model, the pool of the input's bucket, a session.             *)

\* loaded_model clones the Arc in the slot.
Begin(c) ==
    /\ call[c].at = "idle"
    /\ loaded # 0
    /\ \E b \in Buckets :
        call' = [call EXCEPT ![c] = [NoCall EXCEPT !.at = "pool", !.model = loaded, !.bucket = b]]
    /\ UNCHANGED <<limit, loaded, models, loader, built, own, raced, size>>

touch_bucket_lru(lru, b) == Append(RemoveFirst(lru, b), b)

secondary_capacity == Max({limit - 1, 1})

\* Mutant: room is made only when the map is over its limit.
Evict_Late(lru, sessions) ==
    LET n == IF Cardinality(DOMAIN sessions) <= secondary_capacity THEN 0
             ELSE Cardinality(DOMAIN sessions) - secondary_capacity
        kept == DOMAIN sessions \ Range(SubSeq(lru, 1, n))
    IN  [lru |-> SubSeq(lru, n + 1, Len(lru)),
         sessions |-> [b \in kept |-> sessions[b]]]

\* What eviction makes room for one more pool with: pops from the front of the
\* queue while the map is full.
Evict(lru, sessions) ==
    LET n == IF Cardinality(DOMAIN sessions) < secondary_capacity THEN 0
             ELSE Cardinality(DOMAIN sessions) - secondary_capacity + 1
        kept == DOMAIN sessions \ Range(SubSeq(lru, 1, n))
    IN  [lru |-> SubSeq(lru, n + 1, Len(lru)),
         sessions |-> [b \in kept |-> sessions[b]]]

\* History: bucket b of model m was asked for.
Asked(m, b) ==
    [x \in Buckets |-> IF x = b THEN {} ELSE models[m].since[x] \union {b}]

\* One bucket needs no map, and the first key asked for is the primary pool's.
UsesPrimary(m, b) ==
    \/ limit <= 1
    \/ models[m].primary_bucket_key \in {None, b}

PrimaryPool(c) ==
    LET m == call[c].model
        b == call[c].bucket
    IN  /\ call[c].at = "pool"
        /\ UsesPrimary(m, b)
        /\ models' = IF limit <= 1 THEN models
                     ELSE [models EXCEPT ![m].primary_bucket_key = b,
                                         ![m].since = Asked(m, b)]
        /\ call' = [call EXCEPT ![c].at = "acquire", ![c].pool = primary_pool(m)]
        /\ UNCHANGED <<limit, loaded, loader, built, own, raced, size>>

KnownBucket(c) ==
    LET m == call[c].model
        b == call[c].bucket
    IN  /\ call[c].at = "pool"
        /\ ~UsesPrimary(m, b)
        /\ b \in DOMAIN models[m].sessions
        /\ models' = [models EXCEPT ![m].lru = touch_bucket_lru(@, b),
                                    ![m].since = Asked(m, b)]
        /\ call' = [call EXCEPT ![c].at = "acquire", ![c].pool = models[m].sessions[b]]
        /\ UNCHANGED <<limit, loaded, loader, built, own, raced, size>>

\* A new bucket: room is made before its session is created. The map is locked
\* throughout; a session that cannot be created leaves it without the evicted pool.
NewBucket(c) ==
    LET m == call[c].model
        b == call[c].bucket
        room == Evict(models[m].lru, models[m].sessions)
    IN  /\ call[c].at = "pool"
        /\ ~UsesPrimary(m, b)
        /\ b \notin DOMAIN models[m].sessions
        /\ \/ /\ call' = [call EXCEPT ![c] = NoCall]
              /\ UNCHANGED <<limit, loaded, loader, built, own, raced>>
              /\ models' = DropModels(
                    [models EXCEPT ![m].lru = room.lru, ![m].sessions = room.sessions,
                                   ![m].since = Asked(m, b)])
              /\ size' = DropPools(size)
           \/ \E p \in {<<m, b, n>> : n \in Least({n \in 0 .. Cardinality(Calls) : <<m, b, n>> \notin Alive})} :
              /\ call' = [call EXCEPT ![c].at = "acquire", ![c].pool = p]
              /\ UNCHANGED <<limit, loaded, loader, built, own, raced>>
              /\ models' = [models EXCEPT
                    ![m].lru = touch_bucket_lru(room.lru, b),
                    ![m].sessions = [x \in DOMAIN room.sessions \union {b} |->
                                        IF x = b THEN p ELSE room.sessions[x]],
                    ![m].since = Asked(m, b)]
              /\ size' = DropPools([size EXCEPT ![p] = 1])

\* SessionPool::acquire takes an idle session.
Acquire(c) ==
    /\ call[c].at = "acquire"
    /\ Running(call[c].pool) < size[call[c].pool]
    /\ call' = [call EXCEPT ![c].at = "run"]
    /\ UNCHANGED <<limit, loaded, models, loader, built, own, raced, size>>

\* SessionPool::acquire creates one while the pool is below its limit.
Grow(c) ==
    LET p == call[c].pool
    IN  /\ call[c].at = "acquire"
        /\ Running(p) = size[p]
        /\ size[p] < PoolSize
        /\ size' = [size EXCEPT ![p] = @ + 1]
        /\ call' = [call EXCEPT ![c].at = "run"]
        /\ UNCHANGED <<limit, loaded, models, loader, built, own, raced>>

\* The call returns, with a result or without having had a session (it was
\* cancelled or none could be created): its session goes back to the pool and its
\* references are dropped.
End(c) ==
    /\ call[c].at \in {"acquire", "run"}
    /\ call' = [call EXCEPT ![c] = NoCall]
    /\ UNCHANGED <<limit, loaded, loader, built, own, raced>>
    /\ models' = DropModels(models)
    /\ size' = DropPools(size)

Next ==
    \/ Unload
    \/ \E l \in Loaders :
        StartLoad(l) \/ BuildPool(l) \/ BuildFails(l) \/ Publish(l) \/ Validate(l) \/ Undo(l)
    \/ \E c \in Calls :
        Begin(c) \/ PrimaryPool(c) \/ KnownBucket(c) \/ NewBucket(c)
        \/ Acquire(c) \/ Grow(c) \/ End(c)

Spec == Init /\ [][Next]_vars

-----------------------------------------------------------------------------
\* The queue holds the keys of the bucket map, each once, and every pool belongs to
\* one bucket, so that pool_for_request always finds a pool to evict; and it evicts
\* before the map would exceed its capacity (model.rs 757-763).
LruIsTheMap ==
    \A m \in LiveModels :
        LET s == models[m].sessions
        IN  /\ Range(models[m].lru) = DOMAIN s
            /\ Len(models[m].lru) = Cardinality(DOMAIN s)
            /\ Cardinality(DOMAIN s) <= secondary_capacity
            /\ models[m].primary_bucket_key \notin DOMAIN s
            /\ IsInjective(s)

\* Calls whose pool was evicted from their model's map.
OnEvicted == {c \in Calls : /\ call[c].pool # NoPool
                           /\ call[c].pool \notin PoolsOf(call[c].model)}

\* An evicted pool lives on while calls use it, beside the pool created in its
\* place, an unloaded model with all its pools while a call refers to it (model.rs
\* 758), and a load holds a whole primary pool before it learns whether the slot is
\* still free (model.rs 515-530): the sessions alive exceed the configured number by at
\* most a pool for each call on an evicted one, a pool for each thread that loads, and
\* the configured number again for each unloaded model that calls still use.
SessionsBounded ==
    MapThenSumSet(LAMBDA p : size[p], Alive) + MapThenSumSet(LAMBDA l : built[l], Loading)
        <= PoolSize * ((1 + secondary_capacity) * Cardinality(LiveModels)
                        + Cardinality(OnEvicted) + Cardinality(Loading))

\* The bucket that loses its pool is the one not asked for the longest, whatever
\* order concurrent calls came in (model.rs 1074).
EvictsLeastRecent ==
    \A m \in LiveModels \intersect LiveModels' :
        \A b \in DOMAIN models[m].sessions \ DOMAIN models'[m].sessions :
            DOMAIN models[m].sessions \ {b} \subseteq models[m].since[b]

\* A loaded model is never replaced by another load: two loads that both found the
\* slot empty do not both succeed (model.rs 503, 530).
NeverReplaced == loaded # 0 => loaded' \in {0, loaded}

\* When no thread is loading, the model in the slot is one that the preprocessor
\* accepts, although load_model validates what it finds in the slot after it has
\* published its own model (lib.rs 485-491).
ServedIsValid ==
    Watching = {} => (loaded # 0 => models[loaded].valid)

\* A load unloads no model but its own, and only one that the preprocessor refused,
\* unless its model was unloaded under it: by the host while the load was under way, or
\* by a load to which that had happened. Only the host's unload starts this; the code
\* does not exclude it (lib.rs 485-491), but two loads alone never get there.
UndoIsOwn ==
    \A l \in Watching \ raced :
        /\ loaded = own[l] /\ own[l] # 0
        /\ loader[l] = "undo" => ~models[loaded].valid

\* Through loads, unloads and evictions the map, its queue and the slot stay
\* consistent, a load undoes only itself, and the sessions alive are bounded.
PoolsAccounted ==
  /\ TypeOK
  /\ LruIsTheMap
  /\ SessionsBounded
  /\ ServedIsValid
  /\ UndoIsOwn
=============================================================================
