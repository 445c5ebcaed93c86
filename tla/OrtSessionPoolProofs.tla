------------------------ MODULE OrtSessionPoolProofs ------------------------
(***************************************************************************)
(* Proofs about OrtSessionPool for every number of threads, requests,      *)
(* cancellers, run options and sessions.                                   *)
(***************************************************************************)
EXTENDS OrtSessionPool, FiniteSetTheorems, SequenceTheorems, TLAPS

\* A pool that is still being loaded has no users.
UnusedUntilReady == phase # "ready" => \A t \in Threads : pc[t] = "idle"

\* Between its registration and its last group a call has a group to execute.
HasGroup ==
  \A t \in Threads : pc[t] \notin {"idle", "final", "leave"} => todo[t] # <<>>

\* The inductive invariant behind the slot accounting
PoolInv == TypeOK /\ UnusedUntilReady /\ HasGroup /\ SlotAccounting

\* What a step does to the program counters: thread t goes to `to`, and others
\* at most wake up from the condition variable.
Moved(t, to) ==
  /\ pc' \in [Threads -> PCs]
  /\ pc'[t] = to
  /\ \A u \in Threads \ {t} :
       pc'[u] = pc[u] \/ (pc[u] = "waiting" /\ pc'[u] = "check")

\* GroupOrders yields non-empty sequences of sets of requests.
LEMMA GroupOrdersType ==
  ASSUME NEW S \in SUBSET Ids, NEW g \in GroupOrders(S)
  PROVE  g \in Seq(SUBSET Ids) /\ g # <<>>
<1>1. IsFiniteSet(S)
  BY IdsFinite, FS_Subset
<1>2. Cardinality(S) \in Nat
  BY <1>1, FS_CardinalityType
<1>3. PICK n \in 1..Cardinality(S) : g \in [1..n -> (SUBSET S) \ {{}}]
  BY DEF GroupOrders
<1>4. n \in Nat /\ n >= 1
  BY <1>2, <1>3
<1>5. g \in [1..n -> SUBSET Ids]
  BY <1>3
<1>6. g \in Seq(SUBSET Ids) /\ Len(g) = n
  BY <1>4, <1>5
<1> QED BY <1>4, <1>6

LEMMA SinglesType ==
  ASSUME NEW S \in SUBSET Ids, NEW g \in Singles(S)
  PROVE  g \in Seq(SUBSET Ids) /\ g # <<>>
BY GroupOrdersType DEF Singles

\* Goto, notify_one and notify_all move one thread and wake others at most.
LEMMA GotoMoves ==
  ASSUME TypeOK, NEW t \in Threads, NEW to \in PCs,
         Goto(t, to) \/ GotoNotifyingOne(t, to)
           \/ pc' = [AllWoken EXCEPT ![t] = to],
         pc[t] # "waiting"
  PROVE  Moved(t, to)
<1> USE DEF TypeOK, Moved, PCs
<1>1. CASE Goto(t, to)
  BY <1>1 DEF Goto
<1>2. CASE GotoNotifyingOne(t, to)
  <2>1. CASE Waiting = {}
    BY <1>2, <2>1 DEF GotoNotifyingOne, Goto
  <2>2. CASE Waiting # {}
    <3>1. PICK w \in Waiting : pc' = [pc EXCEPT ![t] = to, ![w] = "check"]
      BY <1>2, <2>2 DEF GotoNotifyingOne
    <3>2. w \in Threads /\ pc[w] = "waiting" /\ w # t
      BY DEF Waiting
    <3> QED BY <3>1, <3>2
  <2> QED BY <2>1, <2>2
<1>3. CASE pc' = [AllWoken EXCEPT ![t] = to]
  BY <1>3 DEF AllWoken
<1> QED BY <1>1, <1>2, <1>3

\* What such a step does to the sets that SlotAccounting counts.
LEMMA CountsAfterMove ==
  ASSUME TypeOK, NEW t \in Threads, NEW to \in PCs, Moved(t, to)
  PROVE  /\ Holders' = IF to \in Holding THEN Holders \cup {t} ELSE Holders \ {t}
         /\ Creators' = IF to = "create" THEN Creators \cup {t} ELSE Creators \ {t}
BY DEF TypeOK, Moved, Holders, Creators, Holding

LEMMA CountsAreNaturals ==
  /\ IsFiniteSet(Holders) /\ Cardinality(Holders) \in Nat
  /\ IsFiniteSet(Creators) /\ Cardinality(Creators) \in Nat
BY ThreadsFinite, FS_Subset, FS_CardinalityType DEF Holders, Creators

\* How the two counts change when thread t goes to `to`.
LEMMA CountsStep ==
  ASSUME TypeOK, NEW t \in Threads, NEW to \in PCs, Moved(t, to)
  PROVE  /\ Cardinality(Holders') =
              IF to \in Holding
                THEN IF t \in Holders THEN Cardinality(Holders) ELSE Cardinality(Holders) + 1
                ELSE IF t \in Holders THEN Cardinality(Holders) - 1 ELSE Cardinality(Holders)
         /\ Cardinality(Creators') =
              IF to = "create"
                THEN IF t \in Creators THEN Cardinality(Creators) ELSE Cardinality(Creators) + 1
                ELSE IF t \in Creators THEN Cardinality(Creators) - 1 ELSE Cardinality(Creators)
<1>1. /\ Holders' = IF to \in Holding THEN Holders \cup {t} ELSE Holders \ {t}
      /\ Creators' = IF to = "create" THEN Creators \cup {t} ELSE Creators \ {t}
  BY CountsAfterMove
<1>2. /\ Cardinality(Holders \cup {t}) =
           IF t \in Holders THEN Cardinality(Holders) ELSE Cardinality(Holders) + 1
      /\ Cardinality(Holders \ {t}) =
           IF t \in Holders THEN Cardinality(Holders) - 1 ELSE Cardinality(Holders)
  BY CountsAreNaturals, FS_AddElement, FS_RemoveElement
<1>3. /\ Cardinality(Creators \cup {t}) =
           IF t \in Creators THEN Cardinality(Creators) ELSE Cardinality(Creators) + 1
      /\ Cardinality(Creators \ {t}) =
           IF t \in Creators THEN Cardinality(Creators) - 1 ELSE Cardinality(Creators)
  BY CountsAreNaturals, FS_AddElement, FS_RemoveElement
<1> QED BY <1>1, <1>2, <1>3

\* A step of a thread that leaves the pool alone and neither gains nor loses a
\* session or a slot keeps the accounting.
LEMMA QuietStep ==
  ASSUME PoolInv, NEW t \in Threads, NEW to \in PCs, Moved(t, to),
         phase = "ready", UNCHANGED poolVars,
         to \in Holding <=> pc[t] \in Holding,
         to = "create" <=> pc[t] = "create"
  PROVE  SlotAccounting' /\ UnusedUntilReady'
<1>1. Cardinality(Holders') = Cardinality(Holders)
  BY CountsStep DEF PoolInv, Holders
<1>2. Cardinality(Creators') = Cardinality(Creators)
  BY CountsStep DEF PoolInv, Creators
<1>3. PrewarmSlot' = PrewarmSlot
  BY DEF PrewarmSlot, poolVars
<1> QED BY <1>1, <1>2, <1>3 DEF PoolInv, SlotAccounting, UnusedUntilReady, poolVars

\* A call that still has a group to execute, or needs none, keeps HasGroup.
LEMMA GroupsKept ==
  ASSUME PoolInv, NEW t \in Threads, NEW to \in PCs, Moved(t, to),
         \A u \in Threads \ {t} : todo'[u] = todo[u],
         to \notin {"idle", "final", "leave"} => todo'[t] # <<>>
  PROVE  HasGroup'
BY DEF PoolInv, HasGroup, Moved

\* A step of a thread in a call happens in a ready pool.
LEMMA CallsNeedReady ==
  ASSUME PoolInv, NEW t \in Threads, pc[t] # "idle"
  PROVE  phase = "ready"
BY DEF PoolInv, UnusedUntilReady

\* LeaveWith, InferEnds and Proceed at a program point outside the pool.
LEMMA PlainMove ==
  ASSUME PoolInv, NEW t \in Threads, NEW to \in PCs,
         pc[t] # "idle", pc[t] # "waiting" \/ to = "check",
         to \in Holding <=> pc[t] \in Holding,
         to = "create" <=> pc[t] = "create",
         to \notin {"idle", "final", "leave"} =>
           pc[t] \notin {"idle", "final", "leave"},
         Goto(t, to),
         UNCHANGED <<poolVars, ids, todo, filled, run, registryVars, pend, terminated>>,
         res' \in [Threads -> Outcomes]
  PROVE  PoolInv'
<1>1. TypeOK /\ phase = "ready"
  BY CallsNeedReady DEF PoolInv
<1>2. Moved(t, to)
  BY <1>1 DEF Moved, Goto, TypeOK
<1>3. HasGroup'
  <2>1. \A u \in Threads \ {t} : todo'[u] = todo[u]
    BY DEF poolVars
  <2>2. to \notin {"idle", "final", "leave"} => todo'[t] # <<>>
    BY DEF PoolInv, HasGroup
  <2> QED BY <1>2, <2>1, <2>2, GroupsKept
<1>4. SlotAccounting' /\ UnusedUntilReady'
  BY <1>1, <1>2, QuietStep
<1>5. TypeOK'
  BY <1>1, <1>2 DEF TypeOK, Moved, poolVars, registryVars
<1> QED BY <1>3, <1>4, <1>5 DEF PoolInv

LEMMA PoolInvInit == Init => PoolInv
<1> SUFFICES ASSUME Init PROVE PoolInv
  OBVIOUS
<1>1. TypeOK
  BY DEF Init, TypeOK, PCs, Outcomes, Terminators
<1>2. UnusedUntilReady /\ HasGroup
  BY DEF Init, UnusedUntilReady, HasGroup
<1>3. Holders = {} /\ Creators = {}
  BY DEF Init, Holders, Creators, Holding
<1>4. SlotAccounting
  BY <1>3, FS_EmptySet, MaxSessionsPositive DEF Init, SlotAccounting, PrewarmSlot
<1> QED BY <1>1, <1>2, <1>4 DEF PoolInv

\* The steps of the load, before the pool has users.
LEMMA PoolInvLoad ==
  ASSUME PoolInv, Load
  PROVE  PoolInv'
<1>1. TypeOK /\ UnusedUntilReady /\ HasGroup /\ SlotAccounting
  BY DEF PoolInv
<1>2. phase # "ready" /\ UNCHANGED <<pc, callVars, registryVars, pend, terminated>>
  BY DEF Load, ReserveSlot, AddReservedSession, PrewarmFails, LoadAgain
<1>3. \A t \in Threads : pc[t] = "idle"
  BY <1>1, <1>2 DEF UnusedUntilReady
<1>4. Holders = {} /\ Creators = {} /\ Holders' = {} /\ Creators' = {}
  BY <1>2, <1>3 DEF Holders, Creators, Holding
<1>5. Cardinality(Holders) = 0 /\ Cardinality(Creators) = 0
      /\ Cardinality(Holders') = 0 /\ Cardinality(Creators') = 0
  BY <1>4, FS_EmptySet
<1>6. HasGroup' /\ UnusedUntilReady'
  BY <1>2, <1>3 DEF HasGroup, UnusedUntilReady, callVars
<1>7. total = idle + PrewarmSlot /\ total <= MaxSessions /\ idle \in Nat /\ total \in Nat
  BY <1>1, <1>5 DEF SlotAccounting, TypeOK, PrewarmSlot
<1>8. /\ total' = idle' + PrewarmSlot' /\ total' <= MaxSessions
      /\ idle' \in Nat /\ total' \in Nat
      /\ phase' \in {"prewarm", "creating", "ready", "failed"}
  BY <1>7, MaxSessionsPositive
     DEF Load, ReserveSlot, AddReservedSession, PrewarmFails, LoadAgain, PrewarmSlot
<1>9. SlotAccounting'
  BY <1>5, <1>8 DEF SlotAccounting, PrewarmSlot
<1>10. TypeOK'
  BY <1>1, <1>2, <1>8 DEF TypeOK, callVars, registryVars
<1> QED BY <1>6, <1>9, <1>10 DEF PoolInv

\* Steps that only read the registry and move on.
PlainStep(t) ==
  \/ EntryCheck(t) \/ Prepare(t) \/ InferStart(t) \/ AcquireCheck(t) \/ SpuriousWake(t)
  \/ InputsRejected(t) \/ RunEnds(t) \/ RunCheck(t) \/ GroupFails(t) \/ Finish(t)

LEMMA PoolInvPlain ==
  ASSUME PoolInv, NEW t \in Threads, PlainStep(t)
  PROVE  PoolInv'
<1> USE DEF PlainStep, Holding, PCs
<1>1. res \in [Threads -> Outcomes]
  BY DEF PoolInv, TypeOK
<1>2. res' \in [Threads -> Outcomes]
  BY <1>1 DEF EntryCheck, Prepare, InferStart, AcquireCheck, SpuriousWake, InputsRejected,
              RunEnds, RunOk, RunErr, InputUnconvertible, RunCheck, GroupFails, Finish, HostOrRegistryCheck,
              LeaveWith, Proceed, InferEnds, callVars, Outcomes
<1>3. UNCHANGED <<poolVars, ids, todo, filled, run, registryVars, pend, terminated>>
  BY DEF EntryCheck, Prepare, InferStart, AcquireCheck, SpuriousWake, InputsRejected,
         RunEnds, RunOk, RunErr, InputUnconvertible, RunCheck, GroupFails, Finish, HostOrRegistryCheck,
         LeaveWith, Proceed, InferEnds, callVars
<1>4. PICK to \in PCs :
        /\ Goto(t, to)
        /\ pc[t] # "idle" /\ (pc[t] # "waiting" \/ to = "check")
        /\ to \in Holding <=> pc[t] \in Holding
        /\ to = "create" <=> pc[t] = "create"
        /\ to \notin {"idle", "final", "leave"} => pc[t] \notin {"idle", "final", "leave"}
  BY DEF EntryCheck, Prepare, InferStart, AcquireCheck, SpuriousWake, InputsRejected,
         RunEnds, RunOk, RunErr, InputUnconvertible, RunCheck, GroupFails, Finish, HostOrRegistryCheck,
         LeaveWith, Proceed, InferEnds
<1> QED BY <1>2, <1>3, <1>4, PlainMove

\* Steps that change the pool, the registration or the groups of the call.
LEMMA PoolInvCall ==
  ASSUME PoolInv, NEW t \in Threads,
         CallInfer(t) \/ CallInferBatch(t) \/ CallStep(t) \/ SpuriousWake(t) \/ RunEnds(t)
  PROVE  PoolInv'
<1> USE DEF Holding, PCs
<1>1. TypeOK /\ UnusedUntilReady /\ HasGroup /\ SlotAccounting
  BY DEF PoolInv
<1>t. /\ idle \in Nat /\ total \in Nat /\ MaxSessions \in Nat
      /\ pc \in [Threads -> PCs] /\ todo \in [Threads -> Seq(SUBSET Ids)]
      /\ ids \in [Threads -> SUBSET Ids] /\ filled \in [Threads -> SUBSET Ids]
      /\ res \in [Threads -> Outcomes] /\ run \in [Threads -> {"none"} \cup Runs]
      /\ active \in SUBSET Ids /\ cancelled \in SUBSET Ids /\ terminated \in SUBSET Runs
      /\ term \in [Ids -> Terminators] /\ pend \in [Cancellers -> Terminators]
      /\ phase \in {"prewarm", "creating", "ready", "failed"}
  BY <1>1, MaxSessionsPositive DEF TypeOK
<1>c. /\ Cardinality(Holders) \in Nat /\ Cardinality(Creators) \in Nat
      /\ t \in Holders <=> pc[t] \in Holding
      /\ t \in Creators <=> pc[t] = "create"
  BY CountsAreNaturals DEF Holders, Creators
<1>s. /\ total = idle + Cardinality(Holders) + Cardinality(Creators) + PrewarmSlot
      /\ total <= MaxSessions
  BY <1>1 DEF SlotAccounting
<1>2. ASSUME NEW S \in SUBSET Ids, NEW groups, NEW to \in {"entered", "prepare"},
             Register(t, S, groups, to), groups \in Seq(SUBSET Ids), groups # <<>>
      PROVE  PoolInv'
  <2>1. Moved(t, to)
    BY <1>1, <1>2, GotoMoves DEF Register
  <2>2. SlotAccounting' /\ UnusedUntilReady'
    BY <1>2, <2>1, QuietStep DEF Register
  <2>3. HasGroup'
    BY <1>t, <1>2, <2>1, GroupsKept DEF Register
  <2>4. TypeOK'
    BY <1>t, <1>2, <2>1 DEF Register, Moved, TypeOK, Terminators, Outcomes, poolVars
  <2> QED BY <2>2, <2>3, <2>4 DEF PoolInv
<1>3. CASE CallInfer(t)
  <2>1. PICK i \in Ids : Register(t, {i}, <<{i}>>, "entered")
    BY <1>3 DEF CallInfer
  <2>2. <<{i}>> \in Seq(SUBSET Ids) /\ <<{i}>> # <<>> /\ {i} \in SUBSET Ids
    OBVIOUS
  <2> QED BY <1>2, <2>1, <2>2
<1>4. CASE CallInferBatch(t)
  <2>1. PICK S \in SUBSET Ids : \E groups \in GroupOrders(S) : Register(t, S, groups, "prepare")
    BY <1>4 DEF CallInferBatch
  <2>2. PICK groups \in GroupOrders(S) : Register(t, S, groups, "prepare")
    BY <2>1
  <2> QED BY <1>2, <2>2, GroupOrdersType
<1>5. CASE PlainStep(t)
  BY <1>5, PoolInvPlain
<1>6. ASSUME pc[t] # "idle"
      PROVE  phase = "ready" /\ PrewarmSlot = 0
  BY <1>6, CallsNeedReady DEF PrewarmSlot
<1>7. CASE AttachWait(t)
  <2>1. PICK to \in {"wake", "check"} : Goto(t, to)
    BY <1>7 DEF AttachWait
  <2>2. Moved(t, to)
    BY <1>1, <1>7, <2>1, GotoMoves DEF AttachWait
  <2>3. SlotAccounting' /\ UnusedUntilReady'
    BY <1>6, <1>7, <2>2, QuietStep DEF AttachWait
  <2>4. HasGroup'
    BY <1>1, <1>7, <2>2, GroupsKept DEF AttachWait, callVars, HasGroup
  <2>5. TypeOK'
    BY <1>t, <1>7, <2>2 DEF AttachWait, Moved, TypeOK, Terminators, poolVars, callVars
  <2> QED BY <2>3, <2>4, <2>5 DEF PoolInv
<1>8. CASE AttachWake(t)
  <2>1. Moved(t, "check")
    BY <1>1, <1>8, GotoMoves DEF AttachWake
  <2>2. SlotAccounting' /\ UnusedUntilReady'
    BY <1>6, <1>8, <2>1, QuietStep DEF AttachWake
  <2>3. HasGroup'
    BY <1>1, <1>8, <2>1, GroupsKept DEF AttachWake, callVars, HasGroup
  <2>4. TypeOK'
    BY <1>t, <1>8, <2>1 DEF AttachWake, Moved, TypeOK, poolVars, callVars, registryVars
  <2> QED BY <2>2, <2>3, <2>4 DEF PoolInv
<1>9. CASE AcquireLock(t)
  <2>1. PICK to \in {"attachRun", "create", "waiting"} : Goto(t, to)
    BY <1>9 DEF AcquireLock
  <2>2. Moved(t, to)
    BY <1>1, <1>9, <2>1, GotoMoves DEF AcquireLock
  <2>3. HasGroup'
    BY <1>1, <1>9, <2>2, GroupsKept DEF AcquireLock, callVars, HasGroup
  <2>4. idle' \in Nat /\ total' \in Nat /\ phase' = phase
    BY <1>t, <1>9 DEF AcquireLock
  <2>5. TypeOK'
    BY <1>t, <1>9, <2>2, <2>4 DEF AcquireLock, Moved, TypeOK, callVars, registryVars
  <2>6. phase' = "ready" /\ PrewarmSlot = 0 /\ PrewarmSlot' = 0
    BY <1>6, <1>9, <2>4 DEF AcquireLock, PrewarmSlot
  <2>7. SlotAccounting'
    <3>1. pc[t] = "lock" /\ t \notin Holders /\ t \notin Creators /\ pc'[t] = to
      BY <1>c, <1>9, <2>2 DEF AcquireLock, Moved
    <3>2. /\ Cardinality(Holders') =
               IF to = "attachRun" THEN Cardinality(Holders) + 1 ELSE Cardinality(Holders)
          /\ Cardinality(Creators') =
               IF to = "create" THEN Cardinality(Creators) + 1 ELSE Cardinality(Creators)
      BY <1>1, <2>2, <3>1, CountsStep
    <3>3. /\ to = "attachRun" => idle > 0 /\ idle' = idle - 1 /\ total' = total
          /\ to = "create" => total < MaxSessions /\ total' = total + 1 /\ idle' = idle
          /\ to = "waiting" => idle' = idle /\ total' = total
      BY <1>9, <1>t, <2>1, <3>1 DEF AcquireLock, Goto
    <3> QED BY <1>t, <1>c, <1>s, <2>6, <3>2, <3>3 DEF SlotAccounting
  <2> QED BY <2>3, <2>5, <2>6, <2>7 DEF PoolInv, UnusedUntilReady
<1>10. CASE CreateSession(t)
  <2>1. Moved(t, "attachRun") /\ pc[t] = "create"
    BY <1>1, <1>10, GotoMoves DEF CreateSession, Proceed
  <2>2. HasGroup'
    BY <1>1, <1>10, <2>1, GroupsKept DEF CreateSession, Proceed, callVars, HasGroup
  <2>3. TypeOK'
    BY <1>t, <1>10, <2>1
       DEF CreateSession, Proceed, Moved, TypeOK, poolVars, callVars, registryVars
  <2>4. phase' = "ready" /\ PrewarmSlot = 0 /\ PrewarmSlot' = 0
    BY <1>6, <1>10, <2>1 DEF CreateSession, Proceed, PrewarmSlot, poolVars
  <2>5. /\ Cardinality(Holders') = Cardinality(Holders) + 1
        /\ Cardinality(Creators') = Cardinality(Creators) - 1
    BY <1>1, <1>c, <2>1, CountsStep
  <2>6. SlotAccounting'
    BY <1>c, <1>t, <1>s, <1>10, <2>4, <2>5 DEF CreateSession, Proceed, SlotAccounting, poolVars
  <2> QED BY <2>2, <2>3, <2>4, <2>6 DEF PoolInv, UnusedUntilReady
<1>11. CASE CreateSessionFails(t)
  <2>1. Moved(t, "inferred") /\ pc[t] = "create"
    BY <1>1, <1>11, GotoMoves DEF CreateSessionFails
  <2>2. HasGroup'
    BY <1>1, <1>11, <2>1, GroupsKept DEF CreateSessionFails, HasGroup
  <2>3. total' \in Nat
    BY <1>t, <1>11 DEF CreateSessionFails
  <2>4. TypeOK'
    BY <1>t, <1>11, <2>1, <2>3 DEF CreateSessionFails, Moved, TypeOK, Outcomes, registryVars
  <2>5. phase' = "ready" /\ PrewarmSlot = 0 /\ PrewarmSlot' = 0
    BY <1>6, <1>11, <2>1 DEF CreateSessionFails, PrewarmSlot
  <2>6. /\ Cardinality(Holders') = Cardinality(Holders)
        /\ Cardinality(Creators') = Cardinality(Creators) - 1
        /\ Cardinality(Creators') \in Nat
    BY <1>1, <1>c, <2>1, CountsStep, CountsAreNaturals, FS_EmptySet
  <2>7. SlotAccounting'
    BY <1>c, <1>t, <1>s, <1>11, <2>5, <2>6 DEF CreateSessionFails, SlotAccounting
  <2> QED BY <2>2, <2>4, <2>5, <2>7 DEF PoolInv, UnusedUntilReady
<1>12. CASE AttachRun(t)
  <2>1. Moved(t, "run") /\ pc[t] = "attachRun"
    BY <1>1, <1>12, GotoMoves DEF AttachRun
  <2>2. SlotAccounting' /\ UnusedUntilReady'
    BY <1>6, <1>12, <2>1, QuietStep DEF AttachRun
  <2>3. HasGroup'
    BY <1>1, <1>12, <2>1, GroupsKept DEF AttachRun, HasGroup
  <2>4. PICK r \in Runs :
          /\ run' = [run EXCEPT ![t] = r]
          /\ term' = [i \in Ids |-> IF i \in ids[t] THEN r ELSE term[i]]
          /\ terminated' \in {terminated \cup {r}, terminated \ {r}}
    BY <1>12 DEF AttachRun, FreshRuns
  <2>5. TypeOK'
    BY <1>t, <1>12, <2>1, <2>4 DEF AttachRun, Moved, TypeOK, Terminators, poolVars
  <2> QED BY <2>2, <2>3, <2>5 DEF PoolInv
<1>13. CASE DropSession(t)
  <2>1. Moved(t, "inferred") /\ pc[t] = "drop"
    BY <1>1, <1>13, GotoMoves DEF DropSession
  <2>2. HasGroup'
    BY <1>1, <1>13, <2>1, GroupsKept DEF DropSession, HasGroup
  <2>3. TypeOK'
    <3>1. idle' \in Nat
      BY <1>t, <1>13 DEF DropSession
    <3>2. run' \in [Threads -> {"none"} \cup Runs]
      BY <1>t, <1>13 DEF DropSession
    <3> QED BY <1>t, <1>13, <2>1, <3>1, <3>2 DEF DropSession, Moved, TypeOK, registryVars
  <2>4. phase' = "ready" /\ PrewarmSlot = 0 /\ PrewarmSlot' = 0
    BY <1>6, <1>13, <2>1 DEF DropSession, PrewarmSlot
  <2>5. /\ Cardinality(Holders') = Cardinality(Holders) - 1
        /\ Cardinality(Creators') = Cardinality(Creators)
    BY <1>1, <1>c, <2>1, CountsStep
  <2>6. SlotAccounting'
    BY <1>c, <1>t, <1>s, <1>13, <2>4, <2>5 DEF DropSession, SlotAccounting
  <2> QED BY <2>2, <2>3, <2>4, <2>6 DEF PoolInv, UnusedUntilReady
<1>14. CASE GroupDone(t)
  <2>1. PICK to \in {"final", "infer"} :
          Goto(t, to) /\ (to = "infer" => Len(todo[t]) # 1)
    BY <1>14 DEF GroupDone
  <2>2. Moved(t, to) /\ pc[t] = "inferred"
    BY <1>1, <1>14, <2>1, GotoMoves DEF GroupDone
  <2>3. SlotAccounting' /\ UnusedUntilReady'
    BY <1>6, <1>14, <2>2, QuietStep DEF GroupDone
  <2>4. todo[t] \in Seq(SUBSET Ids) /\ todo[t] # <<>>
    BY <1>1, <1>t, <2>2 DEF HasGroup
  <2>5. /\ Tail(todo[t]) \in Seq(SUBSET Ids) /\ Head(todo[t]) \in SUBSET Ids
        /\ Len(todo[t]) # 1 => Tail(todo[t]) # <<>>
    <3>1. /\ Head(todo[t]) \in SUBSET Ids /\ Tail(todo[t]) \in Seq(SUBSET Ids)
          /\ Len(Tail(todo[t])) = Len(todo[t]) - 1
      BY <2>4, HeadTailProperties
    <3>2. Len(todo[t]) \in Nat
      BY <2>4, LenProperties
    <3>3. Tail(todo[t]) = <<>> => Len(Tail(todo[t])) = 0
      BY EmptySeq
    <3>4. Len(todo[t]) # 1 => Tail(todo[t]) # <<>>
      BY <3>1, <3>2, <3>3
    <3> QED BY <3>1, <3>4
  <2>6. todo' = [todo EXCEPT ![t] = Tail(todo[t])]
    BY <1>14 DEF GroupDone
  <2>7. HasGroup'
    <3>1. \A u \in Threads \ {t} : todo'[u] = todo[u]
      BY <1>t, <2>6
    <3>2. to \notin {"idle", "final", "leave"} => todo'[t] # <<>>
      BY <1>t, <2>1, <2>5, <2>6
    <3> QED BY <2>2, <3>1, <3>2, GroupsKept
  <2>8. TypeOK'
    BY <1>t, <1>14, <2>2, <2>5 DEF GroupDone, Moved, TypeOK, poolVars, registryVars
  <2> QED BY <2>3, <2>7, <2>8 DEF PoolInv
<1>15. CASE GroupFallback(t)
  <2>1. Moved(t, "infer") /\ pc[t] = "inferred"
    BY <1>1, <1>15, GotoMoves DEF GroupFallback
  <2>2. SlotAccounting' /\ UnusedUntilReady'
    BY <1>6, <1>15, <2>1, QuietStep DEF GroupFallback
  <2>3. todo[t] \in Seq(SUBSET Ids) /\ todo[t] # <<>>
    BY <1>1, <1>t, <2>1 DEF HasGroup
  <2>4. Tail(todo[t]) \in Seq(SUBSET Ids) /\ Head(todo[t]) \in SUBSET Ids
    BY <2>3
  <2>5. PICK singles \in Singles(Head(todo[t])) :
          todo' = [todo EXCEPT ![t] = singles \o Tail(todo[t])]
    BY <1>15 DEF GroupFallback
  <2>6. singles \in Seq(SUBSET Ids) /\ singles # <<>>
    BY <2>4, SinglesType
  <2>7. singles \o Tail(todo[t]) \in Seq(SUBSET Ids) /\ singles \o Tail(todo[t]) # <<>>
    BY <2>4, <2>6
  <2>8. HasGroup'
    BY <1>t, <2>1, <2>5, <2>7, GroupsKept
  <2>9. TypeOK'
    BY <1>t, <1>15, <2>1, <2>5, <2>7 DEF GroupFallback, Moved, TypeOK, poolVars, registryVars
  <2> QED BY <2>2, <2>8, <2>9 DEF PoolInv
<1>16. CASE Leave(t)
  <2>1. Moved(t, "idle") /\ pc[t] = "leave"
    BY <1>1, <1>16, GotoMoves DEF Leave
  <2>2. SlotAccounting' /\ UnusedUntilReady'
    BY <1>6, <1>16, <2>1, QuietStep DEF Leave
  <2>3. HasGroup'
    BY <1>t, <1>16, <2>1, GroupsKept DEF Leave
  <2>4. TypeOK'
    <3>1. term' \in [Ids -> Terminators]
      BY <1>t, <1>16 DEF Leave, Terminators
    <3>2. todo' \in [Threads -> Seq(SUBSET Ids)]
      BY <1>t, <1>16 DEF Leave
    <3>3. ids' \in [Threads -> SUBSET Ids] /\ filled' \in [Threads -> SUBSET Ids]
      BY <1>t, <1>16 DEF Leave
    <3> QED BY <1>t, <1>16, <2>1, <3>1, <3>2, <3>3 DEF Leave, Moved, TypeOK, poolVars
  <2> QED BY <2>2, <2>3, <2>4 DEF PoolInv
<1> QED
  BY <1>3, <1>4, <1>5, <1>7, <1>8, <1>9, <1>10, <1>11, <1>12, <1>13, <1>14, <1>15, <1>16
     DEF CallStep, PlainStep

LEMMA PoolInvCancel ==
  ASSUME PoolInv, NEW c \in Cancellers,
         (\E i \in Ids : CancelMark(c, i)) \/ CancelFinishes(c)
  PROVE  PoolInv'
<1>1. TypeOK /\ UnusedUntilReady /\ HasGroup /\ SlotAccounting
  BY DEF PoolInv
<1>2. /\ UNCHANGED <<poolVars, callVars>>
      /\ pc' = pc \/ pc' = AllWoken
  BY DEF CancelMark, CancelFinishes, CancelWakes, CancelTerminatesRun
<1>3. \A t \in Threads : pc'[t] = pc[t] \/ (pc[t] = "waiting" /\ pc'[t] = "check")
  BY <1>1, <1>2 DEF AllWoken, TypeOK
<1>4. Holders' = Holders /\ Creators' = Creators
  BY <1>3 DEF Holders, Creators, Holding
<1>5. SlotAccounting' /\ UnusedUntilReady' /\ HasGroup'
  BY <1>1, <1>2, <1>3, <1>4
     DEF SlotAccounting, UnusedUntilReady, HasGroup, PrewarmSlot, poolVars, callVars
<1>6. pc' \in [Threads -> PCs]
  BY <1>1, <1>2 DEF TypeOK, AllWoken, PCs
<1>7. /\ cancelled' \in SUBSET Ids /\ active' \in SUBSET Ids /\ term' \in [Ids -> Terminators]
      /\ pend' \in [Cancellers -> Terminators] /\ terminated' \in SUBSET Runs
  BY <1>1 DEF TypeOK, CancelMark, CancelFinishes, CancelWakes, CancelTerminatesRun,
              registryVars, Terminators
<1>8. TypeOK'
  BY <1>1, <1>2, <1>6, <1>7 DEF TypeOK, poolVars, callVars
<1> QED BY <1>5, <1>8 DEF PoolInv

LEMMA PoolInvStep == PoolInv /\ [Next]_vars => PoolInv'
<1> SUFFICES ASSUME PoolInv, [Next]_vars PROVE PoolInv'
  OBVIOUS
<1>1. CASE UNCHANGED vars
  BY <1>1 DEF vars, poolVars, callVars, registryVars, PoolInv, TypeOK, UnusedUntilReady,
              HasGroup, SlotAccounting, Holders, Creators, PrewarmSlot
<1>2. CASE Load
  BY <1>2, PoolInvLoad
<1>3. ASSUME NEW t \in Threads,
             CallInfer(t) \/ CallInferBatch(t) \/ CallStep(t) \/ SpuriousWake(t) \/ RunEnds(t)
      PROVE  PoolInv'
  BY <1>3, PoolInvCall
<1>4. ASSUME NEW c \in Cancellers,
             (\E i \in Ids : CancelMark(c, i)) \/ CancelFinishes(c)
      PROVE  PoolInv'
  BY <1>4, PoolInvCancel
<1> QED BY <1>1, <1>2, <1>3, <1>4 DEF Next

LEMMA PoolInvAlways == Spec => []PoolInv
<1>1. Init => PoolInv
  BY PoolInvInit
<1>2. PoolInv /\ [Next]_vars => PoolInv'
  BY PoolInvStep
<1> QED BY <1>1, <1>2, PTL DEF Spec

\* Every variable of the pool, of the calls and of the registry keeps its type.
THEOREM TypeCorrect == Spec => []TypeOK
<1>1. PoolInv => TypeOK
  BY DEF PoolInv
<1> QED BY <1>1, PoolInvAlways, PTL

\* The slot accounting of SessionPool holds for every number of threads and
\* every max_sessions, on every error path and under any cancellations.
THEOREM SlotAccountingHolds == Spec => []SlotAccounting
<1>1. PoolInv => SlotAccounting
  BY DEF PoolInv
<1> QED BY <1>1, PoolInvAlways, PTL

-----------------------------------------------------------------------------
(* Cancellation.  The invariant ties each graph execution to the requests  *)
(* whose terminator it is, so that a cloned terminator can be traced to    *)
(* the call it was cloned for.                                             *)

\* Run options belong to one execution, are the terminator of its requests
\* only, and are in the hands of a canceller, or terminated, only because one
\* of these requests was cancelled.
RunsOwned ==
  \A t \in Threads :
    /\ run[t] # "none" => pc[t] \in {"run", "ranOk", "ranErr", "drop"}
    /\ pc[t] = "run" => run[t] \in Runs /\ \A i \in ids[t] : term[i] = run[t]
    /\ run[t] \in Runs =>
         /\ \A u \in Threads : u # t => run[u] # run[t]
         /\ \A i \in Ids : term[i] = run[t] => i \in ids[t]
         /\ \A c \in Cancellers : pend[c] = run[t] => IsCancelled(t)
         /\ run[t] \in terminated => IsCancelled(t)

CancelInv == RegistryMatchesCalls /\ RunsOwned /\ CancelReachesRun

\* A step that moves a thread inside its call and leaves the registry, the
\* terminators and the run options alone.
LEMMA PassiveStep ==
  ASSUME TypeOK, CancelInv, NEW t \in Threads, NEW to \in PCs, Moved(t, to),
         to \notin {"run", "idle"}, pc[t] # "idle",
         run[t] # "none" => to \in {"ranOk", "ranErr", "drop"},
         UNCHANGED <<ids, run, active, cancelled, term, pend, terminated>>
  PROVE  CancelInv'
<1>1. RegistryMatchesCalls'
  BY DEF CancelInv, RegistryMatchesCalls, Moved
<1>2. \A u \in Threads : IsCancelled(u)' = IsCancelled(u)
  BY DEF IsCancelled
<1>3. \A u \in Threads : pc'[u] = "run" => pc[u] = "run"
  BY DEF Moved
<1>4. \A u \in Threads :
        run[u] # "none" => pc'[u] \in {"run", "ranOk", "ranErr", "drop"}
  BY DEF CancelInv, RunsOwned, Moved
<1>5. RunsOwned'
  BY <1>2, <1>3, <1>4 DEF CancelInv, RunsOwned
<1>6. CancelReachesRun'
  BY <1>2, <1>3 DEF CancelInv, CancelReachesRun
<1> QED BY <1>1, <1>5, <1>6 DEF CancelInv

LEMMA CancelInvInit == Init => CancelInv
<1> SUFFICES ASSUME Init PROVE CancelInv
  OBVIOUS
<1>1. RegistryMatchesCalls
  BY DEF Init, RegistryMatchesCalls
<1>2. RunsOwned
  BY RunsAreRuns DEF Init, RunsOwned
<1>3. CancelReachesRun
  BY DEF Init, CancelReachesRun
<1> QED BY <1>1, <1>2, <1>3 DEF CancelInv

\* Registration and departure of a call.
LEMMA CancelInvRegister ==
  ASSUME TypeOK, CancelInv, NEW t \in Threads, NEW S \in (SUBSET Ids) \ {{}},
         NEW groups, NEW to \in {"entered", "prepare"}, Register(t, S, groups, to)
  PROVE  CancelInv'
<1> USE DEF PCs
<1>1. /\ pc[t] = "idle" /\ S \cap active = {} /\ active' = active \cup S
      /\ term' = [i \in Ids |-> IF i \in S THEN "none" ELSE term[i]]
      /\ ids' = [ids EXCEPT ![t] = S] /\ pc' = [pc EXCEPT ![t] = to]
      /\ UNCHANGED <<run, cancelled, pend, terminated>>
  BY DEF Register, Goto
<1>2. ids \in [Threads -> SUBSET Ids] /\ pc \in [Threads -> PCs]
  BY DEF TypeOK
<1>3. /\ active = UNION {ids[u] : u \in Threads} /\ cancelled \subseteq active
      /\ \A u \in Threads : ids[u] = {} <=> pc[u] = "idle"
      /\ \A u, v \in Threads : u # v => ids[u] \cap ids[v] = {}
  BY DEF CancelInv, RegistryMatchesCalls
<1>4. \A u \in Threads : u # t => ids'[u] = ids[u] /\ ids[u] \subseteq active /\ pc'[u] = pc[u]
  BY <1>1, <1>2, <1>3
<1>5. ids'[t] = S /\ ids[t] = {} /\ pc'[t] = to
  BY <1>1, <1>2, <1>3
<1>6. active' = UNION {ids'[u] : u \in Threads}
  <2>1. ASSUME NEW i \in active' PROVE \E u \in Threads : i \in ids'[u]
    BY <1>1, <1>3, <1>4, <1>5
  <2>2. ASSUME NEW u \in Threads, NEW i \in ids'[u] PROVE i \in active'
    BY <1>1, <1>3, <1>4, <1>5
  <2> QED BY <2>1, <2>2
<1>7. RegistryMatchesCalls'
  BY <1>1, <1>3, <1>4, <1>5, <1>6 DEF RegistryMatchesCalls
<1>8. \A u \in Threads : u # t => IsCancelled(u)' = IsCancelled(u)
  BY <1>1, <1>3, <1>4, <1>5 DEF IsCancelled
<1>9. run[t] = "none"
  BY <1>1 DEF CancelInv, RunsOwned
<1>10. \A u \in Threads : run'[u] \in Runs => u # t
  BY <1>1, <1>9, RunsAreRuns
<1>11. \A i \in Ids : term'[i] \in Runs => term'[i] = term[i] /\ i \notin S
  BY <1>1, RunsAreRuns
<1>12. \A u \in Threads : u # t => \A i \in ids[u] : term'[i] = term[i]
  BY <1>1, <1>2, <1>4
<1>13. RunsOwned'
  <2> SUFFICES ASSUME NEW u \in Threads
               PROVE  /\ run'[u] # "none" => pc'[u] \in {"run", "ranOk", "ranErr", "drop"}
                      /\ pc'[u] = "run" =>
                           run'[u] \in Runs /\ \A i \in ids'[u] : term'[i] = run'[u]
                      /\ run'[u] \in Runs =>
                           /\ \A v \in Threads : v # u => run'[v] # run'[u]
                           /\ \A i \in Ids : term'[i] = run'[u] => i \in ids'[u]
                           /\ \A c \in Cancellers : pend'[c] = run'[u] => IsCancelled(u)'
                           /\ run'[u] \in terminated' => IsCancelled(u)'
    BY DEF RunsOwned
  <2>1. CASE u = t
    BY <1>1, <1>5, <1>9, <1>10, <2>1
  <2>2. CASE u # t
    BY <1>1, <1>4, <1>8, <1>11, <1>12, <2>2 DEF CancelInv, RunsOwned
  <2> QED BY <2>1, <2>2
<1>14. CancelReachesRun'
  BY <1>1, <1>4, <1>5, <1>8 DEF CancelInv, CancelReachesRun
<1> QED BY <1>7, <1>13, <1>14 DEF CancelInv

LEMMA CancelInvLeave ==
  ASSUME TypeOK, CancelInv, NEW t \in Threads, Leave(t)
  PROVE  CancelInv'
<1> USE DEF PCs
<1>1. /\ pc[t] = "leave" /\ active' = active \ ids[t] /\ cancelled' = cancelled \ ids[t]
      /\ term' = [i \in Ids |-> IF i \in ids[t] THEN "none" ELSE term[i]]
      /\ ids' = [ids EXCEPT ![t] = {}] /\ pc' = [pc EXCEPT ![t] = "idle"]
      /\ UNCHANGED <<run, pend, terminated>>
  BY DEF Leave, Goto
<1>2. ids \in [Threads -> SUBSET Ids] /\ pc \in [Threads -> PCs]
  BY DEF TypeOK
<1>3. /\ active = UNION {ids[u] : u \in Threads} /\ cancelled \subseteq active
      /\ \A u \in Threads : ids[u] = {} <=> pc[u] = "idle"
      /\ \A u, v \in Threads : u # v => ids[u] \cap ids[v] = {}
  BY DEF CancelInv, RegistryMatchesCalls
<1>4. \A u \in Threads : u # t => ids'[u] = ids[u] /\ ids[u] \cap ids[t] = {} /\ pc'[u] = pc[u]
  BY <1>1, <1>2, <1>3
<1>5. ids'[t] = {} /\ pc'[t] = "idle"
  BY <1>1, <1>2
<1>6. active' = UNION {ids'[u] : u \in Threads}
  <2>1. ASSUME NEW i \in active' PROVE \E u \in Threads : i \in ids'[u]
    BY <1>1, <1>3, <1>4
  <2>2. ASSUME NEW u \in Threads, NEW i \in ids'[u] PROVE i \in active'
    BY <1>1, <1>3, <1>4, <1>5
  <2> QED BY <2>1, <2>2
<1>7. RegistryMatchesCalls'
  BY <1>1, <1>3, <1>4, <1>5, <1>6 DEF RegistryMatchesCalls
<1>8. \A u \in Threads : u # t => IsCancelled(u)' = IsCancelled(u)
  BY <1>1, <1>4 DEF IsCancelled
<1>9. run[t] = "none"
  BY <1>1 DEF CancelInv, RunsOwned
<1>10. \A u \in Threads : run'[u] \in Runs => u # t
  BY <1>1, <1>9, RunsAreRuns
<1>11. \A i \in Ids : term'[i] \in Runs => term'[i] = term[i] /\ i \notin ids[t]
  BY <1>1, RunsAreRuns
<1>12. \A u \in Threads : u # t => \A i \in ids[u] : term'[i] = term[i]
  BY <1>1, <1>2, <1>4
<1>13. RunsOwned'
  <2> SUFFICES ASSUME NEW u \in Threads
               PROVE  /\ run'[u] # "none" => pc'[u] \in {"run", "ranOk", "ranErr", "drop"}
                      /\ pc'[u] = "run" =>
                           run'[u] \in Runs /\ \A i \in ids'[u] : term'[i] = run'[u]
                      /\ run'[u] \in Runs =>
                           /\ \A v \in Threads : v # u => run'[v] # run'[u]
                           /\ \A i \in Ids : term'[i] = run'[u] => i \in ids'[u]
                           /\ \A c \in Cancellers : pend'[c] = run'[u] => IsCancelled(u)'
                           /\ run'[u] \in terminated' => IsCancelled(u)'
    BY DEF RunsOwned
  <2>1. CASE u = t
    BY <1>1, <1>5, <1>9, <1>10, <2>1
  <2>2. CASE u # t
    BY <1>1, <1>4, <1>8, <1>11, <1>12, <2>2 DEF CancelInv, RunsOwned
  <2> QED BY <2>1, <2>2
<1>14. CancelReachesRun'
  BY <1>1, <1>4, <1>5, <1>8 DEF CancelInv, CancelReachesRun
<1> QED BY <1>7, <1>13, <1>14 DEF CancelInv

\* The two uses of RequestRegistration::attach.
LEMMA CancelInvAttachWait ==
  ASSUME TypeOK, CancelInv, NEW t \in Threads, AttachWait(t)
  PROVE  CancelInv'
<1> USE DEF PCs
<1>1. /\ pc[t] = "attach"
      /\ term' = [i \in Ids |-> IF i \in ids[t] THEN "pool" ELSE term[i]]
      /\ UNCHANGED <<ids, run, active, cancelled, pend, terminated>>
  BY DEF AttachWait, callVars
<1>2. PICK to \in {"wake", "check"} : pc' = [pc EXCEPT ![t] = to]
  BY DEF AttachWait, Goto
<1>3. ids \in [Threads -> SUBSET Ids] /\ pc \in [Threads -> PCs]
  BY DEF TypeOK
<1>4. RegistryMatchesCalls'
  BY <1>1, <1>2, <1>3 DEF CancelInv, RegistryMatchesCalls
<1>5. \A u \in Threads : IsCancelled(u)' = IsCancelled(u)
  BY <1>1 DEF IsCancelled
<1>6. run[t] = "none"
  BY <1>1 DEF CancelInv, RunsOwned
<1>7. \A i \in Ids : term'[i] \in Runs => term'[i] = term[i]
  BY <1>1, RunsAreRuns
<1>8. \A u \in Threads : u # t => \A i \in ids[u] : term'[i] = term[i]
  BY <1>1, <1>3 DEF CancelInv, RegistryMatchesCalls
<1>9. RunsOwned'
  BY <1>1, <1>2, <1>3, <1>5, <1>6, <1>7, <1>8, RunsAreRuns DEF CancelInv, RunsOwned
<1>10. CancelReachesRun'
  BY <1>1, <1>2, <1>3, <1>5 DEF CancelInv, CancelReachesRun
<1> QED BY <1>4, <1>9, <1>10 DEF CancelInv

LEMMA CancelInvAttachRun ==
  ASSUME TypeOK, CancelInv, NEW t \in Threads, AttachRun(t)
  PROVE  CancelInv'
<1> USE DEF PCs
<1>1. PICK r \in FreshRuns :
        /\ run' = [run EXCEPT ![t] = r]
        /\ term' = [i \in Ids |-> IF i \in ids[t] THEN r ELSE term[i]]
        /\ terminated' = IF IsCancelled(t) THEN terminated \cup {r} ELSE terminated \ {r}
  BY DEF AttachRun
<1>2. /\ pc[t] = "attachRun" /\ pc' = [pc EXCEPT ![t] = "run"]
      /\ UNCHANGED <<ids, active, cancelled, pend>>
  BY DEF AttachRun, Goto
<1>3. /\ ids \in [Threads -> SUBSET Ids] /\ pc \in [Threads -> PCs]
      /\ run \in [Threads -> {"none"} \cup Runs]
  BY DEF TypeOK
<1>4. /\ r \in Runs
      /\ \A u \in Threads : run[u] # r
      /\ \A i \in Ids : term[i] # r
      /\ \A c \in Cancellers : pend[c] # r
  BY DEF FreshRuns
<1>5. RegistryMatchesCalls'
  BY <1>2, <1>3 DEF CancelInv, RegistryMatchesCalls
<1>6. \A u \in Threads : IsCancelled(u)' = IsCancelled(u)
  BY <1>2 DEF IsCancelled
<1>7. /\ run'[t] = r /\ pc'[t] = "run"
      /\ \A u \in Threads : u # t => run'[u] = run[u] /\ pc'[u] = pc[u]
  BY <1>1, <1>2, <1>3
<1>8. \A u \in Threads : u # t => \A i \in ids[u] : term'[i] = term[i]
  BY <1>1, <1>3 DEF CancelInv, RegistryMatchesCalls
<1>9. \A i \in Ids : (i \in ids[t] => term'[i] = r) /\ (i \notin ids[t] => term'[i] = term[i])
  BY <1>1
<1>10. \A q \in Runs : q # r => (q \in terminated' <=> q \in terminated)
  BY <1>1
<1>11. r \in terminated' <=> IsCancelled(t)
  BY <1>1
<1>12. RunsOwned'
  <2> SUFFICES ASSUME NEW u \in Threads
               PROVE  /\ run'[u] # "none" => pc'[u] \in {"run", "ranOk", "ranErr", "drop"}
                      /\ pc'[u] = "run" =>
                           run'[u] \in Runs /\ \A i \in ids'[u] : term'[i] = run'[u]
                      /\ run'[u] \in Runs =>
                           /\ \A v \in Threads : v # u => run'[v] # run'[u]
                           /\ \A i \in Ids : term'[i] = run'[u] => i \in ids'[u]
                           /\ \A c \in Cancellers : pend'[c] = run'[u] => IsCancelled(u)'
                           /\ run'[u] \in terminated' => IsCancelled(u)'
    BY DEF RunsOwned
  <2>1. CASE u = t
    BY <1>2, <1>3, <1>4, <1>6, <1>7, <1>9, <1>11, <2>1
  <2>2. CASE u # t
    BY <1>2, <1>3, <1>4, <1>6, <1>7, <1>8, <1>9, <1>10, <2>2 DEF CancelInv, RunsOwned
  <2> QED BY <2>1, <2>2
<1>13. CancelReachesRun'
  <2> SUFFICES ASSUME NEW u \in Threads, pc'[u] = "run", IsCancelled(u)'
               PROVE  run'[u] \in terminated' \/ \E c \in Cancellers : pend'[c] = run'[u]
    BY DEF CancelReachesRun
  <2>1. CASE u = t
    BY <1>6, <1>7, <1>11, <2>1
  <2>2. CASE u # t
    <3>1. pc[u] = "run" /\ IsCancelled(u) /\ run'[u] = run[u] /\ run[u] \in Runs /\ run[u] # r
      BY <1>4, <1>6, <1>7, <2>2 DEF CancelInv, RunsOwned
    <3> QED BY <1>2, <1>10, <3>1 DEF CancelInv, CancelReachesRun
  <2> QED BY <2>1, <2>2
<1> QED BY <1>5, <1>12, <1>13 DEF CancelInv

LEMMA CancelInvDrop ==
  ASSUME TypeOK, CancelInv, NEW t \in Threads, DropSession(t)
  PROVE  CancelInv'
<1> USE DEF PCs
<1>1. /\ pc[t] = "drop" /\ run' = [run EXCEPT ![t] = "none"]
      /\ UNCHANGED <<ids, active, cancelled, term, pend, terminated>>
  BY DEF DropSession, registryVars
<1>2. Moved(t, "inferred")
  BY <1>1, GotoMoves DEF DropSession
<1>3. run \in [Threads -> {"none"} \cup Runs]
  BY DEF TypeOK
<1>4. run'[t] = "none" /\ \A u \in Threads : u # t => run'[u] = run[u]
  BY <1>1, <1>3
<1>5. RegistryMatchesCalls'
  BY <1>1, <1>2 DEF CancelInv, RegistryMatchesCalls, Moved
<1>6. \A u \in Threads : IsCancelled(u)' = IsCancelled(u)
  BY <1>1 DEF IsCancelled
<1>7. \A u \in Threads : pc'[u] = "run" => u # t /\ pc[u] = "run"
  BY <1>2 DEF Moved
<1>8. \A u \in Threads :
        run'[u] # "none" => u # t /\ pc'[u] \in {"run", "ranOk", "ranErr", "drop"}
  BY <1>2, <1>4 DEF CancelInv, RunsOwned, Moved
<1>9. RunsOwned'
  BY <1>1, <1>4, <1>6, <1>7, <1>8, RunsAreRuns DEF CancelInv, RunsOwned
<1>10. CancelReachesRun'
  BY <1>1, <1>4, <1>6, <1>7 DEF CancelInv, CancelReachesRun
<1> QED BY <1>5, <1>9, <1>10 DEF CancelInv

\* The other steps of a call leave the registry and the run options alone.
LEMMA CancelInvCall ==
  ASSUME PoolInv, CancelInv, NEW t \in Threads,
         CallInfer(t) \/ CallInferBatch(t) \/ CallStep(t) \/ SpuriousWake(t) \/ RunEnds(t)
  PROVE  CancelInv'
<1> USE DEF PCs
<1>1. TypeOK
  BY DEF PoolInv
<1>2. CASE CallInfer(t)
  BY <1>1, <1>2, CancelInvRegister DEF CallInfer
<1>3. CASE CallInferBatch(t)
  <2>1. PICK S \in (SUBSET Ids) \ {{}} :
          \E groups \in GroupOrders(S) : Register(t, S, groups, "prepare")
    BY <1>3 DEF CallInferBatch
  <2> QED BY <1>1, <2>1, CancelInvRegister
<1>4. run[t] # "none" => pc[t] \in {"run", "ranOk", "ranErr", "drop"}
  BY DEF CancelInv, RunsOwned
<1>5. CASE PlainStep(t)
  <2>1. UNCHANGED <<ids, run, active, cancelled, term, pend, terminated>>
    BY <1>5 DEF PlainStep, EntryCheck, Prepare, InferStart, AcquireCheck, SpuriousWake,
         InputsRejected, RunEnds, RunOk, RunErr, InputUnconvertible, RunCheck, GroupFails, Finish,
         HostOrRegistryCheck, LeaveWith, Proceed, InferEnds, callVars, registryVars
  <2>2. PICK to \in PCs :
          /\ Goto(t, to) /\ to \notin {"run", "idle"} /\ pc[t] # "idle"
          /\ pc[t] # "waiting" \/ to = "check"
          /\ pc[t] \in {"run", "ranOk", "ranErr", "drop"} => to \in {"ranOk", "ranErr", "drop"}
    BY <1>5 DEF PlainStep, EntryCheck, Prepare, InferStart, AcquireCheck, SpuriousWake,
         InputsRejected, RunEnds, RunOk, RunErr, InputUnconvertible, RunCheck, GroupFails, Finish,
         HostOrRegistryCheck, LeaveWith, Proceed, InferEnds
  <2>3. Moved(t, to)
    BY <1>1, <2>2 DEF Moved, Goto, TypeOK
  <2> QED BY <1>1, <1>4, <2>1, <2>2, <2>3, PassiveStep
<1>6. CASE AttachWait(t)
  BY <1>1, <1>6, CancelInvAttachWait
<1>7. CASE AttachRun(t)
  BY <1>1, <1>7, CancelInvAttachRun
<1>8. CASE DropSession(t)
  BY <1>1, <1>8, CancelInvDrop
<1>9. CASE Leave(t)
  BY <1>1, <1>9, CancelInvLeave
<1>10. CASE \/ AttachWake(t) \/ AcquireLock(t) \/ CreateSession(t) \/ CreateSessionFails(t)
            \/ GroupDone(t) \/ GroupFallback(t)
  <2>1. UNCHANGED <<ids, run, active, cancelled, term, pend, terminated>>
    BY <1>10 DEF AttachWake, AcquireLock, CreateSession, CreateSessionFails, GroupDone,
         GroupFallback, Proceed, callVars, registryVars
  <2>2. PICK to \in PCs \ {"run", "idle"} :
          Goto(t, to) \/ GotoNotifyingOne(t, to) \/ pc' = [AllWoken EXCEPT ![t] = to]
    BY <1>10 DEF AttachWake, AcquireLock, CreateSession, CreateSessionFails, GroupDone,
         GroupFallback, Proceed
  <2>3. pc[t] \in {"wake", "lock", "create", "inferred"}
    BY <1>10 DEF AttachWake, AcquireLock, CreateSession, CreateSessionFails, GroupDone,
         GroupFallback
  <2>4. Moved(t, to)
    BY <1>1, <2>2, <2>3, GotoMoves
  <2> QED BY <1>1, <1>4, <2>1, <2>2, <2>3, <2>4, PassiveStep
<1> QED BY <1>2, <1>3, <1>5, <1>6, <1>7, <1>8, <1>9, <1>10 DEF CallStep, PlainStep

LEMMA CancelInvCancel ==
  ASSUME TypeOK, CancelInv, NEW c \in Cancellers,
         (\E i \in Ids : CancelMark(c, i)) \/ CancelFinishes(c)
  PROVE  CancelInv'
<1>1. UNCHANGED <<ids, run, active, term>> /\ (pc' = pc \/ pc' = AllWoken)
  BY DEF CancelMark, CancelFinishes, CancelWakes, CancelTerminatesRun, callVars, registryVars
<1>2. \A u \in Threads : pc'[u] = pc[u] \/ (pc[u] = "waiting" /\ pc'[u] = "check")
  BY <1>1 DEF AllWoken
<1>3. pend \in [Cancellers -> Terminators]
  BY DEF TypeOK
<1>4. CASE \E i \in Ids : CancelMark(c, i)
  <2>1. PICK i \in Ids : CancelMark(c, i)
    BY <1>4
  <2>2. /\ pend[c] = "none" /\ i \in active /\ cancelled' = cancelled \cup {i}
        /\ pend' = [pend EXCEPT ![c] = term[i]] /\ terminated' = terminated /\ pc' = pc
    BY <2>1 DEF CancelMark
  <2>3. RegistryMatchesCalls'
    BY <1>1, <2>2 DEF CancelInv, RegistryMatchesCalls
  <2>4. \A u \in Threads : /\ IsCancelled(u) => IsCancelled(u)'
                           /\ i \in ids[u] => IsCancelled(u)'
                           /\ IsCancelled(u)' => IsCancelled(u) \/ i \in ids[u]
    BY <1>1, <2>2 DEF IsCancelled
  <2>5. pend'[c] = term[i] /\ \A d \in Cancellers : d # c => pend'[d] = pend[d]
    BY <1>3, <2>2
  <2>6. RunsOwned'
    BY <1>1, <2>2, <2>4, <2>5 DEF CancelInv, RunsOwned
  <2>7. CancelReachesRun'
    <3> SUFFICES ASSUME NEW u \in Threads, pc[u] = "run", IsCancelled(u)'
                 PROVE  run[u] \in terminated \/ \E d \in Cancellers : pend'[d] = run[u]
      BY <1>1, <2>2 DEF CancelReachesRun
    <3>1. CASE i \in ids[u]
      BY <2>5, <3>1 DEF CancelInv, RunsOwned
    <3>2. CASE i \notin ids[u]
      <4>1. run[u] \in terminated \/ \E d \in Cancellers : pend[d] = run[u]
        BY <2>4, <3>2 DEF CancelInv, CancelReachesRun
      <4>2. run[u] # "none"
        BY RunsAreRuns DEF CancelInv, RunsOwned
      <4> QED BY <2>2, <2>5, <4>1, <4>2
    <3> QED BY <3>1, <3>2
  <2> QED BY <2>3, <2>6, <2>7 DEF CancelInv
<1>5. CASE CancelFinishes(c)
  <2>1. /\ UNCHANGED cancelled
        /\ pend' = [pend EXCEPT ![c] = "none"]
        /\ \/ pend[c] = "pool" /\ terminated' = terminated
           \/ pend[c] \in Runs /\ terminated' = terminated \cup {pend[c]}
    BY <1>5 DEF CancelFinishes, CancelWakes, CancelTerminatesRun, registryVars
  <2>2. pend'[c] = "none" /\ \A d \in Cancellers : d # c => pend'[d] = pend[d]
    BY <1>3, <2>1
  <2>3. RegistryMatchesCalls'
    BY <1>1, <1>2, <2>1 DEF CancelInv, RegistryMatchesCalls
  <2>4. \A u \in Threads : IsCancelled(u)' = IsCancelled(u)
    BY <1>1, <2>1 DEF IsCancelled
  <2>5. \A u \in Threads : pc'[u] = "run" => pc[u] = "run"
    BY <1>2
  <2>6. \A u \in Threads :
          run[u] # "none" => pc'[u] \in {"run", "ranOk", "ranErr", "drop"}
    BY <1>2 DEF CancelInv, RunsOwned
  <2>7. RunsOwned'
    BY <1>1, <2>1, <2>2, <2>4, <2>5, <2>6, RunsAreRuns DEF CancelInv, RunsOwned
  <2>8. CancelReachesRun'
    <3> SUFFICES ASSUME NEW u \in Threads, pc[u] = "run", IsCancelled(u)
                 PROVE  run[u] \in terminated' \/ \E d \in Cancellers : pend'[d] = run[u]
      BY <1>1, <2>4, <2>5 DEF CancelReachesRun
    <3>1. run[u] \in Runs
      BY DEF CancelInv, RunsOwned
    <3>2. run[u] \in terminated \/ \E d \in Cancellers : pend[d] = run[u]
      BY DEF CancelInv, CancelReachesRun
    <3> QED BY <2>1, <2>2, <3>1, <3>2, RunsAreRuns
  <2> QED BY <2>3, <2>7, <2>8 DEF CancelInv
<1> QED BY <1>4, <1>5

LEMMA CancelInvStep == PoolInv /\ CancelInv /\ [Next]_vars => CancelInv'
<1> SUFFICES ASSUME PoolInv, CancelInv, [Next]_vars PROVE CancelInv'
  OBVIOUS
<1>1. CASE UNCHANGED vars \/ Load
  <2>1. UNCHANGED <<pc, ids, run, active, cancelled, term, pend, terminated>>
    BY <1>1 DEF vars, callVars, registryVars, Load, ReserveSlot, AddReservedSession,
                PrewarmFails, LoadAgain
  <2>2. \A u \in Threads : IsCancelled(u)' = IsCancelled(u)
    BY <2>1 DEF IsCancelled
  <2> QED BY <2>1, <2>2 DEF CancelInv, RegistryMatchesCalls, RunsOwned, CancelReachesRun
<1>2. ASSUME NEW t \in Threads,
             CallInfer(t) \/ CallInferBatch(t) \/ CallStep(t) \/ SpuriousWake(t) \/ RunEnds(t)
      PROVE  CancelInv'
  BY <1>2, CancelInvCall
<1>3. ASSUME NEW c \in Cancellers,
             (\E i \in Ids : CancelMark(c, i)) \/ CancelFinishes(c)
      PROVE  CancelInv'
  BY <1>3, CancelInvCancel DEF PoolInv
<1> QED BY <1>1, <1>2, <1>3 DEF Next

LEMMA CancelInvAlways == Spec => []CancelInv
<1>1. Init => CancelInv
  BY CancelInvInit
<1>2. PoolInv /\ CancelInv /\ [Next]_vars => CancelInv'
  BY CancelInvStep
<1> QED BY <1>1, <1>2, PoolInvAlways, PTL DEF Spec

\* No call leaks a request ID or a cancellation mark, and no ID belongs to two
\* calls.
THEOREM RegistryMatchesCallsHolds == Spec => []RegistryMatchesCalls
<1>1. CancelInv => RegistryMatchesCalls
  BY DEF CancelInv
<1> QED BY <1>1, CancelInvAlways, PTL

\* Whatever the order of attach and cancel, the graph execution of a cancelled
\* request is terminated or about to be.
THEOREM CancelReachesRunHolds == Spec => []CancelReachesRun
<1>1. CancelInv => CancelReachesRun
  BY DEF CancelInv
<1> QED BY <1>1, CancelInvAlways, PTL

\* A late cancel never terminates the graph execution of another call.
THEOREM NoStrayTerminationHolds == Spec => []NoStrayTermination
<1>1. CancelInv => NoStrayTermination
  BY DEF CancelInv, RunsOwned, NoStrayTermination
<1> QED BY <1>1, CancelInvAlways, PTL

-----------------------------------------------------------------------------
(* Batches.  What a call has still to execute and what it has results for  *)
(* make up the requests it registered, until the last group is done.       *)

Covers(groups, done, S) ==
  \A i \in Ids : i \in S <=> i \in done \/ \E k \in 1 .. Len(groups) : i \in groups[k]

\* The groups of call t still cover what it has no result for.
BatchOK(t) ==
  /\ pc[t] \notin {"idle", "leave"} => Covers(todo[t], filled[t], ids[t])
  /\ pc[t] = "final" => todo[t] = <<>>
  /\ pc[t] = "leave" /\ res[t] = "ok" => filled[t] = ids[t]

BatchInv == \A t \in Threads : BatchOK(t)

LEMMA GroupOrdersCover ==
  ASSUME NEW S \in SUBSET Ids, NEW g \in GroupOrders(S), NEW i \in Ids
  PROVE  i \in S <=> \E k \in 1 .. Len(g) : i \in g[k]
<1>1. g \in Seq(SUBSET Ids)
  BY GroupOrdersType
<1>2. UNION {g[k] : k \in DOMAIN g} = S
  BY DEF GroupOrders
<1>3. DOMAIN g = 1 .. Len(g)
  BY <1>1
<1> QED BY <1>2, <1>3

\* The first group has its results.
LEMMA CoverDone ==
  ASSUME NEW g \in Seq(SUBSET Ids), g # <<>>, NEW done, NEW S, Covers(g, done, S)
  PROVE  Covers(Tail(g), done \cup Head(g), S)
<1>1. Len(g) \in Nat /\ Len(g) >= 1 /\ Head(g) = g[1]
  OBVIOUS
<1>2. Len(Tail(g)) = Len(g) - 1 /\ \A k \in 1 .. Len(g) - 1 : Tail(g)[k] = g[k + 1]
  OBVIOUS
<1>3. ASSUME NEW i \in Ids
      PROVE  (\E k \in 1 .. Len(g) : i \in g[k])
               <=> (i \in Head(g) \/ \E k \in 1 .. Len(Tail(g)) : i \in Tail(g)[k])
  <2>1. ASSUME NEW k \in 1 .. Len(g), i \in g[k]
        PROVE  i \in Head(g) \/ \E j \in 1 .. Len(Tail(g)) : i \in Tail(g)[j]
    <3>1. CASE k = 1
      BY <1>1, <2>1, <3>1
    <3>2. CASE k # 1
      <4>1. k - 1 \in 1 .. Len(g) - 1 /\ (k - 1) + 1 = k
        BY <1>1, <3>2
      <4>2. Tail(g)[k - 1] = g[k]
        BY <1>2, <4>1
      <4> QED BY <1>2, <2>1, <4>1, <4>2
    <3> QED BY <3>1, <3>2
  <2>2. i \in Head(g) => \E k \in 1 .. Len(g) : i \in g[k]
    BY <1>1
  <2>3. ASSUME NEW j \in 1 .. Len(Tail(g)), i \in Tail(g)[j]
        PROVE  \E k \in 1 .. Len(g) : i \in g[k]
    <3>1. j + 1 \in 1 .. Len(g) /\ Tail(g)[j] = g[j + 1]
      BY <1>1, <1>2
    <3> QED BY <2>3, <3>1
  <2> QED BY <2>1, <2>2, <2>3
<1> QED BY <1>3 DEF Covers

\* The first group is replaced by its requests.
LEMMA CoverSplit ==
  ASSUME NEW g \in Seq(SUBSET Ids), g # <<>>, NEW done, NEW S, Covers(g, done, S),
         NEW singles \in GroupOrders(Head(g))
  PROVE  Covers(singles \o Tail(g), done, S)
<1>1. Head(g) \in SUBSET Ids /\ Tail(g) \in Seq(SUBSET Ids)
  OBVIOUS
<1>2. singles \in Seq(SUBSET Ids)
  BY <1>1, GroupOrdersType
<1> DEFINE h == singles \o Tail(g)
           n == Len(singles)
           m == Len(Tail(g))
<1>3. n \in Nat /\ m \in Nat /\ Len(h) = n + m
  BY <1>1, <1>2
<1>4. /\ \A k \in 1 .. n : h[k] = singles[k]
      /\ \A k \in 1 .. m : h[n + k] = Tail(g)[k]
  BY <1>1, <1>2
<1> HIDE DEF h, n, m
<1>5. ASSUME NEW i \in Ids
      PROVE  (\E k \in 1 .. Len(h) : i \in h[k])
               <=> (i \in Head(g) \/ \E k \in 1 .. m : i \in Tail(g)[k])
  <2>1. i \in Head(g) <=> \E k \in 1 .. n : i \in singles[k]
    BY <1>1, GroupOrdersCover DEF n
  <2>2. ASSUME NEW k \in 1 .. Len(h), i \in h[k]
        PROVE  i \in Head(g) \/ \E j \in 1 .. m : i \in Tail(g)[j]
    <3>1. CASE k \in 1 .. n
      BY <1>4, <2>1, <2>2, <3>1
    <3>2. CASE k \notin 1 .. n
      <4>1. k - n \in 1 .. m /\ n + (k - n) = k
        BY <1>3, <3>2
      <4> QED BY <1>4, <2>2, <4>1
    <3> QED BY <3>1, <3>2
  <2>3. ASSUME NEW k \in 1 .. n, i \in singles[k]
        PROVE  \E j \in 1 .. Len(h) : i \in h[j]
    BY <1>3, <1>4, <2>3
  <2>4. ASSUME NEW k \in 1 .. m, i \in Tail(g)[k]
        PROVE  \E j \in 1 .. Len(h) : i \in h[j]
    <3>1. n + k \in 1 .. Len(h)
      BY <1>3
    <3> QED BY <1>4, <2>4, <3>1
  <2> QED BY <2>1, <2>2, <2>3, <2>4
<1>6. Covers(Tail(g), done \cup Head(g), S)
  BY CoverDone
<1> QED BY <1>5, <1>6 DEF Covers, h, m

\* A step that leaves the requests, groups and results of the call alone.
LEMMA BatchPlain ==
  ASSUME PoolInv, BatchInv, NEW t \in Threads, NEW to \in PCs \ {"idle", "final"},
         Moved(t, to), UNCHANGED <<ids, todo, filled>>, pc[t] # "idle",
         \A u \in Threads \ {t} : res'[u] = res[u],
         to # "leave" => pc[t] # "leave",
         to = "leave" => res'[t] # "ok" \/ pc[t] = "final"
  PROVE  BatchInv'
<1>1. ASSUME NEW u \in Threads \ {t} PROVE BatchOK(u)'
  BY DEF BatchInv, BatchOK, Moved
<1>2. todo[t] \in Seq(SUBSET Ids) /\ filled[t] \in SUBSET Ids /\ ids[t] \in SUBSET Ids
  BY DEF PoolInv, TypeOK
<1>3. BatchOK(t)
  BY DEF BatchInv
<1>4. pc[t] = "final" => filled[t] = ids[t]
  <2>1. ASSUME pc[t] = "final" PROVE filled[t] = ids[t]
    <3>1. Covers(<<>>, filled[t], ids[t])
      BY <1>3, <2>1 DEF BatchOK
    <3>2. \A i \in Ids : i \in ids[t] <=> i \in filled[t]
      BY <3>1 DEF Covers
    <3> QED BY <1>2, <3>2
  <2> QED BY <2>1
<1>5. pc'[t] = to
  BY DEF Moved
<1>6. BatchOK(t)'
  BY <1>3, <1>4, <1>5 DEF BatchOK
<1> QED BY <1>1, <1>6 DEF BatchInv

\* A call gets its groups when it registers.
LEMMA BatchRegister ==
  ASSUME PoolInv, BatchInv, NEW t \in Threads, NEW S \in SUBSET Ids,
         NEW groups \in GroupOrders(S), NEW to \in {"entered", "prepare"},
         Register(t, S, groups, to)
  PROVE  BatchInv'
<1>1. TypeOK
  BY DEF PoolInv
<1>2. Moved(t, to)
  BY <1>1, GotoMoves DEF Register, PCs
<1>3. /\ ids' = [ids EXCEPT ![t] = S] /\ todo' = [todo EXCEPT ![t] = groups]
      /\ filled' = [filled EXCEPT ![t] = {}] /\ res' = [res EXCEPT ![t] = "none"]
  BY DEF Register
<1>4. ASSUME NEW u \in Threads \ {t} PROVE BatchOK(u)'
  BY <1>1, <1>2, <1>3 DEF BatchInv, BatchOK, Moved, TypeOK
<1>5. ids'[t] = S /\ todo'[t] = groups /\ filled'[t] = {} /\ pc'[t] = to
  BY <1>1, <1>2, <1>3 DEF TypeOK, Moved
<1>6. Covers(groups, {}, S)
  BY GroupOrdersCover DEF Covers
<1>7. BatchOK(t)'
  BY <1>5, <1>6 DEF BatchOK
<1> QED BY <1>4, <1>7 DEF BatchInv

\* Results for a group, or a fallback to its requests one by one.
LEMMA BatchGroup ==
  ASSUME PoolInv, BatchInv, NEW t \in Threads, GroupDone(t) \/ GroupFallback(t)
  PROVE  BatchInv'
<1>1. TypeOK /\ pc[t] = "inferred" /\ todo[t] # <<>>
  BY DEF PoolInv, HasGroup, GroupDone, GroupFallback
<1> DEFINE g == todo[t]
<1>2. g \in Seq(SUBSET Ids) /\ g # <<>> /\ Covers(g, filled[t], ids[t])
  BY <1>1 DEF TypeOK, BatchInv, BatchOK
<1>3. ASSUME NEW to \in {"infer", "final"}, NEW h, NEW f, Goto(t, to), UNCHANGED <<ids, res>>,
             todo' = [todo EXCEPT ![t] = h],
             (filled' = filled /\ f = filled[t]) \/ filled' = [filled EXCEPT ![t] = f],
             Covers(h, f, ids[t]), to = "final" => h = <<>>
      PROVE  BatchInv'
  <2>1. Moved(t, to)
    BY <1>1, <1>3, GotoMoves DEF PCs
  <2>2. ASSUME NEW u \in Threads \ {t} PROVE BatchOK(u)'
    BY <1>1, <1>3, <2>1 DEF BatchInv, BatchOK, Moved, TypeOK
  <2>3. ids'[t] = ids[t] /\ todo'[t] = h /\ filled'[t] = f /\ pc'[t] = to
    BY <1>1, <1>3, <2>1 DEF TypeOK, Moved
  <2>4. BatchOK(t)'
    BY <1>3, <2>3 DEF BatchOK
  <2> QED BY <2>2, <2>4 DEF BatchInv
<1>4. CASE GroupDone(t)
  <2>1. PICK to \in {"infer", "final"} : Goto(t, to) /\ (to = "final" => Len(g) = 1)
    BY <1>4 DEF GroupDone
  <2>2. ASSUME Len(g) = 1 PROVE Tail(g) = <<>>
    <3>1. Tail(g) \in Seq(SUBSET Ids)
      BY <1>2
    <3>2. Len(Tail(g)) = 0
      BY <1>2, <2>2
    <3> HIDE DEF g
    <3> QED BY <3>1, <3>2, EmptySeq
  <2>3. Covers(Tail(g), filled[t] \cup Head(g), ids[t])
    BY <1>2, CoverDone
  <2>4. /\ todo' = [todo EXCEPT ![t] = Tail(g)]
        /\ filled' = [filled EXCEPT ![t] = filled[t] \cup Head(g)]
        /\ UNCHANGED <<ids, res>>
    BY <1>4 DEF GroupDone
  <2> HIDE DEF g
  <2> QED BY <1>3, <2>1, <2>2, <2>3, <2>4
<1>5. CASE GroupFallback(t)
  <2>1. PICK singles \in Singles(Head(g)) : todo' = [todo EXCEPT ![t] = singles \o Tail(g)]
    BY <1>5 DEF GroupFallback
  <2>2. singles \in GroupOrders(Head(g))
    BY DEF Singles
  <2>3. Covers(singles \o Tail(g), filled[t], ids[t])
    BY <1>2, <2>2, CoverSplit
  <2>4. Goto(t, "infer") /\ UNCHANGED <<ids, res, filled>>
    BY <1>5 DEF GroupFallback
  <2> HIDE DEF g
  <2> QED BY <1>3, <2>1, <2>3, <2>4
<1> QED BY <1>4, <1>5

LEMMA BatchLeave ==
  ASSUME PoolInv, BatchInv, NEW t \in Threads, Leave(t)
  PROVE  BatchInv'
<1>1. TypeOK
  BY DEF PoolInv
<1>2. Moved(t, "idle")
  BY <1>1, GotoMoves DEF Leave, PCs
<1>3. ASSUME NEW u \in Threads \ {t} PROVE BatchOK(u)'
  BY <1>1, <1>2 DEF BatchInv, BatchOK, Moved, TypeOK, Leave
<1>4. BatchOK(t)'
  BY <1>2 DEF BatchOK, Moved
<1> QED BY <1>3, <1>4 DEF BatchInv

LEMMA BatchCall ==
  ASSUME PoolInv, BatchInv, NEW t \in Threads,
         CallInfer(t) \/ CallInferBatch(t) \/ CallStep(t) \/ SpuriousWake(t) \/ RunEnds(t)
  PROVE  BatchInv'
<1> USE DEF PCs
<1>1. TypeOK
  BY DEF PoolInv
<1>2. CASE CallInfer(t)
  <2>1. PICK i \in Ids : Register(t, {i}, <<{i}>>, "entered")
    BY <1>2 DEF CallInfer
  <2>2. <<{i}>> \in GroupOrders({i})
    <3>1. Cardinality({i}) = 1
      BY FS_Singleton
    <3>2. <<{i}>> \in [1 .. 1 -> (SUBSET {i}) \ {{}}]
      OBVIOUS
    <3>3. DOMAIN <<{i}>> = {1} /\ <<{i}>>[1] = {i}
      OBVIOUS
    <3>4. 1 \in 1 .. Cardinality({i})
      BY <3>1
    <3> QED BY <3>2, <3>3, <3>4 DEF GroupOrders
  <2> QED BY <2>1, <2>2, BatchRegister
<1>3. CASE CallInferBatch(t)
  <2>1. PICK S \in (SUBSET Ids) \ {{}} :
          \E groups \in GroupOrders(S) : Register(t, S, groups, "prepare")
    BY <1>3 DEF CallInferBatch
  <2> QED BY <2>1, BatchRegister
<1>4. CASE GroupDone(t) \/ GroupFallback(t)
  BY <1>4, BatchGroup
<1>5. CASE Leave(t)
  BY <1>5, BatchLeave
<1>6. res \in [Threads -> Outcomes]
  BY <1>1 DEF TypeOK
<1>7. CASE PlainStep(t)
  <2>1. /\ UNCHANGED <<ids, todo, filled>>
        /\ \A u \in Threads \ {t} : res'[u] = res[u]
    BY <1>6, <1>7 DEF PlainStep, EntryCheck, Prepare, InferStart, AcquireCheck, SpuriousWake,
         InputsRejected, RunEnds, RunOk, RunErr, InputUnconvertible, RunCheck, GroupFails, Finish,
         HostOrRegistryCheck, LeaveWith, Proceed, InferEnds, callVars
  <2>2. PICK to \in PCs \ {"idle", "final"} :
          /\ Goto(t, to) /\ pc[t] \notin {"idle", "leave"}
          /\ pc[t] # "waiting" \/ to = "check"
          /\ to = "leave" => res'[t] # "ok" \/ pc[t] = "final"
    BY <1>6, <1>7 DEF PlainStep, EntryCheck, Prepare, InferStart, AcquireCheck, SpuriousWake,
         InputsRejected, RunEnds, RunOk, RunErr, InputUnconvertible, RunCheck, GroupFails, Finish,
         HostOrRegistryCheck, LeaveWith, Proceed, InferEnds
  <2>3. Moved(t, to)
    BY <1>1, <2>2 DEF Moved, Goto, TypeOK
  <2> QED BY <2>1, <2>2, <2>3, BatchPlain
<1>8. CASE \/ AttachWait(t) \/ AttachWake(t) \/ AcquireLock(t) \/ CreateSession(t)
           \/ CreateSessionFails(t) \/ AttachRun(t) \/ DropSession(t)
  <2>1. /\ UNCHANGED <<ids, todo, filled>>
        /\ \A u \in Threads \ {t} : res'[u] = res[u]
    BY <1>6, <1>8 DEF AttachWait, AttachWake, AcquireLock, CreateSession, CreateSessionFails,
         AttachRun, DropSession, Proceed, callVars
  <2>2. PICK to \in PCs \ {"idle", "final", "leave"} :
          Goto(t, to) \/ GotoNotifyingOne(t, to) \/ pc' = [AllWoken EXCEPT ![t] = to]
    BY <1>8 DEF AttachWait, AttachWake, AcquireLock, CreateSession, CreateSessionFails,
         AttachRun, DropSession, Proceed
  <2>3. pc[t] \in {"attach", "wake", "lock", "create", "attachRun", "drop"}
    BY <1>8 DEF AttachWait, AttachWake, AcquireLock, CreateSession, CreateSessionFails,
         AttachRun, DropSession
  <2>4. Moved(t, to)
    BY <1>1, <2>2, <2>3, GotoMoves
  <2> QED BY <2>1, <2>2, <2>3, <2>4, BatchPlain
<1> QED BY <1>2, <1>3, <1>4, <1>5, <1>7, <1>8 DEF CallStep, PlainStep

LEMMA BatchInvStep == PoolInv /\ BatchInv /\ [Next]_vars => BatchInv'
<1> SUFFICES ASSUME PoolInv, BatchInv, [Next]_vars PROVE BatchInv'
  OBVIOUS
<1>1. CASE \/ UNCHANGED vars \/ Load
           \/ \E c \in Cancellers : (\E i \in Ids : CancelMark(c, i)) \/ CancelFinishes(c)
  <2>1. UNCHANGED callVars /\ (pc' = pc \/ pc' = AllWoken)
    BY <1>1 DEF vars, Load, ReserveSlot, AddReservedSession, PrewarmFails, LoadAgain,
                CancelMark, CancelFinishes, CancelWakes, CancelTerminatesRun
  <2>2. \A u \in Threads : pc'[u] = pc[u] \/ (pc[u] = "waiting" /\ pc'[u] = "check")
    BY <2>1 DEF AllWoken
  <2> QED BY <2>1, <2>2 DEF BatchInv, BatchOK, callVars
<1> QED BY <1>1, BatchCall DEF Next

\* A call that succeeds has a result for each of its requests, for any batch, grouping
\* and order of groups, through any fallbacks (infer_batch of lib.rs and model.rs).
THEOREM BatchCompleteHolds == Spec => []BatchComplete
<1>1. Init => BatchInv
  BY DEF Init, BatchInv, BatchOK
<1>2. PoolInv /\ BatchInv /\ [Next]_vars => BatchInv'
  BY BatchInvStep
<1>3. BatchInv => BatchComplete
  BY DEF BatchInv, BatchOK, BatchComplete
<1> QED BY <1>1, <1>2, <1>3, PoolInvAlways, PTL DEF Spec

-----------------------------------------------------------------------------
(* Waiting.  As long as nobody cancels, a thread on its way to the pool's  *)
(* mutex reaches it, so the sleepers' property is inductive by itself.     *)

Looking == {"check", "lock"}

LEMMA AcquiringFinite == IsFiniteSet(Acquiring) /\ Cardinality(Acquiring) \in Nat
BY ThreadsFinite, FS_Subset, FS_CardinalityType DEF Acquiring

\* Nothing is given back, and thread t neither gives up looking nor falls asleep.
LEMMA QuietWait ==
  ASSUME TypeOK, NoStrandedWaiter, NEW t \in Threads, NEW to \in PCs \ {"waiting"}, Moved(t, to),
         UNCHANGED <<idle, total>>, pc[t] \in Looking => to \in Looking
  PROVE  NoStrandedWaiter'
<1>1. Waiting' \subseteq Waiting
  BY DEF Waiting, Moved
<1>2. Acquiring \subseteq Acquiring' /\ Acquiring' \subseteq Threads
  BY DEF Acquiring, Moved, Looking
<1>3. IsFiniteSet(Acquiring')
  BY <1>2, ThreadsFinite, FS_Subset
<1>4. Cardinality(Acquiring) <= Cardinality(Acquiring')
  BY <1>2, <1>3, FS_Subset
<1>5. Cardinality(Acquiring') \in Nat
  BY <1>3, FS_CardinalityType
<1>6. idle \in Nat /\ total \in Nat /\ MaxSessions \in Nat
  BY MaxSessionsPositive DEF TypeOK
<1> QED BY <1>1, <1>4, <1>5, <1>6, AcquiringFinite DEF NoStrandedWaiter

\* What is free and who looks for it go up or down together.
LEMMA FreeAndLooking ==
  ASSUME NEW i \in Nat, NEW n \in Nat, NEW j \in Nat, NEW m \in Nat, NEW a \in Nat,
         NEW b \in Nat, NEW max \in Nat, NEW d \in {-1, 1},
         j - m <= (i - n) + d, a + d <= b, i + (max - n) <= a
  PROVE  j + (max - m) <= b
OBVIOUS

\* Something is given back, and one sleeper is woken.
LEMMA NotifyWait ==
  ASSUME TypeOK, NoStrandedWaiter, NEW t \in Threads, NEW to \in PCs \ {"waiting"},
         GotoNotifyingOne(t, to), pc[t] \notin Looking \cup {"waiting"},
         idle' \in Nat, total' \in Nat, idle' - total' <= (idle - total) + 1
  PROVE  NoStrandedWaiter'
<1>1. CASE Waiting = {}
  <2>1. Goto(t, to)
    BY <1>1 DEF GotoNotifyingOne
  <2>2. Waiting' = {}
    BY <1>1, <2>1 DEF Waiting, Goto, TypeOK
  <2> QED BY <2>2 DEF NoStrandedWaiter
<1>2. CASE Waiting # {}
  <2>1. PICK w \in Waiting : pc' = [pc EXCEPT ![t] = to, ![w] = "check"]
    BY <1>2 DEF GotoNotifyingOne
  <2>2. w \in Threads /\ w # t /\ w \notin Acquiring
    BY DEF Waiting, Acquiring, Looking
  <2>3. Acquiring \cup {w} \subseteq Acquiring' /\ Acquiring' \subseteq Threads
    BY <2>1, <2>2 DEF Acquiring, TypeOK, Looking
  <2>4. Cardinality(Acquiring \cup {w}) = Cardinality(Acquiring) + 1
    BY <2>2, AcquiringFinite, FS_AddElement
  <2>5. IsFiniteSet(Acquiring')
    BY <2>3, ThreadsFinite, FS_Subset
  <2>6. Cardinality(Acquiring) + 1 <= Cardinality(Acquiring') /\ Cardinality(Acquiring') \in Nat
    BY <2>3, <2>4, <2>5, FS_Subset, FS_CardinalityType
  <2>7. idle \in Nat /\ total \in Nat /\ MaxSessions \in Nat
    BY MaxSessionsPositive DEF TypeOK
  <2>8. idle + (MaxSessions - total) <= Cardinality(Acquiring)
    BY <1>2 DEF NoStrandedWaiter
  <2>9. idle' + (MaxSessions - total') <= Cardinality(Acquiring')
    BY <2>6, <2>7, <2>8, AcquiringFinite, FreeAndLooking
  <2> QED BY <2>9 DEF NoStrandedWaiter
<1> QED BY <1>1, <1>2

\* A thread at the pool's mutex takes a session or a slot, or falls asleep when
\* there is none.
LEMMA LockWait ==
  ASSUME PoolInv, NoStrandedWaiter, NEW t \in Threads, AcquireLock(t)
  PROVE  NoStrandedWaiter'
<1>1. TypeOK /\ total <= MaxSessions
  BY DEF PoolInv, SlotAccounting
<1>2. idle \in Nat /\ total \in Nat /\ MaxSessions \in Nat
  BY <1>1, MaxSessionsPositive DEF TypeOK
<1>3. CASE Goto(t, "waiting") /\ idle = 0 /\ total >= MaxSessions /\ UNCHANGED <<idle, total>>
  <2>1. IsFiniteSet(Acquiring')
    BY ThreadsFinite, FS_Subset DEF Acquiring
  <2>2. Cardinality(Acquiring') \in Nat
    BY <2>1, FS_CardinalityType
  <2>3. idle' + (MaxSessions - total') <= Cardinality(Acquiring')
    BY <1>1, <1>2, <1>3, <2>2
  <2> QED BY <2>3 DEF NoStrandedWaiter
<1>4. ASSUME NEW to \in {"attachRun", "create"}, Goto(t, to),
             idle' \in Nat, total' \in Nat, idle' - total' <= (idle - total) + (-1)
      PROVE  NoStrandedWaiter'
  <2>1. pc[t] = "lock" /\ pc' = [pc EXCEPT ![t] = to]
    BY <1>4 DEF AcquireLock, Goto
  <2>2. Waiting' = Waiting
    BY <1>1, <2>1 DEF Waiting, TypeOK
  <2>3. t \in Acquiring /\ Acquiring' = Acquiring \ {t}
    BY <1>1, <2>1 DEF Acquiring, TypeOK
  <2>4. Cardinality(Acquiring') = Cardinality(Acquiring) - 1
    BY <2>3, AcquiringFinite, FS_RemoveElement
  <2>5. ASSUME idle + (MaxSessions - total) <= Cardinality(Acquiring)
        PROVE  idle' + (MaxSessions - total') <= Cardinality(Acquiring')
    <3>1. Cardinality(Acquiring') \in Nat
      BY <2>3, AcquiringFinite, FS_RemoveElement, FS_CardinalityType
    <3>2. Cardinality(Acquiring) + (-1) <= Cardinality(Acquiring')
      BY <2>4, AcquiringFinite
    <3> QED BY <1>2, <1>4, <2>5, <3>1, <3>2, AcquiringFinite, FreeAndLooking
  <2> QED BY <2>2, <2>5 DEF NoStrandedWaiter
<1>5. CASE idle > 0 /\ idle' = idle - 1 /\ Goto(t, "attachRun") /\ UNCHANGED total
  BY <1>2, <1>4, <1>5
<1>6. CASE idle = 0 /\ total < MaxSessions /\ total' = total + 1 /\ Goto(t, "create") /\ UNCHANGED idle
  BY <1>2, <1>4, <1>6
<1> QED BY <1>3, <1>5, <1>6 DEF AcquireLock

LEMMA WaitCall ==
  ASSUME PoolInv, NoStrandedWaiter, cancelled = {}, NEW t \in Threads,
         CallInfer(t) \/ CallInferBatch(t) \/ CallStep(t) \/ SpuriousWake(t) \/ RunEnds(t)
  PROVE  NoStrandedWaiter'
<1> USE DEF PCs, Looking
<1>1. TypeOK /\ ~IsCancelled(t)
  BY DEF PoolInv, IsCancelled
<1>2. CASE CallInfer(t) \/ CallInferBatch(t)
  <2>1. PICK to \in {"entered", "prepare"} :
          Goto(t, to) /\ pc[t] = "idle" /\ UNCHANGED <<idle, total>>
    BY <1>2 DEF CallInfer, CallInferBatch, Register, poolVars
  <2>2. Moved(t, to)
    BY <1>1, <2>1, GotoMoves
  <2> QED BY <1>1, <2>1, <2>2, QuietWait
<1>3. CASE PlainStep(t)
  <2>1. UNCHANGED <<idle, total>>
    BY <1>3 DEF PlainStep, EntryCheck, Prepare, InferStart, AcquireCheck, SpuriousWake,
         InputsRejected, RunEnds, RunOk, RunErr, InputUnconvertible, RunCheck, GroupFails, Finish,
         HostOrRegistryCheck, LeaveWith, Proceed, InferEnds, poolVars
  <2>2. PICK to \in PCs \ {"waiting"} :
          /\ Goto(t, to) /\ (pc[t] # "waiting" \/ to = "check")
          /\ pc[t] \in Looking => to \in Looking
    BY <1>1, <1>3 DEF PlainStep, EntryCheck, Prepare, InferStart, AcquireCheck, SpuriousWake,
         InputsRejected, RunEnds, RunOk, RunErr, InputUnconvertible, RunCheck, GroupFails, Finish,
         HostOrRegistryCheck, LeaveWith, Proceed, InferEnds
  <2>3. Moved(t, to)
    BY <1>1, <2>2 DEF Moved, Goto, TypeOK
  <2> QED BY <1>1, <2>1, <2>2, <2>3, QuietWait
<1>4. CASE \/ AttachWait(t) \/ AttachWake(t) \/ CreateSession(t) \/ AttachRun(t)
           \/ GroupDone(t) \/ GroupFallback(t) \/ Leave(t)
  <2>1. /\ UNCHANGED <<idle, total>>
        /\ pc[t] \in {"attach", "wake", "create", "attachRun", "inferred", "leave"}
    BY <1>4 DEF AttachWait, AttachWake, CreateSession, AttachRun, GroupDone, GroupFallback,
         Leave, Proceed, poolVars
  <2>2. PICK to \in PCs \ {"waiting"} : Goto(t, to) \/ pc' = [AllWoken EXCEPT ![t] = to]
    BY <1>4 DEF AttachWait, AttachWake, CreateSession, AttachRun, GroupDone, GroupFallback,
         Leave, Proceed
  <2>3. Moved(t, to)
    BY <1>1, <2>1, <2>2, GotoMoves
  <2> QED BY <1>1, <2>1, <2>2, <2>3, QuietWait
<1>5. CASE AcquireLock(t)
  BY <1>5, LockWait
<1>6. idle \in Nat /\ total \in Nat
  BY <1>1 DEF TypeOK
<1>7. CASE CreateSessionFails(t)
  <2>1. pc[t] = "create" /\ GotoNotifyingOne(t, "inferred") /\ idle' = idle
        /\ total' = IF total = 0 THEN 0 ELSE total - 1
    BY <1>7 DEF CreateSessionFails
  <2>2. idle' \in Nat /\ total' \in Nat /\ idle' - total' <= (idle - total) + 1
    BY <1>6, <2>1
  <2> QED BY <1>1, <2>1, <2>2, NotifyWait
<1>8. CASE DropSession(t)
  <2>1. pc[t] = "drop" /\ GotoNotifyingOne(t, "inferred") /\ idle' = idle + 1 /\ total' = total
    BY <1>8 DEF DropSession
  <2>2. idle' \in Nat /\ total' \in Nat /\ idle' - total' <= (idle - total) + 1
    BY <1>6, <2>1
  <2> QED BY <1>1, <2>1, <2>2, NotifyWait
<1> QED BY <1>2, <1>3, <1>4, <1>5, <1>7, <1>8 DEF CallStep, PlainStep

LEMMA WaitStep ==
  PoolInv /\ NoStrandedWaiter /\ cancelled = {} /\ [Next]_vars => NoStrandedWaiter'
<1> SUFFICES ASSUME PoolInv, NoStrandedWaiter, cancelled = {}, [Next]_vars
             PROVE  NoStrandedWaiter'
  OBVIOUS
<1>1. TypeOK
  BY DEF PoolInv
<1>2. CASE Load
  <2>1. phase # "ready" /\ pc' = pc
    BY <1>2 DEF Load, ReserveSlot, AddReservedSession, PrewarmFails, LoadAgain
  <2>2. Waiting' = {}
    BY <2>1 DEF PoolInv, UnusedUntilReady, Waiting
  <2> QED BY <2>2 DEF NoStrandedWaiter
<1>3. CASE pc' = AllWoken
  <2>1. Waiting' = {}
    BY <1>3 DEF Waiting, AllWoken
  <2> QED BY <2>1 DEF NoStrandedWaiter
<1>4. CASE UNCHANGED <<pc, idle, total>>
  BY <1>4 DEF NoStrandedWaiter, Waiting, Acquiring
<1>5. ASSUME \/ UNCHANGED vars
             \/ \E c \in Cancellers : (\E i \in Ids : CancelMark(c, i)) \/ CancelFinishes(c)
      PROVE  pc' = AllWoken \/ UNCHANGED <<pc, idle, total>>
  BY <1>5 DEF vars, CancelMark, CancelFinishes, CancelWakes, CancelTerminatesRun, poolVars
<1> QED BY <1>2, <1>3, <1>4, <1>5, WaitCall DEF Next

\* As long as no request is cancelled, notify_one on each release is enough, for any
\* number of threads and sessions: beside a sleeper, each idle session and each free
\* slot has a thread awake that will look for it (acquire, release_reserved_slot, drop
\* of PooledSession).
THEOREM NoStrandedWaiterHolds == Spec /\ [](cancelled = {}) => []NoStrandedWaiter
<1>1. Init => NoStrandedWaiter
  BY DEF Init, NoStrandedWaiter, Waiting
<1>2. PoolInv /\ NoStrandedWaiter /\ cancelled = {} /\ [Next]_vars => NoStrandedWaiter'
  BY WaitStep
<1> QED BY <1>1, <1>2, PoolInvAlways, PTL DEF Spec
=============================================================================
