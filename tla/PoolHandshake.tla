---------------------------- MODULE PoolHandshake ----------------------------
(* From a participant's configuration to the binding each rank imports       *)
(* (connector.py, contract.py, select_cuda_binding of shared_pool.py): the   *)
(* configured domains and rank map are checked, a registration is built and  *)
(* validated; the scheduler and every rank send it each for itself, and each *)
(* reads its own receipt.  The configuration is an operator's, with any      *)
(* mistake in it.  The coordinator (external) provides one pool for each     *)
(* declared domain, which need not be the one asked for, and goes on         *)
(* resizing the pools, one at a time, while participants still register.     *)
EXTENDS Integers, FiniteSets, Sequences, SequencesExt, Functions

CONSTANTS
  Devices,    \* CUDA devices
  Worlds,     \* tensor-parallel sizes
  Keys,       \* keys of kapsl_rank_device_map: [rank, form]
  MaxGroups,  \* bound: cache groups of the model
  Counts,     \* mapped block counts a pool may report
  MaxChanges  \* bound: pools resized while participants register

HandshakeAssumption ==
  /\ IsFiniteSet(Devices) /\ Worlds \subseteq Nat \ {0} /\ MaxGroups \in Nat \ {0}
  /\ Keys \subseteq [rank : Nat, form : {"int", "text", "padded"}]
  /\ IsFiniteSet(Counts) /\ MaxChanges \in Nat

MaxWorld == CHOOSE n \in Worlds : \A m \in Worlds : m <= n
Domains == [kind : {"cuda", "host"}, device : Devices]
RankMaps == UNION {[K -> Devices] : K \in SUBSET Keys}
Pools ==
  [device : Devices, vmm : BOOLEAN, elastic : BOOLEAN,
   fits : BOOLEAN]      \* participant managed, with vLLM's block count and stride

VARIABLES
  mode, live, world, domains,  \* the configuration
  mapped_ranks,                \* kapsl_rank_device_map, <<>> when it is not given
  groups, grant,               \* cache groups; the provisioning grant: none, good, bad
  pc,         \* config, register, receipt, select, refused, invalid
  registration,
  pools,      \* shared_pools, the same in every receipt but for mapped_block_count
  backing,    \* mapped_block_count of each elastic pool, by device, as of now
  changes,    \* pools resized so far
  bound,      \* the pools selected, by rank
  seen,       \* processes built: the block count each starts from (0 without live
              \* resize) and how many pools had been resized when it registered
  raised      \* processes whose constructor raised

config == <<mode, live, world, domains, mapped_ranks, groups, grant>>
coordinator == <<pools, backing, changes>>
read == <<bound, seen, raised>>
vars == <<config, pc, registration, coordinator, read>>

NoRegistration ==
  [tier |-> "none", features |-> {}, transports |-> {}, capacity |-> {}, topology |-> {},
   grant |-> "none"]
NoMap == [k \in {} |-> 0]
Ranks == 0 .. world - 1
Scheduler == -1
Processes == {Scheduler} \cup (IF mode = "shared_pool" THEN Ranks ELSE {})
DomainSet == ToSet(domains)
DeviceIds == {d.device : d \in DomainSet}

Features ==
  {"capacity_leasing", "direct_attention_access", "external_pool_attachment",
   "participant_block_selection", "live_pool_resize", "multiple_cache_groups",
   "provisioning_grant"}
Registrations ==
  [tier : {"none", "kv_connected", "shared_pool"}, features : SUBSET Features,
   transports : SUBSET {"backend_opaque", "cuda_ipc", "cuda_vmm"},
   capacity : SUBSET (0 .. MaxGroups - 1), topology : SUBSET (0 .. MaxGroups - 1),
   grant : {"none", "good", "bad"}]

TypeOK ==
  /\ mode \in {"opaque", "shared_pool"} /\ live \in BOOLEAN /\ world \in Worlds
  /\ domains \in BoundedSeq(Domains, MaxWorld) /\ mapped_ranks \in RankMaps
  /\ groups \in 1 .. MaxGroups /\ grant \in {"none", "good", "bad"}
  /\ pc \in {"config", "register", "receipt", "select", "refused", "invalid"}
  /\ registration \in Registrations
  /\ pools \subseteq Pools
  /\ DOMAIN backing \subseteq Devices /\ Range(backing) \subseteq Counts
  /\ changes \in 0 .. MaxChanges
  /\ DOMAIN bound \subseteq Ranks /\ Range(bound) \subseteq Pools
  /\ DOMAIN seen \subseteq Processes
  /\ Range(seen) \subseteq [count : Counts \cup {0}, at : 0 .. MaxChanges]
  /\ raised \subseteq Processes

Init ==
  /\ mode \in {"opaque", "shared_pool"} /\ live \in BOOLEAN /\ world \in Worlds
  /\ domains \in BoundedSeq(Domains, MaxWorld) /\ mapped_ranks \in RankMaps
  /\ groups \in 1 .. MaxGroups /\ grant \in {"none", "good", "bad"}
  /\ pc = "config" /\ registration = NoRegistration
  /\ pools = {} /\ backing = NoMap /\ changes = 0
  /\ bound = NoMap /\ seen = NoMap /\ raised = {}

-----------------------------------------------------------------------------
(* Configuration *)

\* _canonical_rank refuses "01"; _rank_device_map two keys of one rank.
CanonicalMap(m) ==
  /\ \A k \in DOMAIN m : k.form # "padded"
  /\ \A j, k \in DOMAIN m : j.rank = k.rank => j = k
RankDevice(m, r) == m[CHOOSE k \in DOMAIN m : k.rank = r]

\* _validated_shared_rank_device_map: one distinct device per rank, and a map between
\* the two that may be left out for one rank.
\* Mutant: the mapped devices need only be declared ones.
RankMapAccepted_Subset ==
  /\ Len(domains) = world /\ Cardinality(DeviceIds) = Len(domains)
  /\ IF mapped_ranks = NoMap
     THEN world = 1
     ELSE /\ CanonicalMap(mapped_ranks)
          /\ {k.rank : k \in DOMAIN mapped_ranks} = Ranks
          /\ Range(mapped_ranks) \subseteq DeviceIds
RankMapAccepted ==
  /\ Len(domains) = world /\ Cardinality(DeviceIds) = Len(domains)
  /\ IF mapped_ranks = NoMap
     THEN world = 1
     ELSE /\ CanonicalMap(mapped_ranks)
          /\ {k.rank : k \in DOMAIN mapped_ranks} = Ranks
          /\ Range(mapped_ranks) = DeviceIds

ConfigAccepted ==
  /\ live => mode = "shared_pool"
  /\ domains # <<>>
  /\ mode = "shared_pool" => /\ \A d \in DomainSet : d.kind = "cuda"
                             /\ RankMapAccepted

Configure ==
  /\ pc = "config"
  /\ pc' = IF ConfigAccepted THEN "register" ELSE "refused"
  /\ UNCHANGED <<config, registration, coordinator, read>>

-----------------------------------------------------------------------------
(* Registration *)

\* shared_pool_registration, with _vllm_capacity_groups and _vllm_topology.
SharedRegistration ==
  [tier |-> "shared_pool",
   features |->
     Features \ ((IF live THEN {} ELSE {"live_pool_resize"})
                 \cup (IF groups > 1 THEN {} ELSE {"multiple_cache_groups"})
                 \cup (IF grant = "none" THEN {"provisioning_grant"} ELSE {})),
   transports |-> {IF live THEN "cuda_vmm" ELSE "cuda_ipc"},
   capacity |-> 0 .. groups - 1, topology |-> 0 .. groups - 1, grant |-> grant]

\* opaque_registration: the grant is not sent.
OpaqueRegistration ==
  [tier |-> "kv_connected", features |-> {"capacity_leasing"},
   transports |-> {"backend_opaque"},
   capacity |-> 0 .. groups - 1, topology |-> {}, grant |-> "none"]

\* The identity of a memory domain: a host domain has no device.
Identity(d) == IF d.kind = "cuda" THEN <<d.kind, d.device>> ELSE <<d.kind>>
DomainsUnique ==
  \A i, j \in DOMAIN domains : Identity(domains[i]) = Identity(domains[j]) => i = j

\* _validate_topology
TopologyAccepted(r) ==
  /\ r.topology # {}
  /\ Cardinality(r.topology) > 1 => "multiple_cache_groups" \in r.features
  /\ r.topology = r.capacity

\* validate_registration
RegistrationAccepted(r) ==
  /\ "capacity_leasing" \in r.features
  /\ r.capacity # {} /\ DomainsUnique
  /\ \/ /\ r.tier = "kv_connected"
        /\ "backend_opaque" \in r.transports /\ r.topology = {}
     \/ /\ r.tier = "shared_pool"
        /\ {"direct_attention_access", "external_pool_attachment",
            "participant_block_selection"} \subseteq r.features
        /\ IF "live_pool_resize" \in r.features
           THEN r.transports = {"cuda_vmm"}
           ELSE "cuda_ipc" \in r.transports
        /\ TopologyAccepted(r)
  /\ ("provisioning_grant" \in r.features) = (r.grant # "none")
  /\ r.grant # "none" => r.tier = "shared_pool" /\ r.grant = "good"

Register ==
  /\ pc = "register"
  /\ registration' =
       IF mode = "shared_pool" THEN SharedRegistration ELSE OpaqueRegistration
  /\ pc' = IF RegistrationAccepted(registration') THEN "receipt" ELSE "invalid"
  /\ UNCHANGED <<config, coordinator, read>>

-----------------------------------------------------------------------------
(* The receipts *)

\* External: one pool for each domain of a shared-pool registration, or nothing.
Answers ==
  {ps \in {Range(f) : f \in [DeviceIds -> Pools]} :
     /\ Cardinality(ps) = Cardinality(DeviceIds)
     /\ {p.device : p \in ps} = DeviceIds}

Provide ==
  /\ pc = "receipt" /\ pc' = "select"
  /\ pools' \in Answers \cup {{}}
  /\ backing' \in [{p.device : p \in {q \in pools' : q.elastic}} -> Counts]
  /\ UNCHANGED <<config, registration, changes, read>>

\* External: the coordinator grows or shrinks one pool of a participant that asked for it.
ResizePool(d) ==
  /\ pc = "select" /\ "live_pool_resize" \in registration.features
  /\ changes < MaxChanges
  /\ \E c \in Counts \ {backing[d]} : backing' = [backing EXCEPT ![d] = c]
  /\ changes' = changes + 1
  /\ UNCHANGED <<config, pc, registration, pools, read>>

\* validate_registration_receipt
ReceiptValid(ps) ==
  /\ \A p, q \in ps : p.vmm = q.vmm
  /\ \A p \in ps : p.elastic = p.vmm

\* register_with_handles: pools, and elastic ones, exactly if they were asked for.
ReceiptAccepted(ps) ==
  /\ ReceiptValid(ps)
  /\ (mode = "shared_pool") = (ps # {})
  /\ ("live_pool_resize" \in registration.features) = (\E p \in ps : p.elastic)

\* select_cuda_binding in the worker of rank r.
Candidates == {p \in pools : p.vmm = live}
Matching(r) == {p \in Candidates : p.device = RankDevice(mapped_ranks, r)}

Selected(r) ==
  IF Cardinality(Candidates) = 1 THEN CHOOSE p \in Candidates : TRUE
  ELSE CHOOSE p \in Matching(r) : TRUE
Selectable(r) ==
  /\ Candidates # {}
  /\ Cardinality(Candidates) > 1 => mapped_ranks # NoMap /\ Cardinality(Matching(r)) = 1

\* _elastic_receipt_block_counts, of the scheduler and of every worker: the pools of this
\* receipt share one block-count state.
OneCount == Cardinality({backing[p.device] : p \in pools}) = 1

Accepted(p) ==
  /\ ReceiptAccepted(pools) /\ (live => OneCount)
  /\ p \in Ranks => Selectable(p) /\ Selected(p).fits /\ Selected(p).elastic = live

\* The count the scheduler's block pool starts with; a worker maps that of its own pool.
StartCount(p) ==
  IF ~live THEN 0
  ELSE backing[(IF p \in Ranks THEN Selected(p) ELSE CHOOSE q \in pools : TRUE).device]

\* Process p registers, reads its receipt and is built, or its constructor raises.
Receive(p) ==
  /\ pc = "select" /\ p \notin DOMAIN seen \cup raised
  /\ IF Accepted(p)
     THEN /\ seen' = [q \in DOMAIN seen \cup {p} |->
                       IF q = p THEN [count |-> StartCount(p), at |-> changes] ELSE seen[q]]
          /\ bound' = IF p \in Ranks
                      THEN [q \in DOMAIN bound \cup {p} |->
                              IF q = p THEN Selected(p) ELSE bound[q]]
                      ELSE bound
          /\ UNCHANGED raised
     ELSE raised' = raised \cup {p} /\ UNCHANGED <<seen, bound>>
  /\ UNCHANGED <<config, pc, registration, coordinator>>

Next ==
  \/ Configure
  \/ Register
  \/ Provide
  \/ \E d \in DOMAIN backing : ResizePool(d)
  \/ \E p \in Processes : Receive(p)

Spec == Init /\ [][Next]_vars

-----------------------------------------------------------------------------
(* Properties *)

\* "each vLLM worker imports its device's binding": the binding a rank selects is on
\* the device the map names for it, and two ranks never select the same device's, for
\* every configuration the constructor accepts and although each selects from a receipt
\* of its own.
EachItsOwnBinding ==
  \A r \in DOMAIN bound :
    /\ mapped_ranks # NoMap => bound[r].device = RankDevice(mapped_ranks, r)
    /\ \A q \in DOMAIN bound \ {r} : bound[q].device # bound[r].device

\* A configuration the constructor accepts gives a registration its own contract
\* accepts, unless the grant it was handed is malformed or an opaque participant
\* declared a domain twice.
BuiltIsValid ==
  pc = "invalid" => grant = "bad" \/ (mode = "opaque" /\ ~DomainsUnique)

\* What the comparison of the pools in one receipt (_elastic_receipt_block_counts) buys
\* processes that never see each other's: when no pool was resized between the
\* registrations of two of them, the scheduler or ranks on different devices, they start
\* from the same block count, whatever states the pools were in.  Nothing compares the
\* counts of processes that registered on two sides of a resize.
CountsAgree ==
  \A p, q \in DOMAIN seen : seen[p].at = seen[q].at => seen[p].count = seen[q].count

\* Registration, receipts and import agree: every rank has a binding of its own, on its
\* own device, and processes that registered between the same two resizes the same count.
RanksAgree ==
  /\ TypeOK
  /\ EachItsOwnBinding
  /\ BuiltIsValid
  /\ CountsAgree
=============================================================================
