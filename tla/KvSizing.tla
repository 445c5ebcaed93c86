------------------------------ MODULE KvSizing ------------------------------
(* The planner's arithmetic (planning.py): what vLLM's resolved cache groups *)
(* say about one rank, and the block counts a sizing policy makes of them.   *)
(* Words are bounded by MaxWord, the code's UINT64_MAX.  A PlanningError is  *)
(* the value Err, which every checked operation propagates, as the exception *)
(* does.  Strings, digests and data types are left out; a cache spec keeps   *)
(* its sizes, its kind and whether it is dense.                              *)
EXTENDS Integers, Sequences, FiniteSets, FiniteSetsExt

CONSTANT MaxWord
ASSUME WordAssumption == MaxWord \in Nat \ {0}

Err == -1          \* a PlanningError
Absent == -2       \* an optional argument that is None

Word == 0 .. MaxWord
Positive == 1 .. MaxWord

checked_add(l, r) ==
  IF l \in Word /\ r \in Word /\ l + r <= MaxWord THEN l + r ELSE Err

checked_mul(l, r) ==
  IF l \in Word /\ r \in Word /\ l * r <= MaxWord THEN l * r ELSE Err

ceil_div(v, d) ==
  IF v \in Word THEN v \div d + (IF v % d # 0 THEN 1 ELSE 0) ELSE Err

round_up(v, a) == checked_mul(ceil_div(v, a), a)

round_down(v, a) == v - (v % a)

\* The checked sum of the values of f: it overflows exactly when the total does,
\* in whichever order the code adds.
Total(f) == MapThenSumSet(LAMBDA x : f[x], DOMAIN f)
CheckedSum(f) ==
  IF \E x \in DOMAIN f : f[x] = Err THEN Err ELSE checked_add(Total(f), 0)

-----------------------------------------------------------------------------
(* What vLLM resolved.  A member spec is [kind, block, heads, state, window, *)
(* dense, page]: tokens of a block, KV heads, bytes of one token's key and   *)
(* value (which stand for both head dimensions and the element type), window *)
(* tokens (or Absent), whether it is unquantised, unpadded, uncompressed,    *)
(* unchunked and retains no more, and the bytes of a page.  A cache group is *)
(* [layers, wrapped, kind, block, page, members, seqBytes]: wrapped when its *)
(* spec is the uniform wrapper over one member per layer (members is then a  *)
(* function on layers), otherwise one member serves every layer.             *)

Members(g) == {g.members[l] : l \in DOMAIN g.members}

\* External: a worker's configuration, as far as vLLM's classes guarantee it.  A spec
\* that is no wrapper is its own member, so it has its member's page.
ResolvedGroup(g) ==
  /\ IsFiniteSet(g.layers)
  /\ g.wrapped \in BOOLEAN
  /\ g.wrapped = FALSE => {m.page : m \in Members(g)} = {g.page}
ResolvedConfig(config) ==
  IsFiniteSet(config.groups) /\ \A g \in config.groups : ResolvedGroup(g)

\* One value for every member (_uniform).
Uniform(vs) == Cardinality(vs) = 1

resolve_vllm_cache_spec_kind(g) ==
  IF /\ g.kind \in {"full_attention", "sliding_window"}
     /\ g.wrapped => {m.kind : m \in Members(g)} = {g.kind}
  THEN g.kind ELSE "uncertified"

DenseLayout(g) ==
  /\ \A m \in Members(g) :
       /\ m.dense
       /\ m.page = checked_mul(checked_mul(m.block, m.heads), m.state)
  /\ Uniform({m.state : m \in Members(g)})

\* Whether a sliding window is given once and for all members.
WindowResolved(g) ==
  LET windows == {m.window : m \in Members(g)}
  IN g.kind = "sliding_window" => Uniform(windows) /\ windows \subseteq Positive

\* The sum of the member pages a wrapped group's page must equal.
InnerPages(g) == CheckedSum([l \in DOMAIN g.members |-> g.members[l].page])

\* _extract_group_topology: everything that makes it refuse a group.
TopologyAccepted(g) ==
  /\ g.layers # {}
  /\ {g.block, g.page} \subseteq Positive
  /\ g.wrapped => DOMAIN g.members = g.layers
  /\ resolve_vllm_cache_spec_kind(g) # "uncertified"
  /\ {m.block : m \in Members(g)} = {g.block}
  /\ Uniform({m.heads : m \in Members(g)})
  /\ DenseLayout(g)
  /\ WindowResolved(g)
  /\ g.wrapped => Uniform({m.page : m \in Members(g)}) /\ InnerPages(g) = g.page

\* Bytes of one block of the group, over all its layers.
bytes_per_group_block(g) ==
  IF g.wrapped THEN g.page ELSE checked_mul(g.page, Cardinality(g.layers))

\* _size_group: blocks one max_model_len sequence takes from the group.
GroupSequenceBlocks(g) ==
  IF g.seqBytes \in Positive THEN ceil_div(g.seqBytes, g.page) ELSE Err

\* extract_cache_group_topologies, over the groups of one worker.
GroupsAccepted(groups) ==
  /\ groups # {}
  /\ \A g \in groups : TopologyAccepted(g)
  /\ \A g, h \in groups : g # h => g.layers \cap h.layers = {}

\* One pool serves every group, so a block is as large as the largest needs.
shared_pool_block_stride(groups) ==
  Max({bytes_per_group_block(g) : g \in groups})

required_blocks_per_sequence(groups) ==
  CheckedSum([g \in groups |-> GroupSequenceBlocks(g)])

\* The packed allocation, when vLLM reports one, must be a whole number of
\* such blocks: packed = [sizes, blocks], no sizes when there is none.
PackedAgrees(packed, stride) ==
  packed.sizes # {} =>
    /\ Uniform(packed.sizes)
    /\ \A size \in packed.sizes :
         size % packed.blocks = 0 /\ size \div packed.blocks = stride

\* extract_rank_geometry on one worker's configuration [groups, packed].
RankAccepted(config) ==
  /\ GroupsAccepted(config.groups)
  /\ \A g \in config.groups :
       bytes_per_group_block(g) \in Positive /\ GroupSequenceBlocks(g) \in Positive
  /\ PackedAgrees(config.packed, shared_pool_block_stride(config.groups))

\* vLLM's BlockPool keeps one null block for itself.
RankGeometry(config) ==
  [stride   |-> shared_pool_block_stride(config.groups),
   sequence |-> required_blocks_per_sequence(config.groups),
   overhead |-> 1]

\* The bytes vLLM is asked to plan with: one sequence and the null block.
MinimumPlanningMemory(groups) ==
  checked_add(CheckedSum([g \in groups |-> checked_add(g.seqBytes, 0)]),
              shared_pool_block_stride(groups))

\* validate_certified_shared_pool_execution on the engine's configuration
\* [parallel, sleep, backend, overrides]: the largest of the pipeline, data and
\* decode-context sizes, sleep mode, the attention backend, overrides by kind.
Executions ==
  [parallel : {1, 2}, sleep : BOOLEAN, backend : {"FLASH_ATTN", "auto"},
   overrides : BOOLEAN]
ExecutionCertified(x) ==
  x.parallel = 1 /\ ~x.sleep /\ x.backend = "FLASH_ATTN" /\ ~x.overrides

\* What of a group the geometry contract carries, and ranks must agree on.
GroupGeometry(g) ==
  LET m == CHOOSE m \in Members(g) : TRUE
  IN [layers |-> g.layers, block |-> g.block, bytes |-> bytes_per_group_block(g),
      sequence |-> GroupSequenceBlocks(g), heads |-> m.heads, state |-> m.state,
      kind |-> g.kind,
      window |-> IF g.kind = "sliding_window" THEN m.window ELSE Absent]

\* geometry_from_resolved_configs and GeometryDescriptor: configs has one
\* configuration per rank 0 .. tp - 1.
GeometryAccepted(configs) ==
  /\ \A r \in DOMAIN configs : RankAccepted(configs[r])
  /\ Uniform({{GroupGeometry(g) : g \in configs[r].groups} : r \in DOMAIN configs})
  /\ CheckedSum([r \in DOMAIN configs |-> RankGeometry(configs[r]).stride]) # Err

-----------------------------------------------------------------------------
(* A sizing policy is [target, maximum, headroom, prefix, alignment,         *)
(* minBytes, maxBytes, strict]; maximum, minBytes and maxBytes may be Absent.*)

PolicyRecords ==
  [target : Int, maximum : Int, headroom : Int, prefix : Int, alignment : Int,
   minBytes : Int, maxBytes : Int, strict : BOOLEAN]

SizingPolicy(p) ==
  /\ p.target \in Positive
  /\ p.maximum # Absent => p.maximum \in Positive /\ p.maximum >= p.target
  /\ p.headroom \in 0 .. 100
  /\ p.prefix \in Word
  /\ p.alignment \in Positive
  /\ {p.minBytes, p.maxBytes} \subseteq Positive \cup {Absent}
  /\ (Absent \notin {p.minBytes, p.maxBytes}) => p.minBytes <= p.maxBytes

\* Blocks for n whole sequences with the prefix allowance and the headroom
\* over both, aligned: the desired and the maximum capacity before any cap.
Workload(rank, p, n) == checked_add(checked_mul(rank.sequence, n), p.prefix)
Headroom(rank, p, n) ==
  ceil_div(checked_mul(Workload(rank, p, n), p.headroom), 100)
CapacityFor(rank, p, n) ==
  round_up(checked_add(checked_add(rank.overhead, Workload(rank, p, n)),
                       Headroom(rank, p, n)), p.alignment)

MinimumBlocks(rank, p) ==
  round_up(checked_add(rank.overhead, rank.sequence), p.alignment)
MinimumBytes(rank, p) == checked_mul(MinimumBlocks(rank, p), rank.stride)

FloorBlocks(rank, p) ==
  IF p.minBytes = Absent THEN 0
  ELSE round_up(ceil_div(p.minBytes, rank.stride), p.alignment)

CapBlocks(rank, p) ==
  IF p.maxBytes = Absent THEN MaxWord
  ELSE round_down(p.maxBytes \div rank.stride, p.alignment)

DesiredBlocks(rank, p) ==
  Min({Max({CapacityFor(rank, p, p.target), FloorBlocks(rank, p)}),
       CapBlocks(rank, p)})

MaximumBlocks(rank, p) ==
  IF p.maximum = Absent THEN DesiredBlocks(rank, p)
  ELSE Min({CapacityFor(rank, p, p.maximum), CapBlocks(rank, p)})

\* The whole sequences a pool of that many blocks can hold, at most the target:
\* a cap sheds prefix and headroom first.
\* Mutant: the prefix allowance is charged before the sequences.
Effective_PrefixFirst(rank, p, blocks) ==
  Min({p.target, Max({0, blocks - rank.overhead - p.prefix}) \div rank.sequence})
Effective(rank, p, blocks) ==
  Min({p.target, (blocks - rank.overhead) \div rank.sequence})

\* size_rank: everything that makes it raise.  An Err in any of the numbers is
\* a PlanningError there.
Sizable(rank, p) ==
  /\ Err \notin {rank.sequence, MinimumBytes(rank, p), FloorBlocks(rank, p),
                 CapacityFor(rank, p, p.target)}
  /\ p.minBytes # Absent => p.minBytes >= MinimumBytes(rank, p)
  /\ p.maxBytes # Absent =>
       CapBlocks(rank, p) >= Max({MinimumBlocks(rank, p), FloorBlocks(rank, p)})
  /\ p.maximum # Absent =>
       /\ CapacityFor(rank, p, p.maximum) # Err
       /\ MaximumBlocks(rank, p) >= DesiredBlocks(rank, p)
  /\ checked_mul(DesiredBlocks(rank, p), rank.stride) # Err
  /\ checked_mul(MaximumBlocks(rank, p), rank.stride) # Err
  /\ Effective(rank, p, DesiredBlocks(rank, p)) >= 1
  /\ p.strict => Effective(rank, p, DesiredBlocks(rank, p)) = p.target

size_rank(rank, p) ==
  [stride |-> rank.stride, sequence |-> rank.sequence,
   minimum |-> MinimumBlocks(rank, p), minimumBytes |-> MinimumBytes(rank, p),
   base |-> checked_add(rank.overhead, Workload(rank, p, p.target)),
   headroom |-> Headroom(rank, p, p.target),
   desired |-> DesiredBlocks(rank, p),
   desiredBytes |-> DesiredBlocks(rank, p) * rank.stride,
   maximum |-> MaximumBlocks(rank, p),
   maximumBytes |-> MaximumBlocks(rank, p) * rank.stride,
   effective |-> Effective(rank, p, DesiredBlocks(rank, p))]

\* build_plan and PlanningResult: every rank sized alike (the geometries agree)
\* and the sum of the initial grants a word.  The sum of the maxima is first
\* computed when the result is written out.
Plannable(configs, p) ==
  /\ \A r \in DOMAIN configs : Sizable(RankGeometry(configs[r]), p)
  /\ CheckedSum([r \in DOMAIN configs |->
                   size_rank(RankGeometry(configs[r]), p).desiredBytes]) # Err

build_plan(configs, p) ==
  LET sized == [r \in DOMAIN configs |-> size_rank(RankGeometry(configs[r]), p)]
  IN [ranks        |-> sized,
      totalDesired |-> CheckedSum([r \in DOMAIN sized |-> sized[r].desiredBytes]),
      totalMaximum |-> CheckedSum([r \in DOMAIN sized |-> sized[r].maximumBytes])]

\* The published JSON schema of a plan: which numbers may be zero.
SchemaAccepts(plan) ==
  /\ DOMAIN plan.ranks # {}
  /\ {plan.totalDesired, plan.totalMaximum} \subseteq Positive
  /\ \A r \in DOMAIN plan.ranks :
       LET s == plan.ranks[r]
       IN /\ {s.stride, s.sequence, s.minimum, s.minimumBytes, s.base, s.desired,
              s.desiredBytes, s.maximum, s.maximumBytes, s.effective}
                \subseteq Positive
          /\ s.headroom \in Word
=============================================================================
