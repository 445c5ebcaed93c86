---------------------------- MODULE MCWorkerParts ----------------------------
(* The parts of the vLLM connector that act inside one process: the memory   *)
(* mapping, the block pool, the allocator hook, a control call, the check of *)
(* a resize message and of a registration.  Each behaviour moves one of them *)
(* (part) and leaves the others where they start: they meet in ElasticResize *)
(* and ConnectorStartup, as steps that succeed or fail.                      *)
EXTENDS Naturals

CONSTANTS
  Units, Initial, MaxFaults, MaxOps,
  InitialBlocks, MaximumBlocks, MaxResizes,
  Layers, Maximum,
  Fds, MaxHandles, MaxPieces,
  Ids, MaxBlocks, Stride, Grain, Alignment, Offsets, Lengths, Targets, MaxSegments,
  Devices, Worlds, MaxGroups, Counts, MaxChanges

VARIABLES
  part,
  phys, handles, table, size, served, pending, state, faults, ops,
  queue, held, cached, num_gpu, current, phase, spill, resizes,
  mapped, build, bound, patches, hook_pc, next, buffer, used, caches, attached, warm,
  warming, num_blocks, serving,
  kind, call_pc, pieces, got, open, closes, result, broken, exact,
  wire_pc, offer, segments, mapped_bytes, inStep,
  mode, live, world, domains, mapped_ranks, groups, grant, pc, registration, pools,
  backing, changes, bindings, seen, raised

\* Keys of a rank map, two of which name rank one in a form the parser must refuse
\* or fold.
RankKeys ==
  {[rank |-> 0, form |-> "text"], [rank |-> 1, form |-> "int"],
   [rank |-> 1, form |-> "text"], [rank |-> 1, form |-> "padded"]}

\* Block size and granularity an operation may name: the binding's, and a block of twice
\* its size cut finer.
WireHeaders ==
  {[stride |-> Stride, grain |-> Grain], [stride |-> 2 * Stride, grain |-> 1]}

Vmm == INSTANCE VmmBuffer
Blocks == INSTANCE ElasticBlockPool
Hook == INSTANCE AllocatorHook WITH pc <- hook_pc
Call == INSTANCE ControlCall WITH pc <- call_pc
Wire == INSTANCE ResizeWire WITH Headers <- WireHeaders, pc <- wire_pc, table <- segments,
                                 mapped <- mapped_bytes
Handshake == INSTANCE PoolHandshake WITH Keys <- RankKeys, bound <- bindings

ASSUME PartsAssumption ==
  /\ Vmm!VmmAssumption /\ Blocks!BlockPoolAssumption /\ Hook!HookAssumption
  /\ Call!CallAssumption /\ Wire!WireAssumption /\ Handshake!HandshakeAssumption

vmmVars == <<phys, handles, table, size, served, pending, state, faults, ops>>
blockVars == <<queue, held, cached, num_gpu, current, phase, spill, resizes>>
hookVars ==
  <<mapped, build, bound, patches, hook_pc, next, buffer, used, caches, attached, warm,
    warming, num_blocks, serving>>
callVars == <<kind, call_pc, pieces, got, open, closes, result, broken, exact>>
wireVars == <<wire_pc, offer, segments, mapped_bytes, inStep>>
handshakeVars ==
  <<mode, live, world, domains, mapped_ranks, groups, grant, pc, registration, pools,
    backing, changes, bindings, seen, raised>>
allVars == <<part, vmmVars, blockVars, hookVars, callVars, wireVars, handshakeVars>>

\* A part that does not move starts in one of its initial states only.
Init ==
  /\ part \in {"vmm", "blocks", "hook", "call", "wire", "handshake"}
  /\ part = "hook" \/ (mapped = Maximum /\ build = [s \in Hook!Sites |-> "absent"])
  /\ part = "call" \/ (kind = "other" /\ exact = TRUE)
  /\ \/ part = "handshake"
     \/ /\ mode = "opaque" /\ live = FALSE /\ world = 1 /\ domains = <<>>
        /\ mapped_ranks = Handshake!NoMap /\ groups = 1 /\ grant = "none"
  /\ Vmm!Init /\ Blocks!Init /\ Hook!Init /\ Call!Init /\ Wire!Init /\ Handshake!Init

Next ==
  \/ /\ part = "vmm" /\ Vmm!Next
     /\ UNCHANGED <<part, blockVars, hookVars, callVars, wireVars, handshakeVars>>
  \/ /\ part = "blocks" /\ Blocks!Next
     /\ UNCHANGED <<part, vmmVars, hookVars, callVars, wireVars, handshakeVars>>
  \/ /\ part = "hook" /\ Hook!Next
     /\ UNCHANGED <<part, vmmVars, blockVars, callVars, wireVars, handshakeVars>>
  \/ /\ part = "call" /\ Call!Next
     /\ UNCHANGED <<part, vmmVars, blockVars, hookVars, wireVars, handshakeVars>>
  \/ /\ part = "wire" /\ Wire!Next
     /\ UNCHANGED <<part, vmmVars, blockVars, hookVars, callVars, handshakeVars>>
  \/ /\ part = "handshake" /\ Handshake!Next
     /\ UNCHANGED <<part, vmmVars, blockVars, hookVars, callVars, wireVars>>

Spec == Init /\ [][Next]_allVars

-----------------------------------------------------------------------------
(* The parts' properties, each in the behaviours that move its part. *)

\* The import knows what is mapped through failing driver calls (map_segments,
\* unmap_segments, close).
MappingAccounted == part = "vmm" => Vmm!MappingAccounted

\* No block is lost or hit after retirement, and none doubled unless an append failed
\* (VllmElasticBlockPool).
BlocksAccounted == part = "blocks" => Blocks!BlocksAccounted

\* Patches are undone and the warm-up stays inside the mapped blocks
\* (install, _run_startup_warmup).
HookIsHarmless == part = "hook" => Hook!HookIsHarmless

\* Every OS handle received is closed exactly once, but for those of a frame in which the
\* socket failed, which nobody closes (_read_frame_with_handles).
HandlesAccounted == part = "call" => Call!HandlesAccounted

\* validate_resize_operation accepts lists that cut the range they name, and no byte is
\* mapped twice.
MessagesArePartitions == part = "wire" => Wire!MessagesArePartitions

\* Every rank imports its own memory, and processes that register between the same two
\* resizes start from one block count (select_cuda_binding, _elastic_receipt_block_counts).
RanksAgree == part = "handshake" => Handshake!RanksAgree
=============================================================================
