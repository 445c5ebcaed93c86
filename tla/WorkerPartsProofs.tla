------------------------- MODULE WorkerPartsProofs -------------------------
(***************************************************************************)
(* Proofs about the parts of the vLLM connector that MCWorkerParts checks, *)
(* for every pool size, device set, world and number of handles.  A part's *)
(* invariant holds in every behaviour, since only its own steps move it.   *)
(*                                                                         *)
(* BlocksInv: until bind, the pool is as vLLM built it; spilled blocks are *)
(* above the capacity.                                                     *)
(* VmmInv: the table is 1 .. n, and how n, the size, the served end and a  *)
(*   pending resize relate after each way a driver call can fail.          *)
(* CallInv: the open handles are those received, or all of them are closed.*)
(* HookInv: the order in which names are replaced, so that each is         *)
(*   remembered once with vLLM's function and none is left unreplaced.     *)
(* HandshakeInv: the accepted configuration is a bijection of ranks and    *)
(*   devices, every binding is what its rank selects of its receipt, and a *)
(*   process built since the last resize has the count of every pool.      *)
(* WireInv: mapped segments never meet, and they cut the mapped bytes while*)
(*   every operation applied began where the mapping ended.                *)
(***************************************************************************)
EXTENDS MCWorkerParts, FiniteSets, Sequences, FiniteSetTheorems, SequenceTheorems, TLAPS

-----------------------------------------------------------------------------
(* The block pool.                                                         *)

LEMMA BlockPoolConstants ==
  /\ InitialBlocks \in Nat /\ MaximumBlocks \in Nat /\ MaxResizes \in Nat
  /\ 1 < InitialBlocks /\ InitialBlocks <= MaximumBlocks
BY PartsAssumption DEF PartsAssumption, Blocks!BlockPoolAssumption

\* Until bind has succeeded the pool is as vLLM built it.
BlocksInv ==
  /\ Blocks!BlocksAccounted
  /\ phase = "unbound" =>
       /\ queue = Blocks!Below(MaximumBlocks) /\ held = {} /\ cached = {}
       /\ current = InitialBlocks /\ spill = {}
  /\ phase = "bound" => \A b \in spill : b >= current

LEMMA BlocksInit == Blocks!Init => BlocksInv
BY BlockPoolConstants
   DEF Blocks!Init, BlocksInv, Blocks!BlocksAccounted, Blocks!TypeOK,
       Blocks!BlocksConserved, Blocks!NoRetiredHit, Blocks!Blocks, Blocks!Below

\* A rollback restores the queue, or the adapter says that it is not as it was.
LEMMA RollBackCases ==
  ASSUME queue \subseteq Blocks!Blocks, NEW taken \in SUBSET Blocks!Blocks,
         Blocks!RollBack(taken)
  PROVE  \/ UNCHANGED <<queue, phase>>
         \/ phase' = "ambiguous" /\ queue' \subseteq Blocks!Blocks
BY DEF Blocks!RollBack

LEMMA BlocksBind == BlocksInv /\ Blocks!Bind => BlocksInv'
<1> SUFFICES ASSUME BlocksInv, Blocks!Bind PROVE BlocksInv'
  OBVIOUS
<1>1. /\ queue = Blocks!Below(MaximumBlocks) /\ current = InitialBlocks
      /\ held = {} /\ cached = {} /\ spill = {}
  BY DEF BlocksInv, Blocks!Bind
<1>2. queue' = Blocks!Below(InitialBlocks)
  BY <1>1, BlockPoolConstants DEF Blocks!Bind, Blocks!Below
<1>3. Blocks!Below(InitialBlocks) \subseteq Blocks!Blocks
  BY BlockPoolConstants DEF Blocks!Blocks, Blocks!Below
<1> QED
  BY <1>1, <1>2, <1>3, BlockPoolConstants
     DEF Blocks!Bind, BlocksInv, Blocks!BlocksAccounted, Blocks!TypeOK,
         Blocks!BlocksConserved, Blocks!NoRetiredHit

LEMMA BlocksBindFails == BlocksInv /\ Blocks!BindFails => BlocksInv'
<1> SUFFICES ASSUME BlocksInv, Blocks!BindFails PROVE BlocksInv'
  OBVIOUS
<1>1. PICK k \in InitialBlocks .. MaximumBlocks - 1 :
        Blocks!RollBack(InitialBlocks .. k - 1)
  BY DEF Blocks!BindFails
<1>2. InitialBlocks .. k - 1 \in SUBSET Blocks!Blocks
  BY BlockPoolConstants DEF Blocks!Blocks
<1>3. \/ UNCHANGED <<queue, phase>>
      \/ phase' = "ambiguous" /\ queue' \subseteq Blocks!Blocks
  BY <1>1, <1>2, RollBackCases DEF BlocksInv, Blocks!BlocksAccounted, Blocks!TypeOK
<1> QED
  BY <1>3 DEF Blocks!BindFails, BlocksInv, Blocks!BlocksAccounted, Blocks!TypeOK,
              Blocks!BlocksConserved, Blocks!NoRetiredHit

LEMMA BlocksGrow ==
  ASSUME BlocksInv, NEW target \in 2 .. MaximumBlocks, Blocks!Grow(target)
  PROVE  BlocksInv'
BY BlockPoolConstants
   DEF Blocks!Grow, Blocks!Append, Blocks!Resize, BlocksInv, Blocks!BlocksAccounted,
       Blocks!TypeOK, Blocks!BlocksConserved, Blocks!NoRetiredHit, Blocks!Blocks, Blocks!Below

\* What the append has put into the queue before it failed is above the capacity, and
\* disjoint from what is there unless an earlier append left it.
LEMMA BlocksGrowFails ==
  ASSUME BlocksInv, NEW target \in 2 .. MaximumBlocks, Blocks!GrowFails(target)
  PROVE  BlocksInv'
<1>1. PICK k \in current .. target - 1 :
        /\ Blocks!Append(current .. k - 1)
        /\ spill' = spill \cup (current .. k - 1)
  BY DEF Blocks!GrowFails
<1> QED
  BY <1>1, BlockPoolConstants
     DEF Blocks!GrowFails, Blocks!Append, Blocks!Resize, BlocksInv, Blocks!BlocksAccounted,
         Blocks!TypeOK, Blocks!BlocksConserved, Blocks!NoRetiredHit, Blocks!Blocks,
         Blocks!Below

LEMMA BlocksShrink ==
  ASSUME BlocksInv, NEW target \in 2 .. MaximumBlocks, Blocks!Shrink(target)
  PROVE  BlocksInv'
BY BlockPoolConstants
   DEF Blocks!Shrink, Blocks!Resize, BlocksInv, Blocks!BlocksAccounted, Blocks!TypeOK,
       Blocks!BlocksConserved, Blocks!NoRetiredHit, Blocks!Blocks, Blocks!Below

\* A retirement that fails removes at most entries of the prefix cache.
LEMMA BlocksShrinkFails ==
  ASSUME BlocksInv, NEW target \in 2 .. MaximumBlocks, Blocks!ShrinkFails(target)
  PROVE  BlocksInv'
<1>1. PICK k \in target .. current - 1 :
        \/ Blocks!RollBack(target .. k - 1) /\ UNCHANGED cached
        \/ /\ Blocks!RollBack(target .. current - 1)
           /\ cached' \in {cached \ (target .. k - 1), cached \ (target .. k)}
  BY DEF Blocks!ShrinkFails
<1>2. /\ target .. k - 1 \in SUBSET Blocks!Blocks
      /\ target .. current - 1 \in SUBSET Blocks!Blocks
  BY BlockPoolConstants DEF BlocksInv, Blocks!BlocksAccounted, Blocks!TypeOK, Blocks!Blocks
<1>3. \/ UNCHANGED <<queue, phase>>
      \/ phase' = "ambiguous" /\ queue' \subseteq Blocks!Blocks
  BY <1>1, <1>2, RollBackCases DEF BlocksInv, Blocks!BlocksAccounted, Blocks!TypeOK
<1>4. cached' \subseteq cached
  BY <1>1
<1>5. /\ UNCHANGED <<held, num_gpu, current, spill>> /\ phase = "bound"
      /\ resizes' \in 0 .. MaxResizes
  BY BlockPoolConstants
     DEF Blocks!ShrinkFails, Blocks!Resize, BlocksInv, Blocks!BlocksAccounted, Blocks!TypeOK
<1> QED
  BY <1>3, <1>4, <1>5
     DEF BlocksInv, Blocks!BlocksAccounted, Blocks!TypeOK, Blocks!BlocksConserved,
         Blocks!NoRetiredHit

LEMMA BlocksVllm ==
  ASSUME BlocksInv, NEW b \in Blocks!Blocks,
         Blocks!Allocate(b) \/ Blocks!CacheBlock(b) \/ Blocks!Free(b)
  PROVE  BlocksInv'
BY BlockPoolConstants
   DEF Blocks!Allocate, Blocks!CacheBlock, Blocks!Free, BlocksInv,
       Blocks!BlocksAccounted, Blocks!TypeOK, Blocks!BlocksConserved,
       Blocks!NoRetiredHit, Blocks!Blocks, Blocks!Below

LEMMA BlocksStep == BlocksInv /\ [Blocks!Next]_blockVars => BlocksInv'
<1> SUFFICES ASSUME BlocksInv, [Blocks!Next]_blockVars PROVE BlocksInv'
  OBVIOUS
<1>1. CASE UNCHANGED blockVars
  BY <1>1 DEF blockVars, BlocksInv, Blocks!BlocksAccounted, Blocks!TypeOK,
              Blocks!BlocksConserved, Blocks!NoRetiredHit
<1>2. CASE Blocks!Next
  BY <1>2, BlocksBind, BlocksBindFails, BlocksGrow, BlocksGrowFails, BlocksShrink,
     BlocksShrinkFails, BlocksVllm
     DEF Blocks!Next
<1> QED
  BY <1>1, <1>2

\* No resize, failed or not, loses a block or leaves a prefix above the capacity; what
\* vLLM has above it, and what a growth can put into the queue twice, are the blocks of a
\* growth whose append failed (VllmElasticBlockPool.bind and apply).
THEOREM BlocksAccountedHolds == Spec => []BlocksAccounted
<1>1. Init => BlocksInv
  BY BlocksInit DEF Init
<1>2. BlocksInv /\ [Next]_allVars => BlocksInv'
  BY BlocksStep DEF Next, allVars
<1>3. BlocksInv => BlocksAccounted
  BY DEF BlocksInv, BlocksAccounted
<1> QED
  BY <1>1, <1>2, <1>3, PTL DEF Spec

-----------------------------------------------------------------------------
(* The mapping.                                                            *)

LEMMA VmmConstants ==
  Units \in Nat /\ Initial \in 1 .. Units /\ MaxFaults \in Nat /\ MaxOps \in Nat
BY PartsAssumption DEF PartsAssumption, Vmm!VmmAssumption

\* The table ends at segment n: at the size with no resize pending, there or at the
\* target when a growth failed, and above the target while a shrink is not done.
TableEnds(n) ==
  /\ table = 1 .. n
  /\ pending # size
  /\ pending = 0 => n = size /\ served = size
  /\ pending > size => n \in {size, pending} /\ served = size
  /\ 0 < pending /\ pending < size => n \in pending + 1 .. size /\ served = pending

VmmOpen == 1 .. served \subseteq phys /\ \E n \in 1 .. Units : TableEnds(n)

\* Before any driver call has failed, all that the table has is mapped, and a shrink
\* finds its segments.
VmmClean ==
  state = "open" /\ faults = 0 => phys = table /\ (pending < size => table = 1 .. size)

VmmInv ==
  /\ Vmm!TypeOK /\ Vmm!NothingUnrecorded /\ Vmm!CloseReleasesAll /\ VmmClean
  /\ state = "open" => VmmOpen

LEMMA VmmInit == Vmm!Init => VmmInv
BY VmmConstants
   DEF Vmm!Init, VmmInv, VmmClean, VmmOpen, TableEnds, Vmm!TypeOK, Vmm!NothingUnrecorded,
       Vmm!CloseReleasesAll

LEMMA VmmCardinality == ASSUME NEW S PROVE Vmm!Cardinality(S) = Cardinality(S)
BY DEF Vmm!Cardinality, Cardinality

\* What the run checks of the table follows.
LEMMA VmmImplies == VmmInv => Vmm!MappingAccounted
<1> SUFFICES ASSUME VmmInv PROVE Vmm!MappingAccounted
  OBVIOUS
<1>1. ASSUME state = "open" PROVE Vmm!ServedIsMapped /\ Vmm!TableIsPrefix
  <2>1. PICK n \in 1 .. Units : TableEnds(n)
    BY <1>1 DEF VmmInv, VmmOpen
  <2>2. Cardinality(1 .. n) = n
    BY VmmConstants, FS_Interval
  <2>3. 1 .. served \subseteq table
    BY <2>1, VmmConstants DEF TableEnds, VmmInv, Vmm!TypeOK
  <2>4. Vmm!ServedIsMapped
    BY <1>1, <2>3 DEF VmmInv, VmmOpen, Vmm!ServedIsMapped
  <2>5. table = 1 .. n /\ (pending = 0 => n = size)
    BY <2>1 DEF TableEnds
  <2>6. Cardinality(table) = n
    BY <2>2, <2>5
  <2>7. table = 1 .. Cardinality(table) /\ (pending = 0 => Cardinality(table) = size)
    BY <2>5, <2>6
  <2>8. Vmm!TableIsPrefix
    BY <2>7, VmmCardinality DEF Vmm!TableIsPrefix
  <2> QED
    BY <2>4, <2>8
<1>2. state # "open" => Vmm!ServedIsMapped /\ Vmm!TableIsPrefix
  BY DEF Vmm!ServedIsMapped, Vmm!TableIsPrefix
<1>3. Vmm!RepeatPossible
  <2> SUFFICES ASSUME state = "open", pending # 0
               PROVE  /\ pending > size /\ faults <= 1 /\ table = 1 .. size =>
                           \A s \in Vmm!New : ~Vmm!Blocked(s)
                      /\ pending < size /\ faults = 0 => Vmm!Old \subseteq table \cap phys
    BY DEF Vmm!RepeatPossible
  <2>1. ASSUME pending > size, faults <= 1, table = 1 .. size, NEW s \in Vmm!New
        PROVE  ~Vmm!Blocked(s)
    <3>1. s \notin table
      BY <2>1, VmmConstants DEF VmmInv, Vmm!TypeOK, Vmm!New
    <3>2. phys \subseteq table
      BY <2>1 DEF VmmInv, Vmm!NothingUnrecorded
    <3> QED
      BY <3>1, <3>2 DEF Vmm!Blocked
  <2>2. ASSUME pending < size, faults = 0 PROVE Vmm!Old \subseteq table \cap phys
    BY <2>2, VmmConstants DEF VmmInv, VmmClean, Vmm!TypeOK, Vmm!Old
  <2> QED
    BY <2>1, <2>2
<1> QED
  BY <1>1, <1>2, <1>3 DEF VmmInv, Vmm!MappingAccounted

LEMMA VmmStartResize ==
  ASSUME VmmInv, NEW target \in 1 .. Units, Vmm!StartResize(target)
  PROVE  VmmInv'
<1>1. PICK n \in 1 .. Units : TableEnds(n)
  BY DEF VmmInv, VmmOpen, Vmm!StartResize
<1>2. TableEnds(n)'
  BY <1>1, VmmConstants DEF TableEnds, VmmInv, Vmm!TypeOK, Vmm!StartResize
<1>3. VmmClean'
  BY <1>1 DEF Vmm!StartResize, VmmInv, VmmClean, TableEnds
<1> QED
  BY <1>2, <1>3, VmmConstants
     DEF Vmm!StartResize, VmmInv, VmmOpen, Vmm!TypeOK, Vmm!NothingUnrecorded,
         Vmm!CloseReleasesAll

\* A growth finds none of its segments in the table when it maps them all.
LEMMA VmmGrows ==
  ASSUME VmmInv, Vmm!MapSegments \/ Vmm!ZeroCheckFails
  PROVE  VmmInv'
<1>1. state = "open" /\ pending > size /\ \A s \in Vmm!New : ~Vmm!Blocked(s)
  BY DEF Vmm!MapSegments, Vmm!ZeroCheckFails, Vmm!Attempt
<1>2. table = 1 .. size /\ served = size
  BY <1>1, VmmConstants
     DEF VmmInv, VmmOpen, TableEnds, Vmm!New, Vmm!Blocked, Vmm!TypeOK
<1>3. PICK n \in 1 .. Units : n = pending
  BY <1>1, VmmConstants DEF VmmInv, Vmm!TypeOK
<1>4. 1 .. size \cup Vmm!New = 1 .. n
  BY <1>1, <1>3, VmmConstants DEF VmmInv, Vmm!New, Vmm!TypeOK
<1>5. /\ table' = table \cup Vmm!New /\ phys' = phys \cup Vmm!New
      /\ handles' = handles \cup Vmm!New /\ UNCHANGED <<state, faults>>
      /\ ops' \in 0 .. MaxOps
      /\ \/ size' = n /\ served' = n /\ pending' = 0
         \/ UNCHANGED <<size, served, pending>>
  BY <1>3, VmmConstants
     DEF VmmInv, Vmm!TypeOK, Vmm!MapSegments, Vmm!ZeroCheckFails, Vmm!Attempt
<1>9. Vmm!New \subseteq 1 .. Units
  BY <1>3, VmmConstants DEF VmmInv, Vmm!New, Vmm!TypeOK
<1>7. Vmm!TypeOK'
  BY <1>3, <1>5, <1>9, VmmConstants DEF VmmInv, Vmm!TypeOK
<1>8. VmmOpen'
  <2>1. TableEnds(n)'
    BY <1>1, <1>2, <1>3, <1>4, <1>5, VmmConstants DEF TableEnds, VmmInv, Vmm!TypeOK
  <2>2. (1 .. served \subseteq phys)'
    BY <1>1, <1>2, <1>4, <1>5 DEF VmmInv, VmmOpen
  <2> QED
    BY <2>1, <2>2 DEF VmmOpen
<1>6. Vmm!NothingUnrecorded' /\ Vmm!CloseReleasesAll'
  BY <1>1 DEF VmmInv, Vmm!NothingUnrecorded, Vmm!CloseReleasesAll, Vmm!MapSegments,
              Vmm!ZeroCheckFails
<1>10. VmmClean'
  BY <1>1, <1>2, <1>3, <1>4, <1>5, VmmConstants DEF VmmInv, VmmClean, Vmm!TypeOK
<1> QED
  BY <1>6, <1>7, <1>8, <1>10 DEF VmmInv

LEMMA VmmMapFails ==
  ASSUME VmmInv, NEW k \in 1 .. Units, Vmm!MapSegmentsFails(k)
  PROVE  VmmInv'
<1> DEFINE done == size + 1 .. k - 1
<1>1. /\ state = "open" /\ pending > size /\ k \in size + 1 .. pending
      /\ \A s \in done : ~Vmm!Blocked(s)
  BY VmmConstants DEF Vmm!MapSegmentsFails, Vmm!Attempt, Vmm!New, VmmInv, Vmm!TypeOK
<1>2. /\ UNCHANGED <<table, size, served, pending, state>>
      /\ phys \subseteq phys' /\ phys' \subseteq phys \cup done \cup {k}
      /\ handles' \subseteq handles \cup done
      /\ faults <= faults' /\ faults' \in 0 .. MaxFaults /\ ops' \in 0 .. MaxOps
  BY VmmConstants
     DEF Vmm!MapSegmentsFails, Vmm!Attempt, Vmm!Fail, VmmInv, Vmm!TypeOK
<1>3. Vmm!TypeOK'
  BY <1>1, <1>2, VmmConstants DEF VmmInv, Vmm!TypeOK
<1>4. VmmOpen'
  BY <1>1, <1>2 DEF VmmInv, VmmOpen, TableEnds
\* Where a rollback goes wrong with one failure only, segment k was refused because
\* it is in the table; then so is the first of the growth, and nothing was mapped.
<1>5. ASSUME faults' <= 1 PROVE UNCHANGED <<phys, handles>>
  <2>1. phys \subseteq table
    BY <1>1, <1>2, <1>5, VmmConstants DEF VmmInv, Vmm!NothingUnrecorded, Vmm!TypeOK
  <2>2. Vmm!Blocked(k) => done = {}
    BY <1>1, <2>1, VmmConstants
       DEF VmmInv, VmmOpen, TableEnds, Vmm!Blocked, Vmm!TypeOK
  <2> QED
    BY <1>1, <1>5, <2>2, VmmConstants
       DEF Vmm!MapSegmentsFails, Vmm!Fail, VmmInv, Vmm!TypeOK
<1>6. Vmm!NothingUnrecorded' /\ Vmm!CloseReleasesAll'
  BY <1>1, <1>2, <1>5, VmmConstants
     DEF VmmInv, Vmm!NothingUnrecorded, Vmm!CloseReleasesAll, Vmm!TypeOK
<1>7. VmmClean'
  BY <1>1, <1>2, <1>5, VmmConstants DEF VmmInv, VmmClean, Vmm!TypeOK
<1> QED
  BY <1>1, <1>3, <1>4, <1>6, <1>7 DEF VmmInv

LEMMA VmmUnmap == ASSUME VmmInv, Vmm!UnmapSegments PROVE VmmInv'
<1>1. state = "open" /\ 0 < pending /\ pending < size /\ Vmm!Old \subseteq table
  BY VmmConstants DEF Vmm!UnmapSegments, Vmm!Attempt, VmmInv, Vmm!TypeOK
<1>2. table = 1 .. size /\ served = pending
  BY <1>1, VmmConstants DEF VmmInv, VmmOpen, TableEnds, Vmm!Old, Vmm!TypeOK
<1>3. PICK n \in 1 .. Units : n = pending
  BY <1>1, VmmConstants DEF VmmInv, Vmm!TypeOK
<1>4. VmmOpen'
  <2>1. table' = 1 .. n /\ 1 .. n \subseteq phys'
    BY <1>1, <1>2, <1>3, VmmConstants
       DEF VmmInv, VmmOpen, Vmm!Old, Vmm!TypeOK, Vmm!UnmapSegments
  <2>2. TableEnds(n)'
    BY <1>1, <1>2, <1>3, <2>1, VmmConstants
       DEF TableEnds, VmmInv, Vmm!TypeOK, Vmm!UnmapSegments
  <2> QED
    BY <1>2, <1>3, <2>1, <2>2 DEF VmmOpen, Vmm!UnmapSegments
<1>5. VmmClean'
  BY <1>1, <1>2, <1>3, VmmConstants
     DEF VmmInv, VmmClean, Vmm!Old, Vmm!TypeOK, Vmm!UnmapSegments
<1> QED
  BY <1>1, <1>4, <1>5, VmmConstants
     DEF VmmInv, Vmm!TypeOK, Vmm!UnmapSegments, Vmm!Attempt, Vmm!NothingUnrecorded,
         Vmm!CloseReleasesAll

\* The segments go from the top down, so what is left of them is a prefix.
LEMMA VmmUnmapFails ==
  ASSUME VmmInv, NEW k \in 1 .. Units, Vmm!UnmapSegmentsFails(k)
  PROVE  VmmInv'
<1> DEFINE gone == {s \in Vmm!Old : s > k}
<1>1. /\ state = "open" /\ 0 < pending /\ k \in pending + 1 .. size
      /\ Vmm!Old \subseteq table
  BY VmmConstants DEF Vmm!UnmapSegmentsFails, Vmm!Attempt, Vmm!Old, VmmInv, Vmm!TypeOK
<1>2. /\ UNCHANGED <<size, served, pending, state>>
      /\ phys' \in {phys \ gone, phys \ (gone \cup {k})}
      /\ handles' = handles \ gone /\ table' = table \ gone
      /\ faults <= faults' /\ faults' \in 0 .. MaxFaults /\ ops' \in 0 .. MaxOps
  BY VmmConstants
     DEF Vmm!UnmapSegmentsFails, Vmm!Attempt, Vmm!Fail, VmmInv, Vmm!TypeOK
<1>3. table = 1 .. size /\ served = pending
  BY <1>1, VmmConstants DEF VmmInv, VmmOpen, TableEnds, Vmm!Old, Vmm!TypeOK
<1>4. table' = 1 .. k /\ 1 .. served \subseteq phys'
  BY <1>1, <1>2, <1>3, VmmConstants DEF VmmInv, VmmOpen, Vmm!Old, Vmm!TypeOK
<1>5. VmmOpen'
  <2>1. TableEnds(k)'
    BY <1>1, <1>2, <1>3, <1>4, VmmConstants DEF TableEnds, VmmInv, Vmm!TypeOK
  <2> QED
    BY <1>1, <1>2, <1>4, <2>1 DEF VmmOpen
<1>6. Vmm!NothingUnrecorded' /\ Vmm!CloseReleasesAll'
  <2>1. ASSUME faults' <= 1 PROVE phys' \subseteq table' /\ handles' = table'
    <3>1. phys \subseteq table /\ handles = table
      BY <1>1, <1>2, <2>1, VmmConstants DEF VmmInv, Vmm!NothingUnrecorded, Vmm!TypeOK
    <3> QED
      BY <1>2, <3>1
  <2> QED
    BY <1>1, <1>2, <2>1 DEF Vmm!NothingUnrecorded, Vmm!CloseReleasesAll
<1>7. VmmClean'
  <2>1. faults' # 0
    BY <1>1, VmmConstants DEF VmmInv, VmmClean, Vmm!TypeOK, Vmm!UnmapSegmentsFails, Vmm!Fail, Vmm!Old
  <2> QED
    BY <2>1 DEF VmmClean
<1> QED
  BY <1>1, <1>2, <1>5, <1>6, <1>7, VmmConstants DEF VmmInv, Vmm!TypeOK

LEMMA VmmClose == ASSUME VmmInv, Vmm!Close PROVE VmmInv'
<1>1. state' \in {"closed", "closed_dirty"}
  BY DEF Vmm!Close
<1>3. /\ phys' \subseteq phys /\ handles' \subseteq handles /\ table' = {}
      /\ faults' \in 0 .. MaxFaults
  BY VmmConstants DEF VmmInv, Vmm!Close, Vmm!Fail, Vmm!TypeOK
<1>4. Vmm!TypeOK'
  BY <1>1, <1>3 DEF VmmInv, Vmm!Close, Vmm!TypeOK
<1>2. ASSUME state' = "closed", faults' <= 1 PROVE phys' = {} /\ handles' = {}
  BY <1>2 DEF VmmInv, Vmm!NothingUnrecorded, Vmm!Close
<1> QED
  BY <1>1, <1>2, <1>4 DEF VmmInv, VmmClean, Vmm!NothingUnrecorded, Vmm!CloseReleasesAll

LEMMA VmmStep == VmmInv /\ [Vmm!Next]_vmmVars => VmmInv'
<1> SUFFICES ASSUME VmmInv, [Vmm!Next]_vmmVars PROVE VmmInv'
  OBVIOUS
<1>1. CASE UNCHANGED vmmVars
  BY <1>1 DEF vmmVars, VmmInv, VmmClean, VmmOpen, TableEnds, Vmm!TypeOK, Vmm!NothingUnrecorded,
              Vmm!CloseReleasesAll
<1>2. CASE Vmm!UnmapRefused
  BY <1>2, VmmConstants
     DEF Vmm!UnmapRefused, Vmm!Attempt, VmmInv, VmmClean, VmmOpen, TableEnds,
         Vmm!TypeOK, Vmm!NothingUnrecorded, Vmm!CloseReleasesAll
<1>3. CASE Vmm!Next /\ ~Vmm!UnmapRefused
  BY <1>3, VmmStartResize, VmmGrows, VmmMapFails, VmmUnmap, VmmUnmapFails, VmmClose
     DEF Vmm!Next
<1> QED
  BY <1>1, <1>2, <1>3

\* Whatever driver call fails, what is served is mapped and recorded, the table is a
\* prefix of the range, a repeated operation is refused only where a failure left its
\* mark, and a close after at most one failure releases everything (map_segments,
\* unmap_segments, close).
THEOREM MappingAccountedHolds == Spec => []MappingAccounted
<1>1. Init => VmmInv
  BY VmmInit DEF Init
<1>2. VmmInv /\ [Next]_allVars => VmmInv'
  BY VmmStep DEF Next, allVars
<1>3. VmmInv => MappingAccounted
  BY VmmImplies DEF MappingAccounted
<1> QED
  BY <1>1, <1>2, <1>3, PTL DEF Spec

-----------------------------------------------------------------------------
(* The control call.                                                       *)

\* While the call has its handles they are open and none was closed; afterwards each
\* of them was closed once, unless the socket failed inside the frame.
CallInv ==
  /\ Call!TypeOK
  /\ call_pc = "connect" => got = {}
  /\ broken => call_pc = "ended"
  /\ IF call_pc = "ended" /\ ~broken
     THEN open = {} /\ \A f \in Fds : closes[f] = IF f \in got THEN 1 ELSE 0
     ELSE open = got /\ \A f \in Fds : closes[f] = 0
  /\ call_pc = "use" => exact

LEMMA CallConstants == MaxHandles \in Nat /\ MaxPieces \in Nat \ {0}
BY PartsAssumption DEF PartsAssumption, Call!CallAssumption

LEMMA CallInit == Call!Init => CallInv
<1> SUFFICES ASSUME Call!Init PROVE CallInv
  OBVIOUS
<1>1. Call!TypeOK
  <2>1. pieces \in 0 .. MaxPieces /\ closes \in [Fds -> Nat] /\ open \subseteq Fds
    BY CallConstants DEF Call!Init
  <2> QED
    BY <2>1 DEF Call!Init, Call!TypeOK
<1>2. open = got /\ \A f \in Fds : closes[f] = 0
  BY DEF Call!Init
<1>3. call_pc = "connect" /\ got = {} /\ broken = FALSE
  BY DEF Call!Init
<1> QED
  BY <1>1, <1>2, <1>3 DEF CallInv

\* Closing what was read closes everything, each handle for the first time.
LEMMA CallCloses ==
  ASSUME Call!TypeOK, open = got, \A f \in Fds : closes[f] = 0, Call!Close(got)
  PROVE  /\ open' = {} /\ closes' \in [Fds -> Nat]
         /\ \A f \in Fds : closes'[f] = IF f \in got THEN 1 ELSE 0
BY DEF Call!Close, Call!TypeOK

LEMMA CallReadPiece ==
  ASSUME CallInv, NEW new \in SUBSET Fds, Call!ReadPiece(new)
  PROVE  CallInv'
BY CallConstants
   DEF Call!ReadPiece, Call!End, CallInv, Call!TypeOK

LEMMA CallOther ==
  ASSUME CallInv,
         \/ Call!Connect \/ Call!ReadRefused \/ Call!ReadFails \/ Call!LeaveSocket
         \/ Call!Decode \/ Call!Check \/ Call!Use
  PROVE  CallInv'
<1>1. CASE Call!Connect
  BY <1>1 DEF Call!Connect, Call!End, CallInv, Call!TypeOK
<1>6. CASE Call!ReadFails
  BY <1>6 DEF Call!ReadFails, Call!End, CallInv, Call!TypeOK
<1>2. CASE Call!ReadRefused \/ Call!LeaveSocket
  BY <1>2, CallCloses DEF Call!ReadRefused, Call!LeaveSocket, Call!End, CallInv, Call!TypeOK
<1>3. CASE Call!Decode
  BY <1>3, CallCloses DEF Call!Decode, Call!End, CallInv, Call!TypeOK
<1>4. CASE Call!Check
  BY <1>4, CallCloses DEF Call!Check, Call!End, CallInv, Call!TypeOK
<1>5. CASE Call!Use
  BY <1>5, CallCloses DEF Call!Use, Call!End, CallInv, Call!TypeOK
<1> QED
  BY <1>1, <1>2, <1>3, <1>4, <1>5, <1>6

LEMMA CallStep == CallInv /\ [Call!Next]_callVars => CallInv'
<1> SUFFICES ASSUME CallInv, [Call!Next]_callVars PROVE CallInv'
  OBVIOUS
<1>1. CASE UNCHANGED callVars
  BY <1>1 DEF callVars, CallInv, Call!TypeOK
<1>2. CASE Call!Next
  BY <1>2, CallReadPiece, CallOther DEF Call!Next
<1> QED
  BY <1>1, <1>2

\* Whatever fails in a control call, no handle is closed twice; those left open are all
\* that a frame brought in which the socket failed; the connector imports the open ones
\* (_read_frame_with_handles, _rpc, register_with_handles).
THEOREM HandlesAccountedHolds == Spec => []HandlesAccounted
<1>1. Init => CallInv
  BY CallInit DEF Init
<1>2. CallInv /\ [Next]_allVars => CallInv'
  BY CallStep DEF Next, allVars
<1>3. CallInv => HandlesAccounted
  BY DEF CallInv, HandlesAccounted, Call!HandlesAccounted, Call!TypeOK, Call!ClosedOnce,
         Call!OpenOnlyIfBroken, Call!ImportsExact
<1> QED
  BY <1>1, <1>2, <1>3, PTL DEF Spec

-----------------------------------------------------------------------------
(* The allocator hook.                                                     *)

AllocNames == {"utils", "runner", "attn"}

LEMMA HookNames ==
  /\ Hook!Range(Hook!AllocSites) = AllocNames
  /\ Hook!Sites = AllocNames \cup {"warmup", "gpu_worker"}
  /\ Hook!AllocSites = <<"utils", "runner", "attn">> /\ Len(Hook!AllocSites) = 3
  /\ Hook!WarmSites = {"warmup", "gpu_worker"}
BY DEF AllocNames, Hook!Range, Hook!AllocSites, Hook!Sites, Hook!WarmSites

LEMMA HookConstants == Maximum \in Nat /\ Maximum > 1
BY PartsAssumption DEF PartsAssumption, Hook!HookAssumption

Building == {"import", "install", "cap"}

\* Every replaced name is remembered once, with vLLM's own function.
PatchesKnown ==
  /\ patches \in Seq(Hook!Sites \X {"vllm"})
  /\ \A i, j \in DOMAIN patches : patches[i][1] = patches[j][1] => i = j
  /\ \A s \in Hook!Sites :
       bound[s] = "hook" => \E i \in DOMAIN patches : patches[i][1] = s

\* Installation visits the modules in order and leaves vLLM's function in none that
\* it has visited; the warm-up names come last.
InstallOrder ==
  /\ \A s \in Hook!Sites : build[s] = "absent" => bound[s] = "none"
  /\ hook_pc \in Building =>
       /\ \A s \in Hook!Sites : bound[s] # "other"
       /\ \A i \in DOMAIN patches :
            \E k \in 1 .. 3 : k < next /\ patches[i][1] = Hook!AllocSites[k]
  /\ hook_pc \in {"install", "cap", "ready"} =>
       \A k \in 1 .. 3 : k < next => bound[Hook!AllocSites[k]] # "vllm"
  /\ hook_pc \in {"cap", "ready"} => next = 4
  /\ hook_pc = "ready" /\ mapped < Maximum => bound["gpu_worker"] # "vllm"
  /\ hook_pc = "import" => next = 1
  /\ hook_pc = "down" => patches = <<>>

\* vLLM's tensors come from the hook, and scheduling follows attachment and warm-up.
ServeOrder ==
  /\ (\E l \in Layers : caches[l] # "none") => used = TRUE
  /\ attached = TRUE => \A l \in Layers : caches[l] = "alias"
  /\ serving = TRUE => attached = TRUE /\ warming = FALSE /\ num_blocks = Maximum
  /\ hook_pc = "ready" /\ warming = FALSE => num_blocks = Maximum
  /\ warming = TRUE => num_blocks <= mapped
  /\ hook_pc \in Building => warming = FALSE /\ num_blocks = Maximum

HookInv == Hook!TypeOK /\ PatchesKnown /\ InstallOrder /\ ServeOrder

LEMMA HookInit == Hook!Init => HookInv
<1> SUFFICES ASSUME Hook!Init PROVE HookInv
  OBVIOUS
<1>1. Hook!TypeOK
  <2>1. next \in 1 .. Len(Hook!AllocSites) + 1 /\ DOMAIN patches = {}
    BY HookNames DEF Hook!Init
  <2>2. bound \in [Hook!Sites -> {"none", "vllm", "hook", "other"}]
    BY DEF Hook!Init
  <2>3. caches \in [Layers -> {"none", "alias", "copy"}]
    BY DEF Hook!Init
  <2>4. used \in BOOLEAN /\ {attached, warm, warming, serving} \subseteq BOOLEAN
    BY DEF Hook!Init
  <2> QED
    BY <2>1, <2>2, <2>3, <2>4 DEF Hook!Init, Hook!TypeOK
<1>2. PatchesKnown
  BY DEF Hook!Init, PatchesKnown
<1>3. InstallOrder
  BY HookNames DEF Hook!Init, InstallOrder, Building
<1>4. ServeOrder
  BY DEF Hook!Init, ServeOrder
<1> QED
  BY <1>1, <1>2, <1>3, <1>4 DEF HookInv

LEMMA HookImplies == HookInv => Hook!HookIsHarmless
<1> SUFFICES ASSUME HookInv PROVE Hook!HookIsHarmless
  OBVIOUS
<1>1. Hook!PatchesUndone
  BY DEF HookInv, PatchesKnown, InstallOrder, Hook!PatchesUndone
<1>2. Hook!NoPrivatePool
  BY DEF HookInv, ServeOrder, Hook!NoPrivatePool
<1>3. Hook!WarmupInsideMapped /\ Hook!ServesWholePool
  BY DEF HookInv, Hook!TypeOK, ServeOrder, Hook!WarmupInsideMapped, Hook!ServesWholePool
<1> QED
  BY <1>1, <1>2, <1>3 DEF HookInv, Hook!HookIsHarmless

\* Taking the patches back restores vLLM's function under every name that is still
\* the replacement.
LEMMA HookTearDown ==
  ASSUME HookInv, Hook!TearDown
  PROVE  /\ patches' = <<>>
         /\ bound' \in [Hook!Sites -> {"none", "vllm", "other"}]
         /\ \A s \in Hook!Sites : bound[s] # "hook" => bound'[s] = bound[s]
         /\ buffer' \in {"none", "held", "released"}
<1> DEFINE first(s) ==
      CHOOSE i \in DOMAIN patches :
        patches[i][1] = s /\ \A j \in DOMAIN patches : patches[j][1] = s => i <= j
<1>1. ASSUME NEW s \in Hook!Sites, bound[s] = "hook"
      PROVE  /\ \E i \in DOMAIN patches : patches[i][1] = s
             /\ patches[first(s)][2] = "vllm"
  <2>1. PICK i \in DOMAIN patches : patches[i][1] = s
    BY <1>1 DEF HookInv, PatchesKnown
  <2>2. i \in Nat /\ \A j \in DOMAIN patches : patches[j][1] = s => i <= j
    BY <2>1 DEF HookInv, PatchesKnown
  <2>3. first(s) \in DOMAIN patches
    BY <2>1, <2>2
  <2> QED
    BY <2>1, <2>3 DEF HookInv, PatchesKnown
<1>2. bound' = [s \in Hook!Sites |->
                  IF bound[s] = "hook" /\ \E i \in DOMAIN patches : patches[i][1] = s
                  THEN patches[first(s)][2] ELSE bound[s]]
  BY DEF Hook!TearDown, Hook!Undone
<1>3. \A s \in Hook!Sites : bound'[s] = IF bound[s] = "hook" THEN "vllm" ELSE bound[s]
  BY <1>1, <1>2
<1> HIDE DEF first
<1>4. bound \in [Hook!Sites -> {"none", "vllm", "hook", "other"}]
  BY DEF HookInv, Hook!TypeOK
<1>5. buffer' \in {"none", "held", "released"}
  BY DEF HookInv, Hook!TypeOK, Hook!TearDown
<1> QED
  BY <1>2, <1>3, <1>4, <1>5 DEF Hook!TearDown

\* A constructor that fails, or a shutdown, leaves no patch and no flag changed.
LEMMA HookGoesDown ==
  ASSUME HookInv, Hook!TearDown, hook_pc' = "down",
         UNCHANGED <<mapped, build, next, used, caches, attached, warm, warming, num_blocks>>,
         serving' \in {serving, FALSE}
  PROVE  HookInv'
<1>1. Hook!TypeOK'
  <2>1. bound' \in [Hook!Sites -> {"none", "vllm", "hook", "other"}]
    BY HookTearDown
  <2>2. serving' \in BOOLEAN
    BY DEF HookInv, Hook!TypeOK
  <2> QED
    BY <2>1, <2>2, HookTearDown DEF HookInv, Hook!TypeOK
<1>2. PatchesKnown'
  BY HookTearDown DEF PatchesKnown
<1>3. InstallOrder'
  BY HookTearDown DEF HookInv, InstallOrder, Building
<1>4. ServeOrder'
  BY DEF HookInv, ServeOrder, Building
<1> QED
  BY <1>1, <1>2, <1>3, <1>4 DEF HookInv

LEMMA HookImport == ASSUME HookInv, Hook!ImportBuffer PROVE HookInv'
<1>1. Hook!TypeOK'
  BY DEF Hook!ImportBuffer, Hook!vllm, HookInv, Hook!TypeOK
<1>2. PatchesKnown'
  BY DEF Hook!ImportBuffer, HookInv, PatchesKnown
<1>3. InstallOrder'
  <2>1. DOMAIN patches = {} /\ patches = <<>>
    BY DEF Hook!ImportBuffer, HookInv, PatchesKnown, InstallOrder, Building
  <2> QED
    BY <2>1 DEF Hook!ImportBuffer, HookInv, InstallOrder, Building
<1>4. ServeOrder'
  BY DEF Hook!ImportBuffer, Hook!vllm, HookInv, ServeOrder, Building
<1> QED
  BY <1>1, <1>2, <1>3, <1>4 DEF HookInv

\* The module visited next is remembered with vLLM's own function, also when it was
\* imported after worker.utils had been replaced.
LEMMA HookPatches ==
  ASSUME HookInv, hook_pc = "install", next \in 1 .. 3,
         NEW s, s = Hook!AllocSites[next], build[s] = "ok",
         patches' = Append(patches, <<s, Hook!Original(s)>>),
         bound' = [bound EXCEPT ![s] = "hook"], next' = next + 1,
         UNCHANGED <<hook_pc, buffer, mapped, build, used, Hook!vllm>>
  PROVE  HookInv'
<1>1. s \in AllocNames /\ s \in Hook!Sites /\ "utils" \in Hook!Sites
  BY HookNames DEF AllocNames
<1>2. Hook!Original(s) = "vllm"
  BY <1>1 DEF Hook!Original, Hook!Imported, HookInv, Hook!TypeOK, InstallOrder, Building
<1>3. /\ patches' \in Seq(Hook!Sites \X {"vllm"}) /\ Len(patches') = Len(patches) + 1
      /\ \A i \in DOMAIN patches : patches'[i] = patches[i]
      /\ patches'[Len(patches) + 1] = <<s, "vllm">>
      /\ DOMAIN patches = 1 .. Len(patches) /\ DOMAIN patches' = 1 .. Len(patches) + 1
      /\ Len(patches) \in Nat
  BY <1>1, <1>2 DEF HookInv, PatchesKnown
<1>4. \A i \in DOMAIN patches : patches[i][1] # s
  BY HookNames DEF HookInv, InstallOrder, Building
<1>5. Hook!TypeOK'
  <2>1. bound' \in [Hook!Sites -> {"none", "vllm", "hook", "other"}]
    BY <1>1 DEF HookInv, Hook!TypeOK
  <2>3. next' \in 1 .. Len(Hook!AllocSites) + 1
    BY HookNames
  <2>2. \A i \in DOMAIN patches' : patches'[i] \in Hook!Sites \X {"vllm", "hook"}
    BY <1>3
  <2> QED
    BY <2>1, <2>2, <2>3 DEF HookInv, Hook!TypeOK, Hook!vllm
<1>6. PatchesKnown'
  <2>1. \A i, j \in DOMAIN patches' : patches'[i][1] = patches'[j][1] => i = j
    BY <1>3, <1>4 DEF HookInv, PatchesKnown
  <2>2. ASSUME NEW x \in Hook!Sites, bound'[x] = "hook"
        PROVE  \E i \in DOMAIN patches' : patches'[i][1] = x
    <3>1. CASE x = s
      BY <3>1, <1>3
    <3>2. CASE x # s
      BY <3>2, <2>2, <1>3 DEF HookInv, Hook!TypeOK, PatchesKnown
    <3> QED
      BY <3>1, <3>2
  <2> QED
    BY <1>3, <2>1, <2>2 DEF PatchesKnown
<1>7. InstallOrder'
  <2>1. \A x \in Hook!Sites : build'[x] = "absent" => bound'[x] = "none"
    BY <1>1 DEF HookInv, Hook!TypeOK, InstallOrder
  <2>2. \A x \in Hook!Sites : bound'[x] # "other"
    BY <1>1 DEF HookInv, Hook!TypeOK, InstallOrder, Building
  <2>3. \A i \in DOMAIN patches' :
          \E k \in 1 .. 3 : k < next' /\ patches'[i][1] = Hook!AllocSites[k]
    BY <1>3 DEF HookInv, InstallOrder, Building
  <2>4. \A k \in 1 .. 3 : k < next' => bound'[Hook!AllocSites[k]] # "vllm"
    BY <1>1, HookNames DEF HookInv, Hook!TypeOK, InstallOrder, AllocNames
  <2> QED
    BY <2>1, <2>2, <2>3, <2>4 DEF InstallOrder
<1>8. ServeOrder'
  BY DEF HookInv, ServeOrder, Building, Hook!vllm
<1> QED
  BY <1>5, <1>6, <1>7, <1>8 DEF HookInv

LEMMA HookPatchNext == ASSUME HookInv, Hook!PatchNext PROVE HookInv'
<1> DEFINE s == Hook!AllocSites[next]
<1>1. hook_pc = "install" /\ next \in 1 .. 3 /\ s \in Hook!Sites
  BY HookNames DEF Hook!PatchNext, HookInv, Hook!TypeOK, AllocNames
<1>2. CASE build[s] = "absent"
  <2>1. /\ next' = next + 1
        /\ UNCHANGED <<bound, patches, hook_pc, buffer, mapped, build, used, Hook!vllm>>
    BY <1>2 DEF Hook!PatchNext
  <2>2. bound[s] = "none"
    BY <1>1, <1>2 DEF HookInv, InstallOrder
  <2>3. Hook!TypeOK' /\ PatchesKnown' /\ ServeOrder'
    BY <1>1, <2>1, HookNames
       DEF HookInv, Hook!TypeOK, PatchesKnown, ServeOrder, Hook!vllm
  <2>4. InstallOrder'
    BY <1>1, <2>1, <2>2 DEF HookInv, InstallOrder, Building
  <2> QED
    BY <2>3, <2>4 DEF HookInv
<1>3. CASE build[s] = "foreign"
  BY <1>1, <1>3, HookGoesDown DEF Hook!PatchNext, Hook!vllm
<1>4. CASE build[s] = "ok"
  BY <1>1, <1>4, HookPatches DEF Hook!PatchNext
<1> QED
  BY <1>2, <1>3, <1>4 DEF Hook!PatchNext

LEMMA HookInstallEnds == ASSUME HookInv, Hook!InstallEnds PROVE HookInv'
<1>1. hook_pc = "install" /\ next = 4
  BY HookNames DEF Hook!InstallEnds, HookInv, Hook!TypeOK
<1>2. CASE build["utils"] = "absent"
  BY <1>2, HookGoesDown DEF Hook!InstallEnds, Hook!vllm
<1>3. CASE build["utils"] # "absent"
  <2>1. /\ hook_pc' = IF mapped < Maximum THEN "cap" ELSE "ready"
        /\ UNCHANGED <<bound, patches, buffer, mapped, build, next, used, Hook!vllm>>
    BY <1>3 DEF Hook!InstallEnds
  <2>2. Hook!TypeOK' /\ PatchesKnown'
    BY <2>1 DEF HookInv, Hook!TypeOK, PatchesKnown, Hook!vllm
  <2>3. InstallOrder'
    BY <1>1, <2>1 DEF HookInv, InstallOrder, Building
  <2>4. num_blocks = Maximum
    BY <1>1 DEF HookInv, ServeOrder, Building
  <2>5. ServeOrder'
    BY <1>1, <2>1, <2>4 DEF HookInv, ServeOrder, Building, Hook!vllm
  <2> QED
    BY <2>2, <2>3, <2>5 DEF HookInv
<1> QED
  BY <1>2, <1>3

LEMMA HookInstallWarmupCap == ASSUME HookInv, Hook!InstallWarmupCap PROVE HookInv'
<1>1. hook_pc = "cap" /\ next = 4
  BY DEF Hook!InstallWarmupCap, HookInv, InstallOrder
<1>2. CASE ~\A s \in Hook!WarmSites : build[s] = "ok"
  BY <1>2, HookGoesDown DEF Hook!InstallWarmupCap, Hook!vllm
<1>3. CASE \A s \in Hook!WarmSites : build[s] = "ok"
  <2> DEFINE added == <<<<"warmup", "vllm">>, <<"gpu_worker", "vllm">>>>
             n == Len(patches)
  <2>1. /\ patches' = patches \o added /\ hook_pc' = "ready"
        /\ bound' = [s \in Hook!Sites |-> IF s \in Hook!WarmSites THEN "hook" ELSE bound[s]]
        /\ UNCHANGED <<buffer, mapped, build, next, used, Hook!vllm>>
    BY <1>3 DEF Hook!InstallWarmupCap
  <2>2. added \in Seq(Hook!Sites \X {"vllm"}) /\ Len(added) = 2
    BY HookNames
  <2>3. /\ patches' \in Seq(Hook!Sites \X {"vllm"}) /\ Len(patches') = n + 2
        /\ n \in Nat /\ DOMAIN patches = 1 .. n /\ DOMAIN patches' = 1 .. n + 2
        /\ \A i \in 1 .. n : patches'[i] = patches[i]
        /\ patches'[n + 1] = <<"warmup", "vllm">> /\ patches'[n + 2] = <<"gpu_worker", "vllm">>
    BY <2>1, <2>2 DEF HookInv, PatchesKnown
  <2>4. \A i \in 1 .. n : patches[i][1] \in AllocNames
    BY <1>1, <2>3, HookNames DEF HookInv, InstallOrder, Building, AllocNames
  <2> HIDE DEF added, n
  <2>5. Hook!TypeOK'
    <3>1. bound' \in [Hook!Sites -> {"none", "vllm", "hook", "other"}]
      BY <2>1 DEF HookInv, Hook!TypeOK
    <3>2. \A i \in DOMAIN patches' : patches'[i] \in Hook!Sites \X {"vllm", "hook"}
      BY <2>3
    <3> QED
      BY <2>1, <3>1, <3>2 DEF HookInv, Hook!TypeOK, Hook!vllm
  <2>6. PatchesKnown'
    <3>1. \A i, j \in 1 .. n : patches'[i][1] = patches'[j][1] => i = j
      BY <2>3 DEF HookInv, PatchesKnown
    <3>2. \A i \in 1 .. n : patches'[i][1] # "warmup" /\ patches'[i][1] # "gpu_worker"
      BY <2>3, <2>4 DEF AllocNames
    <3>3. \A i, j \in DOMAIN patches' : patches'[i][1] = patches'[j][1] => i = j
      BY <2>3, <3>1, <3>2
    <3>4. ASSUME NEW x \in Hook!Sites, bound'[x] = "hook"
          PROVE  \E i \in DOMAIN patches' : patches'[i][1] = x
      <4>1. CASE x \in Hook!WarmSites
        <5>1. x = "warmup" \/ x = "gpu_worker"
          BY <4>1, HookNames
        <5>2. /\ n + 1 \in DOMAIN patches' /\ n + 2 \in DOMAIN patches'
              /\ patches'[n + 1][1] = "warmup" /\ patches'[n + 2][1] = "gpu_worker"
          BY <2>3
        <5> QED
          BY <5>1, <5>2
      <4>2. CASE x \notin Hook!WarmSites
        BY <2>1, <2>3, <3>4, <4>2 DEF HookInv, PatchesKnown
      <4> QED
        BY <4>1, <4>2
    <3> QED
      BY <2>3, <3>3, <3>4 DEF PatchesKnown
  <2>7. InstallOrder'
    <3>1. \A k \in 1 .. 3 : Hook!AllocSites[k] \notin Hook!WarmSites /\ Hook!AllocSites[k] \in Hook!Sites
      BY HookNames DEF AllocNames
    <3>2. "gpu_worker" \in Hook!WarmSites /\ "gpu_worker" \in Hook!Sites
      BY HookNames
    <3>3. \A s \in Hook!Sites : build'[s] = "absent" => bound'[s] = "none"
      BY <1>3, <2>1 DEF HookInv, InstallOrder
    <3> QED
      BY <1>1, <2>1, <3>1, <3>2, <3>3 DEF HookInv, InstallOrder, Building
  <2>8. ServeOrder'
    BY <1>1, <2>1 DEF HookInv, ServeOrder, Building, Hook!vllm
  <2> QED
    BY <2>5, <2>6, <2>7, <2>8 DEF HookInv
<1> QED
  BY <1>2, <1>3

LEMMA HookWrap == ASSUME HookInv, NEW s \in Hook!Sites, Hook!Wrap(s) PROVE HookInv'
<1>1. /\ hook_pc = "ready" /\ bound[s] = "hook" /\ bound' = [bound EXCEPT ![s] = "other"]
      /\ UNCHANGED <<mapped, build, patches, hook_pc, next, buffer, used, Hook!vllm>>
  BY DEF Hook!Wrap
<1>2. bound' \in [Hook!Sites -> {"none", "vllm", "hook", "other"}]
  BY <1>1 DEF HookInv, Hook!TypeOK
<1>3. \A x \in Hook!Sites : bound'[x] = IF x = s THEN "other" ELSE bound[x]
  BY <1>1 DEF HookInv, Hook!TypeOK
<1>4. Hook!TypeOK'
  BY <1>1, <1>2 DEF HookInv, Hook!TypeOK, Hook!vllm
<1>5. PatchesKnown'
  BY <1>1, <1>3 DEF HookInv, PatchesKnown
<1>6. InstallOrder'
  <2>1. \A k \in 1 .. 3 : Hook!AllocSites[k] \in Hook!Sites
    BY HookNames DEF AllocNames
  <2>2. "gpu_worker" \in Hook!Sites
    BY HookNames
  <2> QED
    BY <1>1, <1>3, <2>1, <2>2 DEF HookInv, InstallOrder, Building
<1>7. ServeOrder'
  BY <1>1 DEF HookInv, ServeOrder, Hook!vllm, Building
<1> QED
  BY <1>4, <1>5, <1>6, <1>7 DEF HookInv

LEMMA HookAllocate ==
  ASSUME HookInv, NEW s \in Hook!Range(Hook!AllocSites), Hook!AllocateKvCache(s)
  PROVE  HookInv'
<1>1. s \in AllocNames /\ hook_pc = "ready" /\ next = 4
  BY HookNames DEF Hook!AllocateKvCache, HookInv, InstallOrder
<1>2. bound[s] # "vllm"
  <2>1. \E k \in 1 .. 3 : s = Hook!AllocSites[k]
    BY <1>1, HookNames DEF AllocNames
  <2> QED
    BY <1>1, <2>1 DEF HookInv, InstallOrder
<1>3. /\ UNCHANGED <<mapped, build, bound, patches, next, buffer, attached, warm, warming,
                     num_blocks, serving>>
      /\ \/ /\ caches' \in [Layers -> {"alias", "copy"}] /\ used' = TRUE /\ hook_pc' = hook_pc
         \/ hook_pc' = "raised" /\ UNCHANGED <<used, caches>>
      /\ \A l \in Layers : caches[l] = "none"
  BY <1>2 DEF Hook!AllocateKvCache
<1>4. Hook!TypeOK'
  <2>1. caches' \in [Layers -> {"none", "alias", "copy"}]
    BY <1>3 DEF HookInv, Hook!TypeOK
  <2>2. used' \in BOOLEAN
    BY <1>3 DEF HookInv, Hook!TypeOK
  <2> QED
    BY <1>3, <2>1, <2>2 DEF HookInv, Hook!TypeOK
<1>5. PatchesKnown' /\ InstallOrder'
  BY <1>1, <1>3 DEF HookInv, PatchesKnown, InstallOrder, Building
<1>6. ServeOrder'
  <2>1. CASE caches' \in [Layers -> {"alias", "copy"}] /\ used' = TRUE /\ hook_pc' = hook_pc
    <3>1. attached = TRUE => \A l \in Layers : FALSE
      BY <1>3 DEF HookInv, ServeOrder
    <3> QED
      BY <1>1, <1>3, <2>1, <3>1 DEF HookInv, ServeOrder, Building
  <2>2. CASE hook_pc' = "raised" /\ UNCHANGED <<used, caches>>
    BY <1>1, <1>3, <2>2 DEF HookInv, ServeOrder, Building
  <2> QED
    BY <1>3, <2>1, <2>2
<1> QED
  BY <1>4, <1>5, <1>6 DEF HookInv

LEMMA HookRegister == ASSUME HookInv, Hook!RegisterKvCaches PROVE HookInv'
<1>1. /\ UNCHANGED <<mapped, build, bound, patches, next, buffer, used, caches, warm, warming,
                     num_blocks, serving>>
      /\ hook_pc = "ready" /\ hook_pc' \in {"ready", "raised"}
  BY DEF Hook!RegisterKvCaches
<1>2. \/ attached' = TRUE /\ \A l \in Layers : caches[l] = "alias"
      \/ attached' = attached
  BY DEF Hook!RegisterKvCaches
<1>3. attached' \in BOOLEAN
  BY <1>2 DEF HookInv, Hook!TypeOK
<1>4. Hook!TypeOK' /\ PatchesKnown' /\ InstallOrder'
  BY <1>1, <1>3 DEF HookInv, Hook!TypeOK, PatchesKnown, InstallOrder, Building
<1>5. ServeOrder'
  BY <1>1, <1>2 DEF HookInv, ServeOrder, Building
<1> QED
  BY <1>4, <1>5 DEF HookInv

LEMMA HookStartWarmup == ASSUME HookInv, Hook!StartWarmup PROVE HookInv'
<1>1. /\ UNCHANGED <<mapped, build, bound, patches, next, buffer, used, caches, attached, serving>>
      /\ hook_pc = "ready" /\ hook_pc' \in {"ready", "raised"}
      /\ warm' \in {warm, TRUE} /\ warming' \in {warming, TRUE}
      /\ num_blocks' \in {num_blocks, mapped} /\ ~serving /\ ~warming
  BY DEF Hook!StartWarmup
<1>2. warm' \in BOOLEAN /\ warming' \in BOOLEAN /\ serving = FALSE /\ warming = FALSE
  BY <1>1 DEF HookInv, Hook!TypeOK
<1>3. Hook!TypeOK' /\ PatchesKnown' /\ InstallOrder'
  BY <1>1, <1>2 DEF HookInv, Hook!TypeOK, PatchesKnown, InstallOrder, Building
<1>4. mapped \in Nat /\ mapped <= Maximum
  BY HookConstants DEF HookInv, Hook!TypeOK
<1>5. num_blocks = Maximum
  BY <1>1, <1>2 DEF HookInv, ServeOrder
<1>6. warming' = TRUE => num_blocks' <= mapped
  <2>1. CASE warming' = TRUE /\ num_blocks' = mapped
    BY <1>4, <2>1
  <2>2. CASE bound["gpu_worker"] = "vllm" /\ num_blocks' = num_blocks
    BY <1>1, <1>4, <1>5, <2>2, HookConstants DEF HookInv, InstallOrder
  <2>3. CASE warming' = warming
    BY <2>3, <1>2
  <2> QED
    BY <2>1, <2>2, <2>3 DEF Hook!StartWarmup
<1>7. \/ warming' = TRUE
      \/ hook_pc' = "raised"
  BY DEF Hook!StartWarmup
<1>8. ServeOrder'
  BY <1>1, <1>2, <1>6, <1>7 DEF HookInv, ServeOrder, Building
<1> QED
  BY <1>3, <1>8 DEF HookInv

LEMMA HookEndWarmup == ASSUME HookInv, Hook!EndWarmup PROVE HookInv'
<1>1. /\ UNCHANGED <<mapped, build, bound, patches, next, buffer, used, caches, attached, warm,
                     serving>>
      /\ warming = TRUE /\ warming' = FALSE
      /\ \/ num_blocks' = Maximum /\ hook_pc' \in {hook_pc, "raised"}
         \/ num_blocks' = num_blocks /\ hook_pc' = "raised"
  BY DEF Hook!EndWarmup, HookInv, Hook!TypeOK
<1>2. hook_pc \notin Building /\ hook_pc' \notin Building /\ serving # TRUE
  BY <1>1 DEF HookInv, ServeOrder, Building
<1>3. Hook!TypeOK' /\ PatchesKnown' /\ InstallOrder'
  BY <1>1, <1>2 DEF HookInv, Hook!TypeOK, PatchesKnown, InstallOrder, Building
<1>4. ServeOrder'
  BY <1>1, <1>2 DEF HookInv, ServeOrder
<1> QED
  BY <1>3, <1>4 DEF HookInv

LEMMA HookStartServing == ASSUME HookInv, Hook!StartServing PROVE HookInv'
<1>1. /\ UNCHANGED <<mapped, build, bound, patches, hook_pc, next, buffer, used, caches,
                     attached, warm, warming, num_blocks>>
      /\ hook_pc = "ready" /\ serving' = TRUE
  BY DEF Hook!StartServing
<1>2. attached = TRUE /\ warming = FALSE
  BY DEF Hook!StartServing, HookInv, Hook!TypeOK
<1>3. Hook!TypeOK' /\ PatchesKnown' /\ InstallOrder'
  BY <1>1 DEF HookInv, Hook!TypeOK, PatchesKnown, InstallOrder, Building
<1>4. ServeOrder'
  BY <1>1, <1>2 DEF HookInv, ServeOrder, Building
<1> QED
  BY <1>3, <1>4 DEF HookInv

LEMMA HookStep == HookInv /\ [Hook!Next]_hookVars => HookInv'
<1> SUFFICES ASSUME HookInv, [Hook!Next]_hookVars PROVE HookInv'
  OBVIOUS
<1>1. CASE UNCHANGED hookVars
  BY <1>1 DEF hookVars, HookInv, Hook!TypeOK, PatchesKnown, InstallOrder, ServeOrder
<1>2. CASE Hook!Shutdown
  <2>1. serving' \in {serving, FALSE}
    BY <1>2 DEF Hook!Shutdown
  <2> QED
    BY <1>2, <2>1, HookGoesDown DEF Hook!Shutdown
<1> QED
  BY <1>1, <1>2, HookImport, HookPatchNext, HookInstallEnds, HookInstallWarmupCap, HookWrap,
     HookAllocate, HookRegister, HookStartWarmup, HookEndWarmup, HookStartServing
     DEF Hook!Next

\* However installation, warm-up and shutdown interleave with failures and with other
\* plugins, vLLM allocates from the hook or as if it had never been there, warms up
\* inside the mapped blocks and serves the whole pool (_install, _run_startup_warmup,
\* shutdown of VllmSharedPoolHook).
THEOREM HookIsHarmlessHolds == Spec => []HookIsHarmless
<1>1. Init => HookInv
  BY HookInit DEF Init
<1>2. HookInv /\ [Next]_allVars => HookInv'
  BY HookStep DEF Next, allVars
<1>3. HookInv => HookIsHarmless
  BY HookImplies DEF HookIsHarmless
<1> QED
  BY <1>1, <1>2, <1>3, PTL DEF Spec

-----------------------------------------------------------------------------
(* The handshake.                                                          *)

LEMMA HandshakeConstants ==
  /\ Worlds \subseteq Nat \ {0} /\ MaxGroups \in Nat \ {0} /\ IsFiniteSet(Counts)
  /\ MaxChanges \in Nat
  /\ RankKeys \subseteq [rank : Nat, form : {"int", "text", "padded"}]
<1>1. Handshake!IsFiniteSet(Counts) => IsFiniteSet(Counts)
  BY DEF Handshake!IsFiniteSet, IsFiniteSet
<1> QED
  BY <1>1, PartsAssumption DEF PartsAssumption, Handshake!HandshakeAssumption

LEMMA HandshakeCardinality == ASSUME NEW S PROVE Handshake!Cardinality(S) = Cardinality(S)
BY DEF Handshake!Cardinality, Cardinality

\* The devices whose pools are elastic.
Elastic(ps) == {p.device : p \in {q \in ps : q.elastic}}

\* What the coordinator provides, and when.
Provided ==
  /\ pc # "select" => DOMAIN bindings = {} /\ DOMAIN seen = {}
  /\ pc = "select" => /\ pools \in Handshake!Answers \cup {{}}
                      /\ backing \in [Elastic(pools) -> Counts]
  /\ pc \in {"receipt", "select"} /\ live = TRUE =>
       "live_pool_resize" \in registration.features

\* Every binding was selected by the rank that has it, from the pools of its receipt.
Selections ==
  \A r \in DOMAIN bindings :
    /\ mode = "shared_pool" /\ Handshake!ReceiptAccepted(pools)
    /\ Handshake!Selectable(r) /\ bindings[r] = Handshake!Selected(r)

\* A process that registered since the last resize of a pool starts from the count that
\* every pool still has.
CountsSeen ==
  \A p \in DOMAIN seen :
    /\ seen[p].at <= changes
    /\ live = FALSE => seen[p].count = 0
    /\ live = TRUE => DOMAIN backing # {}
    /\ live = TRUE /\ seen[p].at = changes =>
         \A d \in DOMAIN backing : backing[d] = seen[p].count

HandshakeInv ==
  /\ Handshake!TypeOK /\ Handshake!BuiltIsValid
  /\ pc \notin {"config", "refused"} => Handshake!ConfigAccepted
  /\ Provided /\ Selections /\ CountsSeen /\ Handshake!CountsAgree

LEMMA HandshakeInit == Handshake!Init => HandshakeInv
<1> SUFFICES ASSUME Handshake!Init PROVE HandshakeInv
  OBVIOUS
<1>1. DOMAIN bindings = {} /\ DOMAIN seen = {} /\ DOMAIN backing = {}
  BY DEF Handshake!Init, Handshake!NoMap
<1>2. /\ Handshake!Range(bindings) = {} /\ Handshake!Range(seen) = {}
      /\ Handshake!Range(backing) = {}
  BY <1>1 DEF Handshake!Range
<1>3. registration \in Handshake!Registrations
  BY DEF Handshake!Init, Handshake!NoRegistration, Handshake!Registrations
<1>4. Handshake!TypeOK
  BY <1>1, <1>2, <1>3, HandshakeConstants DEF Handshake!Init, Handshake!TypeOK
<1> QED
  BY <1>1, <1>4 DEF Handshake!Init, HandshakeInv, Handshake!BuiltIsValid, Provided,
     Selections, CountsSeen, Handshake!CountsAgree

\* The devices of an accepted configuration, one for each domain and each rank.
SharedConfig == mode = "shared_pool" /\ Handshake!ConfigAccepted

LEMMA HandshakeDomains ==
  ASSUME Handshake!TypeOK, SharedConfig
  PROVE  /\ IsFiniteSet(Handshake!DeviceIds) /\ Cardinality(Handshake!DeviceIds) = world
         /\ world \in Nat \ {0}
         /\ \A i, j \in DOMAIN domains : domains[i].device = domains[j].device => i = j
         /\ \A i \in DOMAIN domains : domains[i].kind = "cuda"
<1>1. PICK m \in 0 .. Handshake!MaxWorld : domains \in [1 .. m -> Handshake!Domains]
  BY DEF Handshake!TypeOK, Handshake!BoundedSeq, Handshake!SeqOf
<1>2. m \in Nat /\ Len(domains) = m /\ DOMAIN domains = 1 .. m
  BY <1>1
<1> DEFINE f == [i \in 1 .. m |-> domains[i].device]
<1>3. Handshake!DeviceIds = {domains[i].device : i \in 1 .. m}
  BY <1>2 DEF Handshake!DeviceIds, Handshake!DomainSet, Handshake!ToSet
<1>4. f \in Surjection(1 .. m, Handshake!DeviceIds)
  BY <1>3 DEF Surjection
<1>5. IsFiniteSet(1 .. m) /\ Cardinality(1 .. m) = m
  BY <1>2, FS_Interval
<1>6. world = m /\ Cardinality(Handshake!DeviceIds) = m
  BY <1>2, HandshakeCardinality
     DEF SharedConfig, Handshake!ConfigAccepted, Handshake!RankMapAccepted
<1>7. IsFiniteSet(Handshake!DeviceIds) /\ f \in Injection(1 .. m, Handshake!DeviceIds)
  BY <1>4, <1>5, <1>6, FS_Surjection
<1>8. \A i, j \in DOMAIN domains : domains[i].device = domains[j].device => i = j
  BY <1>2, <1>7 DEF Injection, IsInjective
<1>9. \A i \in DOMAIN domains : domains[i].kind = "cuda"
  BY DEF SharedConfig, Handshake!ConfigAccepted, Handshake!DomainSet, Handshake!ToSet
<1>10. world \in Nat \ {0}
  BY HandshakeConstants DEF Handshake!TypeOK
<1> QED
  BY <1>6, <1>7, <1>8, <1>9, <1>10

LEMMA HandshakeRanks ==
  ASSUME Handshake!TypeOK, SharedConfig, mapped_ranks # Handshake!NoMap
  PROVE  /\ \A r \in Handshake!Ranks :
              Handshake!RankDevice(mapped_ranks, r) \in Handshake!DeviceIds
         /\ \A q, r \in Handshake!Ranks :
              Handshake!RankDevice(mapped_ranks, q) = Handshake!RankDevice(mapped_ranks, r)
                => q = r
<1> DEFINE key(r) == CHOOSE k \in DOMAIN mapped_ranks : k.rank = r
           g == [r \in Handshake!Ranks |-> mapped_ranks[key(r)]]
<1>1. /\ \A j, k \in DOMAIN mapped_ranks : j.rank = k.rank => j = k
      /\ {k.rank : k \in DOMAIN mapped_ranks} = Handshake!Ranks
      /\ Handshake!DeviceIds = {mapped_ranks[k] : k \in DOMAIN mapped_ranks}
  BY DEF SharedConfig, Handshake!ConfigAccepted, Handshake!RankMapAccepted,
         Handshake!CanonicalMap, Handshake!Range
<1>2. \A r \in Handshake!Ranks : key(r) \in DOMAIN mapped_ranks /\ key(r).rank = r
  BY <1>1
<1>3. \A r \in Handshake!Ranks :
        g[r] = Handshake!RankDevice(mapped_ranks, r) /\ g[r] \in Handshake!DeviceIds
  BY <1>1, <1>2 DEF Handshake!RankDevice
<1>4. \A k \in DOMAIN mapped_ranks : k.rank \in Handshake!Ranks /\ key(k.rank) = k
  BY <1>1, <1>2
<1> HIDE DEF key
<1>5. g \in Surjection(Handshake!Ranks, Handshake!DeviceIds)
  <2>1. g \in [Handshake!Ranks -> Handshake!DeviceIds]
    BY <1>3
  <2>2. \A d \in Handshake!DeviceIds : \E r \in Handshake!Ranks : g[r] = d
    BY <1>1, <1>4
  <2> QED
    BY <2>1, <2>2 DEF Surjection
<1>6. IsFiniteSet(Handshake!Ranks) /\ Cardinality(Handshake!Ranks) = world
  BY HandshakeDomains, FS_Interval DEF Handshake!Ranks
<1>7. g \in Injection(Handshake!Ranks, Handshake!DeviceIds)
  BY <1>5, <1>6, HandshakeDomains, FS_Surjection
<1>8. \A q, r \in Handshake!Ranks : g[q] = g[r] => q = r
  BY <1>7 DEF Injection, IsInjective
<1> QED
  BY <1>3, <1>8

\* The pools of a receipt are finite, as many as the devices.
LEMMA HandshakePools ==
  ASSUME Handshake!TypeOK, SharedConfig, pools \in Handshake!Answers
  PROVE  /\ IsFiniteSet(pools) /\ Cardinality(pools) = world
         /\ {p.device : p \in pools} = Handshake!DeviceIds
<1>1. PICK f \in [Handshake!DeviceIds -> Handshake!Pools] : pools = Handshake!Range(f)
  BY DEF Handshake!Answers
<1>2. f \in Surjection(Handshake!DeviceIds, pools)
  BY <1>1 DEF Surjection, Handshake!Range
<1>3. IsFiniteSet(pools)
  BY <1>2, HandshakeDomains, FS_Surjection
<1>4. /\ Cardinality(pools) = Cardinality(Handshake!DeviceIds)
      /\ {p.device : p \in pools} = Handshake!DeviceIds
  BY HandshakeCardinality DEF Handshake!Answers
<1> QED
  BY <1>3, <1>4, HandshakeDomains

\* What a rank selects is a pool of the receipt, its own device's when there are several.
LEMMA HandshakeSelected ==
  ASSUME IsFiniteSet(pools), NEW r, Handshake!Selectable(r)
  PROVE  /\ Handshake!Selected(r) \in Handshake!Candidates
         /\ Cardinality(Handshake!Candidates) # 1 =>
              /\ mapped_ranks # Handshake!NoMap
              /\ Handshake!Selected(r).device = Handshake!RankDevice(mapped_ranks, r)
<1>1. IsFiniteSet(Handshake!Candidates) /\ Handshake!Candidates # {}
  BY FS_Subset DEF Handshake!Candidates, Handshake!Selectable
<1>2. CASE Cardinality(Handshake!Candidates) = 1
  <2>1. Handshake!Selected(r) = CHOOSE p \in Handshake!Candidates : TRUE
    BY <1>2, HandshakeCardinality DEF Handshake!Selected
  <2> QED
    BY <1>1, <1>2, <2>1
<1>3. CASE Cardinality(Handshake!Candidates) # 1
  <2>1. Cardinality(Handshake!Candidates) > 1
    BY <1>1, <1>3, FS_EmptySet, FS_CardinalityType
  <2>2. mapped_ranks # Handshake!NoMap /\ Cardinality(Handshake!Matching(r)) = 1
    BY <2>1, HandshakeCardinality DEF Handshake!Selectable
  <2>3. Handshake!Matching(r) # {}
    BY <2>2, FS_EmptySet
  <2>4. Handshake!Selected(r) = CHOOSE p \in Handshake!Matching(r) : TRUE
    BY <1>3, HandshakeCardinality DEF Handshake!Selected
  <2>5. Handshake!Selected(r) \in Handshake!Matching(r)
    BY <2>3, <2>4
  <2> QED
    BY <2>2, <2>5 DEF Handshake!Matching
<1> QED
  BY <1>2, <1>3

\* A common count is the count of every pool.
LEMMA HandshakeOneCount ==
  ASSUME NEW f \in [Elastic(pools) -> Counts], f = backing, \A p \in pools : p.elastic,
         Handshake!OneCount
  PROVE  /\ pools # {} /\ Elastic(pools) = {p.device : p \in pools}
         /\ \A c, d \in Elastic(pools) : backing[c] = backing[d]
<1> DEFINE counts == {backing[p.device] : p \in pools}
<1>1. Elastic(pools) = {p.device : p \in pools}
  BY DEF Elastic
<1>2. counts \subseteq Counts
  BY <1>1
<1>3. IsFiniteSet(counts) /\ Cardinality(counts) = 1
  BY <1>2, HandshakeConstants, HandshakeCardinality, FS_Subset DEF Handshake!OneCount
<1>4. PICK c : counts = {c}
  BY <1>3, FS_Singleton
<1>5. pools # {}
  BY <1>4
<1>6. \A p \in pools : backing[p.device] = c
  BY <1>4
<1> QED
  BY <1>1, <1>5, <1>6

LEMMA HandshakeImplies == HandshakeInv => Handshake!RanksAgree
<1> SUFFICES ASSUME HandshakeInv PROVE Handshake!RanksAgree
  OBVIOUS
<1>1. ASSUME NEW r \in DOMAIN bindings
      PROVE  /\ SharedConfig /\ Handshake!TypeOK
             /\ pools \in Handshake!Answers /\ IsFiniteSet(pools)
             /\ r \in Handshake!Ranks /\ bindings[r] = Handshake!Selected(r)
             /\ Handshake!Selectable(r) /\ pc = "select"
  <2>1. pc = "select" /\ SharedConfig /\ Handshake!TypeOK
    BY DEF HandshakeInv, Provided, Selections, SharedConfig
  <2>2. pools \in Handshake!Answers
    BY <2>1 DEF HandshakeInv, Provided, Selections, Handshake!ReceiptAccepted, SharedConfig
  <2>3. IsFiniteSet(pools)
    BY <2>1, <2>2, HandshakePools
  <2> QED
    BY <2>1, <2>2, <2>3 DEF HandshakeInv, Selections, Handshake!TypeOK
<1>2. ASSUME NEW r \in DOMAIN bindings, Cardinality(Handshake!Candidates) = 1
      PROVE  /\ Handshake!Ranks = {0}
             /\ mapped_ranks # Handshake!NoMap =>
                  bindings[r].device = Handshake!RankDevice(mapped_ranks, r)
  <2>1. bindings[r] \in Handshake!Candidates /\ bindings[r] \in pools
    BY <1>1, HandshakeSelected DEF Handshake!Candidates
  <2>2. Handshake!Candidates = pools
    BY <1>1, <2>1 DEF HandshakeInv, Selections, Handshake!ReceiptAccepted,
                      Handshake!ReceiptValid, Handshake!Candidates
  <2>3. world = 1
    BY <1>1, <1>2, <2>2, HandshakePools
  <2>4. Handshake!Ranks = {0}
    BY <2>3 DEF Handshake!Ranks
  <2>5. PICK p : pools = {p}
    BY <1>1, <1>2, <2>2, FS_Singleton
  <2>6. Handshake!DeviceIds = {bindings[r].device}
    BY <1>1, <2>1, <2>5, HandshakePools
  <2> QED
    BY <1>1, <2>4, <2>6, HandshakeRanks
<1>3. ASSUME NEW r \in DOMAIN bindings, Cardinality(Handshake!Candidates) # 1
      PROVE  /\ mapped_ranks # Handshake!NoMap
             /\ bindings[r].device = Handshake!RankDevice(mapped_ranks, r)
  BY <1>1, <1>3, HandshakeSelected
<1>4. Handshake!EachItsOwnBinding
  <2> SUFFICES ASSUME NEW r \in DOMAIN bindings
               PROVE  /\ mapped_ranks # Handshake!NoMap =>
                           bindings[r].device = Handshake!RankDevice(mapped_ranks, r)
                      /\ \A q \in DOMAIN bindings \ {r} :
                           bindings[q].device # bindings[r].device
    BY DEF Handshake!EachItsOwnBinding
  <2>1. CASE Cardinality(Handshake!Candidates) = 1
    BY <1>1, <1>2, <2>1
  <2>2. CASE Cardinality(Handshake!Candidates) # 1
    BY <1>1, <1>3, <2>2, HandshakeRanks
  <2> QED
    BY <2>1, <2>2
<1> QED
  BY <1>4 DEF HandshakeInv, Handshake!RanksAgree

LEMMA HandshakeConfigure == ASSUME HandshakeInv, Handshake!Configure PROVE HandshakeInv'
<1>1. /\ pc = "config" /\ pc' = IF Handshake!ConfigAccepted THEN "register" ELSE "refused"
      /\ UNCHANGED <<mode, live, world, domains, mapped_ranks, groups, grant, registration,
                     pools, backing, changes, bindings, seen, raised>>
  BY DEF Handshake!Configure, Handshake!config, Handshake!coordinator, Handshake!read
<1>2. Handshake!TypeOK'
  BY <1>1 DEF HandshakeInv, Handshake!TypeOK, Handshake!Ranks, Handshake!Processes
<1>3. Handshake!ConfigAccepted' = Handshake!ConfigAccepted
  BY <1>1 DEF Handshake!ConfigAccepted, Handshake!DomainSet, Handshake!RankMapAccepted,
              Handshake!DeviceIds, Handshake!Ranks
<1>4. /\ Provided' /\ Selections' /\ CountsSeen' /\ Handshake!CountsAgree'
      /\ Handshake!BuiltIsValid'
  BY <1>1 DEF HandshakeInv, Provided, Selections, CountsSeen, Handshake!CountsAgree,
              Handshake!BuiltIsValid
<1> QED
  BY <1>1, <1>2, <1>3, <1>4 DEF HandshakeInv

\* What the connector builds, its own contract accepts, unless the grant is bad or an
\* opaque participant declared a domain twice.
LEMMA HandshakeBuilt ==
  ASSUME Handshake!TypeOK, Handshake!ConfigAccepted, grant # "bad",
         mode = "opaque" => Handshake!DomainsUnique
  PROVE  Handshake!RegistrationAccepted(
           IF mode = "shared_pool" THEN Handshake!SharedRegistration
           ELSE Handshake!OpaqueRegistration)
<1>1. groups \in Nat \ {0} /\ 0 \in 0 .. groups - 1
  BY HandshakeConstants DEF Handshake!TypeOK
<1>2. CASE mode = "opaque"
  BY <1>1, <1>2 DEF Handshake!OpaqueRegistration, Handshake!RegistrationAccepted
<1>3. CASE mode = "shared_pool"
  <2> DEFINE r == Handshake!SharedRegistration
  <2>1. /\ r.tier = "shared_pool" /\ r.capacity = 0 .. groups - 1
        /\ r.topology = 0 .. groups - 1 /\ r.grant = grant
        /\ r.transports = {IF live THEN "cuda_vmm" ELSE "cuda_ipc"}
    BY DEF Handshake!SharedRegistration
  <2>2. /\ {"capacity_leasing", "direct_attention_access", "external_pool_attachment",
            "participant_block_selection"} \subseteq r.features
        /\ "live_pool_resize" \in r.features <=> live = TRUE
        /\ ("multiple_cache_groups" \in r.features) = (groups > 1)
        /\ ("provisioning_grant" \in r.features) = (grant # "none")
    <3>1. r.features =
            Handshake!Features \ ((IF live THEN {} ELSE {"live_pool_resize"})
                 \cup (IF groups > 1 THEN {} ELSE {"multiple_cache_groups"})
                 \cup (IF grant = "none" THEN {"provisioning_grant"} ELSE {}))
      BY DEF Handshake!SharedRegistration
    <3>2. live = TRUE \/ live = FALSE
      BY DEF Handshake!TypeOK
    <3> HIDE DEF r
    <3>3. "live_pool_resize" \in r.features <=> live = TRUE
      BY <3>1, <3>2 DEF Handshake!Features
    <3> QED
      BY <3>1, <3>3 DEF Handshake!Features
  <2>3. Cardinality(0 .. groups - 1) = groups
    BY <1>1, FS_Interval
  <2>4. Handshake!TopologyAccepted(r)
    <3>1. Handshake!Cardinality(r.topology) = groups
      BY <2>1, <2>3, HandshakeCardinality
    <3> HIDE DEF r
    <3> QED
      BY <1>1, <2>1, <2>2, <3>1 DEF Handshake!TopologyAccepted
  <2>5. Handshake!DomainsUnique
    <3>1. SharedConfig
      BY <1>3 DEF SharedConfig
    <3> QED
      BY <3>1, HandshakeDomains DEF Handshake!DomainsUnique, Handshake!Identity
  <2> HIDE DEF r
  <2>6. /\ \/ live = TRUE
           \/ live = FALSE
        /\ grant \in {"none", "good"}
    BY DEF Handshake!TypeOK
  <2>7. IF "live_pool_resize" \in r.features THEN r.transports = {"cuda_vmm"}
        ELSE "cuda_ipc" \in r.transports
    BY <2>1, <2>2, <2>6
  <2>8. Handshake!RegistrationAccepted(r)
    BY <1>1, <2>1, <2>2, <2>4, <2>5, <2>6, <2>7 DEF Handshake!RegistrationAccepted
  <2> QED
    BY <1>3, <2>8 DEF r
<1> QED
  BY <1>2, <1>3 DEF Handshake!TypeOK

LEMMA HandshakeRegister == ASSUME HandshakeInv, Handshake!Register PROVE HandshakeInv'
<1> DEFINE built == IF mode = "shared_pool" THEN Handshake!SharedRegistration
                    ELSE Handshake!OpaqueRegistration
<1>1. /\ pc = "register" /\ registration' = built
      /\ pc' = IF Handshake!RegistrationAccepted(registration') THEN "receipt" ELSE "invalid"
      /\ UNCHANGED <<mode, live, world, domains, mapped_ranks, groups, grant, pools, backing,
                     changes, bindings, seen, raised>>
  BY DEF Handshake!Register, Handshake!config, Handshake!coordinator, Handshake!read
<1>2. built \in Handshake!Registrations
  <2>1. groups \in 1 .. MaxGroups /\ MaxGroups \in Nat
    BY HandshakeConstants DEF HandshakeInv, Handshake!TypeOK
  <2>2. 0 .. groups - 1 \subseteq 0 .. MaxGroups - 1
    BY <2>1
  <2>3. grant \in {"none", "good", "bad"}
    BY DEF HandshakeInv, Handshake!TypeOK
  <2>4. Handshake!OpaqueRegistration \in Handshake!Registrations
    BY <2>2 DEF Handshake!OpaqueRegistration, Handshake!Registrations, Handshake!Features
  <2>5. Handshake!SharedRegistration \in Handshake!Registrations
    BY <2>2, <2>3 DEF Handshake!SharedRegistration, Handshake!Registrations
  <2> QED
    BY <2>4, <2>5
<1>3. Handshake!TypeOK'
  BY <1>1, <1>2 DEF HandshakeInv, Handshake!TypeOK, Handshake!Ranks, Handshake!Processes
<1>4. Handshake!BuiltIsValid'
  <2>1. Handshake!TypeOK /\ Handshake!ConfigAccepted
    BY <1>1 DEF HandshakeInv
  <2>2. Handshake!DomainsUnique' = Handshake!DomainsUnique
    BY <1>1 DEF Handshake!DomainsUnique
  <2>3. ASSUME grant # "bad", ~(mode = "opaque" /\ ~Handshake!DomainsUnique)
        PROVE  pc' # "invalid"
    <3>1. Handshake!RegistrationAccepted(built)
      BY <2>1, <2>3, HandshakeBuilt
    <3> HIDE DEF built
    <3> QED
      BY <1>1, <3>1
  <2> QED
    BY <1>1, <2>2, <2>3 DEF Handshake!BuiltIsValid
<1>5. Handshake!ConfigAccepted'
  BY <1>1 DEF HandshakeInv, Handshake!ConfigAccepted, Handshake!DomainSet,
              Handshake!RankMapAccepted, Handshake!DeviceIds, Handshake!Ranks
<1>6. DOMAIN bindings = {} /\ DOMAIN seen = {}
  BY <1>1 DEF HandshakeInv, Provided
<1>8. live = TRUE => "live_pool_resize" \in built.features
  <2> SUFFICES ASSUME live = TRUE PROVE "live_pool_resize" \in built.features
    OBVIOUS
  <2>1. mode = "shared_pool"
    BY <1>1 DEF HandshakeInv, Handshake!ConfigAccepted
  <2> QED
    BY <2>1 DEF Handshake!SharedRegistration, Handshake!Features
<1> HIDE DEF built
<1>7. Provided' /\ Selections' /\ CountsSeen' /\ Handshake!CountsAgree'
  BY <1>1, <1>6, <1>8 DEF Provided, Selections, CountsSeen, Handshake!CountsAgree
<1> QED
  BY <1>3, <1>4, <1>5, <1>7 DEF HandshakeInv

\* The configuration stays as it is, and so does what was said of it.
LEMMA HandshakeKept ==
  ASSUME HandshakeInv, pc \in {"receipt", "select"}, pc' # "invalid",
         UNCHANGED <<mode, live, world, domains, mapped_ranks, groups, grant>>
  PROVE  /\ Handshake!ConfigAccepted' /\ Handshake!BuiltIsValid'
         /\ Handshake!Answers' = Handshake!Answers
<1>1. Handshake!ConfigAccepted'
  BY DEF HandshakeInv, Handshake!ConfigAccepted, Handshake!DomainSet,
         Handshake!RankMapAccepted, Handshake!DeviceIds, Handshake!Ranks
<1>2. Handshake!Answers' = Handshake!Answers
  BY DEF Handshake!Answers, Handshake!DeviceIds, Handshake!DomainSet
<1> QED
  BY <1>1, <1>2 DEF Handshake!BuiltIsValid

LEMMA HandshakeProvide == ASSUME HandshakeInv, Handshake!Provide PROVE HandshakeInv'
<1>1. /\ pc = "receipt" /\ pc' = "select" /\ pools' \in Handshake!Answers \cup {{}}
      /\ backing' \in [Elastic(pools') -> Counts]
      /\ UNCHANGED <<mode, live, world, domains, mapped_ranks, groups, grant, registration,
                     changes, bindings, seen, raised>>
  BY DEF Handshake!Provide, Handshake!config, Handshake!read, Elastic
<1>2. pools' \subseteq Handshake!Pools
  BY <1>1 DEF Handshake!Answers, Handshake!Range
<1>3. DOMAIN backing' \subseteq Devices /\ Handshake!Range(backing)' \subseteq Counts
  <2>1. Elastic(pools') \subseteq Devices
    BY <1>2 DEF Elastic, Handshake!Pools
  <2> QED
    BY <1>1, <2>1 DEF Handshake!Range
<1>4. Handshake!TypeOK'
  BY <1>1, <1>2, <1>3 DEF HandshakeInv, Handshake!TypeOK, Handshake!Ranks, Handshake!Processes
<1>5. DOMAIN bindings = {} /\ DOMAIN seen = {}
  BY <1>1 DEF HandshakeInv, Provided
<1>6. Elastic(pools)' = Elastic(pools')
  BY DEF Elastic
<1>7. Provided' /\ Selections' /\ CountsSeen' /\ Handshake!CountsAgree'
  <2>1. DOMAIN bindings' = {} /\ DOMAIN seen' = {}
    BY <1>1, <1>5
  <2>2. Handshake!Answers' = Handshake!Answers
    BY <1>1, HandshakeKept
  <2>3. Provided'
    BY <1>1, <1>6, <2>2 DEF HandshakeInv, Provided
  <2>4. Selections' /\ CountsSeen'
    BY <2>1 DEF Selections, CountsSeen
  <2>5. Handshake!CountsAgree'
    BY <2>1 DEF Handshake!CountsAgree
  <2> QED
    BY <2>3, <2>4, <2>5
<1> QED
  BY <1>1, <1>4, <1>7, HandshakeKept DEF HandshakeInv

LEMMA HandshakeResize ==
  ASSUME HandshakeInv, NEW d \in DOMAIN backing, Handshake!ResizePool(d)
  PROVE  HandshakeInv'
<1>1. /\ pc = "select" /\ changes < MaxChanges /\ changes' = changes + 1
      /\ \E c \in Counts : backing' = [backing EXCEPT ![d] = c]
      /\ UNCHANGED <<mode, live, world, domains, mapped_ranks, groups, grant, pc,
                     registration, pools, bindings, seen, raised>>
  BY DEF Handshake!ResizePool, Handshake!config, Handshake!read
<1>2. changes \in Nat /\ MaxChanges \in Nat /\ changes' \in 0 .. MaxChanges
  BY <1>1, HandshakeConstants DEF HandshakeInv, Handshake!TypeOK
<1>3. backing \in [Elastic(pools) -> Counts] /\ backing' \in [Elastic(pools) -> Counts]
  BY <1>1 DEF HandshakeInv, Provided
<1>4. DOMAIN backing' \subseteq Devices /\ Handshake!Range(backing)' \subseteq Counts
  BY <1>3 DEF HandshakeInv, Handshake!TypeOK, Handshake!Range
<1>5. Handshake!TypeOK'
  BY <1>1, <1>2, <1>4 DEF HandshakeInv, Handshake!TypeOK, Handshake!Ranks, Handshake!Processes
<1>6. Elastic(pools)' = Elastic(pools)
  BY <1>1 DEF Elastic
<1>7. Provided'
  BY <1>1, <1>3, <1>6, HandshakeKept DEF HandshakeInv, Provided
<1>8. \A r : /\ Handshake!Selectable(r)' = Handshake!Selectable(r)
             /\ Handshake!Selected(r)' = Handshake!Selected(r)
  BY <1>1 DEF Handshake!Selectable, Handshake!Selected, Handshake!Candidates,
              Handshake!Matching
<1>9. Handshake!ReceiptAccepted(pools)' = Handshake!ReceiptAccepted(pools)
  BY <1>1 DEF Handshake!ReceiptAccepted, Handshake!ReceiptValid
<1>10. Selections'
  BY <1>1, <1>8, <1>9 DEF HandshakeInv, Selections
<1>11. CountsSeen'
  <2> SUFFICES ASSUME NEW p \in DOMAIN seen
               PROVE  /\ seen[p].at <= changes' /\ seen[p].at # changes'
                      /\ live = FALSE => seen[p].count = 0
                      /\ live = TRUE => DOMAIN backing' # {}
    BY <1>1 DEF CountsSeen
  <2>1. /\ seen[p].at <= changes /\ (live = FALSE => seen[p].count = 0)
        /\ live = TRUE => DOMAIN backing # {}
    BY DEF HandshakeInv, CountsSeen
  <2>2. seen[p].at \in Nat
    BY <1>2 DEF HandshakeInv, Handshake!TypeOK, Handshake!Range
  <2> QED
    BY <1>1, <1>2, <1>3, <2>1, <2>2
<1>12. Handshake!CountsAgree'
  BY <1>1 DEF HandshakeInv, Handshake!CountsAgree
<1> QED
  BY <1>1, <1>5, <1>7, <1>10, <1>11, <1>12, HandshakeKept DEF HandshakeInv

\* A process is built with the count that every elastic pool has at that moment.
LEMMA HandshakeStart ==
  ASSUME HandshakeInv, pc = "select", NEW p \in Handshake!Processes, Handshake!Accepted(p)
  PROVE  /\ live = FALSE => Handshake!StartCount(p) = 0
         /\ live = TRUE => /\ DOMAIN backing # {}
                           /\ Handshake!StartCount(p) \in Counts
                           /\ \A d \in DOMAIN backing : backing[d] = Handshake!StartCount(p)
<1>1. ASSUME live = TRUE
      PROVE  /\ DOMAIN backing # {}
             /\ Handshake!StartCount(p) \in Counts
             /\ \A d \in DOMAIN backing : backing[d] = Handshake!StartCount(p)
  <2>1. Handshake!ReceiptAccepted(pools) /\ Handshake!OneCount
    BY <1>1 DEF Handshake!Accepted
  <2>2. backing \in [Elastic(pools) -> Counts]
    BY DEF HandshakeInv, Provided
  <2>3. \A q \in pools : q.elastic
    <3>1. live => mode = "shared_pool"
      BY DEF HandshakeInv, Handshake!ConfigAccepted
    <3>2. mode = "shared_pool" /\ SharedConfig /\ Handshake!TypeOK
      BY <1>1, <3>1 DEF HandshakeInv, SharedConfig
    <3>3. IsFiniteSet(pools) /\ pools \subseteq Handshake!Pools
      <4>1. pools \in Handshake!Answers
        BY <2>1, <3>2 DEF HandshakeInv, Provided, Handshake!ReceiptAccepted, Handshake!ReceiptValid
      <4> QED
        BY <3>2, <4>1, HandshakePools DEF Handshake!TypeOK
    <3>4. \A q \in pools : q.elastic = q.vmm /\ q.vmm \in BOOLEAN
      BY <2>1, <3>3 DEF Handshake!ReceiptAccepted, Handshake!ReceiptValid, Handshake!Pools
    <3>5. \A q, r \in pools : q.vmm = r.vmm
      BY <2>1 DEF Handshake!ReceiptAccepted, Handshake!ReceiptValid
    <3>6. \E q \in pools : q.vmm = TRUE
      <4>1. PICK q \in pools : q.elastic
        <5>1. "live_pool_resize" \in registration.features
          BY <1>1 DEF HandshakeInv, Provided
        <5> QED
          BY <2>1, <5>1 DEF Handshake!ReceiptAccepted, Handshake!ReceiptValid
      <4> QED
        BY <3>4, <4>1
    <3> QED
      BY <3>4, <3>5, <3>6
  <2>4. /\ pools # {} /\ Elastic(pools) = {q.device : q \in pools}
        /\ \A c, d \in Elastic(pools) : backing[c] = backing[d]
    BY <2>1, <2>2, <2>3, HandshakeOneCount
  <2>5. \E q \in pools : Handshake!StartCount(p) = backing[q.device]
    <3>1. CASE p \in Handshake!Ranks
      <4>1. Handshake!StartCount(p) = backing[Handshake!Selected(p).device]
        BY <1>1, <3>1 DEF Handshake!StartCount
      <4>2. Handshake!Selected(p) \in pools
        <5>1. IsFiniteSet(pools)
          <6>1. mode = "shared_pool"
            BY <1>1 DEF HandshakeInv, Handshake!ConfigAccepted
          <6>2. pools \in Handshake!Answers
            BY <2>4 DEF HandshakeInv, Provided
          <6> QED
            BY <6>1, <6>2, HandshakePools DEF HandshakeInv, SharedConfig
        <5>2. Handshake!Selectable(p)
          BY <3>1 DEF Handshake!Accepted
        <5> QED
          BY <5>1, <5>2, HandshakeSelected DEF Handshake!Candidates
      <4> QED
        BY <4>1, <4>2
    <3>2. CASE p \notin Handshake!Ranks
      <4>1. Handshake!StartCount(p) = backing[(CHOOSE q \in pools : TRUE).device]
        BY <1>1, <3>2 DEF Handshake!StartCount
      <4> QED
        BY <2>4, <4>1
    <3> QED
      BY <3>1, <3>2
  <2> QED
    BY <2>2, <2>4, <2>5
<1>2. live = FALSE => Handshake!StartCount(p) = 0
  BY DEF Handshake!StartCount
<1> QED
  BY <1>1, <1>2

LEMMA HandshakeReceive ==
  ASSUME HandshakeInv, NEW p \in Handshake!Processes, Handshake!Receive(p)
  PROVE  HandshakeInv'
<1>1. /\ pc = "select" /\ p \notin DOMAIN seen
      /\ UNCHANGED <<mode, live, world, domains, mapped_ranks, groups, grant, pc,
                     registration, pools, backing, changes>>
  BY DEF Handshake!Receive, Handshake!config, Handshake!coordinator
<1>2. live = TRUE \/ live = FALSE
  BY DEF HandshakeInv, Handshake!TypeOK
<1>3. Provided'
  <2>1. Elastic(pools)' = Elastic(pools)
    BY <1>1 DEF Elastic
  <2> QED
    BY <1>1, <2>1, HandshakeKept DEF HandshakeInv, Provided
<1>4. /\ \A r : /\ Handshake!Selectable(r)' = Handshake!Selectable(r)
                /\ Handshake!Selected(r)' = Handshake!Selected(r)
      /\ Handshake!ReceiptAccepted(pools)' = Handshake!ReceiptAccepted(pools)
  BY <1>1 DEF Handshake!Selectable, Handshake!Selected, Handshake!Candidates,
              Handshake!Matching, Handshake!ReceiptAccepted, Handshake!ReceiptValid
<1>5. CASE bindings' = bindings /\ seen' = seen /\ raised' = raised \cup {p}
  <2>1. Handshake!TypeOK'
    BY <1>1, <1>5 DEF HandshakeInv, Handshake!TypeOK, Handshake!Ranks, Handshake!Processes
  <2>2. Selections'
    BY <1>1, <1>4, <1>5 DEF HandshakeInv, Selections
  <2>3. CountsSeen' /\ Handshake!CountsAgree'
    BY <1>1, <1>5 DEF HandshakeInv, CountsSeen, Handshake!CountsAgree
  <2> QED
    BY <1>1, <1>3, <2>1, <2>2, <2>3, HandshakeKept DEF HandshakeInv
<1>6. CASE /\ Handshake!Accepted(p) /\ UNCHANGED raised
           /\ seen' = [q \in DOMAIN seen \cup {p} |->
                         IF q = p THEN [count |-> Handshake!StartCount(p), at |-> changes]
                         ELSE seen[q]]
           /\ bindings' = IF p \in Handshake!Ranks
                          THEN [q \in DOMAIN bindings \cup {p} |->
                                  IF q = p THEN Handshake!Selected(p) ELSE bindings[q]]
                          ELSE bindings
  <2>1. Handshake!ReceiptAccepted(pools)
    BY <1>6 DEF Handshake!Accepted
  <2>2. PICK new : new = [count |-> Handshake!StartCount(p), at |-> changes]
    OBVIOUS
  <2>3. /\ DOMAIN seen' = DOMAIN seen \cup {p}
        /\ seen'[p] = new /\ \A q \in DOMAIN seen : seen'[q] = seen[q]
    BY <1>1, <1>6, <2>2
  <2>4. /\ new.at = changes /\ new.count \in Counts \cup {0}
        /\ live = FALSE => new.count = 0
        /\ live = TRUE => /\ DOMAIN backing # {}
                          /\ \A d \in DOMAIN backing : backing[d] = new.count
    BY <1>1, <1>2, <1>6, <2>2, HandshakeStart
  <2>5. new \in [count : Counts \cup {0}, at : 0 .. MaxChanges]
    BY <2>2, <2>4 DEF HandshakeInv, Handshake!TypeOK
  <2>6. ASSUME p \in Handshake!Ranks
        PROVE  mode = "shared_pool" /\ Handshake!Selectable(p)
               /\ Handshake!Selected(p) \in pools
    <3>1. Handshake!Selectable(p)
      BY <1>6, <2>6 DEF Handshake!Accepted
    <3>2. pools # {}
      BY <3>1 DEF Handshake!Selectable, Handshake!Candidates
    <3>3. mode = "shared_pool"
      BY <2>1, <3>2 DEF Handshake!ReceiptAccepted, Handshake!ReceiptValid
    <3>4. pools \in Handshake!Answers /\ SharedConfig /\ Handshake!TypeOK
      BY <1>1, <3>2, <3>3 DEF HandshakeInv, Provided, SharedConfig
    <3> QED
      BY <3>1, <3>3, <3>4, HandshakePools, HandshakeSelected DEF Handshake!Candidates
  <2>7. \A r \in DOMAIN bindings' :
          \/ r \in DOMAIN bindings /\ bindings'[r] = bindings[r]
          \/ r = p /\ p \in Handshake!Ranks /\ bindings'[r] = Handshake!Selected(p)
    BY <1>6
  <2>8. Handshake!TypeOK'
    <3>1. /\ DOMAIN bindings' \subseteq Handshake!Ranks
          /\ Handshake!Range(bindings)' \subseteq Handshake!Pools
      BY <2>6, <2>7 DEF HandshakeInv, Handshake!TypeOK, Handshake!Range
    <3>2. /\ DOMAIN seen' \subseteq Handshake!Processes
          /\ Handshake!Range(seen)'
               \subseteq [count : Counts \cup {0}, at : 0 .. MaxChanges]
      BY <2>3, <2>5 DEF HandshakeInv, Handshake!TypeOK, Handshake!Range
    <3> QED
      BY <1>1, <1>6, <3>1, <3>2
         DEF HandshakeInv, Handshake!TypeOK, Handshake!Ranks, Handshake!Processes
  <2>9. Selections'
    <3> SUFFICES ASSUME NEW r \in DOMAIN bindings'
                 PROVE  /\ mode = "shared_pool" /\ Handshake!Selectable(r)
                        /\ bindings'[r] = Handshake!Selected(r)
      BY <1>1, <1>4, <2>1 DEF Selections
    <3> QED
      BY <2>6, <2>7 DEF HandshakeInv, Selections
  <2>10. CountsSeen'
    <3> SUFFICES ASSUME NEW q \in DOMAIN seen'
                 PROVE  /\ seen'[q].at <= changes
                        /\ live = FALSE => seen'[q].count = 0
                        /\ live = TRUE => DOMAIN backing # {}
                        /\ live = TRUE /\ seen'[q].at = changes =>
                             \A d \in DOMAIN backing : backing[d] = seen'[q].count
      BY <1>1 DEF CountsSeen
    <3>1. CASE q = p
      <4>1. changes \in Nat
        BY HandshakeConstants DEF HandshakeInv, Handshake!TypeOK
      <4> QED
        BY <2>3, <2>4, <3>1, <4>1
    <3>2. CASE q # p
      BY <2>3, <3>2 DEF HandshakeInv, CountsSeen
    <3> QED
      BY <3>1, <3>2
  <2>11. ASSUME NEW q \in DOMAIN seen, seen[q].at = changes PROVE seen[q].count = new.count
    <3>1. CASE live = FALSE
      BY <2>4, <3>1 DEF HandshakeInv, CountsSeen
    <3>2. CASE live = TRUE
      <4>1. PICK d \in DOMAIN backing : backing[d] = new.count
        BY <2>4, <3>2
      <4> QED
        BY <2>11, <3>2, <4>1 DEF HandshakeInv, CountsSeen
    <3> QED
      BY <1>2, <3>1, <3>2
  <2>12. Handshake!CountsAgree'
    <3> SUFFICES ASSUME NEW q \in DOMAIN seen', NEW r \in DOMAIN seen',
                        seen'[q].at = seen'[r].at
                 PROVE  seen'[q].count = seen'[r].count
      BY DEF Handshake!CountsAgree
    <3>1. CASE q # p /\ r # p
      BY <2>3, <3>1 DEF HandshakeInv, Handshake!CountsAgree
    <3>2. CASE q = p \/ r = p
      BY <2>3, <2>4, <2>11, <3>2
    <3> QED
      BY <3>1, <3>2
  <2> QED
    BY <1>1, <1>3, <2>8, <2>9, <2>10, <2>12, HandshakeKept DEF HandshakeInv
<1> QED
  BY <1>5, <1>6 DEF Handshake!Receive

LEMMA HandshakeStep == HandshakeInv /\ [Handshake!Next]_handshakeVars => HandshakeInv'
<1> SUFFICES ASSUME HandshakeInv, [Handshake!Next]_handshakeVars PROVE HandshakeInv'
  OBVIOUS
<1>1. CASE UNCHANGED handshakeVars
  <2>1. Handshake!TypeOK'
    BY <1>1 DEF handshakeVars, HandshakeInv, Handshake!TypeOK, Handshake!Ranks,
                Handshake!Processes
  <2>2. Handshake!ConfigAccepted' = Handshake!ConfigAccepted
    BY <1>1 DEF handshakeVars, Handshake!ConfigAccepted, Handshake!DomainSet,
                Handshake!RankMapAccepted, Handshake!DeviceIds, Handshake!Ranks
  <2>3. Handshake!BuiltIsValid'
    BY <1>1 DEF handshakeVars, HandshakeInv, Handshake!BuiltIsValid, Handshake!DomainsUnique
  <2>4. Provided'
    BY <1>1 DEF handshakeVars, HandshakeInv, Provided, Elastic,
                Handshake!Answers, Handshake!DeviceIds, Handshake!DomainSet
  <2>5. /\ \A r : /\ Handshake!Selectable(r)' = Handshake!Selectable(r)
                  /\ Handshake!Selected(r)' = Handshake!Selected(r)
        /\ Handshake!ReceiptAccepted(pools)' = Handshake!ReceiptAccepted(pools)
    BY <1>1 DEF handshakeVars, Handshake!Selectable, Handshake!Selected,
                Handshake!Candidates, Handshake!Matching, Handshake!ReceiptAccepted,
                Handshake!ReceiptValid
  <2>6. Selections'
    BY <1>1, <2>5 DEF handshakeVars, HandshakeInv, Selections
  <2>7. CountsSeen' /\ Handshake!CountsAgree'
    BY <1>1 DEF handshakeVars, HandshakeInv, CountsSeen, Handshake!CountsAgree
  <2> QED
    BY <1>1, <2>1, <2>2, <2>3, <2>4, <2>6, <2>7 DEF HandshakeInv, handshakeVars
<1> QED
  BY <1>1, HandshakeConfigure, HandshakeRegister, HandshakeProvide, HandshakeResize,
     HandshakeReceive DEF Handshake!Next

\* Registration, receipts and import agree, for every world size and device set: in
\* every reachable state each rank holds a binding of its own, on its own device, and
\* processes that registered between the same two resizes start from the same block count
\* (_validated_shared_rank_device_map, validate_registration_receipt,
\* _elastic_receipt_block_counts, select_cuda_binding).
THEOREM RanksAgreeHolds == Spec => []RanksAgree
<1>1. Init => HandshakeInv
  BY HandshakeInit DEF Init
<1>2. HandshakeInv /\ [Next]_allVars => HandshakeInv'
  BY HandshakeStep DEF Next, allVars
<1>3. HandshakeInv => RanksAgree
  BY HandshakeImplies DEF RanksAgree
<1> QED
  BY <1>1, <1>2, <1>3, PTL DEF Spec

-----------------------------------------------------------------------------
(* Resize messages.  Any list of segments has an ascending order; in that  *)
(* order the loop of the validation has a closed form, which says that the *)
(* segments cut the range.                                                 *)

LEMMA WireConstants ==
  /\ MaxBlocks \in Nat /\ MaxBlocks > 0 /\ Stride \in Nat /\ Stride > 0
  /\ Grain \in Nat /\ Grain > 0 /\ Alignment \in Nat /\ Alignment > 0
  /\ MaxSegments \in Nat /\ Offsets \subseteq Nat
  /\ \A l \in Lengths : l \in Nat /\ l > 0
  /\ \A t \in Targets : t \in Nat /\ t > 0
  /\ \A h \in WireHeaders : h.stride \in Nat /\ h.stride > 0
<1>1. Wire!WireAssumption
  BY PartsAssumption, Zenon DEF PartsAssumption
<1>2. /\ MaxBlocks \in Nat /\ MaxBlocks > 0 /\ Stride \in Nat /\ Stride > 0
      /\ Grain \in Nat /\ Grain > 0 /\ Alignment \in Nat /\ Alignment > 0
  BY <1>1 DEF Wire!WireAssumption
<1>3. MaxSegments \in Nat /\ Offsets \subseteq Nat
  BY <1>1 DEF Wire!WireAssumption
<1>4. \A l \in Lengths : l \in Nat /\ l > 0
  BY <1>1 DEF Wire!WireAssumption
<1>5. \A t \in Targets : t \in Nat /\ t > 0
  BY <1>1 DEF Wire!WireAssumption
<1>6. \A h \in WireHeaders : h.stride \in Nat /\ h.stride > 0
  BY <1>1 DEF Wire!WireAssumption
<1> QED
  BY <1>2, <1>3, <1>4, <1>5, <1>6, Zenon

\* A set of numbers has a least one.
LEMMA LeastOf ==
  ASSUME NEW T \in SUBSET Nat, T # {}
  PROVE  \E n \in T : \A k \in T : n <= k
<1> DEFINE R == OpToRel(<, Nat)
<1>1. IsWellFoundedOn(R, Nat)
  BY NatLessThanWellFounded
<1>2. \A k, n \in Nat : k < n => <<k, n>> \in R
  BY DEF OpToRel
<1> HIDE DEF R
<1>3. PICK n \in T : \A k \in T : <<k, n>> \notin R
  BY <1>1, WFMin
<1>4. ASSUME NEW k \in T PROVE n <= k
  <2>1. k \in Nat /\ n \in Nat
    OBVIOUS
  <2>2. ~(k < n)
    BY <1>2, <1>3, <2>1
  <2> QED
    BY <2>1, <2>2
<1> QED
  BY <1>4

\* p puts the numbers f[1] .. f[n] in ascending order.
Ascending(f, n, p) ==
  /\ p \in [1 .. n -> 1 .. n]
  /\ \A i, j \in 1 .. n : i # j => p[i] # p[j]
  /\ \A k \in 1 .. n : \E i \in 1 .. n : p[i] = k
  /\ \A i, j \in 1 .. n : i < j => f[p[i]] <= f[p[j]]

\* One more number: the least of them goes first, the last one takes its place.
LEMMA OneMoreSorted ==
  ASSUME NEW n \in Nat, NEW f \in [1 .. n + 1 -> Nat],
         \A g \in [1 .. n -> Nat] : \E p : Ascending(g, n, p)
  PROVE  \E p : Ascending(f, n + 1, p)
<1> DEFINE values == {f[i] : i \in 1 .. n + 1}
<1>1. values \subseteq Nat /\ values # {}
  <2>1. 1 \in 1 .. n + 1
    OBVIOUS
  <2> QED
    BY <2>1
<1>2. PICK v \in values : \A k \in values : v <= k
  BY <1>1, LeastOf
<1>3. PICK m \in 1 .. n + 1 : f[m] = v
  BY <1>2
<1>4. \A i \in 1 .. n + 1 : f[m] <= f[i]
  BY <1>2, <1>3
<1> HIDE DEF values
<1> DEFINE at == [i \in 1 .. n |-> IF i = m THEN n + 1 ELSE i]
           g == [i \in 1 .. n |-> f[at[i]]]
<1>5. /\ at \in [1 .. n -> 1 .. n + 1]
      /\ \A i \in 1 .. n : at[i] # m
      /\ \A i, j \in 1 .. n : i # j => at[i] # at[j]
      /\ \A k \in 1 .. n + 1 : k # m => \E i \in 1 .. n : at[i] = k
  <2>1. at \in [1 .. n -> 1 .. n + 1] /\ \A i \in 1 .. n : at[i] # m
    BY <1>3
  <2>2. \A i, j \in 1 .. n : i # j => at[i] # at[j]
    BY <1>3
  <2>3. ASSUME NEW k \in 1 .. n + 1, k # m PROVE \E i \in 1 .. n : at[i] = k
    <3>1. CASE k = n + 1
      <4>1. m \in 1 .. n /\ at[m] = k
        BY <1>3, <2>3, <3>1
      <4> QED
        BY <4>1
    <3>2. CASE k # n + 1
      <4>1. k \in 1 .. n /\ at[k] = k
        BY <2>3, <3>2
      <4> QED
        BY <4>1
    <3> QED
      BY <3>1, <3>2
  <2> QED
    BY <2>1, <2>2, <2>3
<1> HIDE DEF at
<1>6. g \in [1 .. n -> Nat] /\ \A i \in 1 .. n : g[i] = f[at[i]]
  BY <1>5
<1> HIDE DEF g
<1>7. PICK q : Ascending(g, n, q)
  BY <1>6
<1> DEFINE p == [i \in 1 .. n + 1 |-> IF i = 1 THEN m ELSE at[q[i - 1]]]
<1>8. \A i \in 2 .. n + 1 : /\ i - 1 \in 1 .. n /\ q[i - 1] \in 1 .. n
                            /\ p[i] = at[q[i - 1]] /\ p[i] \in 1 .. n + 1 /\ p[i] # m
                            /\ f[p[i]] = g[q[i - 1]]
  <2> SUFFICES ASSUME NEW i \in 2 .. n + 1
               PROVE  /\ i - 1 \in 1 .. n /\ q[i - 1] \in 1 .. n
                      /\ p[i] = at[q[i - 1]] /\ p[i] \in 1 .. n + 1 /\ p[i] # m
                      /\ f[p[i]] = g[q[i - 1]]
    OBVIOUS
  <2>1. i - 1 \in 1 .. n /\ i \in 1 .. n + 1 /\ i # 1
    OBVIOUS
  <2>2. p[i] = at[q[i - 1]]
    BY <2>1
  <2> HIDE DEF p
  <2>3. q[i - 1] \in 1 .. n
    BY <1>7, <2>1 DEF Ascending
  <2> QED
    BY <1>5, <1>6, <2>1, <2>2, <2>3
<1>9. p[1] = m /\ 1 \in 1 .. n + 1
  OBVIOUS
<1>10. \A i \in 1 .. n + 1 : i = 1 \/ i \in 2 .. n + 1
  OBVIOUS
<1>11. p \in [1 .. n + 1 -> 1 .. n + 1]
  <2>1. \A i \in 1 .. n + 1 : p[i] \in 1 .. n + 1
    BY <1>3, <1>8, <1>9, <1>10
  <2> QED
    BY <2>1
<1> HIDE DEF p
<1>12. ASSUME NEW i \in 1 .. n + 1, NEW j \in 1 .. n + 1, i # j PROVE p[i] # p[j]
  <2>1. CASE i = 1 \/ j = 1
    BY <1>8, <1>9, <1>10, <1>12, <2>1
  <2>2. CASE i # 1 /\ j # 1
    <3>1. i \in 2 .. n + 1 /\ j \in 2 .. n + 1 /\ i - 1 # j - 1
      BY <1>12, <2>2
    <3>2. q[i - 1] # q[j - 1]
      BY <1>7, <1>8, <3>1 DEF Ascending
    <3>3. at[q[i - 1]] # at[q[j - 1]]
      BY <1>5, <1>8, <3>1, <3>2
    <3> QED
      BY <1>8, <3>1, <3>3
  <2> QED
    BY <2>1, <2>2
<1>13. ASSUME NEW k \in 1 .. n + 1 PROVE \E i \in 1 .. n + 1 : p[i] = k
  <2>1. CASE k = m
    BY <1>9, <2>1
  <2>2. CASE k # m
    <3>1. PICK a \in 1 .. n : at[a] = k
      BY <1>5, <2>2
    <3>2. PICK b \in 1 .. n : q[b] = a
      BY <1>7 DEF Ascending
    <3>3. b + 1 \in 2 .. n + 1 /\ b + 1 \in 1 .. n + 1 /\ b + 1 - 1 = b
      OBVIOUS
    <3>4. p[b + 1] = k
      BY <1>8, <3>1, <3>2, <3>3
    <3> QED
      BY <3>3, <3>4
  <2> QED
    BY <2>1, <2>2
<1>14. ASSUME NEW i \in 1 .. n + 1, NEW j \in 1 .. n + 1, i < j PROVE f[p[i]] <= f[p[j]]
  <2>1. CASE i = 1
    BY <1>4, <1>9, <1>11, <2>1
  <2>2. CASE i # 1
    <3>1. i \in 2 .. n + 1 /\ j \in 2 .. n + 1 /\ i - 1 < j - 1
      BY <1>14, <2>2
    <3>2. g[q[i - 1]] <= g[q[j - 1]]
      BY <1>7, <1>8, <3>1 DEF Ascending
    <3> QED
      BY <1>8, <3>1, <3>2
  <2> QED
    BY <2>1, <2>2
<1>15. Ascending(f, n + 1, p)
  BY <1>11, <1>12, <1>13, <1>14 DEF Ascending
<1> QED
  BY <1>15

\* Any list can be put in ascending order: the shortest that could not is one longer
\* than a list that can.
LEMMA Sortable == \A n \in Nat : \A f \in [1 .. n -> Nat] : \E p : Ascending(f, n, p)
<1> DEFINE T == {n \in Nat : ~ \A f \in [1 .. n -> Nat] : \E p : Ascending(f, n, p)}
<1> SUFFICES ASSUME T # {} PROVE FALSE
  OBVIOUS
<1>1. PICK n \in T : \A k \in T : n <= k
  BY LeastOf
<1>2. PICK f \in [1 .. n -> Nat] : ~ \E p : Ascending(f, n, p)
  BY <1>1
<1>3. n # 0
  <2> SUFFICES ASSUME n = 0 PROVE FALSE
    OBVIOUS
  <2>1. Ascending(f, n, [i \in 1 .. n |-> i])
    BY DEF Ascending
  <2> QED
    BY <1>2, <2>1
<1>4. n - 1 \in Nat /\ n - 1 \notin T /\ n = n - 1 + 1
  <2>1. n \in Nat /\ n - 1 \in Nat /\ ~(n <= n - 1) /\ n = n - 1 + 1
    BY <1>3
  <2> QED
    BY <1>1, <2>1
<1>5. \A g \in [1 .. n - 1 -> Nat] : \E p : Ascending(g, n - 1, p)
  BY <1>4
<1> HIDE DEF T
<1>6. PICK k \in Nat : k = n - 1 /\ n = k + 1
  BY <1>4
<1>7. f \in [1 .. k + 1 -> Nat] /\ \A g \in [1 .. k -> Nat] : \E p : Ascending(g, k, p)
  BY <1>5, <1>6
<1>8. \E p : Ascending(f, k + 1, p)
  BY <1>7, OneMoreSorted
<1> QED
  BY <1>2, <1>6, <1>8

LEMMA WireSegment ==
  ASSUME NEW s \in Wire!Segments
  PROVE  /\ s.id \in Ids /\ s.offset \in Offsets /\ s.length \in Lengths
         /\ s.offset \in Nat /\ s.length \in Nat /\ s.length > 0
BY WireConstants DEF Wire!Segments

\* What ByOffset returns of a list of n segments.
Rearranged(s, n, p, t) ==
  /\ p \in [1 .. n -> 1 .. n]
  /\ \A i, j \in 1 .. n : i # j => p[i] # p[j]
  /\ \A k \in 1 .. n : \E i \in 1 .. n : p[i] = k
  /\ t = [i \in 1 .. n |-> s[p[i]]]

Sorted(t, n) == \A i, j \in 1 .. n : i < j => t[i].offset <= t[j].offset

LEMMA ByOffsetSorts ==
  ASSUME NEW n \in Nat, NEW s \in [1 .. n -> Wire!Segments]
  PROVE  /\ \E p : Rearranged(s, n, p, Wire!ByOffset(s))
         /\ Sorted(Wire!ByOffset(s), n)
<1> DEFINE f == [i \in 1 .. n |-> s[i].offset]
           Ps == Wire!Bijection(1 .. n, 1 .. n)
           Good(p) == \A i, j \in 1 .. n : i < j => s[p[i]].offset <= s[p[j]].offset
           order == CHOOSE p \in Ps : Good(p)
<1>1. DOMAIN s = 1 .. n
  OBVIOUS
<1>2. f \in [1 .. n -> Nat]
  BY WireSegment
<1>3. PICK p : Ascending(f, n, p)
  BY <1>2, Sortable
<1>4. p \in Ps
  BY <1>3 DEF Ascending, Wire!Bijection, Wire!Injection, Wire!Surjection,
         Wire!IsInjective
<1>5. Good(p)
  BY <1>3 DEF Ascending
<1> HIDE DEF f
<1>6. order \in Ps /\ Good(order)
  <2> HIDE DEF Ps, Good
  <2> QED
    BY <1>4, <1>5
<1>7. Wire!ByOffset(s) = [i \in 1 .. n |-> s[order[i]]]
  BY <1>1 DEF Wire!ByOffset
<1> HIDE DEF order
<1>8. /\ order \in [1 .. n -> 1 .. n]
      /\ \A i, j \in 1 .. n : i # j => order[i] # order[j]
      /\ \A k \in 1 .. n : \E i \in 1 .. n : order[i] = k
  BY <1>6 DEF Wire!Bijection, Wire!Injection, Wire!Surjection,
         Wire!IsInjective
<1>9. Rearranged(s, n, order, Wire!ByOffset(s))
  BY <1>7, <1>8 DEF Rearranged
<1>10. Sorted(Wire!ByOffset(s), n)
  BY <1>6, <1>7 DEF Sorted
<1> QED
  BY <1>9, <1>10

\* Where the segments before the i-th end.
EndBefore(t, start, i) == IF i = 1 THEN start ELSE t[i - 1].offset + t[i - 1].length

\* The loop of the validation has not refused one of the first i segments.
Dense(t, start, i, g) == \A j \in 1 .. i : Wire!Covered(t, j, EndBefore(t, start, j), g)

\* The recursion of CoverEnd.
Ends(t, start, e, i, g) ==
  IF i = 0 THEN start
  ELSE IF e[i - 1] >= 0 /\ Wire!Covered(t, i, e[i - 1], g)
       THEN e[i - 1] + t[i].length
       ELSE -1

EndAt(t, start, i, g) ==
  IF i = 0 THEN start
  ELSE IF Dense(t, start, i, g) THEN t[i].offset + t[i].length ELSE -1

LEMMA DenseStep ==
  ASSUME NEW i \in Nat, i > 0, NEW t, NEW start, NEW g
  PROVE  Dense(t, start, i, g) <=> Dense(t, start, i - 1, g)
                                /\ Wire!Covered(t, i, EndBefore(t, start, i), g)
<1>1. \A j : j \in 1 .. i <=> j \in 1 .. i - 1 \/ j = i
  OBVIOUS
<1> QED
  BY <1>1 DEF Dense

\* One turn of the loop, from what the turns before it leave.
LEMMA EndStep ==
  ASSUME NEW n \in Nat, NEW t \in [1 .. n -> Wire!Segments], NEW start \in Nat,
         NEW i \in 1 .. n, NEW e, NEW g, e[i - 1] = EndAt(t, start, i - 1, g)
  PROVE  Ends(t, start, e, i, g) = EndAt(t, start, i, g)
<1>1. t[i].length \in Nat /\ t[i].offset \in Nat
  BY WireSegment
<1>2. i \in Nat /\ i > 0
  OBVIOUS
<1>3. Dense(t, start, i, g) <=> Dense(t, start, i - 1, g)
                             /\ Wire!Covered(t, i, EndBefore(t, start, i), g)
  BY <1>2, DenseStep
<1>4. CASE i = 1
  <2>1. Dense(t, start, 0, g)
    BY DEF Dense
  <2>2. e[i - 1] = start
    BY <1>4 DEF EndAt
  <2>3. Wire!Covered(t, i, start, g) => t[i].offset = start
    BY DEF Wire!Covered
  <2> QED
    BY <1>1, <1>3, <1>4, <2>1, <2>2, <2>3 DEF Ends, EndAt, EndBefore
<1>5. CASE i # 1
  <2>1. i - 1 \in 1 .. n /\ i - 1 # 0
    BY <1>5
  <2>2. t[i - 1].length \in Nat /\ t[i - 1].offset \in Nat
    BY <2>1, WireSegment
  <2>3. CASE Dense(t, start, i - 1, g)
    <3>1. e[i - 1] = t[i - 1].offset + t[i - 1].length /\ e[i - 1] >= 0
      BY <2>1, <2>2, <2>3 DEF EndAt
    <3>2. e[i - 1] = EndBefore(t, start, i)
      BY <1>5, <3>1 DEF EndBefore
    <3>3. Wire!Covered(t, i, e[i - 1], g) => t[i].offset = e[i - 1]
      BY DEF Wire!Covered
    <3> QED
      BY <1>1, <1>2, <1>3, <2>3, <3>1, <3>2, <3>3 DEF Ends, EndAt
  <2>4. CASE ~Dense(t, start, i - 1, g)
    <3>1. e[i - 1] = -1
      BY <2>1, <2>4 DEF EndAt
    <3> QED
      BY <1>2, <1>3, <2>4, <3>1 DEF Ends, EndAt
  <2> QED
    BY <2>3, <2>4
<1> QED
  BY <1>4, <1>5

\* What the loop ends with: there is a function with these values, and no other.
LEMMA CoverEndIs ==
  ASSUME NEW n \in Nat, NEW s \in [1 .. n -> Wire!Segments], NEW start \in Nat,
         NEW g
  PROVE  Wire!CoverEnd(s, start, g) = EndAt(Wire!ByOffset(s), start, n, g)
<1>1. PICK p : Rearranged(s, n, p, Wire!ByOffset(s))
  BY ByOffsetSorts
<1>2. PICK t : t = Wire!ByOffset(s)
  OBVIOUS
<1>3. t \in [1 .. n -> Wire!Segments]
  BY <1>1, <1>2 DEF Rearranged
<1>4. Len(t) = n
  BY <1>3
<1> DEFINE Is(e) == e = [i \in 0 .. n |-> Ends(t, start, e, i, g)]
<1>5. Wire!CoverEnd(s, start, g) = (CHOOSE e : Is(e))[n]
  BY <1>2, <1>4 DEF Wire!CoverEnd, Ends
<1>6. \E e : Is(e)
  <2> DEFINE e == [i \in 0 .. n |-> EndAt(t, start, i, g)]
  <2>1. \A i \in 0 .. n : e[i] = EndAt(t, start, i, g)
    OBVIOUS
  <2> HIDE DEF e
  <2>2. ASSUME NEW i \in 0 .. n PROVE Ends(t, start, e, i, g) = EndAt(t, start, i, g)
    <3>1. CASE i = 0
      BY <3>1 DEF Ends, EndAt
    <3>2. CASE i # 0
      <4>1. i \in 1 .. n /\ i - 1 \in 0 .. n
        BY <3>2
      <4>2. e[i - 1] = EndAt(t, start, i - 1, g)
        BY <2>1, <4>1
      <4> QED
        BY <1>3, <4>1, <4>2, EndStep
    <3> QED
      BY <3>1, <3>2
  <2>3. [i \in 0 .. n |-> EndAt(t, start, i, g)] = [i \in 0 .. n |-> Ends(t, start, e, i, g)]
    BY <2>2
  <2>4. Is(e)
    BY <2>3 DEF e
  <2> QED
    BY <2>4
<1>7. PICK e : e = (CHOOSE h : Is(h)) /\ Is(e)
  <2> HIDE DEF Is
  <2> QED
    BY <1>6
<1>8. \A i \in 0 .. n : e[i] = Ends(t, start, e, i, g)
  BY <1>7
<1> DEFINE T == {i \in 0 .. n : e[i] # EndAt(t, start, i, g)}
<1>9. T = {}
  <2> SUFFICES ASSUME T # {} PROVE FALSE
    OBVIOUS
  <2>1. T \subseteq Nat
    OBVIOUS
  <2>2. PICK i \in T : \A k \in T : i <= k
    BY <2>1, LeastOf
  <2>3. i # 0
    BY <1>8, <2>2 DEF Ends, EndAt
  <2>4. i \in 1 .. n /\ i - 1 \in 0 .. n /\ ~(i <= i - 1)
    BY <2>3
  <2>5. e[i - 1] = EndAt(t, start, i - 1, g)
    BY <2>2, <2>4
  <2>6. Ends(t, start, e, i, g) = EndAt(t, start, i, g)
    BY <1>3, <2>4, <2>5, EndStep
  <2> QED
    BY <1>8, <2>2, <2>6
<1>10. e[n] = EndAt(t, start, n, g)
  BY <1>9
<1> QED
  BY <1>2, <1>5, <1>7, <1>10

Cut(s, from, to, g) == Wire!Partition(s, from, to) /\ Wire!Named(s) /\ Wire!Grained(s, g)

\* What a list of segments is cut into does not depend on its order.
LEMMA RearrangedCut ==
  ASSUME NEW n \in Nat, NEW s \in [1 .. n -> Wire!Segments], NEW p, NEW t,
         Rearranged(s, n, p, t), NEW from, NEW to, NEW g
  PROVE  Cut(s, from, to, g) <=> Cut(t, from, to, g)
<1>1. DOMAIN s = 1 .. n /\ DOMAIN t = 1 .. n
  BY DEF Rearranged
<1>2. \A k \in 1 .. n : p[k] \in 1 .. n /\ t[k] = s[p[k]]
  BY DEF Rearranged
<1>3. \A k \in 1 .. n : \E i \in 1 .. n : p[i] = k
  BY DEF Rearranged
<1>10. ASSUME NEW k \in 1 .. n PROVE \E i \in 1 .. n : s[k] = t[i]
  <2>1. PICK i \in 1 .. n : p[i] = k
    BY <1>3
  <2> QED
    BY <1>2, <2>1
<1>11. \A k \in 1 .. n : s[k] \in Wire!Segments /\ t[k] \in Wire!Segments
  BY <1>2
<1>4. {Wire!Bytes(s[k]) : k \in 1 .. n} = {Wire!Bytes(t[k]) : k \in 1 .. n}
  <2>2. \A k \in 1 .. n : \E i \in 1 .. n : t[k] = s[i]
    BY <1>2
  <2>4. {Wire!Bytes(s[k]) : k \in 1 .. n} \subseteq {Wire!Bytes(t[k]) : k \in 1 .. n}
    <3> SUFFICES ASSUME NEW k \in 1 .. n
                 PROVE  Wire!Bytes(s[k]) \in {Wire!Bytes(t[i]) : i \in 1 .. n}
      OBVIOUS
    <3>1. PICK i \in 1 .. n : s[k] = t[i]
      BY <1>10
    <3>2. Wire!Bytes(s[k]) = Wire!Bytes(t[i])
      BY <3>1
    <3> QED
      BY <3>2
  <2>5. {Wire!Bytes(t[k]) : k \in 1 .. n} \subseteq {Wire!Bytes(s[k]) : k \in 1 .. n}
    <3> SUFFICES ASSUME NEW k \in 1 .. n
                 PROVE  Wire!Bytes(t[k]) \in {Wire!Bytes(s[i]) : i \in 1 .. n}
      OBVIOUS
    <3>1. PICK i \in 1 .. n : t[k] = s[i]
      BY <2>2
    <3>2. Wire!Bytes(t[k]) = Wire!Bytes(s[i])
      BY <3>1
    <3> QED
      BY <3>2
  <2> QED
    BY <2>4, <2>5
<1>5. ASSUME NEW R
      PROVE  (\A j, k \in 1 .. n : j # k => <<s[j], s[k]>> \in R)
               <=> (\A j, k \in 1 .. n : j # k => <<t[j], t[k]>> \in R)
  <2>1. ASSUME \A j, k \in 1 .. n : j # k => <<s[j], s[k]>> \in R,
               NEW j \in 1 .. n, NEW k \in 1 .. n, j # k
        PROVE  <<t[j], t[k]>> \in R
    <3>1. p[j] # p[k] /\ p[j] \in 1 .. n /\ p[k] \in 1 .. n
      BY <1>2, <2>1 DEF Rearranged
    <3>2. <<s[p[j]], s[p[k]]>> \in R
      BY <2>1, <3>1
    <3> QED
      BY <1>2, <3>2
  <2>2. ASSUME \A j, k \in 1 .. n : j # k => <<t[j], t[k]>> \in R,
               NEW j \in 1 .. n, NEW k \in 1 .. n, j # k
        PROVE  <<s[j], s[k]>> \in R
    <3>1. PICK a \in 1 .. n : p[a] = j
      BY <1>3
    <3>2. PICK b \in 1 .. n : p[b] = k
      BY <1>3
    <3>3. a # b /\ t[a] = s[j] /\ t[b] = s[k]
      BY <1>2, <2>2, <3>1, <3>2
    <3>4. <<t[a], t[b]>> \in R
      BY <2>2, <3>3
    <3> QED
      BY <3>3, <3>4
  <2> QED
    BY <2>1, <2>2
<1>6. (\A j, k \in 1 .. n : j # k => Wire!Bytes(s[j]) \cap Wire!Bytes(s[k]) = {})
        <=> (\A j, k \in 1 .. n : j # k => Wire!Bytes(t[j]) \cap Wire!Bytes(t[k]) = {})
  <2> DEFINE R == {e \in Wire!Segments \X Wire!Segments :
                     Wire!Bytes(e[1]) \cap Wire!Bytes(e[2]) = {}}
  <2>1. \A a, b \in Wire!Segments :
          <<a, b>> \in R <=> Wire!Bytes(a) \cap Wire!Bytes(b) = {}
    OBVIOUS
  <2> HIDE DEF R
  <2>2. (\A j, k \in 1 .. n : j # k => <<s[j], s[k]>> \in R)
          <=> (\A j, k \in 1 .. n : j # k => <<t[j], t[k]>> \in R)
    BY <1>5
  <2>3. (\A j, k \in 1 .. n : j # k => Wire!Bytes(s[j]) \cap Wire!Bytes(s[k]) = {})
          <=> \A j, k \in 1 .. n : j # k => <<s[j], s[k]>> \in R
    BY <1>11, <2>1
  <2>4. (\A j, k \in 1 .. n : j # k => Wire!Bytes(t[j]) \cap Wire!Bytes(t[k]) = {})
          <=> \A j, k \in 1 .. n : j # k => <<t[j], t[k]>> \in R
    BY <1>11, <2>1
  <2> QED
    BY <2>2, <2>3, <2>4
<1>7. Wire!Named(s) <=> Wire!Named(t)
  <2> DEFINE R == {e \in Wire!Segments \X Wire!Segments :
                     e[1].id # e[2].id /\ e[1].handle # e[2].handle}
  <2>1. \A a, b \in Wire!Segments :
          <<a, b>> \in R <=> a.id # b.id /\ a.handle # b.handle
    OBVIOUS
  <2> HIDE DEF R
  <2>2. (\A j, k \in 1 .. n : j # k => <<s[j], s[k]>> \in R)
          <=> (\A j, k \in 1 .. n : j # k => <<t[j], t[k]>> \in R)
    BY <1>5
  <2>3. Wire!Named(s) <=> \A j, k \in 1 .. n : j # k => <<s[j], s[k]>> \in R
    BY <1>1, <2>1 DEF Wire!Named
  <2>4. Wire!Named(t) <=> \A j, k \in 1 .. n : j # k => <<t[j], t[k]>> \in R
    BY <1>1, <1>11, <2>1 DEF Wire!Named
  <2> QED
    BY <2>2, <2>3, <2>4
<1>8. Wire!Grained(s, g) <=> Wire!Grained(t, g)
  <2>1. Wire!Grained(s, g) => Wire!Grained(t, g)
    BY <1>1, <1>2 DEF Wire!Grained
  <2>2. ASSUME Wire!Grained(t, g), NEW k \in 1 .. n
        PROVE  s[k].length % g = 0 /\ s[k].offset % g = 0
    <3>1. PICK i \in 1 .. n : s[k] = t[i]
      BY <1>10
    <3> QED
      BY <1>1, <2>2, <3>1 DEF Wire!Grained
  <2> QED
    BY <1>1, <2>1, <2>2 DEF Wire!Grained
<1>9. Wire!Partition(s, from, to) <=> Wire!Partition(t, from, to)
  BY <1>1, <1>4, <1>6 DEF Wire!Partition
<1> QED
  BY <1>7, <1>8, <1>9 DEF Cut

\* Segments in ascending order, none refused, cut the range they cover.
LEMMA DenseIsCut ==
  ASSUME NEW n \in Nat, n > 0, NEW t \in [1 .. n -> Wire!Segments], Sorted(t, n),
         NEW start \in Nat, NEW g, Dense(t, start, n, g)
  PROVE  Cut(t, start, t[n].offset + t[n].length, g)
<1> DEFINE o(k) == t[k].offset
           l(k) == t[k].length
<1>1. \A k \in 1 .. n : o(k) \in Nat /\ l(k) \in Nat /\ l(k) > 0
  BY WireSegment
<1>2. \A k \in 1 .. n : Wire!Covered(t, k, EndBefore(t, start, k), g)
  BY DEF Dense
<1>3. 1 \in 1 .. n /\ n \in 1 .. n
  OBVIOUS
<1>4. o(1) = start
  BY <1>2, <1>3 DEF Wire!Covered, EndBefore
<1>5. \A k \in 1 .. n : k # 1 => k - 1 \in 1 .. n /\ o(k) = o(k - 1) + l(k - 1)
  BY <1>2 DEF Wire!Covered, EndBefore
<1>6. \A j, k \in 1 .. n : j < k => o(j) <= o(k)
  BY DEF Sorted
<1>7. \A k \in 1 .. n : Wire!Bytes(t[k]) = o(k) .. o(k) + l(k) - 1
  BY DEF Wire!Bytes
<1>8. Wire!Grained(t, g)
  BY <1>2 DEF Wire!Grained, Wire!Covered
<1>9. Wire!Named(t)
  <2> SUFFICES ASSUME NEW j \in 1 .. n, NEW k \in 1 .. n, j # k
               PROVE  t[j].id # t[k].id /\ t[j].handle # t[k].handle
    BY DEF Wire!Named
  <2>1. \A a, b \in 1 .. n : a < b => t[a].id # t[b].id /\ t[a].handle # t[b].handle
    <3> SUFFICES ASSUME NEW a \in 1 .. n, NEW b \in 1 .. n, a < b
                 PROVE  t[a].id # t[b].id /\ t[a].handle # t[b].handle
      OBVIOUS
    <3>1. a \in 1 .. b - 1
      OBVIOUS
    <3> QED
      BY <1>2, <3>1 DEF Wire!Covered
  <2>2. j < k \/ k < j
    OBVIOUS
  <2> QED
    BY <2>1, <2>2
<1> HIDE DEF o, l
<1>10. \A j, k \in 1 .. n : j < k => o(j) + l(j) <= o(k)
  <2> SUFFICES ASSUME NEW j \in 1 .. n, NEW k \in 1 .. n, j < k PROVE o(j) + l(j) <= o(k)
    OBVIOUS
  <2>1. j + 1 \in 1 .. n /\ j + 1 # 1 /\ j + 1 - 1 = j
    OBVIOUS
  <2>2. o(j + 1) = o(j) + l(j)
    BY <1>5, <2>1
  <2>3. j + 1 = k \/ j + 1 < k
    OBVIOUS
  <2>4. CASE j + 1 = k
    BY <1>1, <2>2, <2>4
  <2>5. CASE j + 1 < k
    BY <1>1, <1>6, <2>1, <2>2, <2>5
  <2> QED
    BY <2>3, <2>4, <2>5
<1>11. UNION {Wire!Bytes(t[k]) : k \in 1 .. n} = start .. o(n) + l(n) - 1
  <2>1. ASSUME NEW k \in 1 .. n, NEW x \in o(k) .. o(k) + l(k) - 1
        PROVE  x \in start .. o(n) + l(n) - 1
    <3>1. start <= o(k)
      <4>1. k = 1 \/ 1 < k
        OBVIOUS
      <4> QED
        BY <1>1, <1>3, <1>4, <1>6, <4>1
    <3>2. o(k) + l(k) <= o(n) + l(n)
      <4>1. k = n \/ k < n
        OBVIOUS
      <4>2. CASE k < n
        <5>1. o(k) + l(k) <= o(n)
          BY <1>3, <1>10, <4>2
        <5> QED
          BY <1>1, <1>3, <5>1
      <4> QED
        BY <1>1, <4>1, <4>2
    <3> QED
      BY <1>1, <1>3, <2>1, <3>1, <3>2
  <2>2. ASSUME NEW x \in start .. o(n) + l(n) - 1
        PROVE  \E k \in 1 .. n : x \in o(k) .. o(k) + l(k) - 1
    <3> DEFINE T == {k \in 1 .. n : x < o(k) + l(k)}
    <3>1. T \subseteq Nat /\ n \in T
      BY <1>1, <1>3
    <3>2. PICK k \in T : \A j \in T : k <= j
      BY <3>1, LeastOf
    <3>3. k \in 1 .. n /\ x < o(k) + l(k) /\ x \in Int
      BY <1>1, <1>3
    <3>4. o(k) <= x
      <4>1. CASE k = 1
        BY <1>4, <4>1
      <4>2. CASE k # 1
        <5>1. k - 1 \in 1 .. n /\ o(k) = o(k - 1) + l(k - 1) /\ ~(k <= k - 1)
          BY <1>5, <3>3, <4>2
        <5>2. ~(x < o(k - 1) + l(k - 1))
          BY <3>2, <5>1
        <5> QED
          BY <1>1, <3>3, <5>1, <5>2
      <4> QED
        BY <4>1, <4>2
    <3> QED
      BY <1>1, <3>3, <3>4
  <2> QED
    BY <1>7, <2>1, <2>2
<1>12. \A j, k \in 1 .. n : j # k => Wire!Bytes(t[j]) \cap Wire!Bytes(t[k]) = {}
  <2> SUFFICES ASSUME NEW j \in 1 .. n, NEW k \in 1 .. n, j # k, NEW x,
                      x \in o(j) .. o(j) + l(j) - 1, x \in o(k) .. o(k) + l(k) - 1
               PROVE  FALSE
    BY <1>7
  <2>1. j < k \/ k < j
    OBVIOUS
  <2>2. o(j) + l(j) <= o(k) \/ o(k) + l(k) <= o(j)
    BY <1>10, <2>1
  <2> QED
    BY <1>1, <2>2
<1>13. Wire!Partition(t, start, t[n].offset + t[n].length)
  <2>1. DOMAIN t = 1 .. n
    OBVIOUS
  <2>2. o(n) + l(n) = t[n].offset + t[n].length
    BY DEF o, l
  <2>3. UNION {Wire!Bytes(t[k]) : k \in DOMAIN t} = start .. (t[n].offset + t[n].length) - 1
    <3>1. {Wire!Bytes(t[k]) : k \in DOMAIN t} = {Wire!Bytes(t[k]) : k \in 1 .. n}
      BY <2>1, Zenon
    <3>2. start .. o(n) + l(n) - 1 = start .. (t[n].offset + t[n].length) - 1
      BY <1>1, <1>3, <2>2
    <3> QED
      BY <1>11, <3>1, <3>2, Zenon
  <2> QED
    BY <1>12, <2>1, <2>3 DEF Wire!Partition
<1> QED
  BY <1>8, <1>9, <1>13 DEF Cut

\* Segments in ascending order that cut a range are not refused, and end where it does.
LEMMA CutIsDense ==
  ASSUME NEW n \in Nat, n > 0, NEW t \in [1 .. n -> Wire!Segments], Sorted(t, n),
         NEW start \in Nat, NEW to \in Nat, NEW g, Cut(t, start, to, g)
  PROVE  Dense(t, start, n, g) /\ t[n].offset + t[n].length = to
<1> DEFINE o(k) == t[k].offset
           l(k) == t[k].length
<1>1. \A k \in 1 .. n : o(k) \in Nat /\ l(k) \in Nat /\ l(k) > 0
  BY WireSegment
<1>2. 1 \in 1 .. n /\ n \in 1 .. n
  OBVIOUS
<1>3. \A j, k \in 1 .. n : j < k => o(j) <= o(k)
  BY DEF Sorted
<1>4. \A k \in 1 .. n : Wire!Bytes(t[k]) = o(k) .. o(k) + l(k) - 1
  BY DEF Wire!Bytes
<1>5. /\ UNION {Wire!Bytes(t[k]) : k \in 1 .. n} = start .. to - 1
      /\ \A j, k \in 1 .. n : j # k => Wire!Bytes(t[j]) \cap Wire!Bytes(t[k]) = {}
  BY DEF Cut, Wire!Partition
<1> HIDE DEF o, l
<1>6. \A k \in 1 .. n : \A x \in o(k) .. o(k) + l(k) - 1 : x \in start .. to - 1
  BY <1>4, <1>5
<1>7. \A x \in start .. to - 1 : \E k \in 1 .. n : x \in o(k) .. o(k) + l(k) - 1
  BY <1>4, <1>5
<1>8. \A j, k \in 1 .. n : j # k =>
        \A x : ~(x \in o(j) .. o(j) + l(j) - 1 /\ x \in o(k) .. o(k) + l(k) - 1)
  BY <1>4, <1>5
<1>9. \A k \in 1 .. n : start <= o(k) /\ o(k) + l(k) <= to
  <2> SUFFICES ASSUME NEW k \in 1 .. n PROVE start <= o(k) /\ o(k) + l(k) <= to
    OBVIOUS
  <2>1. /\ o(k) \in o(k) .. o(k) + l(k) - 1
        /\ o(k) + l(k) - 1 \in o(k) .. o(k) + l(k) - 1
    BY <1>1
  <2>2. o(k) \in start .. to - 1 /\ o(k) + l(k) - 1 \in start .. to - 1
    BY <1>6, <2>1
  <2> QED
    BY <1>1, <2>2
<1>10. \A j, k \in 1 .. n : j < k => o(j) + l(j) <= o(k)
  <2> SUFFICES ASSUME NEW j \in 1 .. n, NEW k \in 1 .. n, j < k, o(k) < o(j) + l(j)
               PROVE  FALSE
    BY <1>1
  <2>1. o(k) \in o(j) .. o(j) + l(j) - 1 /\ o(k) \in o(k) .. o(k) + l(k) - 1
    BY <1>1, <1>3
  <2> QED
    BY <1>8, <2>1
<1>11. o(1) = start
  <2>1. start \in start .. to - 1
    BY <1>1, <1>2, <1>9
  <2>2. PICK k \in 1 .. n : start \in o(k) .. o(k) + l(k) - 1
    BY <1>7, <2>1
  <2>3. o(1) <= o(k)
    BY <1>1, <1>2, <1>3
  <2> QED
    BY <1>1, <1>2, <1>9, <2>2, <2>3
\* The byte where a segment ends lies in the next one, or there is none.
<1>12. ASSUME NEW j \in 1 .. n, o(j) + l(j) < to
       PROVE  j < n /\ o(j + 1) <= o(j) + l(j)
  <2>1. o(j) + l(j) \in start .. to - 1
    BY <1>1, <1>9, <1>12
  <2>2. PICK k \in 1 .. n : o(j) + l(j) \in o(k) .. o(k) + l(k) - 1
    BY <1>7, <2>1
  <2>3. o(k) <= o(j) + l(j) /\ o(j) + l(j) < o(k) + l(k)
    BY <1>1, <2>2
  <2>4. ~(k < j)
    BY <1>1, <1>10, <2>3
  <2>5. k # j
    BY <1>1, <2>3
  <2>6. j < k /\ j + 1 \in 1 .. n
    BY <2>4, <2>5
  <2>7. o(j + 1) <= o(k)
    <3>1. j + 1 = k \/ j + 1 < k
      BY <2>6
    <3> QED
      BY <1>1, <1>3, <2>6, <3>1
  <2> QED
    BY <1>1, <2>3, <2>6, <2>7
<1>13. o(n) + l(n) = to
  BY <1>1, <1>2, <1>9, <1>12
<1>14. ASSUME NEW k \in 1 .. n, k # 1 PROVE o(k) = o(k - 1) + l(k - 1)
  <2>1. k - 1 \in 1 .. n /\ k - 1 < k /\ k - 1 + 1 = k
    BY <1>14
  <2>2. o(k - 1) + l(k - 1) <= o(k)
    BY <1>10, <2>1
  <2>3. o(k - 1) + l(k - 1) < to
    BY <1>1, <1>9, <2>1, <2>2
  <2>4. o(k) <= o(k - 1) + l(k - 1)
    <3>1. PICK j \in 1 .. n : j = k - 1 /\ j + 1 = k
      BY <2>1
    <3>2. o(j + 1) <= o(j) + l(j)
      BY <1>12, <2>3, <3>1
    <3> QED
      BY <3>1, <3>2
  <2>5. o(k - 1) \in Nat /\ l(k - 1) \in Nat /\ o(k) \in Nat
    BY <1>1, <2>1
  <2> QED
    BY <2>2, <2>4, <2>5
<1>15. \A k \in 1 .. n : t[k].offset = EndBefore(t, start, k)
  BY <1>11, <1>14 DEF EndBefore, o, l
<1>16. Dense(t, start, n, g)
  <2> SUFFICES ASSUME NEW k \in 1 .. n PROVE Wire!Covered(t, k, EndBefore(t, start, k), g)
    BY DEF Dense
  <2>1. t[k].offset % g = 0 /\ t[k].length % g = 0
    BY DEF Cut, Wire!Grained
  <2>2. \A j \in 1 .. k - 1 : t[j].id # t[k].id /\ t[j].handle # t[k].handle
    <3>1. \A j \in 1 .. k - 1 : j \in 1 .. n /\ j # k
      OBVIOUS
    <3> QED
      BY <3>1 DEF Cut, Wire!Named
  <2> QED
    BY <1>15, <2>1, <2>2 DEF Wire!Covered
<1> QED
  BY <1>13, <1>16 DEF o, l

\* The one pass over the sorted segments ends at to if and only if they cut the range.
LEMMA CoverEndIffCut ==
  ASSUME NEW n \in Nat, n > 0, NEW s \in [1 .. n -> Wire!Segments],
         NEW start \in Nat, NEW to \in Nat, NEW g
  PROVE  Wire!CoverEnd(s, start, g) = to <=> Cut(s, start, to, g)
<1>1. PICK p : Rearranged(s, n, p, Wire!ByOffset(s))
  BY ByOffsetSorts
<1>2. PICK t : t = Wire!ByOffset(s)
  OBVIOUS
<1>3. t \in [1 .. n -> Wire!Segments] /\ Sorted(t, n)
  <2>1. Sorted(t, n)
    BY <1>2, ByOffsetSorts
  <2>2. t = [i \in 1 .. n |-> s[p[i]]] /\ p \in [1 .. n -> 1 .. n]
    BY <1>1, <1>2 DEF Rearranged
  <2> QED
    BY <2>1, <2>2
<1>4. Cut(s, start, to, g) <=> Cut(t, start, to, g)
  BY <1>1, <1>2, RearrangedCut
<1>5. Wire!CoverEnd(s, start, g) = EndAt(t, start, n, g)
  BY <1>2, CoverEndIs
<1>6. Cut(t, start, to, g) => EndAt(t, start, n, g) = to
  BY <1>3, CutIsDense DEF EndAt
<1>7. EndAt(t, start, n, g) = to => Cut(t, start, to, g)
  <2> SUFFICES ASSUME EndAt(t, start, n, g) = to PROVE Cut(t, start, to, g)
    OBVIOUS
  <2>1. Dense(t, start, n, g) /\ to = t[n].offset + t[n].length
    BY DEF EndAt
  <2> QED
    BY <1>3, <2>1, DenseIsCut
<1> QED
  BY <1>4, <1>5, <1>6, <1>7

LEMMA WireList ==
  ASSUME NEW s \in Wire!BoundedSeq(Wire!Segments, MaxSegments)
  PROVE  \E n \in Nat : s \in [1 .. n -> Wire!Segments] /\ (s # <<>> <=> n > 0)
<1>1. PICK n \in 0 .. MaxSegments : s \in [1 .. n -> Wire!Segments]
  BY DEF Wire!BoundedSeq, Wire!SeqOf
<1>2. n \in Nat /\ MaxSegments \in Nat
  BY WireConstants
<1>3. s = <<>> <=> n = 0
  <2>1. n = 0 => s = <<>>
    BY <1>1
  <2>2. n # 0 => 1 \in DOMAIN s
    BY <1>1, <1>2
  <2> QED
    BY <2>1, <2>2
<1> QED
  BY <1>1, <1>2, <1>3

LEMMA CutList ==
  ASSUME NEW s \in Wire!BoundedSeq(Wire!Segments, MaxSegments), s # <<>>,
         NEW start \in Nat, NEW to \in Nat, NEW g
  PROVE  Wire!CoverEnd(s, start, g) = to <=> Cut(s, start, to, g)
BY WireList, CoverEndIffCut

LEMMA Times ==
  ASSUME NEW a \in Nat, NEW b \in Nat, NEW stride \in Nat, stride > 0
  PROVE  /\ a * stride \in Nat
         /\ a < b <=> a * stride < b * stride
         /\ a > 0 => a * stride > 0
<1>2. \A c, d \in Nat : c < d => c * stride < d * stride
  <2> SUFFICES ASSUME NEW c \in Nat, NEW d \in Nat, c < d PROVE c * stride < d * stride
    OBVIOUS
  <2>1. PICK x \in Nat : d = c + x /\ x > 0
    <3>1. d - c \in Nat /\ d = c + (d - c) /\ d - c > 0
      OBVIOUS
    <3> QED
      BY <3>1
  <2>2. d * stride = c * stride + x * stride /\ c * stride \in Nat
    BY <2>1
  <2>3. x * stride > 0 /\ x * stride \in Nat
    BY <2>1
  <2> QED
    BY <2>2, <2>3
<1>3. a * stride \in Nat /\ b * stride \in Nat
  OBVIOUS
<1>4. a < b \/ a = b \/ b < a
  OBVIOUS
<1>5. 0 * stride = 0
  OBVIOUS
<1> QED
  BY <1>2, <1>3, <1>4, <1>5

\* The range an operation says it changes.
LEMMA WireBounds ==
  ASSUME NEW o \in Wire!Operations, NEW from, from = o.from * o.header.stride,
         NEW target, target = o.target * o.header.stride
  PROVE  /\ from \in Nat /\ target \in Nat
         /\ o.segments \in Wire!BoundedSeq(Wire!Segments, MaxSegments)
         /\ Wire!Lower(o) \in Nat /\ Wire!Upper(o) \in Nat
         /\ o.from # o.target => Wire!Lower(o) < Wire!Upper(o)
         /\ o.from < o.target => Wire!Lower(o) = from /\ Wire!Upper(o) = target
         /\ o.target < o.from => Wire!Lower(o) = target /\ Wire!Upper(o) = from
<1>1. /\ o.from \in Nat /\ o.target \in Nat
      /\ o.header.stride \in Nat /\ o.header.stride > 0
      /\ o.segments \in Wire!BoundedSeq(Wire!Segments, MaxSegments)
  BY WireConstants DEF Wire!Operations
<1>3. /\ Wire!Lower(o) = (IF o.from < o.target THEN from ELSE target)
      /\ Wire!Upper(o) = (IF o.from < o.target THEN target ELSE from)
  BY DEF Wire!Lower, Wire!Upper
<1>4. /\ from \in Nat /\ target \in Nat
      /\ o.from < o.target => from < target
      /\ o.target < o.from => target < from
  BY <1>1, Times
<1>5. o.from < o.target \/ o.from = o.target \/ o.target < o.from
  BY <1>1
<1>6. o.target < o.from => ~(o.from < o.target)
  BY <1>1
<1> QED
  BY <1>1, <1>3, <1>4, <1>5, <1>6

\* A range that is not empty takes a segment.
LEMMA CutTakesOne ==
  ASSUME NEW s, NEW from \in Nat, NEW to \in Nat, from < to, Wire!Partition(s, from, to)
  PROVE  s # <<>>
<1>1. from \in from .. to - 1
  OBVIOUS
<1>2. PICK k \in DOMAIN s : from \in Wire!Bytes(s[k])
  <2>1. UNION {Wire!Bytes(s[k]) : k \in DOMAIN s} = from .. to - 1
    BY DEF Wire!Partition
  <2>2. from \in UNION {Wire!Bytes(s[k]) : k \in DOMAIN s}
    BY <1>1, <2>1
  <2> QED
    BY <2>2
<1> QED
  BY <1>2

LEMMA WireAccepts ==
  ASSUME offer \in Wire!Operations
  PROVE  Wire!AcceptedIffPartition
<1>1. PICK o : o = offer
  OBVIOUS
<1> SUFFICES ASSUME o.from # o.target
             PROVE  Wire!ResizeAccepted(o) <=>
                      /\ Wire!Lower(o) % o.header.grain = 0
                      /\ Wire!Upper(o) % o.header.grain = 0
                      /\ \/ /\ o.stage = (IF o.target > o.from THEN "map_workers"
                                                               ELSE "unmap_workers")
                            /\ Wire!Partition(o.segments, Wire!Lower(o), Wire!Upper(o))
                            /\ Wire!Named(o.segments)
                            /\ Wire!Grained(o.segments, o.header.grain)
                         \/ /\ o.stage = (IF o.target > o.from THEN "activate_scheduler"
                                                               ELSE "retire_scheduler")
                            /\ o.segments = <<>>
  BY <1>1 DEF Wire!AcceptedIffPartition
<1>2. /\ o.segments \in Wire!BoundedSeq(Wire!Segments, MaxSegments)
      /\ Wire!Lower(o) \in Nat /\ Wire!Upper(o) \in Nat /\ Wire!Lower(o) < Wire!Upper(o)
  BY <1>1, WireBounds
<1>3. o.segments # <<>> =>
        (Wire!CoverEnd(o.segments, Wire!Lower(o), o.header.grain) = Wire!Upper(o)
           <=> Cut(o.segments, Wire!Lower(o), Wire!Upper(o), o.header.grain))
  BY <1>2, CutList
<1>4. Wire!Partition(o.segments, Wire!Lower(o), Wire!Upper(o)) => o.segments # <<>>
  BY <1>2, CutTakesOne
<1> QED
  BY <1>3, <1>4 DEF Wire!ResizeAccepted, Wire!Physical, Cut

\* The entries of a table cut the bytes below end.
Tiled(tab, end) ==
  /\ UNION {Wire!Bytes(tab[i]) : i \in DOMAIN tab} = 0 .. end - 1
  /\ \A i, j \in DOMAIN tab : i # j => Wire!Bytes(tab[i]) \cap Wire!Bytes(tab[j]) = {}

TableOK(tab) ==
  /\ DOMAIN tab \subseteq Ids
  /\ \A i \in DOMAIN tab : tab[i] \in [offset : Offsets, length : Lengths]

\* No byte is mapped twice, or outside the virtual range.
Apart(tab) ==
  /\ \A i \in DOMAIN tab : Wire!Bytes(tab[i]) \subseteq 0 .. Wire!Virtual - 1
  /\ \A i, j \in DOMAIN tab : i # j => Wire!Bytes(tab[i]) \cap Wire!Bytes(tab[j]) = {}

WireInv ==
  /\ Wire!TypeOK
  /\ Apart(segments)
  /\ inStep => Tiled(segments, mapped_bytes)
  /\ wire_pc = "offered" => offer \in Wire!Operations

LEMMA WireVirtual == Wire!Virtual \in Nat
BY WireConstants DEF Wire!Virtual

LEMMA WireInit == Wire!Init => WireInv
<1> SUFFICES ASSUME Wire!Init PROVE WireInv
  OBVIOUS
<1>1. Wire!TypeOK
  BY WireVirtual DEF Wire!Init, Wire!TypeOK
<1>2. DOMAIN segments = {} /\ mapped_bytes = 0
  BY DEF Wire!Init
<1>3. Tiled(segments, mapped_bytes) /\ Apart(segments)
  <2>1. 0 .. mapped_bytes - 1 = {}
    BY <1>2
  <2> QED
    BY <1>2, <2>1 DEF Tiled, Apart
<1> QED
  BY <1>1, <1>3 DEF Wire!Init, WireInv

LEMMA WireImplies == WireInv => Wire!MessagesArePartitions
<1> SUFFICES ASSUME WireInv PROVE Wire!MessagesArePartitions
  OBVIOUS
<1>1. Wire!AcceptedIffPartition
  <2>1. CASE wire_pc = "offered"
    BY <2>1, WireAccepts DEF WireInv
  <2>2. CASE wire_pc # "offered"
    BY <2>2 DEF Wire!AcceptedIffPartition
  <2> QED
    BY <2>1, <2>2
<1>2. Wire!MappedIsPartitioned
  BY DEF WireInv, Wire!MappedIsPartitioned, Tiled, Apart
<1> QED
  BY <1>1, <1>2 DEF WireInv, Wire!MessagesArePartitions

\* The table made of a list with ids of its own has one entry for each segment.
LEMMA EntriesOf ==
  ASSUME NEW s \in Wire!BoundedSeq(Wire!Segments, MaxSegments), Wire!Named(s)
  PROVE  /\ DOMAIN Wire!Entries(s) = {s[k].id : k \in DOMAIN s}
         /\ \A k \in DOMAIN s : Wire!Entries(s)[s[k].id] = Wire!Entry(s[k])
         /\ TableOK(Wire!Entries(s))
<1>1. PICK n \in Nat : s \in [1 .. n -> Wire!Segments]
  BY WireList
<1>2. \A k \in DOMAIN s : s[k] \in Wire!Segments
  BY <1>1
<1>3. DOMAIN Wire!Entries(s) = {s[k].id : k \in DOMAIN s}
  BY DEF Wire!Entries
<1>4. ASSUME NEW k \in DOMAIN s PROVE Wire!Entries(s)[s[k].id] = Wire!Entry(s[k])
  <2>1. s[k].id \in {s[j].id : j \in DOMAIN s}
    OBVIOUS
  <2>2. (CHOOSE j \in DOMAIN s : s[j].id = s[k].id) = k
    <3>1. \A j \in DOMAIN s : s[j].id = s[k].id => j = k
      BY DEF Wire!Named
    <3> QED
      BY <3>1
  <2> QED
    BY <2>1, <2>2 DEF Wire!Entries
<1>5. TableOK(Wire!Entries(s))
  <2>1. \A k \in DOMAIN s : /\ s[k].id \in Ids
                            /\ Wire!Entry(s[k]) \in [offset : Offsets, length : Lengths]
    BY <1>2, WireSegment DEF Wire!Entry
  <2>2. ASSUME NEW i \in DOMAIN Wire!Entries(s)
        PROVE  i \in Ids /\ Wire!Entries(s)[i] \in [offset : Offsets, length : Lengths]
    <3>1. PICK k \in DOMAIN s : i = s[k].id
      BY <1>3
    <3> QED
      BY <1>4, <2>1, <3>1
  <2> QED
    BY <2>2 DEF TableOK
<1> QED
  BY <1>3, <1>4, <1>5

LEMMA EntryBytes == \A s : Wire!Bytes(Wire!Entry(s)) = Wire!Bytes(s)
BY DEF Wire!Bytes, Wire!Entry

\* What the entries made of a list cover is what the list covers.
LEMMA EntriesTile ==
  ASSUME NEW s \in Wire!BoundedSeq(Wire!Segments, MaxSegments),
         NEW from, NEW to, NEW g, Cut(s, from, to, g), NEW e, e = Wire!Entries(s)
  PROVE  /\ UNION {Wire!Bytes(e[i]) : i \in DOMAIN e} = from .. to - 1
         /\ \A i, j \in DOMAIN e : i # j => Wire!Bytes(e[i]) \cap Wire!Bytes(e[j]) = {}
<1>1. /\ DOMAIN e = {s[k].id : k \in DOMAIN s}
      /\ \A k \in DOMAIN s : e[s[k].id] = Wire!Entry(s[k])
  BY EntriesOf DEF Cut
<1>2. \A i \in DOMAIN e : \E k \in DOMAIN s : i = s[k].id /\ Wire!Bytes(e[i]) = Wire!Bytes(s[k])
  <2> SUFFICES ASSUME NEW i \in DOMAIN e
               PROVE  \E k \in DOMAIN s : i = s[k].id /\ Wire!Bytes(e[i]) = Wire!Bytes(s[k])
    OBVIOUS
  <2>1. PICK k \in DOMAIN s : i = s[k].id
    BY <1>1
  <2>2. Wire!Bytes(e[i]) = Wire!Bytes(s[k])
    BY <1>1, <2>1, EntryBytes
  <2> QED
    BY <2>1, <2>2
<1>3. \A k \in DOMAIN s : \E i \in DOMAIN e : Wire!Bytes(e[i]) = Wire!Bytes(s[k])
  <2> SUFFICES ASSUME NEW k \in DOMAIN s
               PROVE  \E i \in DOMAIN e : Wire!Bytes(e[i]) = Wire!Bytes(s[k])
    OBVIOUS
  <2>1. s[k].id \in DOMAIN e /\ Wire!Bytes(e[s[k].id]) = Wire!Bytes(s[k])
    BY <1>1, EntryBytes
  <2> QED
    BY <2>1
<1>4. {Wire!Bytes(e[i]) : i \in DOMAIN e} = {Wire!Bytes(s[k]) : k \in DOMAIN s}
  <2>1. {Wire!Bytes(e[i]) : i \in DOMAIN e} \subseteq {Wire!Bytes(s[k]) : k \in DOMAIN s}
    BY <1>2
  <2>2. {Wire!Bytes(s[k]) : k \in DOMAIN s} \subseteq {Wire!Bytes(e[i]) : i \in DOMAIN e}
    <3> SUFFICES ASSUME NEW k \in DOMAIN s
                 PROVE  Wire!Bytes(s[k]) \in {Wire!Bytes(e[i]) : i \in DOMAIN e}
      OBVIOUS
    <3>1. PICK i \in DOMAIN e : Wire!Bytes(e[i]) = Wire!Bytes(s[k])
      BY <1>3
    <3> QED
      BY <3>1
  <2> QED
    BY <2>1, <2>2
<1>5. ASSUME NEW i \in DOMAIN e, NEW j \in DOMAIN e, i # j
      PROVE  Wire!Bytes(e[i]) \cap Wire!Bytes(e[j]) = {}
  <2>1. PICK a \in DOMAIN s : i = s[a].id /\ Wire!Bytes(e[i]) = Wire!Bytes(s[a])
    BY <1>2
  <2>2. PICK b \in DOMAIN s : j = s[b].id /\ Wire!Bytes(e[j]) = Wire!Bytes(s[b])
    BY <1>2
  <2>3. a # b
    BY <1>5, <2>1, <2>2
  <2>4. Wire!Bytes(s[a]) \cap Wire!Bytes(s[b]) = {}
    BY <2>3 DEF Cut, Wire!Partition
  <2> QED
    BY <2>1, <2>2, <2>4
<1> QED
  BY <1>4, <1>5 DEF Cut, Wire!Partition

\* A table that cuts the bytes below mid and one with other ids that cuts the bytes
\* from there to end: together they cut the bytes below end.
LEMMA TilesJoin ==
  ASSUME NEW tab, NEW more, NEW mid \in Nat, NEW end \in Nat, mid <= end,
         Tiled(tab, mid), DOMAIN tab \cap DOMAIN more = {},
         UNION {Wire!Bytes(more[i]) : i \in DOMAIN more} = mid .. end - 1,
         \A i, j \in DOMAIN more : i # j => Wire!Bytes(more[i]) \cap Wire!Bytes(more[j]) = {},
         NEW both,
         both = [i \in DOMAIN tab \cup DOMAIN more |->
                   IF i \in DOMAIN more THEN more[i] ELSE tab[i]]
  PROVE  Tiled(both, end)
<1>1. /\ DOMAIN both = DOMAIN tab \cup DOMAIN more
      /\ \A i \in DOMAIN tab : both[i] = tab[i]
      /\ \A i \in DOMAIN more : both[i] = more[i]
  OBVIOUS
<1>2. UNION {Wire!Bytes(tab[i]) : i \in DOMAIN tab} = 0 .. mid - 1
  BY DEF Tiled
<1>3. UNION {Wire!Bytes(both[i]) : i \in DOMAIN both}
        = (UNION {Wire!Bytes(tab[i]) : i \in DOMAIN tab})
            \cup (UNION {Wire!Bytes(more[i]) : i \in DOMAIN more})
  <2>1. ASSUME NEW x, NEW i \in DOMAIN both, x \in Wire!Bytes(both[i])
        PROVE  \/ x \in UNION {Wire!Bytes(tab[j]) : j \in DOMAIN tab}
               \/ x \in UNION {Wire!Bytes(more[j]) : j \in DOMAIN more}
    BY <1>1, <2>1
  <2>2. ASSUME NEW x, NEW i \in DOMAIN tab, x \in Wire!Bytes(tab[i])
        PROVE  x \in UNION {Wire!Bytes(both[j]) : j \in DOMAIN both}
    <3>1. i \in DOMAIN both /\ x \in Wire!Bytes(both[i])
      BY <1>1, <2>2
    <3> QED
      BY <3>1
  <2>3. ASSUME NEW x, NEW i \in DOMAIN more, x \in Wire!Bytes(more[i])
        PROVE  x \in UNION {Wire!Bytes(both[j]) : j \in DOMAIN both}
    <3>1. i \in DOMAIN both /\ x \in Wire!Bytes(both[i])
      BY <1>1, <2>3
    <3> QED
      BY <3>1
  <2> QED
    BY <2>1, <2>2, <2>3
<1>4. (0 .. mid - 1) \cup (mid .. end - 1) = 0 .. end - 1
  OBVIOUS
<1>5. UNION {Wire!Bytes(both[i]) : i \in DOMAIN both} = 0 .. end - 1
  BY <1>2, <1>3, <1>4
<1>6. \A i \in DOMAIN tab : Wire!Bytes(tab[i]) \subseteq 0 .. mid - 1
  BY <1>2
<1>7. \A i \in DOMAIN more : Wire!Bytes(more[i]) \subseteq mid .. end - 1
  OBVIOUS
<1>8. (0 .. mid - 1) \cap (mid .. end - 1) = {}
  OBVIOUS
<1>9. ASSUME NEW i \in DOMAIN both, NEW j \in DOMAIN both, i # j
      PROVE  Wire!Bytes(both[i]) \cap Wire!Bytes(both[j]) = {}
  <2>1. CASE i \in DOMAIN tab /\ j \in DOMAIN tab
    BY <1>1, <1>9, <2>1 DEF Tiled
  <2>2. CASE i \in DOMAIN more /\ j \in DOMAIN more
    BY <1>1, <1>9, <2>2
  <2>3. CASE i \in DOMAIN tab /\ j \in DOMAIN more
    BY <1>1, <1>6, <1>7, <1>8, <2>3
  <2>4. CASE i \in DOMAIN more /\ j \in DOMAIN tab
    BY <1>1, <1>6, <1>7, <1>8, <2>4
  <2> QED
    BY <1>1, <2>1, <2>2, <2>3, <2>4
<1> QED
  BY <1>5, <1>9 DEF Tiled

\* What is left of a table that cuts the bytes below end without the entries that
\* cut those from mid on.
LEMMA TilesDrop ==
  ASSUME NEW tab, NEW ids \in SUBSET DOMAIN tab, NEW mid \in Nat, NEW end \in Nat,
         mid <= end, Tiled(tab, end),
         UNION {Wire!Bytes(tab[i]) : i \in ids} = mid .. end - 1,
         NEW left, left = [i \in DOMAIN tab \ ids |-> tab[i]]
  PROVE  Tiled(left, mid)
<1>1. DOMAIN left = DOMAIN tab \ ids /\ \A i \in DOMAIN left : left[i] = tab[i]
  OBVIOUS
<1>2. UNION {Wire!Bytes(tab[i]) : i \in DOMAIN tab} = 0 .. end - 1
  BY DEF Tiled
<1>3. \A i, j \in DOMAIN tab : i # j => Wire!Bytes(tab[i]) \cap Wire!Bytes(tab[j]) = {}
  BY DEF Tiled
<1>4. ASSUME NEW x, NEW i \in DOMAIN left, x \in Wire!Bytes(left[i])
      PROVE  x \in 0 .. mid - 1
  <2>1. x \in Wire!Bytes(tab[i]) /\ i \in DOMAIN tab /\ i \notin ids
    BY <1>1, <1>4
  <2>2. x \in 0 .. end - 1
    BY <1>2, <2>1
  <2>3. x \notin mid .. end - 1
    <3> SUFFICES ASSUME x \in mid .. end - 1 PROVE FALSE
      OBVIOUS
    <3>1. PICK j \in ids : x \in Wire!Bytes(tab[j])
      <4>1. x \in UNION {Wire!Bytes(tab[j]) : j \in ids}
        OBVIOUS
      <4> QED
        BY <4>1
    <3> QED
      BY <1>3, <2>1, <3>1
  <2> QED
    BY <2>2, <2>3
<1>5. ASSUME NEW x \in 0 .. mid - 1
      PROVE  x \in UNION {Wire!Bytes(left[i]) : i \in DOMAIN left}
  <2>1. x \in 0 .. end - 1 /\ x \notin mid .. end - 1
    OBVIOUS
  <2>2. PICK i \in DOMAIN tab : x \in Wire!Bytes(tab[i])
    <3>1. x \in UNION {Wire!Bytes(tab[j]) : j \in DOMAIN tab}
      BY <1>2, <2>1
    <3> QED
      BY <3>1
  <2>3. i \notin ids
    <3> SUFFICES ASSUME i \in ids PROVE FALSE
      OBVIOUS
    <3>1. x \in UNION {Wire!Bytes(tab[j]) : j \in ids}
      BY <2>2
    <3> QED
      BY <2>1, <3>1
  <2>4. i \in DOMAIN left /\ x \in Wire!Bytes(left[i])
    BY <1>1, <2>2, <2>3
  <2> QED
    BY <2>4
<1>6. UNION {Wire!Bytes(left[i]) : i \in DOMAIN left} = 0 .. mid - 1
  <2>1. UNION {Wire!Bytes(left[i]) : i \in DOMAIN left} \subseteq 0 .. mid - 1
    BY <1>4
  <2>2. 0 .. mid - 1 \subseteq UNION {Wire!Bytes(left[i]) : i \in DOMAIN left}
    BY <1>5
  <2> QED
    BY <2>1, <2>2
<1>7. \A i, j \in DOMAIN left : i # j => Wire!Bytes(left[i]) \cap Wire!Bytes(left[j]) = {}
  BY <1>1, <1>3
<1> QED
  BY <1>6, <1>7 DEF Tiled

\* A table made of pieces of a range below the end of the virtual one.
LEMMA TiledIsApart ==
  ASSUME NEW tab, NEW end \in Nat, end <= Wire!Virtual, Tiled(tab, end)
  PROVE  Apart(tab)
<1>1. 0 .. end - 1 \subseteq 0 .. Wire!Virtual - 1
  BY WireVirtual
<1>2. \A i \in DOMAIN tab : Wire!Bytes(tab[i]) \subseteq 0 .. end - 1
  BY DEF Tiled
<1> QED
  BY <1>1, <1>2 DEF Tiled, Apart

LEMMA WireRegister == ASSUME WireInv, Wire!Register PROVE WireInv'
<1>1. wire_pc = "register" /\ UNCHANGED <<offer, inStep>>
  BY DEF Wire!Register
<1>2. PICK p \in Wire!Pools, n \in 0 .. MaxSegments :
        IF Wire!ElasticPoolAccepted(p) /\ Wire!Referenced(p.segments) = 0 .. n - 1
        THEN /\ wire_pc' = "open" /\ segments' = Wire!Entries(p.segments)
             /\ mapped_bytes' = p.mapped * Stride
        ELSE wire_pc' = "failed" /\ UNCHANGED <<segments, mapped_bytes>>
  BY DEF Wire!Register
<1>3. CASE wire_pc' = "failed" /\ UNCHANGED <<segments, mapped_bytes>>
  <2>1. Wire!TypeOK'
    BY <1>1, <1>3 DEF WireInv, Wire!TypeOK
  <2>2. Apart(segments)' /\ (inStep => Tiled(segments, mapped_bytes))'
    BY <1>1, <1>3 DEF WireInv, Tiled, Apart
  <2> QED
    BY <1>3, <2>1, <2>2 DEF WireInv
<1>4. CASE /\ Wire!ElasticPoolAccepted(p)
           /\ wire_pc' = "open" /\ segments' = Wire!Entries(p.segments)
           /\ mapped_bytes' = p.mapped * Stride
  <2>1. /\ p.mapped \in 1 .. MaxBlocks /\ p.segments # <<>>
        /\ p.segments \in Wire!BoundedSeq(Wire!Segments, MaxSegments)
        /\ Wire!CoverEnd(p.segments, 0, Grain) = p.mapped * Stride
    BY <1>4 DEF Wire!Pools, Wire!ElasticPoolAccepted
  <2>2. p.mapped \in Nat /\ MaxBlocks \in Nat /\ ~(MaxBlocks < p.mapped)
    BY <2>1, WireConstants
  <2>3. p.mapped * Stride \in 0 .. MaxBlocks * Stride
    BY <2>2, Times, WireConstants
  <2>4. Cut(p.segments, 0, p.mapped * Stride, Grain)
    BY <2>1, <2>3, CutList
  <2>5. TableOK(Wire!Entries(p.segments))
    BY <2>1, <2>4, EntriesOf DEF Cut
  <2>6. Tiled(Wire!Entries(p.segments), p.mapped * Stride)
    BY <2>1, <2>4, EntriesTile DEF Tiled
  <2>7. Wire!TypeOK'
    BY <1>1, <1>4, <2>3, <2>5 DEF WireInv, Wire!TypeOK, Wire!Virtual, TableOK
  <2>8. Apart(Wire!Entries(p.segments))
    <3>1. p.mapped * Stride \in Nat /\ p.mapped * Stride <= Wire!Virtual
      BY <2>3 DEF Wire!Virtual
    <3> QED
      BY <2>6, <3>1, TiledIsApart
  <2>9. Apart(segments)' /\ Tiled(segments, mapped_bytes)'
    BY <1>4, <2>6, <2>8 DEF Tiled, Apart
  <2> QED
    BY <1>4, <2>7, <2>9 DEF WireInv
<1> QED
  BY <1>2, <1>3, <1>4

LEMMA WireOffer == ASSUME WireInv, Wire!Offer PROVE WireInv'
<1>1. /\ wire_pc = "open" /\ wire_pc' = "offered"
      /\ offer' \in Wire!Operations
      /\ UNCHANGED <<segments, mapped_bytes, inStep>>
  BY DEF Wire!Offer
<1>2. Wire!TypeOK'
  BY <1>1 DEF WireInv, Wire!TypeOK
<1>3. Apart(segments)' /\ (inStep => Tiled(segments, mapped_bytes))'
  BY <1>1 DEF WireInv, Tiled, Apart
<1> QED
  BY <1>1, <1>2, <1>3 DEF WireInv

\* An operation with segments that is accepted cuts the range it says it changes.
LEMMA AcceptedIsCut ==
  ASSUME NEW o \in Wire!Operations, Wire!ResizeAccepted(o), Wire!Physical(o)
  PROVE  Cut(o.segments, Wire!Lower(o), Wire!Upper(o), o.header.grain)
<1>1. /\ o.segments # <<>>
      /\ Wire!CoverEnd(o.segments, Wire!Lower(o), o.header.grain) = Wire!Upper(o)
  BY DEF Wire!ResizeAccepted, Wire!Physical
<1> QED
  BY <1>1, WireBounds, CutList

\* The importer adds segments to its table only where nothing is mapped.
LEMMA MappedApart ==
  ASSUME NEW o \in Wire!Operations, NEW from, NEW to, NEW g,
         Cut(o.segments, from, to, g), Wire!Mappable(o), Apart(segments),
         NEW more, more = Wire!Entries(o.segments),
         NEW both, both = [i \in DOMAIN segments \cup DOMAIN more |->
                             IF i \in DOMAIN more THEN more[i] ELSE segments[i]]
  PROVE  Apart(both)
<1>1. /\ DOMAIN both = DOMAIN segments \cup DOMAIN more
      /\ \A i \in DOMAIN more : both[i] = more[i]
      /\ \A i \in DOMAIN segments \ DOMAIN more : both[i] = segments[i]
  OBVIOUS
<1>2. o.segments \in Wire!BoundedSeq(Wire!Segments, MaxSegments)
  BY DEF Wire!Operations
<1>3. PICK n \in Nat : o.segments \in [1 .. n -> Wire!Segments]
  BY <1>2, WireList
<1>4. \A i \in DOMAIN more : \E k \in DOMAIN o.segments :
        Wire!Bytes(more[i]) = Wire!Bytes(o.segments[k])
  <2> SUFFICES ASSUME NEW i \in DOMAIN more
               PROVE  \E k \in DOMAIN o.segments :
                        Wire!Bytes(more[i]) = Wire!Bytes(o.segments[k])
    OBVIOUS
  <2>1. /\ DOMAIN more = {o.segments[k].id : k \in DOMAIN o.segments}
        /\ \A k \in DOMAIN o.segments : more[o.segments[k].id] = Wire!Entry(o.segments[k])
    BY <1>2, EntriesOf DEF Cut
  <2>2. PICK k \in DOMAIN o.segments : i = o.segments[k].id
    BY <2>1
  <2> QED
    BY <2>1, <2>2, EntryBytes
<1>5. \A i, j \in DOMAIN more : i # j => Wire!Bytes(more[i]) \cap Wire!Bytes(more[j]) = {}
  BY <1>2, EntriesTile
<1>6. \A k \in DOMAIN o.segments : Wire!Bytes(o.segments[k]) \subseteq 0 .. Wire!Virtual - 1
  <2> SUFFICES ASSUME NEW k \in DOMAIN o.segments
               PROVE  Wire!Bytes(o.segments[k]) \subseteq 0 .. Wire!Virtual - 1
    OBVIOUS
  <2>1. o.segments[k].offset \in Nat /\ o.segments[k].length \in Nat
    BY <1>3, WireSegment
  <2>2. o.segments[k].offset + o.segments[k].length <= Wire!Virtual
    BY DEF Wire!Mappable
  <2> QED
    BY <2>1, <2>2, WireVirtual DEF Wire!Bytes
<1>7. \A k \in DOMAIN o.segments, i \in DOMAIN segments :
        Wire!Bytes(o.segments[k]) \cap Wire!Bytes(segments[i]) = {}
  BY DEF Wire!Mappable
<1>8. ASSUME NEW i \in DOMAIN both
      PROVE  Wire!Bytes(both[i]) \subseteq 0 .. Wire!Virtual - 1
  <2>1. CASE i \in DOMAIN more
    BY <1>1, <1>4, <1>6, <2>1
  <2>2. CASE i \notin DOMAIN more
    BY <1>1, <2>2 DEF Apart
  <2> QED
    BY <2>1, <2>2
<1>9. ASSUME NEW i \in DOMAIN more, NEW j \in DOMAIN segments
      PROVE  Wire!Bytes(more[i]) \cap Wire!Bytes(segments[j]) = {}
  <2>1. PICK k \in DOMAIN o.segments : Wire!Bytes(more[i]) = Wire!Bytes(o.segments[k])
    BY <1>4
  <2> QED
    BY <1>7, <2>1
<1>10. ASSUME NEW i \in DOMAIN both, NEW j \in DOMAIN both, i # j
       PROVE  Wire!Bytes(both[i]) \cap Wire!Bytes(both[j]) = {}
  <2>1. CASE i \in DOMAIN more /\ j \in DOMAIN more
    BY <1>1, <1>5, <1>10, <2>1
  <2>2. CASE i \in DOMAIN more /\ j \notin DOMAIN more
    BY <1>1, <1>9, <2>2
  <2>3. CASE i \notin DOMAIN more /\ j \in DOMAIN more
    <3>1. Wire!Bytes(both[j]) \cap Wire!Bytes(both[i]) = {}
      BY <1>1, <1>9, <2>3
    <3> QED
      BY <3>1
  <2>4. CASE i \notin DOMAIN more /\ j \notin DOMAIN more
    BY <1>1, <1>10, <2>4 DEF Apart
  <2> QED
    BY <2>1, <2>2, <2>3, <2>4
<1> QED
  BY <1>8, <1>10 DEF Apart

LEMMA WireApply ==
  ASSUME WireInv, NEW handed \in 0 .. MaxSegments, Wire!ApplyResize(handed)
  PROVE  WireInv'
<1>1. wire_pc = "offered" /\ offer' = Wire!NoOffer
  BY DEF Wire!ApplyResize, Wire!Respond
<1>2. offer \in Wire!Operations
  BY <1>1 DEF WireInv
<1>3. PICK o : o = offer
  OBVIOUS
<1>4. PICK from, target : from = o.from * o.header.stride /\ target = o.target * o.header.stride
  OBVIOUS
<1>5. /\ from \in Nat /\ target \in Nat
      /\ o.segments \in Wire!BoundedSeq(Wire!Segments, MaxSegments)
      /\ o.from < o.target => Wire!Lower(o) = from /\ Wire!Upper(o) = target
      /\ o.target < o.from => Wire!Lower(o) = target /\ Wire!Upper(o) = from
  BY <1>2, <1>3, <1>4, WireBounds
<1>6. \/ wire_pc' = "failed" /\ UNCHANGED <<segments, mapped_bytes>> /\ inStep' = inStep
      \/ /\ wire_pc' = "open" /\ Wire!ResizeAccepted(o) /\ mapped_bytes' = target
         /\ inStep' = (inStep /\ from = mapped_bytes)
         /\ \/ /\ o.stage = "map_workers" /\ Wire!Mappable(o)
               /\ segments' = Wire!With(Wire!Entries(o.segments))
            \/ /\ o.stage = "unmap_workers" /\ Wire!Unmappable(o)
               /\ segments' = Wire!Without({o.segments[k].id : k \in DOMAIN o.segments})
  <2>1. inStep \in BOOLEAN
    BY DEF WireInv, Wire!TypeOK
  <2> QED
    BY <1>3, <1>4, <2>1 DEF Wire!ApplyResize, Wire!Respond
<1>7. /\ TableOK(segments) /\ Apart(segments) /\ inStep \in BOOLEAN
      /\ inStep => Tiled(segments, mapped_bytes)
      /\ mapped_bytes \in 0 .. Wire!Virtual /\ mapped_bytes \in Nat
  BY WireVirtual DEF WireInv, Wire!TypeOK, TableOK
<1>8. ASSUME wire_pc' = "open", inStep' \in BOOLEAN, mapped_bytes' \in 0 .. Wire!Virtual,
             TableOK(segments'), Apart(segments'), inStep' => Tiled(segments', mapped_bytes')
      PROVE  WireInv'
  <2>1. Wire!TypeOK'
    BY <1>1, <1>8 DEF Wire!TypeOK, Wire!Virtual, TableOK
  <2>2. Apart(segments)' /\ (inStep => Tiled(segments, mapped_bytes))'
    BY <1>8 DEF Tiled, Apart, Wire!Virtual
  <2> QED
    BY <1>8, <2>1, <2>2 DEF WireInv
<1>9. CASE wire_pc' = "failed" /\ UNCHANGED <<segments, mapped_bytes>> /\ inStep' = inStep
  <2>1. Wire!TypeOK'
    BY <1>1, <1>9 DEF WireInv, Wire!TypeOK
  <2>2. Apart(segments)' /\ (inStep => Tiled(segments, mapped_bytes))'
    BY <1>7, <1>9 DEF Tiled, Apart
  <2> QED
    BY <1>9, <2>1, <2>2 DEF WireInv
<1>10. CASE /\ wire_pc' = "open" /\ Wire!ResizeAccepted(o) /\ mapped_bytes' = target
            /\ inStep' = (inStep /\ from = mapped_bytes)
            /\ o.stage = "map_workers" /\ Wire!Mappable(o)
            /\ segments' = Wire!With(Wire!Entries(o.segments))
  <2>1. PICK more : more = Wire!Entries(o.segments)
    OBVIOUS
  <2>2. o.from < o.target
    <3>1. o.target \in Nat /\ o.from \in Nat
      BY <1>2, <1>3, WireConstants DEF Wire!Operations
    <3> QED
      BY <1>10, <3>1 DEF Wire!ResizeAccepted
  <2>3. Cut(o.segments, from, target, o.header.grain)
    <3>1. Cut(o.segments, Wire!Lower(o), Wire!Upper(o), o.header.grain)
      BY <1>2, <1>3, <1>10, AcceptedIsCut DEF Wire!Physical
    <3> QED
      BY <1>5, <2>2, <3>1
  <2>4. /\ DOMAIN more = {o.segments[k].id : k \in DOMAIN o.segments}
        /\ TableOK(more)
    BY <1>5, <2>1, <2>3, EntriesOf DEF Cut
  <2>5. DOMAIN segments \cap DOMAIN more = {}
    BY <1>10, <2>4 DEF Wire!Mappable
  <2>6. segments' = [i \in DOMAIN segments \cup DOMAIN more |->
                       IF i \in DOMAIN more THEN more[i] ELSE segments[i]]
    BY <1>10, <2>1 DEF Wire!With
  <2>7. TableOK(segments')
    BY <1>7, <2>4, <2>6 DEF TableOK
  <2>8. target \in mapped_bytes + 1 .. Wire!Virtual /\ target \in 0 .. Wire!Virtual
    <3>1. target \in mapped_bytes + 1 .. Wire!Virtual
      BY <1>4, <1>10 DEF Wire!Mappable
    <3> QED
      BY <1>7, <3>1, WireVirtual
  <2>9. Apart(segments')
    <3>1. o \in Wire!Operations /\ Wire!Mappable(o) /\ Apart(segments)
      BY <1>2, <1>3, <1>7, <1>10
    <3>2. ASSUME NEW both, both = [i \in DOMAIN segments \cup DOMAIN more |->
                                     IF i \in DOMAIN more THEN more[i] ELSE segments[i]]
          PROVE  Apart(both)
      BY <2>1, <2>3, <3>1, <3>2, MappedApart
    <3> QED
      BY <2>6, <3>2
  <2>10. ASSUME inStep' PROVE Tiled(segments', mapped_bytes')
    <3>1. from = mapped_bytes /\ Tiled(segments, mapped_bytes)
      BY <1>7, <1>10, <2>10
    <3>2. /\ UNION {Wire!Bytes(more[i]) : i \in DOMAIN more} = mapped_bytes .. target - 1
          /\ \A i, j \in DOMAIN more :
               i # j => Wire!Bytes(more[i]) \cap Wire!Bytes(more[j]) = {}
      BY <1>5, <2>1, <2>3, <3>1, EntriesTile
    <3>3. mapped_bytes <= target
      BY <1>7, <2>8, WireVirtual
    <3>4. Tiled(segments', target)
      BY <1>5, <1>7, <2>5, <2>6, <3>1, <3>2, <3>3, TilesJoin
    <3> QED
      BY <1>10, <3>4
  <2> QED
    BY <1>7, <1>8, <1>10, <2>7, <2>8, <2>9, <2>10
<1>11. CASE /\ wire_pc' = "open" /\ Wire!ResizeAccepted(o) /\ mapped_bytes' = target
            /\ inStep' = (inStep /\ from = mapped_bytes)
            /\ o.stage = "unmap_workers" /\ Wire!Unmappable(o)
            /\ segments' = Wire!Without({o.segments[k].id : k \in DOMAIN o.segments})
  <2>1. PICK ids : ids = {o.segments[k].id : k \in DOMAIN o.segments}
    OBVIOUS
  <2>2. o.target < o.from
    <3>1. o.target \in Nat /\ o.from \in Nat
      BY <1>2, <1>3, WireConstants DEF Wire!Operations
    <3> QED
      BY <1>11, <3>1 DEF Wire!ResizeAccepted
  <2>3. Cut(o.segments, target, from, o.header.grain)
    <3>1. Cut(o.segments, Wire!Lower(o), Wire!Upper(o), o.header.grain)
      BY <1>2, <1>3, <1>11, AcceptedIsCut DEF Wire!Physical
    <3> QED
      BY <1>5, <2>2, <3>1
  <2>4. \A k \in DOMAIN o.segments :
          /\ o.segments[k].id \in DOMAIN segments
          /\ segments[o.segments[k].id] = Wire!Entry(o.segments[k])
    BY <1>11 DEF Wire!Unmappable
  <2>5. ids \in SUBSET DOMAIN segments
    BY <2>1, <2>4
  <2>6. segments' = [i \in DOMAIN segments \ ids |-> segments[i]]
    BY <1>11, <2>1 DEF Wire!Without
  <2>7. TableOK(segments') /\ Apart(segments')
    BY <1>7, <2>6 DEF TableOK, Apart
  <2>8. target \in 1 .. mapped_bytes - 1 /\ target \in 0 .. Wire!Virtual
    <3>1. target \in 1 .. mapped_bytes - 1
      BY <1>4, <1>11 DEF Wire!Unmappable
    <3> QED
      BY <1>7, <3>1, WireVirtual
  <2>9. UNION {Wire!Bytes(segments[i]) : i \in ids} = target .. from - 1
    <3>1. \A k \in DOMAIN o.segments :
            Wire!Bytes(segments[o.segments[k].id]) = Wire!Bytes(o.segments[k])
      BY <2>4, EntryBytes
    <3>2. {Wire!Bytes(segments[i]) : i \in ids}
            = {Wire!Bytes(o.segments[k]) : k \in DOMAIN o.segments}
      <4>1. ASSUME NEW i \in ids
            PROVE  Wire!Bytes(segments[i])
                     \in {Wire!Bytes(o.segments[k]) : k \in DOMAIN o.segments}
        <5>1. PICK k \in DOMAIN o.segments : i = o.segments[k].id
          BY <2>1
        <5> QED
          BY <3>1, <5>1
      <4>2. ASSUME NEW k \in DOMAIN o.segments
            PROVE  Wire!Bytes(o.segments[k]) \in {Wire!Bytes(segments[i]) : i \in ids}
        <5>1. o.segments[k].id \in ids
          BY <2>1
        <5> QED
          BY <3>1, <5>1
      <4> QED
        BY <4>1, <4>2
    <3> QED
      BY <2>3, <3>2 DEF Cut, Wire!Partition
  <2>10. ASSUME inStep' PROVE Tiled(segments', mapped_bytes')
    <3>1. from = mapped_bytes /\ Tiled(segments, mapped_bytes)
      BY <1>7, <1>11, <2>10
    <3>2. target <= mapped_bytes
      BY <1>7, <2>8
    <3>3. UNION {Wire!Bytes(segments[i]) : i \in ids} = target .. mapped_bytes - 1
      BY <2>9, <3>1
    <3>4. Tiled(segments', target)
      BY <1>5, <1>7, <2>5, <2>6, <3>1, <3>2, <3>3, TilesDrop
    <3> QED
      BY <1>11, <3>4
  <2> QED
    BY <1>7, <1>8, <1>11, <2>7, <2>8, <2>10
<1> QED
  BY <1>6, <1>9, <1>10, <1>11

LEMMA WireStep == WireInv /\ [Wire!Next]_wireVars => WireInv'
<1> SUFFICES ASSUME WireInv, [Wire!Next]_wireVars PROVE WireInv'
  OBVIOUS
<1>1. CASE UNCHANGED wireVars
  <2>1. Wire!TypeOK'
    BY <1>1 DEF wireVars, WireInv, Wire!TypeOK
  <2>2. Apart(segments)' /\ (inStep => Tiled(segments, mapped_bytes))'
    BY <1>1 DEF wireVars, WireInv, Tiled, Apart
  <2> QED
    BY <1>1, <2>1, <2>2 DEF wireVars, WireInv
<1> QED
  BY <1>1, WireRegister, WireOffer, WireApply DEF Wire!Next

\* Resize messages, for every pool, stride, granularity and number of segments: in every
\* reachable state an operation is accepted exactly when its segments, in whatever order
\* they came, cut the range it names into pieces of the granularity it names, with ids and
\* handles of their own; no byte is ever mapped twice; and while every operation applied
\* began where the mapping ended, what the worker has mapped is cut the same way from the
\* first byte to the last (validate_resize_operation, _validate_elastic_pool,
\* map_segments, unmap_segments).
THEOREM MessagesArePartitionsHolds == Spec => []MessagesArePartitions
<1>1. Init => WireInv
  BY WireInit DEF Init
<1>2. WireInv /\ [Next]_allVars => WireInv'
  BY WireStep DEF Next, allVars
<1>3. WireInv => MessagesArePartitions
  BY WireImplies DEF MessagesArePartitions
<1> QED
  BY <1>1, <1>2, <1>3, PTL DEF Spec
=============================================================================
