-------------------------- MODULE ElasticBlockPool --------------------------
(* VllmElasticBlockPool over vLLM's BlockPool (shared_pool.py): the free     *)
(* queue, the blocks requests hold and the prefix-cache entries, while the   *)
(* adapter takes tail blocks out of the queue and puts them back, any of     *)
(* those calls failing half-way.  Blocks are numbered from 0; block 0 is     *)
(* vLLM's null block, never in the queue.                                    *)
EXTENDS Integers, FiniteSets

CONSTANTS
  InitialBlocks,  \* blocks served at start
  MaximumBlocks,  \* blocks of the virtual range
  MaxResizes      \* bound: resize attempts

BlockPoolAssumption ==
  /\ InitialBlocks \in Nat /\ MaximumBlocks \in Nat /\ MaxResizes \in Nat
  /\ 1 < InitialBlocks /\ InitialBlocks <= MaximumBlocks

Blocks == 0 .. MaximumBlocks - 1
Below(n) == 1 .. n - 1       \* the usable blocks of a pool of n

VARIABLES
  queue,      \* the blocks in vLLM's free queue
  held,       \* the blocks requests hold (ref_cnt > 0)
  cached,     \* the blocks with prefix-cache metadata
  num_gpu,    \* pool.num_gpu_blocks, as vLLM sees it
  current,    \* current_blocks, as the adapter sees it
  phase,      \* unbound, bound, ambiguous (the engine must restart), or doubled:
              \* vLLM's queue has one block twice, and nothing is known of it
  spill,      \* the blocks above current that a failed append left to vLLM
  resizes

vars == <<queue, held, cached, num_gpu, current, phase, spill, resizes>>

TypeOK ==
  /\ queue \subseteq Blocks /\ held \subseteq Blocks /\ cached \subseteq Blocks
  /\ num_gpu \in 2 .. MaximumBlocks /\ current \in 2 .. MaximumBlocks
  /\ phase \in {"unbound", "bound", "ambiguous", "doubled"}
  /\ spill \subseteq Blocks /\ resizes \in 0 .. MaxResizes

Init ==
  /\ queue = Below(MaximumBlocks) /\ held = {} /\ cached = {}
  /\ num_gpu = MaximumBlocks /\ current = InitialBlocks
  /\ phase = "unbound" /\ spill = {} /\ resizes = 0

\* Take the blocks of tail out of the queue in order.  A remove that fails at k,
\* or a later eviction that fails, puts back what was taken; when that fails too
\* the queue holds some of them and the adapter says so.
\* Mutant: nothing is put back.
RollBack_Forgotten(taken) == queue' = queue \ taken /\ UNCHANGED phase
RollBack(taken) ==
  \/ UNCHANGED <<queue, phase>>
  \/ \E back \in SUBSET taken : queue' = (queue \ taken) \cup back /\ phase' = "ambiguous"

-----------------------------------------------------------------------------

Bind ==
  /\ phase = "unbound"
  /\ LET inactive == InitialBlocks .. MaximumBlocks - 1
     IN /\ held \cap inactive = {}
        /\ queue' = queue \ inactive
  /\ num_gpu' = InitialBlocks /\ phase' = "bound"
  /\ UNCHANGED <<held, cached, current, spill, resizes>>

\* A remove fails at block k: the pool stays unbound, and startup fails with it.
BindFails ==
  /\ phase = "unbound"
  /\ \E k \in InitialBlocks .. MaximumBlocks - 1 : RollBack(InitialBlocks .. k - 1)
  /\ UNCHANGED <<held, cached, num_gpu, current, spill, resizes>>

Resize(target) ==
  /\ phase = "bound" /\ resizes < MaxResizes /\ target \in 2 .. MaximumBlocks
  /\ resizes' = resizes + 1

\* apply with a larger target: append_n of the activated blocks.  Only references are
\* looked at before, so a block that an earlier append left in the queue comes in twice.
Append(blocks) ==
  /\ queue' = queue \cup blocks
  /\ phase' = IF queue \cap blocks = {} THEN phase ELSE "doubled"

Grow(target) ==
  /\ Resize(target) /\ target > current
  /\ held \cap (current .. target - 1) = {}
  /\ Append(current .. target - 1)
  /\ num_gpu' = target /\ current' = target
  /\ spill' = IF phase' = "doubled" THEN spill ELSE spill \ Below(target)
  /\ UNCHANGED <<held, cached>>

\* The append fails at block k: apply raises and takes nothing back.
GrowFails(target) ==
  /\ Resize(target) /\ target > current
  /\ held \cap (current .. target - 1) = {}
  /\ \E k \in current .. target - 1 :
       Append(current .. k - 1) /\ spill' = spill \cup (current .. k - 1)
  /\ UNCHANGED <<held, cached, num_gpu, current>>

\* apply with a smaller target: refused while a block of the tail is held.
Shrink(target) ==
  LET retired == target .. current - 1
  IN /\ Resize(target) /\ target < current
     /\ held \cap retired = {}
     /\ queue' = queue \ retired /\ cached' = cached \ retired
     /\ num_gpu' = target /\ current' = target
     /\ UNCHANGED <<held, phase, spill>>

ShrinkFails(target) ==
  LET retired == target .. current - 1
  IN /\ Resize(target) /\ target < current
     /\ held \cap retired = {}
     /\ \E k \in retired :
          \/ RollBack(target .. k - 1) /\ UNCHANGED cached
          \/ RollBack(retired) /\ cached' \in {cached \ (target .. k - 1), cached \ (target .. k)}
     /\ UNCHANGED <<held, num_gpu, current, spill>>

\* External: vLLM gives a free block to a request (dropping what was cached in
\* it), caches a held block, reuses a cached free block, and takes blocks back.
Allocate(b) ==
  /\ phase = "bound" /\ b \in queue
  /\ queue' = queue \ {b} /\ held' = held \cup {b}
  /\ cached' \in {cached, cached \ {b}}
  /\ UNCHANGED <<num_gpu, current, phase, spill, resizes>>

CacheBlock(b) ==
  /\ phase = "bound" /\ b \in held
  /\ cached' = cached \cup {b}
  /\ UNCHANGED <<queue, held, num_gpu, current, phase, spill, resizes>>

Free(b) ==
  /\ phase = "bound" /\ b \in held
  /\ held' = held \ {b} /\ queue' = queue \cup {b}
  /\ UNCHANGED <<cached, num_gpu, current, phase, spill, resizes>>

Next ==
  \/ Bind
  \/ BindFails
  \/ \E target \in 2 .. MaximumBlocks :
       Grow(target) \/ GrowFails(target) \/ Shrink(target) \/ ShrinkFails(target)
  \/ \E b \in Blocks : Allocate(b) \/ CacheBlock(b) \/ Free(b)

Spec == Init /\ [][Next]_vars

-----------------------------------------------------------------------------
(* Properties *)

\* Unless the adapter said that the engine must restart, every usable block of the
\* current capacity is exactly free or held: a failed retirement loses no block and gives
\* none back twice.  Above the capacity vLLM has exactly the blocks that a growth's failed
\* append left there (apply takes nothing back), and only those can come into the queue a
\* second time, with the next growth (VllmElasticBlockPool.apply, bind).
BlocksConserved ==
  /\ phase = "bound" =>
       /\ queue \cap held = {}
       /\ queue \cup held = Below(current) \cup spill
  /\ phase = "doubled" => spill # {}

\* No prefix-cache entry names a block that was retired, so a later hit never hands out
\* unmapped memory, and the capacity vLLM advertises is the adapter's.
NoRetiredHit ==
  phase = "bound" => cached \subseteq Below(current) \cup spill /\ num_gpu = current

\* Through growths, retirements, their failures and their rollbacks no block is lost,
\* none is given out twice before an append has failed, and none is hit in the prefix
\* cache after it was retired (VllmElasticBlockPool).
BlocksAccounted ==
  /\ TypeOK
  /\ BlocksConserved
  /\ NoRetiredHit
=============================================================================
