--------------------------- MODULE AllocatorHook ---------------------------
(* VllmSharedPoolHook in one worker process (shared_pool.py): the names of   *)
(* vLLM it replaces, the imported buffer, the one allocation it serves, the  *)
(* startup warm-up it caps, and the shutdown that takes all of it back.  A   *)
(* module of vLLM that is first imported after worker.utils was patched      *)
(* takes the replacement from there, as `from ... import` does.              *)
EXTENDS Integers, Sequences, FiniteSets, SequencesExt

CONSTANTS
  Layers,    \* the KV layers of the negotiated topology
  Maximum    \* blocks of the virtual range

HookAssumption == Maximum \in Nat /\ Maximum > 1

\* _MODULES and _WARMUP_MODULES, in the order they are visited.
AllocSites == <<"utils", "runner", "attn">>
WarmSites == {"warmup", "gpu_worker"}
Sites == Range(AllocSites) \cup WarmSites

VARIABLES
  mapped,    \* blocks mapped at start: all of them when the pool is fixed
  build,     \* what this vLLM build has at a site: ok, absent, foreign (signature)
  bound,     \* what the name refers to: none (not imported), vllm, hook, other
  patches,   \* sites patched, each with the remembered original, in order
  pc,        \* constructor: import, install, cap, then ready, raised, down
  next,      \* index of the next module to patch
  buffer,    \* the base tensor: none, held, released
  used,      \* _used
  caches,    \* vLLM's KV tensors by layer: none, alias, copy (memory of its own)
  attached,  \* whether attachment evidence was sent
  warm,      \* _startup_warmup_attempted
  warming,   \* whether vLLM's own warm-up function is running
  num_blocks,\* KVCacheConfig.num_blocks
  serving    \* whether normal scheduling started

vars == <<mapped, build, bound, patches, pc, next, buffer, used, caches, attached, warm,
          warming, num_blocks, serving>>
vllm == <<caches, attached, warm, warming, num_blocks, serving>>

TypeOK ==
  /\ mapped \in 2 .. Maximum
  /\ build \in [Sites -> {"ok", "absent", "foreign"}]
  /\ bound \in [Sites -> {"none", "vllm", "hook", "other"}]
  /\ \A i \in DOMAIN patches : patches[i] \in Sites \X {"vllm", "hook"}
  /\ pc \in {"import", "install", "cap", "ready", "raised", "down"}
  /\ next \in 1 .. Len(AllocSites) + 1
  /\ buffer \in {"none", "held", "released"} /\ used \in BOOLEAN
  /\ caches \in [Layers -> {"none", "alias", "copy"}]
  /\ {attached, warm, warming, serving} \subseteq BOOLEAN
  /\ num_blocks \in {mapped, Maximum}

\* Any build; worker.utils and the warm-up modules are imported by then, the
\* other two modules perhaps.
Init ==
  /\ mapped \in 2 .. Maximum
  /\ build \in [Sites -> {"ok", "absent", "foreign"}]
  /\ \E loaded \in SUBSET {"runner", "attn"} :
       bound = [s \in Sites |->
                  IF build[s] # "absent" /\ s \in loaded \cup {"utils"} \cup WarmSites
                  THEN "vllm" ELSE "none"]
  /\ patches = <<>> /\ pc = "import" /\ next = 1
  /\ buffer = "none" /\ used = FALSE
  /\ caches = [l \in Layers |-> "none"] /\ attached = FALSE
  /\ warm = FALSE /\ warming = FALSE /\ num_blocks = Maximum /\ serving = FALSE

-----------------------------------------------------------------------------
(* The constructor *)

\* Geometry, layer identity, transport, then the buffer's own constructor, which
\* closes its import when it fails: nothing is patched yet.
ImportBuffer ==
  /\ pc = "import"
  /\ \/ buffer' = "held" /\ pc' = "install"
     \/ buffer' = buffer /\ pc' = "down"
  /\ UNCHANGED <<mapped, build, bound, patches, next, used, vllm>>

\* shutdown: undo in reverse, a name only where it is still the replacement, and
\* drop the base tensor.  It is what the constructor does when _install raises.
Undone ==
  LET last(s) == CHOOSE i \in DOMAIN patches :
                   patches[i][1] = s /\ \A j \in DOMAIN patches : patches[j][1] = s => i <= j
  IN [s \in Sites |->
        IF bound[s] = "hook" /\ \E i \in DOMAIN patches : patches[i][1] = s
        THEN patches[last(s)][2] ELSE bound[s]]
TearDown ==
  /\ bound' = Undone /\ patches' = <<>>
  /\ buffer' = IF buffer = "held" THEN "released" ELSE buffer

\* The name a module has once it is imported: its own, or the one that
\* worker.utils has by then.
Imported(s) ==
  IF bound[s] # "none" THEN bound[s]
  ELSE IF bound["utils"] = "none" THEN "vllm" ELSE bound["utils"]

\* What is remembered of a module: its name, and where that is the replacement
\* already, the function worker.utils had.
Original(s) == IF Imported(s) = "hook" THEN "vllm" ELSE Imported(s)

\* One module of _install: skipped when the build lacks it, refused when it
\* defines a function of another signature.
PatchNext ==
  /\ pc = "install" /\ next <= Len(AllocSites)
  /\ LET s == AllocSites[next]
     IN \/ /\ build[s] = "absent"
           /\ next' = next + 1 /\ UNCHANGED <<bound, patches, pc, buffer>>
        \/ /\ build[s] = "foreign"
           /\ TearDown /\ pc' = "down" /\ next' = next
        \/ /\ build[s] = "ok"
           /\ patches' = Append(patches, <<s, Original(s)>>)
           /\ bound' = [bound EXCEPT ![s] = "hook"]
           /\ next' = next + 1 /\ UNCHANGED <<pc, buffer>>
  /\ UNCHANGED <<mapped, build, used, vllm>>

\* After the loop: worker.utils must be among the patched modules; an elastic
\* pool that is not fully mapped needs the warm-up cap.
InstallEnds ==
  /\ pc = "install" /\ next > Len(AllocSites)
  /\ IF build["utils"] = "absent"
     THEN TearDown /\ pc' = "down"
     ELSE /\ pc' = IF mapped < Maximum THEN "cap" ELSE "ready"
          /\ UNCHANGED <<bound, patches, buffer>>
  /\ UNCHANGED <<mapped, build, next, used, vllm>>

\* _install_startup_warmup_cap: both names must be there with the pinned
\* signature and be one function; both are replaced, or neither.
InstallWarmupCap ==
  /\ pc = "cap"
  /\ IF \A s \in WarmSites : build[s] = "ok"
     THEN /\ patches' = patches \o <<<<"warmup", "vllm">>, <<"gpu_worker", "vllm">>>>
          /\ bound' = [s \in Sites |-> IF s \in WarmSites THEN "hook" ELSE bound[s]]
          /\ pc' = "ready" /\ UNCHANGED buffer
     ELSE TearDown /\ pc' = "down"
  /\ UNCHANGED <<mapped, build, next, used, vllm>>

-----------------------------------------------------------------------------
(* What vLLM calls, external in its order: allocate, register, warm up.      *)

\* Another plugin wraps a name after the hook did.
Wrap(s) ==
  /\ pc = "ready" /\ bound[s] = "hook"
  /\ bound' = [bound EXCEPT ![s] = "other"]
  /\ UNCHANGED <<mapped, build, patches, pc, next, buffer, used, vllm>>

\* vLLM allocates through whichever name its runner has.  _allocate_kv_cache
\* serves once; the views are made by vLLM and need not alias the buffer.
AllocateKvCache(s) ==
  /\ pc = "ready" /\ s \in Range(AllocSites) /\ bound[s] # "none"
  /\ \A l \in Layers : caches[l] = "none"
  /\ \/ /\ bound[s] # "vllm" => ~used /\ buffer = "held"
        /\ caches' \in [Layers -> IF bound[s] = "vllm" THEN {"copy"} ELSE {"alias", "copy"}]
        /\ used' = (used \/ bound[s] # "vllm") /\ UNCHANGED pc
     \/ pc' = "raised" /\ UNCHANGED <<used, caches>>
  /\ UNCHANGED <<mapped, build, bound, patches, next, buffer, attached, warm, warming,
                 num_blocks, serving>>

\* register_kv_caches with attachment_views: the exact layers, each within the
\* imported storage.
RegisterKvCaches ==
  /\ pc = "ready" /\ ~attached /\ \E l \in Layers : caches[l] # "none"
  /\ IF used /\ buffer = "held" /\ \A l \in Layers : caches[l] = "alias"
     THEN attached' = TRUE /\ UNCHANGED pc
     ELSE pc' = "raised" /\ UNCHANGED attached
  /\ UNCHANGED <<mapped, build, bound, patches, next, buffer, used, caches, warm, warming,
                 num_blocks, serving>>

StartWarmup ==
  /\ pc = "ready" /\ attached /\ ~warming /\ ~serving
  /\ \/ /\ bound["gpu_worker"] \in {"hook", "other"} /\ ~warm /\ num_blocks = Maximum
        /\ warm' = TRUE /\ warming' = TRUE /\ num_blocks' = mapped /\ UNCHANGED pc
     \/ /\ bound["gpu_worker"] \in {"hook", "other"}
        /\ warm' = TRUE /\ pc' = "raised" /\ UNCHANGED <<warming, num_blocks>>
     \/ /\ bound["gpu_worker"] = "vllm"
        /\ warming' = TRUE /\ UNCHANGED <<pc, num_blocks, warm>>
  /\ UNCHANGED <<mapped, build, bound, patches, next, buffer, used, caches, attached, serving>>

\* The warm-up returns or raises; the finally clause puts the count back, which
\* vLLM's object may refuse.
\* Mutant: the count is put back when the call returns normally only.
EndWarmup_NoFinally ==
  /\ warming /\ warming' = FALSE
  /\ \/ num_blocks' = Maximum /\ UNCHANGED pc
     \/ num_blocks' = num_blocks /\ pc' \in {pc, "raised"}
  /\ UNCHANGED <<mapped, build, bound, patches, next, buffer, used, caches, attached, warm,
                 serving>>
EndWarmup ==
  /\ warming /\ warming' = FALSE
  /\ \/ num_blocks' = Maximum /\ pc' \in {pc, "raised"}
     \/ num_blocks' = num_blocks /\ pc' = "raised"
  /\ UNCHANGED <<mapped, build, bound, patches, next, buffer, used, caches, attached, warm,
                 serving>>

StartServing ==
  /\ pc = "ready" /\ attached /\ ~warming /\ ~serving
  /\ serving' = TRUE
  /\ UNCHANGED <<mapped, build, bound, patches, pc, next, buffer, used, caches, attached, warm,
                 warming, num_blocks>>

Shutdown ==
  /\ pc \in {"ready", "raised"} /\ ~warming
  /\ TearDown /\ pc' = "down" /\ serving' = FALSE
  /\ UNCHANGED <<mapped, build, next, used, caches, attached, warm, warming, num_blocks>>

Next ==
  \/ ImportBuffer
  \/ PatchNext
  \/ InstallEnds
  \/ InstallWarmupCap
  \/ \E s \in Sites : Wrap(s)
  \/ \E s \in Range(AllocSites) : AllocateKvCache(s)
  \/ RegisterKvCaches
  \/ StartWarmup
  \/ EndWarmup
  \/ StartServing
  \/ Shutdown

Spec == Init /\ [][Next]_vars

-----------------------------------------------------------------------------
(* Properties *)

\* "A partially applied monkeypatch is more dangerous than refusing startup":
\* once the hook is down, whether its constructor failed half-way or it was shut
\* down, vLLM's own function is back under every name, also in a module that was
\* first imported while worker.utils was patched; a plugin that wrapped a name
\* later keeps its wrapper.
PatchesUndone ==
  pc = "down" => patches = <<>> /\ \A s \in Sites : bound[s] # "hook"

\* No name is left through which vLLM could allocate a pool of its own: when the
\* hook is installed, what vLLM allocates it gets from the hook.
NoPrivatePool ==
  pc = "ready" /\ (\E l \in Layers : caches[l] # "none") => used

\* While vLLM's warm-up runs, the block count it builds its batch from is mapped
\* (_run_startup_warmup).
WarmupInsideMapped == warming => num_blocks <= mapped

\* Scheduling starts with the whole virtual range, and with every layer in the
\* imported pool (register_kv_caches, _run_startup_warmup).
ServesWholePool ==
  serving => num_blocks = Maximum /\ \A l \in Layers : caches[l] = "alias"

\* However installation, warm-up and shutdown fail, vLLM allocates from the hook or
\* as if it had never been there, and touches mapped blocks only.
HookIsHarmless ==
  /\ TypeOK
  /\ PatchesUndone
  /\ NoPrivatePool
  /\ WarmupInsideMapped
  /\ ServesWholePool
=============================================================================
