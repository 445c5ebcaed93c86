-------------------------- MODULE GovernedAllocator --------------------------
(***************************************************************************)
(* The governed CUDA allocator (allocator.rs) of one device. ONNX Runtime   *)
(* knows one allocator for all adapter instances; each instance is a client *)
(* with its own host callbacks. A thread-local scope says for which client  *)
(* an allocation is made, and a table of live allocations where a pointer   *)
(* goes back to. ONNX Runtime and the hosts are external: the one asks and  *)
(* frees, or forgets; a host grants, and takes back or refuses to.          *)
(***************************************************************************)
EXTENDS Naturals, Sequences, FiniteSets

CONSTANTS
    Backends,     \* adapter instances
    Clients,      \* model and replica: ClientKey
    Threads,      \* threads that load and infer
    Pointers      \* device addresses

None == "none"

AllocatorAssumption == None \notin Clients \union Backends

VARIABLES
    registered,   \* ONNX Runtime refers to the allocator
    boxed,        \* the registry keeps the allocator
    clients,      \* AllocatorInner.clients
    live,         \* AllocatorInner.live: the client of each pointer
    instance,     \* the client key of each instance, None before and after
    closing,      \* instances that shut down
    thread,       \* the instance each thread works for and where it is
    context,      \* ALLOCATION_CONTEXT of each thread
    saved,        \* the previous contexts that the thread's scopes keep
    held,         \* ONNX Runtime's pointers: the instance whose session has them
    charged,      \* the hosts: the client each pointer is charged to
    refused       \* history: pointers a host did not take back

allocator == <<registered, boxed, clients, live>>
threads == <<thread, context, saved>>
vars == <<allocator, instance, closing, threads, held, charged, refused>>

NoContext == [client |-> None, class |-> None]
Idle == [at |-> "idle", of |-> None]

TypeOK ==
    /\ registered \in BOOLEAN
    /\ boxed \in BOOLEAN
    /\ clients \subseteq Clients
    /\ live \in [Pointers -> Clients \union {None}]
    /\ instance \in [Backends -> Clients \union {None}]
    /\ clients = {instance[b] : b \in Backends} \ {None}
    /\ closing \subseteq Backends
    /\ thread \in [Threads -> [at : {"idle", "load", "infer", "build"},
                               of : Backends \union {None}]]
    /\ context \in [Threads -> [client : Clients \union {None},
                                 class : {"weights", "workspace", None}]]
    /\ \A t \in Threads : Len(saved[t]) <= 2
    /\ held \in [Pointers -> Backends \union {None}]
    /\ charged \in [Pointers -> Clients \union {None}]
    /\ refused \subseteq Pointers

Init ==
    /\ registered = FALSE
    /\ boxed = FALSE
    /\ clients = {}
    /\ live = [p \in Pointers |-> None]
    /\ instance = [b \in Backends |-> None]
    /\ closing = {}
    /\ thread = [t \in Threads |-> Idle]
    /\ context = [t \in Threads |-> NoContext]
    /\ saved = [t \in Threads |-> <<>>]
    /\ held = [p \in Pointers |-> None]
    /\ charged = [p \in Pointers |-> None]
    /\ refused = {}

-----------------------------------------------------------------------------
(* register_client. A key in use is refused, which changes nothing.         *)

\* The device has its allocator already, perhaps one that could not be unregistered.
JoinAllocator(b) ==
    /\ instance[b] = None
    /\ boxed
    /\ \E k \in Clients \ clients :
        /\ clients' = clients \union {k}
        /\ instance' = [instance EXCEPT ![b] = k]
    /\ UNCHANGED <<registered, boxed, live, closing, threads, held, charged, refused>>

\* The first client: an allocator that ONNX Runtime does not take is dropped.
RegisterAllocator(b) ==
    /\ instance[b] = None
    /\ ~boxed
    /\ registered' = TRUE
    /\ boxed' = TRUE
    /\ \E k \in Clients :
        /\ clients' = {k}
        /\ instance' = [instance EXCEPT ![b] = k]
    /\ UNCHANGED <<live, closing, threads, held, charged, refused>>

-----------------------------------------------------------------------------
(* Scopes: enter keeps the previous context, drop puts it back.             *)

Enter(t, k, class) ==
    /\ saved' = [saved EXCEPT ![t] = Append(@, context[t])]
    /\ context' = [context EXCEPT ![t] = [client |-> k, class |-> class]]

Drop(t) ==
    /\ context' = [context EXCEPT ![t] = saved[t][Len(saved[t])]]
    /\ saved' = [saved EXCEPT ![t] = SubSeq(@, 1, Len(@) - 1)]

\* load creates sessions in a scope of weights, infer runs in one of workspace.
Begin(t) ==
    /\ thread[t].at = "idle"
    /\ \E b \in Backends \ closing :
        /\ instance[b] # None
        /\ \/ /\ thread' = [thread EXCEPT ![t] = [at |-> "load", of |-> b]]
              /\ Enter(t, instance[b], "weights")
           \/ /\ thread' = [thread EXCEPT ![t] = [at |-> "infer", of |-> b]]
              /\ Enter(t, instance[b], "workspace")
    /\ UNCHANGED <<allocator, instance, closing, held, charged, refused>>

\* acquire creates a session inside the call's own scope.
BeginSession(t) ==
    /\ thread[t].at = "infer"
    /\ thread' = [thread EXCEPT ![t].at = "build"]
    /\ Enter(t, instance[thread[t].of], "weights")
    /\ UNCHANGED <<allocator, instance, closing, held, charged, refused>>

EndSession(t) ==
    /\ thread[t].at = "build"
    /\ thread' = [thread EXCEPT ![t].at = "infer"]
    /\ Drop(t)
    /\ UNCHANGED <<allocator, instance, closing, held, charged, refused>>

End(t) ==
    /\ thread[t].at \in {"load", "infer"}
    /\ thread' = [thread EXCEPT ![t] = Idle]
    /\ Drop(t)
    /\ UNCHANGED <<allocator, instance, closing, held, charged, refused>>

-----------------------------------------------------------------------------
(* Alloc and Free. A refused allocation changes nothing.                    *)

\* The clients an allocation of the thread may be charged to: the one of its scope,
\* while it is registered.
ClientOf(t) == {context[t].client} \intersect clients

\* A session of instance b asks for memory, on the thread that loads or infers or on
\* one that is in no call. The host grants a pointer that it considers free; one
\* that is in the table is given back, which the host may refuse.
Allocate(t, b) ==
    /\ instance[b] # None
    /\ thread[t].of \in {b, None}
    /\ \E p \in Pointers, k \in ClientOf(t) :
        /\ charged[p] = None
        /\ \/ /\ live[p] = None
              /\ live' = [live EXCEPT ![p] = k]
              /\ charged' = [charged EXCEPT ![p] = k]
              /\ held' = [held EXCEPT ![p] = b]
              /\ refused' = refused \ {p}
           \/ /\ live[p] # None
              /\ charged' = [charged EXCEPT ![p] = k]
              /\ refused' = refused \union {p}
              /\ UNCHANGED <<live, held>>
    /\ UNCHANGED <<registered, boxed, clients, instance, closing, threads>>

\* Free by ONNX Runtime. A status other than OK, whether or not the host took the
\* memory back, leaves the entry in the table.
Free(p) ==
    /\ held[p] # None
    /\ live[p] # None
    /\ held' = [held EXCEPT ![p] = None]
    /\ \/ /\ live' = [live EXCEPT ![p] = None]
          /\ charged' = [charged EXCEPT ![p] = None]
          /\ UNCHANGED refused
       \/ /\ live' = live
          /\ \/ charged' = [charged EXCEPT ![p] = None] /\ UNCHANGED refused
             \/ refused' = refused \union {p} /\ UNCHANGED charged
    /\ UNCHANGED <<registered, boxed, clients, instance, closing, threads>>

\* ONNX Runtime never frees the pointer.
Forget(p) ==
    /\ held[p] # None
    /\ held' = [held EXCEPT ![p] = None]
    /\ UNCHANGED <<allocator, instance, closing, threads, charged, refused>>

-----------------------------------------------------------------------------
(* shutdown: the sessions go first, then the lease on the allocator.        *)

\* The host calls shutdown when no other call is under way.
Shutdown(b) ==
    /\ instance[b] # None
    /\ b \notin closing
    /\ \A t \in Threads : thread[t].of # b
    /\ closing' = closing \union {b}
    /\ UNCHANGED <<allocator, instance, threads, held, charged, refused>>

\* The client's entries in the table, and those of them its host can take back.
Mine(b) == {p \in Pointers : live[p] = instance[b]}
Returnable(b) == {p \in Mine(b) : charged[p] = instance[b]}

\* Each live allocation of the client is given back, whatever the host answers.
Reclaim(b) ==
    /\ live' = [p \in Pointers |-> IF p \in Mine(b) THEN None ELSE live[p]]
    /\ \E kept \in SUBSET Returnable(b) :
        LET taken == Returnable(b) \ kept
        IN  /\ charged' = [p \in Pointers |-> IF p \in taken THEN None ELSE charged[p]]
            /\ refused' = (refused \ taken) \union kept

\* Mutant: the lease is dropped before the sessions.
SessionsDropped_Later(b) == TRUE

\* The order in which OrtBackend's fields are dropped: `loaded` before the lease.
SessionsDropped(b) == \A p \in Pointers : held[p] # b

\* ONNX Runtime gives the allocator up, or an error leaves it where it is.
UnregisterAllocator ==
    /\ registered' \in BOOLEAN
    /\ boxed' = registered'

\* unregister_client, under the registry's lock.
Unregister(b) ==
    /\ b \in closing
    /\ SessionsDropped(b)
    /\ Reclaim(b)
    /\ clients' = clients \ {instance[b]}
    /\ instance' = [instance EXCEPT ![b] = None]
    /\ closing' = closing \ {b}
    /\ \/ clients' # {} /\ UNCHANGED <<registered, boxed>>
       \/ clients' = {} /\ UnregisterAllocator
    /\ UNCHANGED <<threads, held>>

Next ==
    \/ \E b \in Backends :
        JoinAllocator(b) \/ RegisterAllocator(b) \/ Shutdown(b) \/ Unregister(b)
    \/ \E t \in Threads : Begin(t) \/ BeginSession(t) \/ EndSession(t) \/ End(t)
    \/ \E t \in Threads, b \in Backends : Allocate(t, b)
    \/ \E p \in Pointers : Free(p) \/ Forget(p)

Spec == Init /\ [][Next]_vars

-----------------------------------------------------------------------------
\* Memory that a session holds is charged to the session's own client and in the
\* table under it: a request without a scope is not "charged to an unrelated model"
\* (allocator.rs 7-8), and a late free of a session that is being dropped never meets
\* an entry of somebody else (allocator.rs 398).
HeldIsCharged ==
    \A p \in Pointers : held[p] # None =>
        /\ instance[held[p]] # None
        /\ live[p] = instance[held[p]]
        /\ charged[p] = instance[held[p]]

\* What a host has charged and did not refuse to take back is in the table under a
\* registered client, so that somebody will give it back: shutdown returns all that
\* ONNX Runtime forgot (allocator.rs 601-611).
ChargedIsLive ==
    \A p \in Pointers : charged[p] # None /\ p \notin refused =>
        live[p] = charged[p] /\ live[p] \in clients

\* A thread's scope is the one of what it does, also after a session was created in
\* the middle of a call, and it has none outside (allocator.rs 164-180).
ScopeMatchesWork ==
    \A t \in Threads :
        context[t] = CASE thread[t].at = "idle" -> NoContext
                       [] thread[t].at = "infer" ->
                            [client |-> instance[thread[t].of], class |-> "workspace"]
                       [] OTHER -> [client |-> instance[thread[t].of], class |-> "weights"]

\* ONNX Runtime's pointer to the allocator is good as long as it has it, and every
\* client joins one that ONNX Runtime knows, also when an attempt to unregister it
\* failed (allocator.rs 632-646).
PinnedWhileRegistered == registered = boxed

\* Memory is charged to the client whose work asked for it for as long as ONNX Runtime
\* has it, and no longer than the table knows it.
MemoryAccounted ==
  /\ TypeOK
  /\ HeldIsCharged
  /\ ChargedIsLive
  /\ ScopeMatchesWork
  /\ PinnedWhileRegistered
=============================================================================
