-------------------------- MODULE GenerationBackend --------------------------
(***************************************************************************)
(* ONNX generation behind the backend ABI (generation.rs): the engine that  *)
(* load takes out of its slot and puts back, the path that says whether a   *)
(* model is loaded, the registry of cancellation tokens, and the calls that *)
(* read a stream of the engine to its end. The engine is external: a        *)
(* stream yields chunks or an error, and the stream of a cancelled request  *)
(* ends.                                                                    *)
(***************************************************************************)
EXTENDS Naturals

CONSTANTS
    Calls,        \* threads that infer
    Ids,          \* request IDs
    Managers      \* threads of the host that load and unload

VARIABLES
    slot,         \* the engine is in its slot
    engine,       \* what the engine holds: "empty", "loaded", or "lost" in a panic
    loaded_model, \* a model path is recorded
    active,       \* the registry: the call registered for each ID
    call,         \* what each call does
    manager       \* what each managing thread does

vars == <<slot, engine, loaded_model, active, call, manager>>

None == "none"

\* The host serializes the lifecycle calls of an instance (tests.rs 1224).
GenerationAssumption ==
    /\ None \notin Ids \union Calls
    /\ \A m, n \in Managers : m = n

\* A call between two requests. `late` counts the chunks given to the consumer
\* after the token was cancelled.
NoCall == [at |-> "idle", id |-> None, streaming |-> FALSE, cancelled |-> FALSE,
           open |-> FALSE, saw_chunk |-> FALSE, result |-> None, late |-> 0]

TypeOK ==
    /\ slot \in BOOLEAN
    /\ engine \in {"empty", "loaded", "lost"}
    /\ loaded_model \in BOOLEAN
    /\ active \in [Ids -> Calls \union {None}]
    /\ \A i \in Ids : active[i] # None => call[active[i]].id = i
    /\ call \in [Calls ->
        [at : {"idle", "registered", "engine", "next", "check", "emit", "drain", "leave"},
         id : Ids \union {None}, streaming : BOOLEAN, cancelled : BOOLEAN, open : BOOLEAN,
         saw_chunk : BOOLEAN, result : {None, "ok", "cancelled", "refused", "error"},
         late : Nat]]
    /\ manager \in [Managers ->
        {"idle", "take", "task", "loaded", "failed", "path", "unload"}]

Init ==
    /\ slot = TRUE
    /\ engine = "empty"
    /\ loaded_model = FALSE
    /\ active = [i \in Ids |-> None]
    /\ call = [c \in Calls |-> NoCall]
    /\ manager = [m \in Managers |-> "idle"]

-----------------------------------------------------------------------------
(* load and unload.                                                         *)

ManagerTo(m, at) == manager' = [manager EXCEPT ![m] = at]

\* load looks at the path before it takes the engine.
StartLoad(m) ==
    /\ manager[m] = "idle"
    /\ ~loaded_model
    /\ ManagerTo(m, "take")
    /\ UNCHANGED <<slot, engine, loaded_model, active, call>>

\* An empty slot is a busy engine.
TakeEngine(m) ==
    /\ manager[m] = "take"
    /\ ManagerTo(m, IF slot THEN "task" ELSE "idle")
    /\ slot' = FALSE
    /\ UNCHANGED <<engine, loaded_model, active, call>>

\* The load task of the runtime: loaded, failed and unloaded again, or a panic
\* that ends the task with the engine in it.
LoadTask(m) ==
    /\ manager[m] = "task"
    /\ \/ ManagerTo(m, "loaded") /\ engine' = "loaded"
       \/ ManagerTo(m, "failed") /\ engine' = "empty"
       \/ ManagerTo(m, "idle") /\ engine' = "lost"
    /\ UNCHANGED <<slot, loaded_model, active, call>>

\* The engine goes back before the result is looked at.
PutBack(m) ==
    /\ manager[m] \in {"loaded", "failed"}
    /\ slot' = TRUE
    /\ ManagerTo(m, IF manager[m] = "loaded" THEN "path" ELSE "idle")
    /\ UNCHANGED <<engine, loaded_model, active, call>>

\* The path is recorded under its own lock, after the engine's was released.
SetPath(m) ==
    /\ manager[m] = "path"
    /\ loaded_model' = TRUE
    /\ ManagerTo(m, "idle")
    /\ UNCHANGED <<slot, engine, active, call>>

\* unload cancels what is registered now.
StartUnload(m) ==
    /\ manager[m] = "idle"
    /\ call' = [c \in Calls |-> IF \E i \in Ids : active[i] = c
                                THEN [call[c] EXCEPT !.cancelled = TRUE] ELSE call[c]]
    /\ ManagerTo(m, "unload")
    /\ UNCHANGED <<slot, engine, loaded_model, active>>

\* The engine unloads and the path goes while the engine's lock is held; a busy
\* engine is an error, with the requests cancelled all the same.
UnloadEngine(m) ==
    /\ manager[m] = "unload"
    /\ \/ slot /\ engine' = "empty" /\ loaded_model' = FALSE
       \/ ~slot /\ UNCHANGED <<engine, loaded_model>>
    /\ ManagerTo(m, "idle")
    /\ UNCHANGED <<slot, active, call>>

-----------------------------------------------------------------------------
(* infer and infer_stream.                                                  *)

CallTo(c, at) == call' = [call EXCEPT ![c].at = at]
Return(c, result) == call' = [call EXCEPT ![c].at = "leave", ![c].result = result]

\* register_request: an ID in use is refused.
Register(c) ==
    /\ call[c].at = "idle"
    /\ \E i \in Ids, s \in BOOLEAN :
        /\ active[i] = None
        /\ active' = [active EXCEPT ![i] = c]
        /\ call' = [call EXCEPT ![c] =
                        [NoCall EXCEPT !.at = "registered", !.id = i, !.streaming = s]]
    /\ UNCHANGED <<slot, engine, loaded_model, manager>>

\* The request is decoded, the host asked once whether it is cancelled, and the
\* token looked at.
Decode(c) ==
    /\ call[c].at = "registered"
    /\ \/ Return(c, "error")
       \/ \E host \in BOOLEAN :
            LET cancelled == call[c].cancelled \/ host
            IN  call' = [call EXCEPT ![c].cancelled = cancelled,
                                     ![c].at = IF cancelled THEN "leave" ELSE "engine",
                                     ![c].result = IF cancelled THEN "cancelled" ELSE None]
    /\ UNCHANGED <<slot, engine, loaded_model, active, manager>>

\* engine_stream: a stream of whatever the engine holds, or a busy engine.
OpenStream(c) ==
    /\ call[c].at = "engine"
    /\ \/ slot /\ call' = [call EXCEPT ![c].at = "next", ![c].open = TRUE]
       \/ ~slot /\ Return(c, "error")
    /\ UNCHANGED <<slot, engine, loaded_model, active, manager>>

\* A chunk comes and the host is asked again. infer collects it; infer_stream looks
\* at the token first.
Chunk(c) ==
    /\ call[c].at = "next"
    /\ call[c].open
    /\ \E host \in BOOLEAN :
        call' = [call EXCEPT ![c].cancelled = @ \/ host,
                             ![c].saw_chunk = TRUE,
                             ![c].at = IF call[c].streaming THEN "check" ELSE "next"]
    /\ UNCHANGED <<slot, engine, loaded_model, active, manager>>

\* A chunk that is no UTF-8 tensor ends the call where it stands.
Check(c) ==
    /\ call[c].at = "check"
    /\ \/ call[c].cancelled /\ call' = [call EXCEPT ![c].at = "drain", ![c].result = "cancelled"]
       \/ ~call[c].cancelled /\ (CallTo(c, "emit") \/ Return(c, "error"))
    /\ UNCHANGED <<slot, engine, loaded_model, active, manager>>

\* The stream yields an error, its last output. The host is asked here too, and
\* infer_stream looks at the token before it looks at the error.
StreamFails(c) ==
    /\ call[c].at = "next"
    /\ call[c].open
    /\ \E host \in BOOLEAN :
        LET cancelled == call[c].cancelled \/ host
            seen == call[c].streaming /\ cancelled
        IN  call' = [call EXCEPT ![c].cancelled = cancelled,
                                 ![c].open = FALSE,
                                 ![c].at = IF seen THEN "drain" ELSE "leave",
                                 ![c].result = IF seen THEN "cancelled" ELSE "error"]
    /\ UNCHANGED <<slot, engine, loaded_model, active, manager>>

\* A chunk that is no UTF-8 tensor ends infer too, with the stream still open.
BadChunk(c) ==
    /\ call[c].at = "next"
    /\ call[c].open
    /\ ~call[c].streaming
    /\ Return(c, "error")
    /\ UNCHANGED <<slot, engine, loaded_model, active, manager>>

\* Mutant: a consumer's refusal is returned at once, the stream running on.
Emit_NoDrain(c) ==
    /\ call[c].at = "emit"
    /\ \/ CallTo(c, "next")
       \/ call' = [call EXCEPT ![c].cancelled = TRUE, ![c].at = "leave", ![c].result = "refused"]
    /\ UNCHANGED <<slot, engine, loaded_model, active, manager>>

\* on_chunk: the consumer takes the chunk or refuses it, which cancels the request.
Emit(c) ==
    /\ call[c].at = "emit"
    /\ LET late == IF call[c].cancelled THEN call[c].late + 1 ELSE call[c].late
       IN  \/ call' = [call EXCEPT ![c].at = "next", ![c].late = late]
           \/ call' = [call EXCEPT ![c].cancelled = TRUE, ![c].at = "drain",
                                   ![c].late = late, ![c].result = "refused"]
    /\ UNCHANGED <<slot, engine, loaded_model, active, manager>>

\* The engine ends the stream.
StreamEnds(c) ==
    /\ call[c].at \in {"next", "drain"}
    /\ call[c].open
    /\ call' = [call EXCEPT ![c].open = FALSE]
    /\ UNCHANGED <<slot, engine, loaded_model, active, manager>>

\* Mutant: one more output is awaited, not the end.
Drained_OneMore(c) ==
    /\ call[c].at = "drain"
    /\ call[c].open
    /\ call' = [call EXCEPT ![c].at = "leave", ![c].open = FALSE]
    /\ UNCHANGED <<slot, engine, loaded_model, active, manager>>

\* await_cancellation_acknowledgement has read the stream to its end.
Drained(c) ==
    /\ call[c].at = "drain"
    /\ ~call[c].open
    /\ CallTo(c, "leave")
    /\ UNCHANGED <<slot, engine, loaded_model, active, manager>>

\* After the loop the token is looked at once more; infer wants a chunk at least.
Final(c) ==
    /\ call[c].at = "next"
    /\ ~call[c].open
    /\ Return(c, IF call[c].cancelled THEN "cancelled"
                 ELSE IF call[c].streaming \/ call[c].saw_chunk THEN "ok" ELSE "error")
    /\ UNCHANGED <<slot, engine, loaded_model, active, manager>>

\* The stream and the registration are dropped.
Leave(c) ==
    /\ call[c].at = "leave"
    /\ active' = [active EXCEPT ![call[c].id] = None]
    /\ call' = [call EXCEPT ![c] = NoCall]
    /\ UNCHANGED <<slot, engine, loaded_model, manager>>

\* The host's cancel hook, from any thread.
Cancel(i) ==
    /\ active[i] # None
    /\ call' = [call EXCEPT ![active[i]].cancelled = TRUE]
    /\ UNCHANGED <<slot, engine, loaded_model, active, manager>>

-----------------------------------------------------------------------------

\* The steps of a call that are its own, not the engine's.
Proceed(c) ==
    \/ Decode(c) \/ OpenStream(c) \/ Check(c) \/ Emit(c) \/ Drained(c) \/ Final(c) \/ Leave(c)

Manage(m) ==
    \/ StartLoad(m) \/ TakeEngine(m) \/ LoadTask(m) \/ PutBack(m) \/ SetPath(m)
    \/ StartUnload(m) \/ UnloadEngine(m)

Next ==
    \/ \E m \in Managers : Manage(m)
    \/ \E c \in Calls : Register(c) \/ Chunk(c) \/ StreamFails(c) \/ StreamEnds(c) \/ BadChunk(c)
                     \/ Proceed(c)
    \/ \E i \in Ids : Cancel(i)

Spec == Init /\ [][Next]_vars

\* Calls run, and the engine ends the stream of a cancelled request after finitely
\* many chunks (generation.rs 419-420): strong fairness, since the call is not
\* always waiting for the next one.
FairSpec ==
    /\ Spec
    /\ \A c \in Calls : WF_vars(Proceed(c)) /\ SF_vars(StreamEnds(c) /\ call[c].cancelled)

-----------------------------------------------------------------------------
\* When no thread of the host loads or unloads, the path says whether the engine
\* holds a model and the engine is in its slot, unless a panic lost it
\* (generation.rs 143-171, 328-350): load is not refused for ever, nor is every
\* call told that the engine is busy.
IdleIsConsistent ==
    (\A m \in Managers : manager[m] = "idle") =>
        /\ loaded_model <=> (engine = "loaded")
        /\ slot <=> (engine # "lost")

\* After its token was cancelled, by the hook, by unload or by its own consumer, a
\* stream gives its consumer one more chunk at most: the one already past the check
\* (generation.rs 247-276).
OneLateChunk == \A c \in Calls : call[c].late <= 1

\* A call that returns as cancelled or refused has read its stream to the end, which
\* "makes the session safe to reuse synchronously" (generation.rs 419-420).
DrainedWhenCancelled ==
    \A c \in Calls :
        call[c].at = "leave" /\ call[c].result \in {"cancelled", "refused"} => ~call[c].open

\* A request whose token was cancelled does not become a success, whichever loop it
\* is in (generation.rs 210, 277).
CancelledNotOk ==
    [][\A c \in Calls : call[c].cancelled /\ call[c].result # "ok" =>
            call'[c].result # "ok"]_vars

\* A cancelled call returns, if it is not asleep in the engine for ever.
CancelledReturns ==
    \A c \in Calls : call[c].cancelled ~> call[c].at = "idle"

\* Calls, loads and unloads leave engine, path and streams as the next one expects
\* them, however they end.
CallsLeaveClean ==
  /\ TypeOK
  /\ IdleIsConsistent
  /\ OneLateChunk
  /\ DrainedWhenCancelled

\* A cancelled generation ends, and not as a success.
CancelledEnds == CancelledNotOk /\ CancelledReturns
=============================================================================
