-------------------------- MODULE CallsReturnProofs --------------------------
(***************************************************************************)
(* Proofs about the generation backend as MCCallsReturn checks it, for     *)
(* every number of calls and request IDs.                                  *)
(*                                                                         *)
(* RecordOK: what a call between two of its steps may have seen, so that   *)
(*   a chunk is emitted late once at most and a stream is left open only   *)
(*   by a call that failed.                                                *)
(* Registered: the registry and the calls name each other.                 *)
(* Managed: where the engine is at each step of the one managing thread.   *)
(***************************************************************************)
EXTENDS MCCallsReturn, TLAPS

None == Generation!None

LEMMA GenerationConstants == None \notin Ids /\ None \notin Calls /\ \A m, n \in Managers : m = n
BY PartsAssumption DEF PartsAssumption, Generation!GenerationAssumption, None

Records ==
  [at : {"idle", "registered", "engine", "next", "check", "emit", "drain", "leave"},
   id : Ids \union {None}, streaming : BOOLEAN, cancelled : BOOLEAN, open : BOOLEAN,
   saw_chunk : BOOLEAN, result : {None, "ok", "cancelled", "refused", "error"},
   late : Nat]

\* The chunk that was past the check when the token was cancelled is the last; the
\* stream is open only between its opening and its end.
RecordOK(r) ==
  /\ r \in Records
  /\ r.late = 0 \/ (r.late = 1 /\ r.cancelled = TRUE)
  /\ r.at \in {"registered", "engine", "emit"} => r.late = 0
  /\ r.at \in {"idle", "registered", "engine"} => r.open = FALSE
  /\ r.at = "leave" /\ r.result \in {"cancelled", "refused"} => r.open = FALSE
  /\ r.at = "idle" <=> r.id = None

Registered ==
  /\ requests \in [Ids -> Calls \union {None}]
  /\ \A i \in Ids : requests[i] # None => call[requests[i]].id = i
  /\ \A c \in Calls : call[c].id # None => requests[call[c].id] = c

CallsOK == call \in [Calls -> Records] /\ \A c \in Calls : RecordOK(call[c])

\* The managing thread has the engine from take to put-back, and the path follows.
Managed ==
  /\ slot \in BOOLEAN /\ engine \in {"empty", "loaded", "lost"} /\ loaded_model \in BOOLEAN
  /\ manager \in [Managers -> {"idle", "take", "task", "loaded", "failed", "path", "unload"}]
  /\ \A m \in Managers :
       /\ manager[m] \in {"idle", "take", "unload"} =>
            (loaded_model = TRUE <=> engine = "loaded") /\ (slot = TRUE <=> engine # "lost")
       /\ manager[m] = "take" => loaded_model = FALSE
       /\ manager[m] = "task" => slot = FALSE /\ loaded_model = FALSE
       /\ manager[m] = "loaded" => slot = FALSE /\ loaded_model = FALSE /\ engine = "loaded"
       /\ manager[m] = "failed" => slot = FALSE /\ loaded_model = FALSE /\ engine = "empty"
       /\ manager[m] = "path" => slot = TRUE /\ loaded_model = FALSE /\ engine = "loaded"
  /\ Managers = {} => loaded_model = FALSE /\ engine = "empty" /\ slot = TRUE

GenerationInv == CallsOK /\ Registered /\ Managed

LEMMA GenerationInit == Generation!Init => GenerationInv
<1> SUFFICES ASSUME Generation!Init PROVE GenerationInv
  OBVIOUS
<1>1. RecordOK(Generation!NoCall) /\ Generation!NoCall.id = None
  BY DEF Generation!NoCall, RecordOK, Records, None
<1>2. CallsOK
  BY <1>1 DEF Generation!Init, CallsOK, RecordOK
<1>3. Registered
  BY <1>1 DEF Generation!Init, Registered, None
<1>4. Managed
  BY DEF Generation!Init, Managed
<1> QED
  BY <1>2, <1>3, <1>4 DEF GenerationInv

-----------------------------------------------------------------------------
(* load and unload. *)

\* A step of the managing thread alone.
LEMMA ManageStep ==
  ASSUME GenerationInv, NEW m \in Managers, Generation!Manage(m)
  PROVE  Managed' /\ requests' = requests
<1>1. Managers = {m}
  BY GenerationConstants
<1>2. /\ slot \in BOOLEAN /\ engine \in {"empty", "loaded", "lost"} /\ loaded_model \in BOOLEAN
      /\ manager \in [Managers -> {"idle", "take", "task", "loaded", "failed", "path", "unload"}]
  BY DEF GenerationInv, Managed
<1>3. requests' = requests
  BY DEF Generation!Manage, Generation!StartLoad, Generation!TakeEngine, Generation!LoadTask,
         Generation!PutBack, Generation!SetPath, Generation!StartUnload, Generation!UnloadEngine
<1>4. CASE Generation!StartLoad(m)
  BY <1>1, <1>2, <1>4 DEF Generation!StartLoad, Generation!ManagerTo, GenerationInv, Managed
<1>5. CASE Generation!TakeEngine(m)
  BY <1>1, <1>2, <1>5 DEF Generation!TakeEngine, Generation!ManagerTo, GenerationInv, Managed
<1>6. CASE Generation!LoadTask(m)
  BY <1>1, <1>2, <1>6 DEF Generation!LoadTask, Generation!ManagerTo, GenerationInv, Managed
<1>7. CASE Generation!PutBack(m)
  BY <1>1, <1>2, <1>7 DEF Generation!PutBack, Generation!ManagerTo, GenerationInv, Managed
<1>8. CASE Generation!SetPath(m)
  BY <1>1, <1>2, <1>8 DEF Generation!SetPath, Generation!ManagerTo, GenerationInv, Managed
<1>9. CASE Generation!StartUnload(m)
  BY <1>1, <1>2, <1>9 DEF Generation!StartUnload, Generation!ManagerTo, GenerationInv, Managed
<1>10. CASE Generation!UnloadEngine(m)
  BY <1>1, <1>2, <1>10 DEF Generation!UnloadEngine, Generation!ManagerTo, GenerationInv, Managed
<1> QED
  BY <1>3, <1>4, <1>5, <1>6, <1>7, <1>8, <1>9, <1>10 DEF Generation!Manage

\* A token is cancelled from outside.
LEMMA CancelledRecord ==
  ASSUME NEW r, RecordOK(r)
  PROVE  LET s == [r EXCEPT !.cancelled = TRUE] IN RecordOK(s) /\ s.id = r.id /\ s.result = r.result
BY DEF RecordOK, Records

LEMMA CancelStep ==
  ASSUME GenerationInv, NEW K \in SUBSET Calls, requests' = requests,
         call' = [c \in Calls |-> IF c \in K THEN [call[c] EXCEPT !.cancelled = TRUE] ELSE call[c]]
  PROVE  CallsOK' /\ Registered' /\ \A c \in Calls : call'[c].result = call[c].result
<1>1. \A c \in Calls : RecordOK(call'[c]) /\ call'[c].id = call[c].id /\ call'[c].result = call[c].result
  BY CancelledRecord DEF GenerationInv, CallsOK
<1>2. CallsOK'
  BY <1>1 DEF CallsOK, RecordOK
<1>3. Registered'
  BY <1>1 DEF GenerationInv, Registered
<1> QED
  BY <1>1, <1>2, <1>3

-----------------------------------------------------------------------------
(* infer and infer_stream. *)

\* A step of a call that keeps its registration.
LEMMA RecordStep ==
  ASSUME GenerationInv, NEW c \in Calls, NEW r, RecordOK(r), r.id = call[c].id,
         call' = [call EXCEPT ![c] = r], UNCHANGED <<slot, engine, loaded_model, requests, manager>>
  PROVE  GenerationInv'
<1>1. \A d \in Calls : RecordOK(call'[d]) /\ call'[d].id = call[d].id
  BY DEF GenerationInv, CallsOK
<1>2. CallsOK'
  BY <1>1 DEF GenerationInv, CallsOK, RecordOK
<1>3. Registered'
  BY <1>1 DEF GenerationInv, Registered
<1>4. Managed'
  BY DEF GenerationInv, Managed
<1> QED
  BY <1>2, <1>3, <1>4 DEF GenerationInv

\* No cancelled request becomes a success.
NotOk(d) == call[d].cancelled /\ call[d].result # "ok" => call'[d].result # "ok"
GenerationStep == GenerationInv' /\ \A d \in Calls : NotOk(d)

LEMMA RecordNotOk ==
  ASSUME CallsOK, NEW c \in Calls, NEW r, call' = [call EXCEPT ![c] = r],
         r.result # "ok" \/ call[c].cancelled = FALSE \/ r.result = call[c].result
  PROVE  \A d \in Calls : NotOk(d)
BY DEF CallsOK, NotOk

LEMMA RegisterStep ==
  ASSUME GenerationInv, NEW c \in Calls, Generation!Register(c) PROVE GenerationStep
<1>1. PICK i \in Ids, s \in BOOLEAN :
        /\ requests[i] = None /\ requests' = [requests EXCEPT ![i] = c]
        /\ call' = [call EXCEPT ![c] =
             [Generation!NoCall EXCEPT !.at = "registered", !.id = i, !.streaming = s]]
  BY DEF Generation!Register, None
<1> DEFINE r == [Generation!NoCall EXCEPT !.at = "registered", !.id = i, !.streaming = s]
<1>2. RecordOK(r) /\ r.id = i /\ r.result = None
  BY GenerationConstants DEF Generation!NoCall, RecordOK, Records, None
<1>3. call[c].id = None
  BY DEF GenerationInv, CallsOK, RecordOK, Generation!Register
<1> HIDE DEF r
<1>4. \A d \in Calls : call'[d] = IF d = c THEN r ELSE call[d]
  BY <1>1 DEF GenerationInv, CallsOK, r
<1>5. CallsOK'
  <2>1. call' \in [Calls -> Records]
    BY <1>1, <1>2 DEF GenerationInv, CallsOK, RecordOK, r
  <2> QED
    BY <2>1, <1>2, <1>4 DEF GenerationInv, CallsOK
<1>6. Registered'
  <2>1. requests' \in [Ids -> Calls \union {None}]
    BY <1>1 DEF GenerationInv, Registered
  <2>2. \A j \in Ids : requests'[j] = IF j = i THEN c ELSE requests[j]
    BY <1>1 DEF GenerationInv, Registered
  <2>3. \A j \in Ids : requests'[j] # None => call'[requests'[j]].id = j
    BY <1>2, <1>3, <1>4, <2>2, GenerationConstants DEF GenerationInv, Registered
  <2>4. ASSUME NEW d \in Calls, call'[d].id # None PROVE requests'[call'[d].id] = d
    <3>1. d # c => call[d].id \in Ids /\ requests[call[d].id] = d
      BY <1>4, <2>4 DEF GenerationInv, Registered, CallsOK, Records
    <3> QED
      BY <1>1, <1>2, <1>4, <2>2, <3>1, GenerationConstants
  <2> QED
    BY <2>1, <2>3, <2>4 DEF Registered
<1>7. Managed'
  BY DEF GenerationInv, Managed, Generation!Register
<1>8. \A d \in Calls : NotOk(d)
  BY <1>2, <1>4 DEF NotOk, None, Generation!None
<1> QED
  BY <1>5, <1>6, <1>7, <1>8 DEF GenerationInv, GenerationStep

LEMMA LeaveStep ==
  ASSUME GenerationInv, NEW c \in Calls, Generation!Leave(c) PROVE GenerationStep
<1> DEFINE i == call[c].id
<1>1. /\ requests' = [requests EXCEPT ![i] = None]
      /\ call' = [call EXCEPT ![c] = Generation!NoCall]
  BY DEF Generation!Leave, None
<1>2. RecordOK(Generation!NoCall) /\ Generation!NoCall.id = None /\ Generation!NoCall.result = None
  BY DEF Generation!NoCall, RecordOK, Records, None
<1>3. i \in Ids /\ requests[i] = c
  BY DEF GenerationInv, CallsOK, RecordOK, Records, Registered, Generation!Leave
<1>4. \A d \in Calls : call'[d] = IF d = c THEN Generation!NoCall ELSE call[d]
  BY <1>1 DEF GenerationInv, CallsOK
<1>5. CallsOK'
  <2>1. call' \in [Calls -> Records]
    BY <1>1, <1>2 DEF GenerationInv, CallsOK, RecordOK
  <2> QED
    BY <2>1, <1>2, <1>4 DEF GenerationInv, CallsOK
<1> HIDE DEF i
<1>6. Registered'
  <2>1. requests' \in [Ids -> Calls \union {None}]
    BY <1>1 DEF GenerationInv, Registered
  <2>2. \A j \in Ids : requests'[j] = IF j = i THEN None ELSE requests[j]
    BY <1>1 DEF GenerationInv, Registered
  <2>3. ASSUME NEW j \in Ids, requests'[j] # None PROVE call'[requests'[j]].id = j
    <3>1. j # i /\ requests'[j] = requests[j] /\ requests[j] \in Calls
      BY <2>2, <2>3 DEF GenerationInv, Registered
    <3>2. call[requests[j]].id = j
      BY <2>3, <3>1 DEF GenerationInv, Registered
    <3>3. requests[j] # c
      BY <1>3, <3>1, <3>2 DEF i
    <3> QED
      BY <1>4, <3>1, <3>2, <3>3
  <2>4. ASSUME NEW d \in Calls, call'[d].id # None PROVE requests'[call'[d].id] = d
    <3>1. d # c /\ call'[d] = call[d] /\ call[d].id \in Ids /\ requests[call[d].id] = d
      BY <1>2, <1>4, <2>4 DEF GenerationInv, Registered, CallsOK, Records
    <3> QED
      BY <1>3, <2>2, <3>1
  <2> QED
    BY <2>1, <2>3, <2>4 DEF Registered
<1>7. Managed'
  BY DEF GenerationInv, Managed, Generation!Leave
<1>8. \A d \in Calls : NotOk(d)
  BY <1>2, <1>4 DEF NotOk, None, Generation!None
<1> QED
  BY <1>5, <1>6, <1>7, <1>8 DEF GenerationInv, GenerationStep

\* A step that writes the record of one call.
LEMMA WriteStep ==
  ASSUME GenerationInv, NEW c \in Calls, NEW r, RecordOK(r), r.id = call[c].id,
         call' = [call EXCEPT ![c] = r], UNCHANGED <<slot, engine, loaded_model, requests, manager>>,
         r.result # "ok" \/ call[c].cancelled = FALSE \/ r.result = call[c].result
  PROVE  GenerationStep
<1>1. GenerationInv'
  BY RecordStep
<1>2. \A d \in Calls : NotOk(d)
  BY RecordNotOk DEF GenerationInv
<1> QED
  BY <1>1, <1>2 DEF GenerationStep

LEMMA DecodeStep ==
  ASSUME GenerationInv, NEW c \in Calls, Generation!Decode(c) PROVE GenerationStep
<1>1. RecordOK(call[c]) /\ call[c].at = "registered"
  BY DEF GenerationInv, CallsOK, Generation!Decode
<1>2. UNCHANGED <<slot, engine, loaded_model, requests, manager>>
  BY DEF Generation!Decode
<1>3. CASE Generation!Return(c, "error")
  <2> DEFINE r == [call[c] EXCEPT !.at = "leave", !.result = "error"]
  <2>1. RecordOK(r) /\ r.id = call[c].id /\ r.result # "ok"
    BY <1>1 DEF RecordOK, Records
  <2>2. call' = [call EXCEPT ![c] = r]
    BY <1>3 DEF Generation!Return
  <2> HIDE DEF r
  <2> QED
    BY <1>2, <2>1, <2>2, WriteStep
<1>4. ASSUME NEW host \in BOOLEAN,
             call' = [call EXCEPT
               ![c].cancelled = call[c].cancelled \/ host,
               ![c].at = IF call[c].cancelled \/ host THEN "leave" ELSE "engine",
               ![c].result = IF call[c].cancelled \/ host THEN "cancelled" ELSE None]
      PROVE  GenerationStep
  <2> DEFINE cancel == call[c].cancelled \/ host
  <2>1. cancel \in BOOLEAN /\ (cancel = FALSE => call[c].cancelled = FALSE)
    BY <1>1 DEF RecordOK, Records
  <2>2. call' = [call EXCEPT ![c].cancelled = cancel,
                             ![c].at = IF cancel THEN "leave" ELSE "engine",
                             ![c].result = IF cancel THEN "cancelled" ELSE None]
    BY <1>4
  <2> HIDE DEF cancel
  <2> DEFINE r == [call[c] EXCEPT !.cancelled = cancel,
                                  !.at = IF cancel THEN "leave" ELSE "engine",
                                  !.result = IF cancel THEN "cancelled" ELSE None]
  <2>3. RecordOK(r) /\ r.id = call[c].id /\ r.result # "ok"
    BY <1>1, <2>1 DEF RecordOK, Records, None, Generation!None
  <2>4. call' = [call EXCEPT ![c] = r]
    BY <2>2
  <2> HIDE DEF r
  <2> QED
    BY <1>2, <2>3, <2>4, WriteStep
<1> QED
  BY <1>3, <1>4 DEF Generation!Decode, None

LEMMA OpenStreamStep ==
  ASSUME GenerationInv, NEW c \in Calls, Generation!OpenStream(c) PROVE GenerationStep
<1>1. RecordOK(call[c]) /\ call[c].at = "engine"
  BY DEF GenerationInv, CallsOK, Generation!OpenStream
<1>2. UNCHANGED <<slot, engine, loaded_model, requests, manager>>
  BY DEF Generation!OpenStream
<1> DEFINE r == [call[c] EXCEPT !.at = "next", !.open = TRUE]
           e == [call[c] EXCEPT !.at = "leave", !.result = "error"]
<1>3. /\ RecordOK(r) /\ r.id = call[c].id /\ r.result = call[c].result
      /\ RecordOK(e) /\ e.id = call[c].id /\ e.result # "ok"
  BY <1>1 DEF RecordOK, Records
<1>4. call' = [call EXCEPT ![c] = r] \/ call' = [call EXCEPT ![c] = e]
  BY DEF Generation!OpenStream, Generation!Return
<1> HIDE DEF r, e
<1> QED
  BY <1>2, <1>3, <1>4, WriteStep

LEMMA ChunkStep ==
  ASSUME GenerationInv, NEW c \in Calls, Generation!Chunk(c) PROVE GenerationStep
<1>1. RecordOK(call[c]) /\ call[c].at = "next"
  BY DEF GenerationInv, CallsOK, Generation!Chunk
<1>2. UNCHANGED <<slot, engine, loaded_model, requests, manager>>
  BY DEF Generation!Chunk
<1>3. PICK cancel \in BOOLEAN :
        /\ call[c].cancelled => cancel
        /\ call' = [call EXCEPT ![c].cancelled = cancel, ![c].saw_chunk = TRUE,
                                ![c].at = IF call[c].streaming THEN "check" ELSE "next"]
  <2>1. PICK host \in BOOLEAN :
          call' = [call EXCEPT ![c].cancelled = @ \/ host, ![c].saw_chunk = TRUE,
                               ![c].at = IF call[c].streaming THEN "check" ELSE "next"]
    BY DEF Generation!Chunk
  <2>2. (call[c].cancelled \/ host) \in BOOLEAN /\ (call[c].cancelled => call[c].cancelled \/ host)
    OBVIOUS
  <2> QED
    BY <2>1, <2>2
<1> DEFINE r == [call[c] EXCEPT !.cancelled = cancel, !.saw_chunk = TRUE,
                                !.at = IF call[c].streaming THEN "check" ELSE "next"]
<1>4. RecordOK(r) /\ r.id = call[c].id /\ r.result = call[c].result
  BY <1>1, <1>3 DEF RecordOK, Records
<1>5. call' = [call EXCEPT ![c] = r]
  BY <1>3
<1> HIDE DEF r
<1> QED
  BY <1>2, <1>4, <1>5, WriteStep

LEMMA CheckStep ==
  ASSUME GenerationInv, NEW c \in Calls, Generation!Check(c) PROVE GenerationStep
<1>1. RecordOK(call[c]) /\ call[c].at = "check"
  BY DEF GenerationInv, CallsOK, Generation!Check
<1>2. UNCHANGED <<slot, engine, loaded_model, requests, manager>>
  BY DEF Generation!Check
<1> DEFINE d == [call[c] EXCEPT !.at = "drain", !.result = "cancelled"]
           r == [call[c] EXCEPT !.at = "emit"]
           e == [call[c] EXCEPT !.at = "leave", !.result = "error"]
<1>3. /\ RecordOK(d) /\ d.id = call[c].id /\ d.result # "ok"
      /\ RecordOK(e) /\ e.id = call[c].id /\ e.result # "ok"
  BY <1>1 DEF RecordOK, Records
<1>4. call[c].cancelled = FALSE => RecordOK(r) /\ r.id = call[c].id /\ r.result = call[c].result
  BY <1>1 DEF RecordOK, Records
<1>5. \/ call' = [call EXCEPT ![c] = d] \/ call' = [call EXCEPT ![c] = e]
      \/ call[c].cancelled = FALSE /\ call' = [call EXCEPT ![c] = r]
  <2>1. call[c].cancelled \in BOOLEAN
    BY <1>1 DEF RecordOK, Records
  <2> QED
    BY <2>1 DEF Generation!Check, Generation!Return, Generation!CallTo
<1> HIDE DEF d, r, e
<1> QED
  BY <1>2, <1>3, <1>4, <1>5, WriteStep

LEMMA StreamFailsStep ==
  ASSUME GenerationInv, NEW c \in Calls, Generation!StreamFails(c) PROVE GenerationStep
<1>1. RecordOK(call[c]) /\ call[c].at = "next"
  BY DEF GenerationInv, CallsOK, Generation!StreamFails
<1>2. UNCHANGED <<slot, engine, loaded_model, requests, manager>>
  BY DEF Generation!StreamFails
<1>3. PICK cancel \in BOOLEAN, seen \in BOOLEAN :
        /\ call[c].cancelled => cancel
        /\ call' = [call EXCEPT ![c].cancelled = cancel, ![c].open = FALSE,
                                ![c].at = IF seen THEN "drain" ELSE "leave",
                                ![c].result = IF seen THEN "cancelled" ELSE "error"]
  <2>1. PICK host \in BOOLEAN :
          call' = [call EXCEPT
            ![c].cancelled = call[c].cancelled \/ host, ![c].open = FALSE,
            ![c].at = IF call[c].streaming /\ (call[c].cancelled \/ host) THEN "drain" ELSE "leave",
            ![c].result = IF call[c].streaming /\ (call[c].cancelled \/ host)
                          THEN "cancelled" ELSE "error"]
    BY DEF Generation!StreamFails
  <2>2. /\ (call[c].cancelled \/ host) \in BOOLEAN /\ (call[c].cancelled => call[c].cancelled \/ host)
        /\ (call[c].streaming /\ (call[c].cancelled \/ host)) \in BOOLEAN
    OBVIOUS
  <2> QED
    BY <2>1, <2>2
<1> DEFINE r == [call[c] EXCEPT !.cancelled = cancel, !.open = FALSE,
                                !.at = IF seen THEN "drain" ELSE "leave",
                                !.result = IF seen THEN "cancelled" ELSE "error"]
<1>4. RecordOK(r) /\ r.id = call[c].id /\ r.result # "ok"
  BY <1>1, <1>3 DEF RecordOK, Records
<1>5. call' = [call EXCEPT ![c] = r]
  BY <1>3
<1> HIDE DEF r
<1> QED
  BY <1>2, <1>4, <1>5, WriteStep

LEMMA EmitStep ==
  ASSUME GenerationInv, NEW c \in Calls, Generation!Emit(c) PROVE GenerationStep
<1>1. RecordOK(call[c]) /\ call[c].at = "emit" /\ call[c].late = 0
  BY DEF GenerationInv, CallsOK, RecordOK, Generation!Emit
<1>2. UNCHANGED <<slot, engine, loaded_model, requests, manager>>
  BY DEF Generation!Emit
<1>3. PICK late \in {0, 1} :
        /\ late = 1 => call[c].cancelled = TRUE
        /\ \/ call' = [call EXCEPT ![c].at = "next", ![c].late = late]
           \/ call' = [call EXCEPT ![c].cancelled = TRUE, ![c].at = "drain",
                                   ![c].late = late, ![c].result = "refused"]
  <2>1. call[c].cancelled \in BOOLEAN
    BY <1>1 DEF RecordOK, Records
  <2> DEFINE late == IF call[c].cancelled THEN call[c].late + 1 ELSE call[c].late
  <2>2. late \in {0, 1} /\ (late = 1 => call[c].cancelled = TRUE)
    BY <1>1, <2>1
  <2>3. \/ call' = [call EXCEPT ![c].at = "next", ![c].late = late]
        \/ call' = [call EXCEPT ![c].cancelled = TRUE, ![c].at = "drain",
                                ![c].late = late, ![c].result = "refused"]
    BY DEF Generation!Emit
  <2> HIDE DEF late
  <2> QED
    BY <2>2, <2>3
<1> DEFINE r == [call[c] EXCEPT !.at = "next", !.late = late]
           d == [call[c] EXCEPT !.cancelled = TRUE, !.at = "drain", !.late = late,
                                !.result = "refused"]
<1>4. call[c] \in Records /\ late \in Nat /\ (late = 0 \/ (late = 1 /\ call[c].cancelled = TRUE))
      /\ call[c].id # None
  BY <1>1, <1>3 DEF RecordOK
<1>5. RecordOK(r) /\ r.id = call[c].id /\ r.result = call[c].result
  <2>1. r \in Records
    BY <1>4 DEF Records
  <2>2. r.at = "next" /\ r.late = late /\ r.cancelled = call[c].cancelled /\ r.id = call[c].id
        /\ r.result = call[c].result
    BY <1>4 DEF Records
  <2> HIDE DEF r
  <2> QED
    BY <1>4, <2>1, <2>2 DEF RecordOK
<1>6. RecordOK(d) /\ d.id = call[c].id /\ d.result # "ok"
  <2>1. d \in Records
    BY <1>4 DEF Records
  <2>2. d.at = "drain" /\ d.late = late /\ d.cancelled = TRUE /\ d.id = call[c].id
        /\ d.result = "refused"
    BY <1>4 DEF Records
  <2> HIDE DEF d
  <2> QED
    BY <1>4, <2>1, <2>2 DEF RecordOK
<1>7. call' = [call EXCEPT ![c] = r] \/ call' = [call EXCEPT ![c] = d]
  BY <1>3
<1> HIDE DEF r, d
<1> QED
  BY <1>2, <1>5, <1>6, <1>7, WriteStep

\* The stream ends, with or without the call that reads it.
LEMMA EndSteps ==
  ASSUME GenerationInv, NEW c \in Calls,
         Generation!StreamEnds(c) \/ Generation!BadChunk(c) \/ Generation!Drained(c)
  PROVE  GenerationStep
<1>1. RecordOK(call[c]) /\ call[c].at \in {"next", "drain"} /\ call[c].open \in BOOLEAN
  BY DEF GenerationInv, CallsOK, RecordOK, Records, Generation!StreamEnds, Generation!BadChunk,
         Generation!Drained
<1>2. UNCHANGED <<slot, engine, loaded_model, requests, manager>>
  BY DEF Generation!StreamEnds, Generation!BadChunk, Generation!Drained
<1> DEFINE s == [call[c] EXCEPT !.open = FALSE]
           e == [call[c] EXCEPT !.at = "leave", !.result = "error"]
           d == [call[c] EXCEPT !.at = "leave"]
<1>3. /\ RecordOK(s) /\ s.id = call[c].id /\ s.result = call[c].result
      /\ RecordOK(e) /\ e.id = call[c].id /\ e.result # "ok"
  BY <1>1 DEF RecordOK, Records
<1>4. call[c].open = FALSE => RecordOK(d) /\ d.id = call[c].id /\ d.result = call[c].result
  BY <1>1 DEF RecordOK, Records
<1>5. \/ call' = [call EXCEPT ![c] = s] \/ call' = [call EXCEPT ![c] = e]
      \/ call[c].open = FALSE /\ call' = [call EXCEPT ![c] = d]
  BY <1>1 DEF Generation!StreamEnds, Generation!BadChunk, Generation!Drained, Generation!Return,
              Generation!CallTo
<1> HIDE DEF s, e, d
<1> QED
  BY <1>2, <1>3, <1>4, <1>5, WriteStep

LEMMA FinalStep ==
  ASSUME GenerationInv, NEW c \in Calls, Generation!Final(c) PROVE GenerationStep
<1>1. RecordOK(call[c]) /\ call[c].at = "next" /\ call[c].open = FALSE
      /\ call[c].cancelled \in BOOLEAN
  BY DEF GenerationInv, CallsOK, RecordOK, Records, Generation!Final
<1>2. UNCHANGED <<slot, engine, loaded_model, requests, manager>>
  BY DEF Generation!Final
<1>3. PICK result \in {"ok", "cancelled", "error"} :
        /\ call[c].cancelled = TRUE => result = "cancelled"
        /\ call' = [call EXCEPT ![c].at = "leave", ![c].result = result]
  BY <1>1 DEF Generation!Final, Generation!Return
<1> DEFINE r == [call[c] EXCEPT !.at = "leave", !.result = result]
<1>4. RecordOK(r) /\ r.id = call[c].id /\ r.result = result
  BY <1>1, <1>3 DEF RecordOK, Records
<1>5. call' = [call EXCEPT ![c] = r] /\ (r.result # "ok" \/ call[c].cancelled = FALSE)
  BY <1>1, <1>3, <1>4
<1> HIDE DEF r
<1> QED
  BY <1>2, <1>4, <1>5, WriteStep

LEMMA GenerationNext == GenerationInv /\ [Generation!Next]_generationVars => GenerationStep
<1> SUFFICES ASSUME GenerationInv, [Generation!Next]_generationVars PROVE GenerationStep
  OBVIOUS
<1>1. ASSUME NEW m \in Managers, Generation!Manage(m) PROVE GenerationStep
  <2>1. Managed' /\ requests' = requests
    BY <1>1, ManageStep
  <2>2. PICK K \in SUBSET Calls :
          call' = [c \in Calls |-> IF c \in K THEN [call[c] EXCEPT !.cancelled = TRUE] ELSE call[c]]
    <3>1. CASE Generation!StartUnload(m)
      <4> DEFINE K == {c \in Calls : \E i \in Ids : requests[i] = c}
      <4>1. call' = [c \in Calls |-> IF c \in K THEN [call[c] EXCEPT !.cancelled = TRUE] ELSE call[c]]
        BY <3>1 DEF Generation!StartUnload
      <4> QED
        BY <4>1
    <3>2. CASE call' = call
      <4> DEFINE K == {}
      <4>1. call' = [c \in Calls |-> IF c \in K THEN [call[c] EXCEPT !.cancelled = TRUE] ELSE call[c]]
        BY <3>2 DEF GenerationInv, CallsOK
      <4>2. K \in SUBSET Calls
        OBVIOUS
      <4> HIDE DEF K
      <4> QED
        BY <4>1, <4>2
    <3> QED
      BY <1>1, <3>1, <3>2
         DEF Generation!Manage, Generation!StartLoad, Generation!TakeEngine, Generation!LoadTask,
             Generation!PutBack, Generation!SetPath, Generation!UnloadEngine
  <2>3. CallsOK' /\ Registered' /\ \A c \in Calls : call'[c].result = call[c].result
    BY <2>1, <2>2, CancelStep
  <2> QED
    BY <2>1, <2>3 DEF GenerationInv, GenerationStep, NotOk
<1>2. ASSUME NEW i \in Ids, Generation!Cancel(i) PROVE GenerationStep
  <2> DEFINE d == requests[i]
  <2>1. d \in Calls
    BY <1>2 DEF Generation!Cancel, GenerationInv, Registered, None
  <2>2. call' = [c \in Calls |-> IF c \in {d} THEN [call[c] EXCEPT !.cancelled = TRUE] ELSE call[c]]
    BY <1>2, <2>1 DEF Generation!Cancel, GenerationInv, CallsOK
  <2>3. UNCHANGED <<slot, engine, loaded_model, requests, manager>>
    BY <1>2 DEF Generation!Cancel
  <2>4. CallsOK' /\ Registered' /\ \A c \in Calls : call'[c].result = call[c].result
    <3> HIDE DEF d
    <3> QED
      BY <2>1, <2>2, <2>3, CancelStep
  <2>5. Managed'
    BY <2>3 DEF GenerationInv, Managed
  <2> QED
    BY <2>4, <2>5 DEF GenerationInv, GenerationStep, NotOk
<1>3. ASSUME NEW c \in Calls,
             \/ Generation!Register(c) \/ Generation!Chunk(c) \/ Generation!StreamFails(c)
             \/ Generation!StreamEnds(c) \/ Generation!BadChunk(c) \/ Generation!Proceed(c)
      PROVE  GenerationStep
  BY <1>3, RegisterStep, ChunkStep, StreamFailsStep, EndSteps, DecodeStep, OpenStreamStep,
     CheckStep, EmitStep, FinalStep, LeaveStep DEF Generation!Proceed
<1>4. CASE UNCHANGED generationVars
  <2>1. UNCHANGED <<slot, engine, loaded_model, requests, call, manager>>
    BY <1>4 DEF generationVars
  <2>2. CallsOK' /\ Registered' /\ Managed'
    BY <2>1 DEF GenerationInv, CallsOK, Registered, Managed
  <2> QED
    BY <2>1, <2>2 DEF GenerationInv, GenerationStep, NotOk
<1> QED
  BY <1>1, <1>2, <1>3, <1>4 DEF Generation!Next

LEMMA PartStep == [Next]_allVars => [Generation!Next]_generationVars
<1>1. UNCHANGED allVars => UNCHANGED generationVars
  BY DEF allVars
<1>2. ASSUME Next PROVE Generation!Next \/ UNCHANGED generationVars
  BY <1>2 DEF Next
<1> QED
  BY <1>1, <1>2

LEMMA GenerationInvariant == Spec => []GenerationInv
<1>1. Init => GenerationInv
  BY GenerationInit DEF Init
<1>2. GenerationInv /\ [Next]_allVars => GenerationInv'
  BY PartStep, GenerationNext DEF GenerationStep
<1> QED
  BY <1>1, <1>2, PTL DEF Spec

\* However calls, loads, unloads and cancellations interleave and wherever the engine,
\* the consumer or the load task fails: the recorded path says whether the engine holds
\* a model and the engine is back in its slot unless a panic lost it; a cancelled
\* stream gives one more chunk at most and is read to its end (generation.rs).
THEOREM CallsLeaveCleanHolds == Spec => []CallsLeaveClean
<1>1. GenerationInv => Generation!TypeOK
  <2> SUFFICES ASSUME GenerationInv PROVE Generation!TypeOK
    OBVIOUS
  <2>1. call \in [Calls -> Records]
    BY DEF GenerationInv, CallsOK
  <2> QED
    BY <2>1 DEF GenerationInv, Registered, Managed, Generation!TypeOK, Records, None
<1>2. GenerationInv => Generation!IdleIsConsistent
  BY DEF GenerationInv, Managed, Generation!IdleIsConsistent
<1>3. GenerationInv => Generation!OneLateChunk
  BY DEF GenerationInv, CallsOK, RecordOK, Generation!OneLateChunk
<1>4. GenerationInv => Generation!DrainedWhenCancelled
  BY DEF GenerationInv, CallsOK, RecordOK, Generation!DrainedWhenCancelled
<1>5. GenerationInv => CallsLeaveClean
  BY <1>1, <1>2, <1>3, <1>4 DEF CallsLeaveClean, Generation!CallsLeaveClean
<1> QED
  BY <1>5, GenerationInvariant, PTL

\* A request whose token was cancelled does not become a success, whichever loop reads
\* its stream and whoever cancelled it (infer, infer_stream of generation.rs).
THEOREM CancelledNotOkHolds == Spec => Generation!CancelledNotOk
<1>1. GenerationInv /\ [Next]_allVars =>
        [\A c \in Calls : call[c].cancelled /\ call[c].result # "ok" =>
            call'[c].result # "ok"]_Generation!vars
  BY PartStep, GenerationNext DEF GenerationStep, NotOk
<1> QED
  BY <1>1, GenerationInvariant, PTL DEF Spec, Generation!CancelledNotOk
=============================================================================
