---------------------------- MODULE ControlCall ----------------------------
(* One control call and the operating-system handles its reply may carry     *)
(* (client.py, connector.py): the frame is read piece by piece, handles come *)
(* with any piece, and each layer that gives up closes what it owns.  A call *)
(* is a worker's registration or poll, whose handles the connector goes on   *)
(* to import and then closes; the scheduler's poll, which must get none; a   *)
(* scheduler's registration, whose handles the client closes itself; or any  *)
(* other call.  Handles are numbered as the process sees them.               *)
EXTENDS Naturals, FiniteSets

CONSTANTS
  Fds,         \* handles the peer may send
  MaxHandles,  \* bound on the handles of one reply (64 in the code)
  MaxPieces    \* bound: pieces of one frame

CallAssumption ==
  IsFiniteSet(Fds) /\ MaxHandles \in Nat /\ MaxPieces \in Nat \ {0}

Kinds == {"worker_register", "worker_poll", "scheduler_poll", "register", "other"}
TakesHandles == {"worker_register", "worker_poll", "scheduler_poll"}

VARIABLES
  kind,     \* which call
  pc,       \* connect, read, leave, decode, check, use, ended
  pieces,   \* pieces read
  got,      \* handles read so far
  open,     \* handles open in this process
  closes,   \* how often each handle was closed
  result,   \* returned, or the exception: control, contract, import
  broken,   \* whether the socket failed inside a frame
  exact     \* whether the indices its segments name are exactly those of the handles

vars == <<kind, pc, pieces, got, open, closes, result, broken, exact>>

TypeOK ==
  /\ kind \in Kinds
  /\ pc \in {"connect", "read", "leave", "decode", "check", "use", "ended"}
  /\ pieces \in 0 .. MaxPieces
  /\ got \subseteq Fds /\ open \subseteq Fds /\ closes \in [Fds -> Nat]
  /\ result \in {"none", "returned", "control", "contract", "import"}
  /\ broken \in BOOLEAN /\ exact \in BOOLEAN

Init ==
  /\ kind \in Kinds /\ exact \in BOOLEAN
  /\ pc = "connect" /\ pieces = 0 /\ got = {} /\ open = {}
  /\ closes = [f \in Fds |-> 0] /\ result = "none" /\ broken = FALSE

-----------------------------------------------------------------------------

\* _close_handles: every descriptor, whatever close says.
Close(handles) ==
  /\ open' = open \ handles
  /\ closes' = [f \in Fds |-> closes[f] + (IF f \in handles THEN 1 ELSE 0)]

End(how) == pc' = "ended" /\ result' = how

Connect ==
  /\ pc = "connect"
  /\ \/ pc' = "read" /\ UNCHANGED result
     \/ End("control")
  /\ UNCHANGED <<kind, pieces, got, open, closes, broken, exact>>

\* recvmsg brings a piece with handles; the last one ends the frame.  More
\* handles than allowed, or an empty frame or one too large, closes them all.
ReadPiece(new) ==
  /\ pc = "read" /\ pieces < MaxPieces /\ new \cap got = {}
  /\ pieces' = pieces + 1 /\ got' = got \cup new
  /\ \/ /\ Cardinality(got') <= MaxHandles
        /\ open' = open \cup new
        /\ pc' \in {"read", "leave"} /\ UNCHANGED <<closes, result>>
     \/ /\ open' = {}
        /\ closes' = [f \in Fds |-> closes[f] + (IF f \in got' THEN 1 ELSE 0)]
        /\ End("control")
  /\ UNCHANGED <<kind, broken, exact>>

\* The peer closes, or sends ancillary data of another kind.
ReadRefused ==
  /\ pc = "read"
  /\ Close(got) /\ End("control")
  /\ UNCHANGED <<kind, pieces, got, broken, exact>>

\* A timeout or another socket error inside the frame: the handles read so far
\* are in a local variable of _read_frame_with_handles and are not closed.
ReadFails ==
  /\ pc = "read"
  /\ broken' = TRUE /\ End("control")
  /\ UNCHANGED <<kind, pieces, got, open, closes, exact>>

\* Leaving the with-block closes the socket, which may fail too.
LeaveSocket ==
  /\ pc = "leave"
  /\ \/ pc' = "decode" /\ UNCHANGED <<open, closes, result>>
     \/ Close(got) /\ End("control")
  /\ UNCHANGED <<kind, pieces, got, broken, exact>>

\* Bad JSON, another request's answer, or an error reply; one without an error
\* object raises a ContractValidationError that nobody converts.
Decode ==
  /\ pc = "decode"
  /\ \/ pc' = "check" /\ UNCHANGED <<open, closes, result>>
     \/ Close(got) /\ (End("control") \/ End("contract"))
  /\ UNCHANGED <<kind, pieces, got, broken, exact>>

\* What the call makes of the reply.  A call that takes no handles refuses a
\* reply that has some (_rpc); register and poll validate it, and the handles
\* must be exactly those the segments name.
Check ==
  /\ pc = "check"
  /\ \/ kind \in TakesHandles /\ exact /\ pc' = "use" /\ UNCHANGED <<open, closes, result>>
     \/ kind = "register" /\ exact /\ Close(got) /\ End("returned")
     \/ kind = "other" /\ got = {} /\ End("returned") /\ UNCHANGED <<open, closes>>
     \/ Close(got) /\ End("control")
  /\ UNCHANGED <<kind, pieces, got, broken, exact>>

\* The connector imports (the driver keeps a reference of its own) or, in the
\* scheduler, refuses any handle with a SharedPoolImportError; either way its
\* finally clause closes them.
\* Mutant: the handles are closed when the import succeeds only.
Use_NoFinally ==
  /\ pc = "use"
  /\ \/ Close(got) /\ End("returned")
     \/ End("import") /\ UNCHANGED <<open, closes>>
  /\ UNCHANGED <<kind, pieces, got, broken, exact>>
Use ==
  /\ pc = "use"
  /\ Close(got)
  /\ \/ kind = "scheduler_poll" /\ End(IF got = {} THEN "returned" ELSE "import")
     \/ kind # "scheduler_poll" /\ (End("returned") \/ End("import"))
  /\ UNCHANGED <<kind, pieces, got, broken, exact>>

Next ==
  \/ Connect
  \/ \E new \in SUBSET Fds : ReadPiece(new)
  \/ ReadRefused
  \/ ReadFails
  \/ LeaveSocket
  \/ Decode
  \/ Check
  \/ Use

Spec == Init /\ [][Next]_vars

-----------------------------------------------------------------------------
(* Properties *)

\* No handle is closed twice, at any point on any path through the client and the
\* connector: by the second time the number may belong to a file of another thread.
ClosedOnce == \A f \in Fds : closes[f] <= 1

\* When a call is over, whatever it returned or raised, every handle it received has been
\* closed, with one exception: when the socket fails inside a frame, every handle that the
\* frame has brought stays open in the process, and nothing knows of it any more
\* (recvmsg in _read_frame_with_handles raises; handles is [] in _rpc_with_handles).
OpenOnlyIfBroken ==
  pc = "ended" =>
    IF broken THEN open = got /\ \A f \in Fds : closes[f] = 0
    ELSE open = {} /\ \A f \in got : closes[f] = 1

\* The connector imports only open handles, and only when the reply's indices name
\* those and no others (register_with_handles, poll_resize_state_with_handles).
ImportsExact == pc = "use" => exact /\ open = got

\* A handle is closed at most once, by whichever level of the client or connector has it
\* when the call ends; none is closed, and all are lost, exactly when the socket fails
\* inside the frame; and a handle is imported only when it is named.
HandlesAccounted ==
  /\ TypeOK
  /\ ClosedOnce
  /\ OpenOnlyIfBroken
  /\ ImportsExact
=============================================================================
