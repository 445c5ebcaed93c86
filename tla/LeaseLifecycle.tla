--------------------------- MODULE LeaseLifecycle ---------------------------
(***************************************************************************)
(* Capacity leases of requests in the scheduler role of the vLLM connector *)
(* (integrations/vllm/src/kapsl_vllm_connector/connector.py).              *)
(*                                                                         *)
(* Engine threads run on_new_request and request_finished; the heartbeat   *)
(* thread renews every lease with one call per interval; shutdown stops    *)
(* it and gives back what is left.  They share the table _leases and       *)
(* _control_failure, both under _lease_lock.                               *)
(*                                                                         *)
(* External, modelled from how the connector uses it: Kapsl's coordinator, *)
(* which grants leases that expire TTL ticks after the last renewal, and   *)
(* may lose them all when it restarts.  A call that fails has been         *)
(* executed, or will be later, or never.                                   *)
(*                                                                         *)
(* Time advances in ticks.  A control call takes at most CallTime of them, *)
(* and a thread that has something to do does it before the next tick.     *)
(***************************************************************************)
EXTENDS Naturals, FiniteSets

CONSTANTS
  Threads,     \* threads that run the engine's callbacks
  Requests,    \* request IDs
  Leases,      \* lease IDs the coordinator has; it refuses to grant more
  NoLease,
  TTL,         \* kapsl_lease_ttl_ms
  Interval,    \* interval_seconds of the heartbeat loop
  CallTime,    \* bound on one call, from kapsl_timeout_ms
  LiveResize,  \* whether the heartbeat thread polls for resizes first
  MaxLate      \* bound on the calls under way without a caller

ASSUME NoLeaseIsNone == NoLease \notin Leases
ASSUME TimesPositive ==
  TTL \in Nat \ {0} /\ Interval \in Nat \ {0} /\ CallTime \in Nat \ {0}
ASSUME LiveResizeBoolean == LiveResize \in BOOLEAN
ASSUME MaxLateNat == MaxLate \in Nat

VARIABLES
  live,      \* coordinator: ticks until a lease expires, 0 when there is none
  lost,      \* coordinator: restarted, and does not know this participant
  late,      \* calls whose caller gave up, not executed yet
  table,     \* _leases
  failed,    \* _control_failure is set
  hb,        \* where the heartbeat thread stands
  hclock,    \* ticks since its wait or call began
  pc,        \* where an engine thread stands
  req,       \* request of its callback
  lease,     \* lease it holds in a local variable
  tclock,    \* ticks since its call began
  phase,     \* the connector, from construction to the end of shutdown
  jclock,    \* ticks since shutdown's join began
  closing,   \* leases shutdown has still to release
  overrun,   \* lease a callback stored after shutdown took the table
  reported   \* leases for which a callback raised an error (or shutdown warned)

coVars == <<live, lost, late>>
beatVars == <<hb, hclock, failed>>
threadVars == <<pc, req, lease, tclock>>
downVars == <<phase, jclock, closing, overrun>>
vars == <<coVars, table, beatVars, threadVars, downVars, reported>>

Admitting == {"lookup", "reserve", "granted", "store", "redundant"}
Calling == {"reserve", "granted", "redundant", "commit", "release"}

Call(op, l) == [op |-> op, lease |-> l]
Calls == [op : {"reserve", "heartbeat", "release"}, lease : Leases \cup {NoLease}]

HasLeases == \E r \in Requests : table[r] # NoLease
Stopping == phase \in {"joining", "closing", "stopped"}
Drained == phase \in {"closing", "stopped"}     \* shutdown has taken the table

Init ==
  /\ live = [l \in Leases |-> 0] /\ lost = FALSE /\ late = {}
  /\ table = [r \in Requests |-> NoLease]
  /\ hb = "dead" /\ hclock = 0 /\ failed = FALSE
  /\ pc = [t \in Threads |-> "idle"]
  /\ req \in [Threads -> Requests]
  /\ lease = [t \in Threads |-> NoLease]
  /\ tclock = [t \in Threads |-> 0]
  /\ phase = "starting" /\ jclock = 0 /\ closing = {}
  /\ overrun = [t \in Threads |-> NoLease]
  /\ reported = {}

-----------------------------------------------------------------------------
(* The coordinator (external).                                             *)

\* A lease ID nobody refers to.
Fresh(l) ==
  /\ live[l] = 0
  /\ \A r \in Requests : table[r] # l
  /\ \A t \in Threads : lease[t] # l
  /\ l \notin closing
  /\ \A c \in late : c.lease # l

Renewed == [l \in Leases |-> IF live[l] > 0 THEN TTL ELSE 0]

\* What the coordinator has done or will do of a call that failed.
Abandon(c) ==
  \/ late' = late
  \/ /\ Cardinality(late) < MaxLate
     /\ ~lost
     /\ late' = late \cup {c}

LateReserve(l) ==
  /\ Call("reserve", NoLease) \in late
  /\ Fresh(l)
  /\ live' = [live EXCEPT ![l] = TTL]
  /\ late' = late \ {Call("reserve", NoLease)}
  /\ reported' = reported \cup {l}
  /\ UNCHANGED <<lost, table, beatVars, threadVars, downVars>>

LateHeartbeat ==
  /\ Call("heartbeat", NoLease) \in late
  /\ live' = Renewed
  /\ late' = late \ {Call("heartbeat", NoLease)}
  /\ UNCHANGED <<lost, table, beatVars, threadVars, downVars, reported>>

LateRelease(l) ==
  /\ Call("release", l) \in late
  /\ live' = [live EXCEPT ![l] = 0]
  /\ late' = late \ {Call("release", l)}
  /\ UNCHANGED <<lost, table, beatVars, threadVars, downVars, reported>>

Restart ==
  /\ ~lost
  /\ phase # "starting"
  /\ lost' = TRUE
  /\ live' = [l \in Leases |-> 0]
  /\ late' = {}
  /\ UNCHANGED <<table, beatVars, threadVars, downVars, reported>>

-----------------------------------------------------------------------------
(* _start_scheduler_control: activation, then the heartbeat thread.        *)

Start ==
  /\ phase = "starting"
  /\ phase' = "running"
  /\ hb' = "wait"
  /\ UNCHANGED <<coVars, table, hclock, failed, threadVars, jclock, closing, overrun, reported>>

\* activate raises: there is no connector and no heartbeat thread.
StartFails ==
  /\ phase = "starting"
  /\ phase' = "stopped"
  /\ UNCHANGED <<coVars, table, beatVars, threadVars, jclock, closing, overrun, reported>>

-----------------------------------------------------------------------------
(* on_new_request.  _shared_active is set since Start, so that             *)
(* _ensure_shared_active returns at once.                                  *)

NewRequest(t, r) ==
  /\ phase = "running"
  /\ pc[t] = "idle"
  /\ ~failed                                     \* _raise_if_control_failed
  /\ pc' = [pc EXCEPT ![t] = "lookup"]
  /\ req' = [req EXCEPT ![t] = r]
  /\ UNCHANGED <<coVars, table, beatVars, lease, tclock, downVars, reported>>

\* Mutant: a callback whose duplicate is under way returns at once.
Lookup_TrustsDuplicate(t) ==
  /\ pc[t] = "lookup"
  /\ LET known == \/ table[req[t]] # NoLease
                  \/ \E u \in Threads \ {t} : req[u] = req[t] /\ pc[u] \in Admitting
     IN  pc' = [pc EXCEPT ![t] = IF known THEN "idle" ELSE "reserve"]
  /\ UNCHANGED <<coVars, table, beatVars, req, lease, tclock, downVars, reported>>

Lookup(t) ==
  /\ pc[t] = "lookup"
  /\ pc' = [pc EXCEPT ![t] = IF table[req[t]] # NoLease THEN "idle" ELSE "reserve"]
  /\ UNCHANGED <<coVars, table, beatVars, req, lease, tclock, downVars, reported>>

\* The coordinator grants the lease of client.reserve ...
Grant(t, l) ==
  /\ pc[t] = "reserve"
  /\ ~lost
  /\ Fresh(l)
  /\ live' = [live EXCEPT ![l] = TTL]
  /\ lease' = [lease EXCEPT ![t] = l]
  /\ pc' = [pc EXCEPT ![t] = "granted"]
  /\ reported' = reported \ {l}
  /\ UNCHANGED <<lost, late, table, beatVars, req, tclock, downVars>>

\* ... and its answer arrives.
Granted(t) ==
  /\ pc[t] = "granted"
  /\ pc' = [pc EXCEPT ![t] = "store"]
  /\ UNCHANGED <<coVars, table, beatVars, req, lease, tclock, downVars, reported>>

\* client.reserve raises, before or after the coordinator granted a lease.
ReserveFails(t) ==
  /\ pc[t] \in {"reserve", "granted"}
  /\ IF pc[t] = "reserve" THEN Abandon(Call("reserve", NoLease)) ELSE late' = late
  /\ reported' = reported \cup ({lease[t]} \ {NoLease})
  /\ pc' = [pc EXCEPT ![t] = "idle"]
  /\ lease' = [lease EXCEPT ![t] = NoLease]
  /\ tclock' = [tclock EXCEPT ![t] = 0]
  /\ UNCHANGED <<live, lost, table, beatVars, req, downVars>>

\* Mutant: the redundant lease is dropped and not released.
Store_DropsRedundant(t) ==
  /\ pc[t] = "store"
  /\ table' = [table EXCEPT ![req[t]] = IF @ = NoLease THEN lease[t] ELSE @]
  /\ pc' = [pc EXCEPT ![t] = "idle"]
  /\ lease' = [lease EXCEPT ![t] = NoLease]
  /\ tclock' = [tclock EXCEPT ![t] = 0]
  /\ UNCHANGED <<coVars, beatVars, req, downVars, reported>>

\* self._leases.setdefault(request_id, lease), whether or not shutdown has emptied the
\* table meanwhile: then nobody will look at it again.
Store(t) ==
  /\ pc[t] = "store"
  /\ tclock' = [tclock EXCEPT ![t] = 0]
  /\ \/ /\ table[req[t]] = NoLease
        /\ table' = [table EXCEPT ![req[t]] = lease[t]]
        /\ overrun' = IF Drained THEN [overrun EXCEPT ![t] = lease[t]] ELSE overrun
        /\ pc' = [pc EXCEPT ![t] = "idle"]
        /\ lease' = [lease EXCEPT ![t] = NoLease]
     \/ /\ table[req[t]] # NoLease
        /\ pc' = [pc EXCEPT ![t] = "redundant"]
        /\ UNCHANGED <<table, lease, overrun>>
  /\ UNCHANGED <<coVars, beatVars, req, phase, jclock, closing, reported>>

-----------------------------------------------------------------------------
(* request_finished.  The engine finishes a request only when none of its  *)
(* own on_new_request callbacks for it is still running.                   *)

\* Mutant: the lease is read from the table and stays in it.
RequestFinished_Gets(t, r) ==
  /\ phase = "running"
  /\ pc[t] = "idle"
  /\ \A u \in Threads : req[u] = r => pc[u] \notin Admitting
  /\ table[r] # NoLease
  /\ lease' = [lease EXCEPT ![t] = table[r]]
  /\ req' = [req EXCEPT ![t] = r]
  /\ pc' = [pc EXCEPT ![t] = "commit"]
  /\ UNCHANGED <<coVars, table, beatVars, tclock, downVars, reported>>

RequestFinished(t, r) ==
  /\ phase = "running"
  /\ pc[t] = "idle"
  /\ \A u \in Threads : req[u] = r => pc[u] \notin Admitting
  /\ table[r] # NoLease
  /\ table' = [table EXCEPT ![r] = NoLease]
  /\ lease' = [lease EXCEPT ![t] = table[r]]
  /\ req' = [req EXCEPT ![t] = r]
  /\ pc' = [pc EXCEPT ![t] = "commit"]
  /\ UNCHANGED <<coVars, beatVars, tclock, downVars, reported>>

\* Whatever commit answers, release is tried next.
Commit(t) ==
  /\ pc[t] = "commit"
  /\ pc' = [pc EXCEPT ![t] = "release"]
  /\ tclock' = [tclock EXCEPT ![t] = 0]
  /\ UNCHANGED <<coVars, table, beatVars, req, lease, downVars, reported>>

\* client.release of request_finished, or of a duplicate on_new_request.
Release(t) ==
  /\ pc[t] \in {"redundant", "release"}
  /\ ~lost
  /\ live' = [live EXCEPT ![lease[t]] = 0]
  /\ pc' = [pc EXCEPT ![t] = "idle"]
  /\ lease' = [lease EXCEPT ![t] = NoLease]
  /\ tclock' = [tclock EXCEPT ![t] = 0]
  /\ UNCHANGED <<lost, late, table, beatVars, req, downVars, reported>>

ReleaseFails(t) ==
  /\ pc[t] \in {"redundant", "release"}
  /\ \/ live' = [live EXCEPT ![lease[t]] = 0] /\ late' = late
     \/ live' = live /\ Abandon(Call("release", lease[t]))
  /\ reported' = reported \cup {lease[t]}
  /\ pc' = [pc EXCEPT ![t] = "idle"]
  /\ lease' = [lease EXCEPT ![t] = NoLease]
  /\ tclock' = [tclock EXCEPT ![t] = 0]
  /\ UNCHANGED <<lost, table, beatVars, req, downVars>>

-----------------------------------------------------------------------------
(* _heartbeat_loop.                                                        *)

\* The loop is at `at`, with a wait or a call that begins now.
LoopTo(at) == hb' = at /\ hclock' = 0

WaitEnds ==
  /\ hb = "wait" /\ hclock = Interval /\ ~Stopping
  /\ LoopTo(IF LiveResize THEN "poll" ELSE "look")
  /\ UNCHANGED <<coVars, table, failed, threadVars, downVars, reported>>

WaitStopped ==
  /\ hb = "wait" /\ Stopping
  /\ LoopTo("dead")
  /\ UNCHANGED <<coVars, table, failed, threadVars, downVars, reported>>

\* _poll_scheduler_resizes, whose effect is in ElasticResize.
PollReturns ==
  /\ hb = "poll" /\ ~lost
  /\ LoopTo("look")
  /\ UNCHANGED <<coVars, table, failed, threadVars, downVars, reported>>

\* Mutant: a failed poll is logged and tried again after the next wait.
PollFails_Retries ==
  /\ hb = "poll"
  /\ LoopTo("wait")
  /\ UNCHANGED <<coVars, table, failed, threadVars, downVars, reported>>

PollFails ==
  /\ hb = "poll"
  /\ failed' = TRUE
  /\ LoopTo("dead")
  /\ UNCHANGED <<coVars, table, threadVars, downVars, reported>>

Look ==
  /\ hb = "look"
  /\ LoopTo(IF HasLeases THEN "call" ELSE "wait")
  /\ UNCHANGED <<coVars, table, failed, threadVars, downVars, reported>>

\* The coordinator executes client.heartbeat ...
Heartbeat ==
  /\ hb = "call" /\ ~lost
  /\ live' = Renewed
  /\ hb' = "renewed"
  /\ UNCHANGED <<lost, late, table, hclock, failed, threadVars, downVars, reported>>

\* ... and its answer arrives.
HeartbeatReturns ==
  /\ hb = "renewed"
  /\ LoopTo("wait")
  /\ UNCHANGED <<coVars, table, failed, threadVars, downVars, reported>>

\* Mutant: a failed heartbeat is tried again after the next wait.
HeartbeatFails_Retries ==
  /\ hb \in {"call", "renewed"}
  /\ IF hb = "call" THEN Abandon(Call("heartbeat", NoLease)) ELSE late' = late
  /\ LoopTo("wait")
  /\ UNCHANGED <<live, lost, table, failed, threadVars, downVars, reported>>

HeartbeatFails ==
  /\ hb \in {"call", "renewed"}
  /\ IF hb = "call" THEN Abandon(Call("heartbeat", NoLease)) ELSE late' = late
  /\ failed' = (failed \/ HasLeases)
  /\ LoopTo(IF HasLeases THEN "dead" ELSE "wait")
  /\ UNCHANGED <<live, lost, table, threadVars, downVars, reported>>

-----------------------------------------------------------------------------
(* shutdown.                                                               *)

Shutdown ==
  /\ phase = "running"
  /\ phase' = "joining"
  /\ UNCHANGED <<coVars, table, beatVars, threadVars, jclock, closing, overrun, reported>>

\* Mutant: requests without a lease are taken too.
TakeTable_Unfiltered ==
  /\ phase = "joining"
  /\ hb = "dead" \/ jclock = TTL
  /\ closing' = {table[r] : r \in Requests}
  /\ table' = [r \in Requests |-> NoLease]
  /\ phase' = "closing"
  /\ jclock' = 0
  /\ UNCHANGED <<coVars, beatVars, threadVars, overrun, reported>>

\* The heartbeat thread has ended, or join gives up on it.
TakeTable ==
  /\ phase = "joining"
  /\ hb = "dead" \/ jclock = TTL
  /\ closing' = {table[r] : r \in Requests} \ {NoLease}
  /\ table' = [r \in Requests |-> NoLease]
  /\ phase' = "closing"
  /\ jclock' = 0
  /\ UNCHANGED <<coVars, beatVars, threadVars, overrun, reported>>

ShutdownRelease(l) ==
  /\ phase = "closing" /\ l \in closing
  /\ closing' = closing \ {l}
  /\ \/ ~lost /\ live' = [live EXCEPT ![l] = 0] /\ UNCHANGED <<late, reported>>
     \/ /\ \/ live' = [live EXCEPT ![l] = 0] /\ late' = late
           \/ live' = live /\ Abandon(Call("release", l))
        /\ reported' = reported \cup {l}
  /\ UNCHANGED <<lost, table, beatVars, threadVars, phase, jclock, overrun>>

ShutdownEnds ==
  /\ phase = "closing" /\ closing = {}
  /\ phase' = "stopped"
  /\ UNCHANGED <<coVars, table, beatVars, threadVars, jclock, closing, overrun, reported>>

-----------------------------------------------------------------------------
(* Time.                                                                   *)

\* Nobody has to move before the clocks do.
HeartbeatMayWait ==
  /\ hb # "look"
  /\ hb = "wait" => hclock < Interval /\ ~Stopping
  /\ hb \in {"poll", "call", "renewed"} => hclock < CallTime

ThreadMayWait(t) ==
  /\ pc[t] \notin {"lookup", "store"}
  /\ pc[t] \in Calling => tclock[t] < CallTime

ShutdownMayWait == phase = "joining" => hb # "dead" /\ jclock < TTL

Tick ==
  /\ phase # "starting"
  /\ HeartbeatMayWait
  /\ \A t \in Threads : ThreadMayWait(t)
  /\ ShutdownMayWait
  /\ live' = [l \in Leases |-> IF live[l] > 0 THEN live[l] - 1 ELSE 0]
  /\ hclock' = IF hb = "dead" THEN 0 ELSE hclock + 1
  /\ tclock' = [t \in Threads |-> IF pc[t] \in Calling THEN tclock[t] + 1 ELSE 0]
  /\ jclock' = IF phase = "joining" THEN jclock + 1 ELSE 0
  /\ UNCHANGED <<lost, late, table, hb, failed, pc, req, lease, phase, closing, overrun,
                 reported>>

-----------------------------------------------------------------------------
BeatNext ==
  WaitEnds \/ WaitStopped \/ PollReturns \/ PollFails \/ Look \/ Heartbeat
    \/ HeartbeatReturns \/ HeartbeatFails

\* The steps of a callback that has begun.
CallbackNext(t) ==
  \/ Lookup(t) \/ Granted(t) \/ ReserveFails(t) \/ Store(t)
  \/ Commit(t) \/ Release(t) \/ ReleaseFails(t)
  \/ \E l \in Leases : Grant(t, l)

ShutdownNext == TakeTable \/ ShutdownEnds \/ \E l \in Leases : ShutdownRelease(l)

Next ==
  \/ \E l \in Leases : LateReserve(l) \/ LateRelease(l)
  \/ LateHeartbeat \/ Restart \/ Start \/ StartFails
  \/ \E t \in Threads, r \in Requests : NewRequest(t, r) \/ RequestFinished(t, r)
  \/ \E t \in Threads : CallbackNext(t)
  \/ BeatNext
  \/ Shutdown \/ ShutdownNext
  \/ Tick

Spec == Init /\ [][Next]_vars

\* The operating system runs the threads, every call ends, and time goes on.
Scheduled ==
  /\ WF_vars(BeatNext)
  /\ \A t \in Threads : WF_vars(CallbackNext(t))
  /\ WF_vars(ShutdownNext)
  /\ SF_vars(Tick)

FairSpec == Spec /\ Scheduled
-----------------------------------------------------------------------------
(* Properties.                                                             *)

TypeOK ==
  /\ live \in [Leases -> 0..TTL] /\ lost \in BOOLEAN /\ late \subseteq Calls
  /\ table \in [Requests -> Leases \cup {NoLease}]
  /\ hb \in {"wait", "poll", "look", "call", "renewed", "dead"}
  /\ hclock \in Nat /\ failed \in BOOLEAN
  /\ pc \in [Threads -> {"idle", "lookup", "reserve", "granted", "store",
                         "redundant", "commit", "release"}]
  /\ req \in [Threads -> Requests]
  /\ lease \in [Threads -> Leases \cup {NoLease}]
  /\ tclock \in [Threads -> Nat]
  /\ phase \in {"starting", "running", "joining", "closing", "stopped"}
  /\ jclock \in Nat /\ closing \subseteq Leases
  /\ overrun \in [Threads -> Leases \cup {NoLease}]
  /\ reported \subseteq Leases

\* What a deployment must configure for the heartbeat to be in time; the
\* constructor checks no more than a minimum of kapsl_lease_ttl_ms.
Timely ==
  TTL > Interval + 3 * CallTime + (IF LiveResize THEN CallTime ELSE 0)

\* A lease has one owner: a table entry, a callback or shutdown.  So request_finished,
\* the duplicate's release in on_new_request and shutdown never release one twice, and
\* nothing is committed to a lease that was given back.
LeaseOwnedOnce ==
  /\ \A r, s \in Requests : table[r] = table[s] /\ table[r] # NoLease => r = s
  /\ \A t, u \in Threads : lease[t] = lease[u] /\ lease[t] # NoLease => t = u
  /\ \A r \in Requests, t \in Threads : table[r] = lease[t] => table[r] = NoLease
  /\ \A r \in Requests : table[r] \notin closing
  /\ \A t \in Threads : lease[t] \notin closing

\* Every lease the coordinator counts is one that a callback, request_finished or shutdown
\* will still give back, or one for which a callback has raised (or shutdown has logged)
\* the failure of its call, with one exception: a callback that is inside on_new_request
\* when shutdown takes the table stores its lease into the emptied table (connector.py 350
\* asks nobody).  That lease is lost without a word, but it is one at most for each such
\* callback, and none before shutdown has taken the table.
SilentLeakOnlyAtShutdown ==
  /\ \A l \in Leases : live[l] > 0 =>
       \/ l \in closing \cup reported
       \/ ~Drained /\ \E r \in Requests : table[r] = l
       \/ \E t \in Threads : l \in {lease[t], overrun[t]}
  /\ \A t \in Threads : overrun[t] # NoLease =>
       Drained /\ pc[t] \notin {"lookup", "reserve", "granted", "store"}

\* While the scheduler runs and _control_failure is not set, the lease of an admitted
\* request, and one about to be committed, has not expired: _heartbeat_loop renews it in
\* time or fails closed first, whatever is lost on the way.
NoSilentExpiry ==
  phase = "running" /\ ~failed /\ ~lost =>
    /\ \A r \in Requests : table[r] # NoLease => live[table[r]] > 0
    /\ \A t \in Threads : pc[t] = "commit" => live[lease[t]] > 0

\* An on_new_request that returns leaves the request with a lease in the table, also
\* when a duplicate callback was faster and its own lease was redundant.
AdmissionHoldsLease ==
  [][\A t \in Threads :
       /\ pc[t] \in {"lookup", "store", "redundant"} /\ pc'[t] = "idle"
       /\ phase = "running"
       => table'[req[t]] # NoLease]_vars

\* A coordinator that forgot the participant is noticed: if requests hold leases and
\* nobody finishes them or shuts down, _heartbeat_loop sets _control_failure.
LostAuthorityNoticed ==
  (lost /\ HasLeases) ~> (failed \/ ~HasLeases \/ Stopping)

\* Leases that were leaked do not live on: once the callbacks have ended and the table
\* is empty, or the heartbeat thread is gone, nothing renews them.
Quiet == (\A t \in Threads : pc[t] = "idle") /\ (hb = "dead" \/ ~HasLeases)

LeakedLeasesExpire ==
  <>[]Quiet => <>[](\A l \in Leases : live[l] = 0)
=============================================================================
