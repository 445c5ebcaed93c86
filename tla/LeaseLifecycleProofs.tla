------------------------ MODULE LeaseLifecycleProofs ------------------------
(***************************************************************************)
(* Proofs about LeaseLifecycle.                                            *)
(*                                                                         *)
(* OwnerInv adds to LeaseOwnedOnce what a callback holds where, and that a *)
(* release still under way is for a lease nobody owns any more.  TimeInv   *)
(* says for each point of the heartbeat loop how long the leases in the    *)
(* table must last: until the loop has renewed them or failed closed, and  *)
(* one call longer, for a commit that begins in between.                   *)
(***************************************************************************)
EXTENDS LeaseLifecycle, TLAPS

Holding == {"granted", "store", "redundant", "commit", "release"}

Unowned(l) ==
  /\ l \notin closing
  /\ \A r \in Requests : table[r] # l
  /\ \A t \in Threads : lease[t] # l

HoldInv == \A t \in Threads : lease[t] # NoLease <=> pc[t] \in Holding

LateInv ==
  \A c \in late : c.op = "release" => c.lease \in Leases /\ Unowned(c.lease)

\* While the scheduler runs, whoever found a faster duplicate finds its entry.
RedundantInv ==
  \A t \in Threads : phase = "running" /\ pc[t] = "redundant" => table[req[t]] # NoLease

\* Only shutdown's last phase has leases to release, and nothing runs before Start.
ClosingInv ==
  /\ phase # "closing" => closing = {}
  /\ phase = "starting" => \A t \in Threads : pc[t] = "idle"
  /\ phase = "starting" => \A r \in Requests : table[r] = NoLease

OwnerInv ==
  /\ TypeOK /\ HoldInv /\ LeaseOwnedOnce /\ LateInv
  /\ SilentLeakOnlyAtShutdown /\ RedundantInv /\ ClosingInv

-----------------------------------------------------------------------------
(* Types.                                                                  *)

LEMMA AbandonType ==
  ASSUME TypeOK, NEW c \in Calls, Abandon(c)
  PROVE  late' \subseteq Calls
BY DEF Abandon, TypeOK

LEMMA RenewedType == ASSUME TypeOK PROVE Renewed \in [Leases -> 0..TTL]
BY TimesPositive DEF Renewed, TypeOK

LEMMA TypeCoordinator == TypeOK /\ (Restart \/ LateHeartbeat) => TypeOK'
<1> SUFFICES ASSUME TypeOK, Restart \/ LateHeartbeat PROVE TypeOK'
  OBVIOUS
<1>1. live' \in [Leases -> 0..TTL] /\ late' \subseteq Calls
  BY RenewedType, TimesPositive DEF Restart, LateHeartbeat, TypeOK
<1>3. lost' \in BOOLEAN
  BY DEF Restart, LateHeartbeat, TypeOK
<1>2. UNCHANGED <<table, beatVars, threadVars, downVars, reported>>
  BY DEF Restart, LateHeartbeat
<1> QED BY <1>1, <1>2, <1>3 DEF TypeOK, beatVars, threadVars, downVars

LEMMA TypeLate ==
  ASSUME TypeOK, NEW l \in Leases, LateReserve(l) \/ LateRelease(l)
  PROVE  TypeOK'
BY TimesPositive DEF LateReserve, LateRelease, TypeOK, beatVars, threadVars, downVars

LEMMA TypeBeat == TypeOK /\ BeatNext => TypeOK'
<1> SUFFICES ASSUME TypeOK, BeatNext PROVE TypeOK'
  OBVIOUS
<1>1. hb' \in {"wait", "poll", "look", "call", "renewed", "dead"} /\ hclock' \in Nat
  BY DEF TypeOK, BeatNext, LoopTo, WaitEnds, WaitStopped, PollReturns, PollFails, Look,
     Heartbeat, HeartbeatReturns, HeartbeatFails
<1>2. failed' \in BOOLEAN
  BY DEF TypeOK, BeatNext, WaitEnds, WaitStopped, PollReturns, PollFails, Look,
     Heartbeat, HeartbeatReturns, HeartbeatFails, HasLeases
<1>3. live' \in [Leases -> 0..TTL] /\ lost' = lost
  BY RenewedType DEF TypeOK, BeatNext, coVars, WaitEnds, WaitStopped, PollReturns, PollFails,
     Look, Heartbeat, HeartbeatReturns, HeartbeatFails
<1>4. late' \subseteq Calls
  <2>1. Call("heartbeat", NoLease) \in Calls
    BY DEF Call, Calls
  <2> QED BY <2>1, AbandonType DEF TypeOK, BeatNext, coVars, WaitEnds, WaitStopped,
       PollReturns, PollFails, Look, Heartbeat, HeartbeatReturns, HeartbeatFails
<1>5. UNCHANGED <<table, threadVars, downVars, reported>>
  BY DEF BeatNext, WaitEnds, WaitStopped, PollReturns, PollFails, Look,
     Heartbeat, HeartbeatReturns, HeartbeatFails
<1> QED BY <1>1, <1>2, <1>3, <1>4, <1>5 DEF TypeOK, threadVars, downVars

LEMMA TypeThread ==
  ASSUME TypeOK, HoldInv, NEW t \in Threads, NEW r \in Requests,
         CallbackNext(t) \/ NewRequest(t, r) \/ RequestFinished(t, r)
  PROVE  TypeOK'
<1>1. UNCHANGED <<lost, beatVars, phase, jclock, closing>>
  BY DEF CallbackNext, NewRequest, RequestFinished, Lookup, Grant, Granted, ReserveFails,
     Store, Commit, Release, ReleaseFails, coVars, downVars
<1>10. overrun' \in [Threads -> Leases \cup {NoLease}]
  BY DEF TypeOK, CallbackNext, NewRequest, RequestFinished, Lookup, Grant, Granted,
     ReserveFails, Store, Commit, Release, ReleaseFails, downVars
<1>2. pc' \in [Threads -> {"idle", "lookup", "reserve", "granted", "store",
                           "redundant", "commit", "release"}]
  BY DEF TypeOK, CallbackNext, NewRequest, RequestFinished, Lookup, Grant, Granted,
     ReserveFails, Store, Commit, Release, ReleaseFails
<1>3. req' \in [Threads -> Requests] /\ tclock' \in [Threads -> Nat]
  BY DEF TypeOK, CallbackNext, NewRequest, RequestFinished, Lookup, Grant, Granted,
     ReserveFails, Store, Commit, Release, ReleaseFails
<1>4. lease' \in [Threads -> Leases \cup {NoLease}]
  BY DEF TypeOK, CallbackNext, NewRequest, RequestFinished, Lookup, Grant, Granted,
     ReserveFails, Store, Commit, Release, ReleaseFails
<1>5. table' \in [Requests -> Leases \cup {NoLease}]
  BY DEF TypeOK, CallbackNext, NewRequest, RequestFinished, Lookup, Grant, Granted,
     ReserveFails, Store, Commit, Release, ReleaseFails
<1>6. pc[t] \in {"redundant", "release"} => lease[t] \in Leases
  BY DEF TypeOK, HoldInv, Holding
<1>7. live' \in [Leases -> 0..TTL]
  BY TimesPositive DEF TypeOK, CallbackNext, NewRequest, RequestFinished, Lookup, Grant, Granted,
     ReserveFails, Store, Commit, Release, ReleaseFails, coVars
<1>8. late' \subseteq Calls
  <2>1. Call("reserve", NoLease) \in Calls /\ Call("release", lease[t]) \in Calls
    BY DEF Call, Calls, TypeOK
  <2> QED BY <2>1, AbandonType DEF TypeOK, CallbackNext, NewRequest, RequestFinished, Lookup,
       Grant, Granted, ReserveFails, Store, Commit, Release, ReleaseFails, coVars
<1>9. reported' \subseteq Leases
  BY <1>6 DEF TypeOK, CallbackNext, NewRequest, RequestFinished, Lookup, Grant, Granted,
     ReserveFails, Store, Commit, Release, ReleaseFails
<1> QED BY <1>1, <1>2, <1>3, <1>4, <1>5, <1>7, <1>8, <1>9, <1>10 DEF TypeOK, beatVars

LEMMA TypeShutdown == TypeOK /\ (Start \/ StartFails \/ Shutdown \/ ShutdownNext) => TypeOK'
<1> SUFFICES ASSUME TypeOK, Start \/ StartFails \/ Shutdown \/ ShutdownNext PROVE TypeOK'
  OBVIOUS
<1>1. CASE Start \/ StartFails \/ Shutdown
  BY <1>1 DEF TypeOK, Start, StartFails, Shutdown, coVars, beatVars, threadVars
<1>2. CASE TakeTable \/ ShutdownEnds
  BY <1>2 DEF TypeOK, TakeTable, ShutdownEnds, coVars, beatVars, threadVars
<1>3. ASSUME NEW l \in Leases, ShutdownRelease(l) PROVE TypeOK'
  <2>1. live' \in [Leases -> 0..TTL] /\ reported' \subseteq Leases /\ closing' \subseteq Leases
    BY <1>3, TimesPositive DEF TypeOK, ShutdownRelease
  <2>2. late' \subseteq Calls
    <3>1. Call("release", l) \in Calls
      BY DEF Call, Calls
    <3> QED BY <1>3, <3>1, AbandonType DEF TypeOK, ShutdownRelease
  <2> QED BY <1>3, <2>1, <2>2 DEF TypeOK, ShutdownRelease, beatVars, threadVars
<1> QED BY <1>1, <1>2, <1>3 DEF ShutdownNext

LEMMA TypeTick == TypeOK /\ Tick => TypeOK'
BY TimesPositive DEF TypeOK, Tick

LEMMA TypeStep == ASSUME TypeOK, HoldInv, [Next]_vars PROVE TypeOK'
<1>1. CASE UNCHANGED vars
  BY <1>1 DEF TypeOK, vars, coVars, beatVars, threadVars, downVars
<1> QED BY <1>1, TypeCoordinator, TypeLate, TypeBeat, TypeThread, TypeShutdown, TypeTick, [Next]_vars
     DEF Next, TypeOK

-----------------------------------------------------------------------------
(* Owners.                                                                 *)

ownerVars == <<table, lease, closing, overrun>>

\* Steps that leave the owners and the callbacks alone.
LEMMA OwnerOthers ==
  ASSUME OwnerInv, TypeOK', UNCHANGED <<ownerVars, pc, req>>,
         phase' = phase \/ phase = "starting" \/ phase' # "running",
         phase' = phase \/ phase' = "closing" \/ closing = {},
         phase' = "starting" => phase = "starting",
         phase = "starting" \/ (Drained' <=> Drained),
         \A c \in late' : c \in late \/ c.op # "release",
         \A l \in Leases : live'[l] > 0 /\ live[l] = 0 => l \in reported',
         reported \subseteq reported'
  PROVE  OwnerInv'
<1>1. HoldInv' /\ LeaseOwnedOnce'
  BY DEF OwnerInv, HoldInv, LeaseOwnedOnce, ownerVars
<1>2. LateInv'
  BY DEF OwnerInv, LateInv, Unowned, ownerVars
<1>3. SilentLeakOnlyAtShutdown'
  <2>1. phase = "starting" => ~Drained /\ \A r \in Requests : table[r] = NoLease
    BY DEF OwnerInv, ClosingInv, Drained
  <2> QED BY <2>1, NoLeaseIsNone DEF OwnerInv, SilentLeakOnlyAtShutdown, ownerVars, TypeOK
<1>4. RedundantInv'
  BY DEF OwnerInv, RedundantInv, ClosingInv, ownerVars
<1>5. ClosingInv'
  BY DEF OwnerInv, ClosingInv, ownerVars
<1> QED BY <1>1, <1>2, <1>3, <1>4, <1>5 DEF OwnerInv

LEMMA OwnerThreadSimple ==
  ASSUME OwnerInv, NEW t \in Threads, NEW r \in Requests, TypeOK',
         NewRequest(t, r) \/ Lookup(t) \/ Granted(t) \/ Commit(t)
  PROVE  OwnerInv'
<1>1. UNCHANGED <<live, late, ownerVars, phase, reported>>
  BY DEF NewRequest, Lookup, Granted, Commit, coVars, downVars, ownerVars
<1>2. HoldInv'
  BY DEF OwnerInv, TypeOK, HoldInv, Holding, NewRequest, Lookup, Granted, Commit
<1>3. LeaseOwnedOnce' /\ LateInv'
  BY <1>1 DEF OwnerInv, LeaseOwnedOnce, LateInv, Unowned, ownerVars
<1>6. SilentLeakOnlyAtShutdown'
  BY <1>1 DEF OwnerInv, TypeOK, SilentLeakOnlyAtShutdown, Drained, ownerVars,
     NewRequest, Lookup, Granted, Commit
<1>4. RedundantInv'
  BY <1>1 DEF OwnerInv, TypeOK, RedundantInv, ownerVars, NewRequest, Lookup, Granted, Commit
<1>5. ClosingInv'
  BY DEF OwnerInv, TypeOK, ClosingInv, NewRequest, Lookup, Granted, Commit, downVars
<1> QED BY <1>2, <1>3, <1>4, <1>5, <1>6 DEF OwnerInv

LEMMA OwnerGrant ==
  ASSUME OwnerInv, NEW t \in Threads, NEW l \in Leases, TypeOK', Grant(t, l)
  PROVE  OwnerInv'
<1>1. HoldInv'
  BY NoLeaseIsNone DEF OwnerInv, TypeOK, HoldInv, Holding, Grant
<1>2. LeaseOwnedOnce'
  BY NoLeaseIsNone DEF OwnerInv, TypeOK, LeaseOwnedOnce, Grant, Fresh, downVars
<1>3. LateInv'
  BY DEF OwnerInv, TypeOK, LateInv, Unowned, Grant, Fresh, downVars
<1>4. SilentLeakOnlyAtShutdown'
  <2>1. lease[t] = NoLease
    BY DEF OwnerInv, HoldInv, Holding, Grant
  <2> QED BY <2>1, NoLeaseIsNone DEF OwnerInv, TypeOK, SilentLeakOnlyAtShutdown, Drained,
       Grant, downVars
<1>5. RedundantInv'
  BY DEF OwnerInv, TypeOK, RedundantInv, Grant, downVars
<1>6. ClosingInv'
  BY DEF OwnerInv, TypeOK, ClosingInv, Grant, downVars
<1> QED BY <1>1, <1>2, <1>3, <1>4, <1>5, <1>6 DEF OwnerInv

LEMMA OwnerStore ==
  ASSUME OwnerInv, NEW t \in Threads, TypeOK', Store(t)
  PROVE  OwnerInv'
<1>1. lease[t] \in Leases
  BY DEF OwnerInv, TypeOK, HoldInv, Holding, Store
<1>2. HoldInv'
  BY NoLeaseIsNone DEF OwnerInv, TypeOK, HoldInv, Holding, Store
<1>3. LeaseOwnedOnce'
  BY <1>1, NoLeaseIsNone DEF OwnerInv, TypeOK, LeaseOwnedOnce, Store, downVars
<1>4. LateInv'
  BY <1>1, NoLeaseIsNone DEF OwnerInv, TypeOK, LateInv, Unowned, Store, downVars, coVars
<1>5. SilentLeakOnlyAtShutdown'
  <2>1. CASE table[req[t]] = NoLease
    BY <1>1, <2>1, NoLeaseIsNone DEF OwnerInv, TypeOK, SilentLeakOnlyAtShutdown, Drained, Store,
       coVars
  <2>2. CASE table[req[t]] # NoLease
    BY <2>2 DEF OwnerInv, TypeOK, SilentLeakOnlyAtShutdown, Drained, Store, coVars
  <2> QED BY <2>1, <2>2
<1>6. RedundantInv'
  BY <1>1, NoLeaseIsNone DEF OwnerInv, TypeOK, RedundantInv, Store, downVars
<1>7. ClosingInv'
  BY DEF OwnerInv, TypeOK, ClosingInv, Store, downVars
<1> QED BY <1>2, <1>3, <1>4, <1>5, <1>6, <1>7 DEF OwnerInv

\* The thread lets go of its lease: the call for it has ended, well or not.
LEMMA OwnerLetsGo ==
  ASSUME OwnerInv, NEW t \in Threads, TypeOK', UNCHANGED <<table, req, phase, closing, overrun>>,
         pc' = [pc EXCEPT ![t] = "idle"], lease' = [lease EXCEPT ![t] = NoLease],
         \A c \in late' :
           c \notin late /\ c.op = "release" => c.lease = lease[t] /\ lease[t] \in Leases,
         \A l \in Leases : live'[l] > 0 => live[l] > 0 /\ (l = lease[t] => l \in reported'),
         reported \subseteq reported'
  PROVE  OwnerInv'
<1>1. HoldInv'
  BY DEF OwnerInv, TypeOK, HoldInv, Holding
<1>2. LeaseOwnedOnce'
  BY NoLeaseIsNone DEF OwnerInv, TypeOK, LeaseOwnedOnce
<1>3. LateInv'
  BY NoLeaseIsNone DEF OwnerInv, TypeOK, LateInv, Unowned, LeaseOwnedOnce
<1>4. SilentLeakOnlyAtShutdown'
  BY DEF OwnerInv, TypeOK, SilentLeakOnlyAtShutdown, Drained
<1>5. RedundantInv'
  BY DEF OwnerInv, TypeOK, RedundantInv
<1>6. ClosingInv'
  BY DEF OwnerInv, TypeOK, ClosingInv
<1> QED BY <1>1, <1>2, <1>3, <1>4, <1>5, <1>6 DEF OwnerInv

LEMMA OwnerCallEnds ==
  ASSUME OwnerInv, NEW t \in Threads, TypeOK',
         ReserveFails(t) \/ Release(t) \/ ReleaseFails(t)
  PROVE  OwnerInv'
<1>1. UNCHANGED <<table, req, phase, closing, overrun>>
  BY DEF ReserveFails, Release, ReleaseFails, downVars
<1>2. pc' = [pc EXCEPT ![t] = "idle"] /\ lease' = [lease EXCEPT ![t] = NoLease]
  BY DEF ReserveFails, Release, ReleaseFails
<1>3. pc[t] \in {"redundant", "release"} => lease[t] \in Leases
  BY DEF OwnerInv, TypeOK, HoldInv, Holding
<1>4. \A c \in late' :
           c \notin late /\ c.op = "release" => c.lease = lease[t] /\ lease[t] \in Leases
  BY <1>3 DEF ReserveFails, Release, ReleaseFails, Abandon, Call
<1>5. \A l \in Leases : live'[l] > 0 => live[l] > 0 /\ (l = lease[t] => l \in reported')
  BY <1>3, NoLeaseIsNone DEF OwnerInv, TypeOK, ReserveFails, Release, ReleaseFails
<1>6. reported \subseteq reported'
  BY DEF ReserveFails, Release, ReleaseFails
<1> QED BY <1>1, <1>2, <1>4, <1>5, <1>6, OwnerLetsGo

LEMMA OwnerFinished ==
  ASSUME OwnerInv, NEW t \in Threads, NEW r \in Requests, TypeOK', RequestFinished(t, r)
  PROVE  OwnerInv'
<1>1. lease[t] = NoLease
  BY DEF OwnerInv, HoldInv, Holding, RequestFinished
<1>2. HoldInv'
  BY NoLeaseIsNone DEF OwnerInv, TypeOK, HoldInv, Holding, RequestFinished
<1>3. LeaseOwnedOnce'
  BY <1>1, NoLeaseIsNone DEF OwnerInv, TypeOK, LeaseOwnedOnce, RequestFinished, downVars
<1>4. LateInv'
  BY NoLeaseIsNone DEF OwnerInv, TypeOK, LateInv, Unowned, RequestFinished, downVars, coVars
<1>5. SilentLeakOnlyAtShutdown'
  BY <1>1, NoLeaseIsNone DEF OwnerInv, TypeOK, SilentLeakOnlyAtShutdown, Drained,
     RequestFinished, downVars, coVars
<1>6. RedundantInv'
  BY DEF OwnerInv, TypeOK, RedundantInv, RequestFinished, Admitting, downVars
<1>7. ClosingInv'
  BY DEF OwnerInv, TypeOK, ClosingInv, RequestFinished, downVars
<1> QED BY <1>2, <1>3, <1>4, <1>5, <1>6, <1>7 DEF OwnerInv

LEMMA OwnerTakeTable == ASSUME OwnerInv, TypeOK', TakeTable PROVE OwnerInv'
<1>1. HoldInv' /\ RedundantInv'
  BY DEF OwnerInv, HoldInv, RedundantInv, TakeTable, threadVars
<1>2. closing' = {table[r] : r \in Requests} \ {NoLease}
  BY DEF TakeTable
<1>3. table' = [r \in Requests |-> NoLease] /\ lease' = lease
  BY DEF TakeTable, threadVars
<1>4. LeaseOwnedOnce'
  BY <1>2, <1>3 DEF OwnerInv, LeaseOwnedOnce
<1>5. LateInv'
  BY <1>2, <1>3, NoLeaseIsNone DEF OwnerInv, LateInv, Unowned, TakeTable, coVars
<1>6. SilentLeakOnlyAtShutdown'
  <2>3. \A t \in Threads : overrun'[t] = NoLease
    BY DEF OwnerInv, SilentLeakOnlyAtShutdown, Drained, TakeTable
  <2> SUFFICES ASSUME NEW l \in Leases, live[l] > 0, l \notin closing' \cup reported
               PROVE  \E t \in Threads : l \in {lease[t], overrun[t]}
    BY <1>3, <2>3 DEF SilentLeakOnlyAtShutdown, TakeTable, coVars
  <2>1. l # NoLease /\ \A r \in Requests : table[r] # l
    BY <1>2, NoLeaseIsNone
  <2>2. l \notin closing
    BY DEF OwnerInv, ClosingInv, TakeTable
  <2> QED BY <2>1, <2>2 DEF OwnerInv, SilentLeakOnlyAtShutdown
<1>7. ClosingInv'
  BY DEF ClosingInv, TakeTable
<1> QED BY <1>1, <1>4, <1>5, <1>6, <1>7 DEF OwnerInv

LEMMA OwnerShutdownRelease ==
  ASSUME OwnerInv, NEW l \in Leases, TypeOK', ShutdownRelease(l)
  PROVE  OwnerInv'
<1>1. HoldInv' /\ RedundantInv' /\ ClosingInv'
  BY DEF OwnerInv, HoldInv, RedundantInv, ClosingInv, ShutdownRelease, threadVars
<1>2. LeaseOwnedOnce'
  BY DEF OwnerInv, LeaseOwnedOnce, ShutdownRelease, threadVars
<1>3. LateInv'
  <2>1. Unowned(l)'
    BY DEF Unowned, OwnerInv, LeaseOwnedOnce, ShutdownRelease, threadVars
  <2>2. \A c \in late' : c.op = "release" => c \in late \/ c.lease = l
    BY DEF ShutdownRelease, Abandon, Call
  <2> QED BY <2>1, <2>2 DEF OwnerInv, LateInv, Unowned, ShutdownRelease, threadVars
<1>4. SilentLeakOnlyAtShutdown'
  BY DEF OwnerInv, TypeOK, SilentLeakOnlyAtShutdown, Drained, ShutdownRelease, threadVars
<1> QED BY <1>1, <1>2, <1>3, <1>4 DEF OwnerInv

LEMMA OwnerInit == Init => OwnerInv
<1> SUFFICES ASSUME Init PROVE OwnerInv
  OBVIOUS
<1>1. TypeOK
  <2>1. live \in [Leases -> 0..TTL] /\ hclock \in Nat /\ tclock \in [Threads -> Nat]
        /\ jclock \in Nat
    BY TimesPositive DEF Init
  <2> QED BY <2>1, Zenon DEF Init, TypeOK
<1>2. HoldInv /\ LateInv /\ RedundantInv /\ ClosingInv
  BY DEF Init, HoldInv, Holding, LateInv, RedundantInv, ClosingInv
<1>3. LeaseOwnedOnce /\ SilentLeakOnlyAtShutdown
  BY NoLeaseIsNone DEF Init, LeaseOwnedOnce, SilentLeakOnlyAtShutdown
<1> QED BY <1>1, <1>2, <1>3 DEF OwnerInv

LEMMA OwnerStep == OwnerInv /\ [Next]_vars => OwnerInv'
<1> SUFFICES ASSUME OwnerInv, [Next]_vars PROVE OwnerInv'
  OBVIOUS
<1>0. TypeOK'
  BY TypeStep DEF OwnerInv
<1>1. CASE Restart \/ LateHeartbeat
  <2>1. UNCHANGED <<ownerVars, pc, req, phase, reported>>
    BY <1>1 DEF Restart, LateHeartbeat, ownerVars, threadVars, downVars
  <2>2. \A c \in late' : c \in late
    BY <1>1 DEF Restart, LateHeartbeat
  <2>3. \A l \in Leases : live'[l] > 0 => live[l] # 0
    BY <1>1 DEF Restart, LateHeartbeat, Renewed, OwnerInv, TypeOK
  <2> QED BY <1>0, <2>1, <2>2, <2>3, OwnerOthers DEF Drained
<1>2. ASSUME NEW l \in Leases, LateReserve(l) \/ LateRelease(l) PROVE OwnerInv'
  <2>1. UNCHANGED <<ownerVars, pc, req, phase>>
    BY <1>2 DEF LateReserve, LateRelease, ownerVars, threadVars, downVars
  <2>2. (\A c \in late' : c \in late) /\ reported \subseteq reported'
    BY <1>2 DEF LateReserve, LateRelease
  <2>3. \A m \in Leases : live'[m] > 0 /\ live[m] = 0 => m \in reported'
    BY <1>2 DEF LateReserve, LateRelease, OwnerInv, TypeOK
  <2> QED BY <1>0, <2>1, <2>2, <2>3, OwnerOthers DEF Drained
<1>3. CASE Start \/ StartFails \/ Shutdown \/ ShutdownEnds
  <2>1. UNCHANGED <<ownerVars, pc, req, live, late, reported>>
    BY <1>3 DEF Start, StartFails, Shutdown, ShutdownEnds, ownerVars, threadVars, coVars
  <2>2. (phase = "starting" \/ phase' # "running") /\ phase' # "starting"
    BY <1>3 DEF Start, StartFails, Shutdown, ShutdownEnds
  <2>3. phase' = "closing" \/ closing = {}
    BY <1>3 DEF Start, StartFails, Shutdown, ShutdownEnds, OwnerInv, ClosingInv
  <2>4. phase = "starting" \/ (Drained' <=> Drained)
    BY <1>3 DEF Start, StartFails, Shutdown, ShutdownEnds, Drained
  <2> QED BY <1>0, <2>1, <2>2, <2>3, <2>4, OwnerOthers
<1>4. CASE BeatNext
  <2>1. UNCHANGED <<ownerVars, pc, req, phase, reported>>
    BY <1>4 DEF BeatNext, WaitEnds, WaitStopped, PollReturns, PollFails, Look,
       Heartbeat, HeartbeatReturns, HeartbeatFails, ownerVars, threadVars, downVars
  <2>2. \A c \in late' : c \in late \/ c.op # "release"
    BY <1>4 DEF BeatNext, WaitEnds, WaitStopped, PollReturns, PollFails, Look,
       Heartbeat, HeartbeatReturns, HeartbeatFails, coVars, Abandon, Call
  <2>3. \A l \in Leases : live'[l] > 0 => live[l] # 0
    BY <1>4 DEF BeatNext, WaitEnds, WaitStopped, PollReturns, PollFails, Look,
       Heartbeat, HeartbeatReturns, HeartbeatFails, coVars, Renewed, OwnerInv, TypeOK
  <2> QED BY <1>0, <2>1, <2>2, <2>3, OwnerOthers DEF Drained
<1>5. CASE Tick
  <2>1. UNCHANGED <<ownerVars, pc, req, phase, late, reported>>
    BY <1>5 DEF Tick, ownerVars
  <2>2. \A l \in Leases : live'[l] > 0 => live[l] # 0
    BY <1>5 DEF Tick, OwnerInv, TypeOK
  <2> QED BY <1>0, <2>1, <2>2, OwnerOthers DEF Drained
<1>6. ASSUME NEW t \in Threads, NEW r \in Requests, NewRequest(t, r) \/ RequestFinished(t, r)
      PROVE  OwnerInv'
  BY <1>0, <1>6, OwnerThreadSimple, OwnerFinished
<1>7. ASSUME NEW t \in Threads, CallbackNext(t) PROVE OwnerInv'
  <2>1. req[t] \in Requests
    BY DEF OwnerInv, TypeOK
  <2> QED BY <1>0, <1>7, <2>1, OwnerThreadSimple, OwnerGrant, OwnerStore, OwnerCallEnds
       DEF CallbackNext
<1>8. CASE TakeTable
  BY <1>0, <1>8, OwnerTakeTable
<1>9. ASSUME NEW l \in Leases, ShutdownRelease(l) PROVE OwnerInv'
  BY <1>0, <1>9, OwnerShutdownRelease
<1>10. CASE UNCHANGED vars
  BY <1>0, <1>10, OwnerOthers DEF vars, coVars, ownerVars, threadVars, downVars, Drained
<1> QED BY <1>1, <1>2, <1>3, <1>4, <1>5, <1>6, <1>7, <1>8, <1>9, <1>10
     DEF Next, ShutdownNext

\* Every variable keeps its type.
THEOREM TypeCorrect == Spec => []TypeOK
<1>1. OwnerInv => TypeOK
  BY DEF OwnerInv
<1> QED BY <1>1, OwnerInit, OwnerStep, PTL DEF Spec

\* No lease has two owners, for any number of racing callbacks, whatever calls fail and
\* wherever shutdown comes in: none is released twice or committed after its release.
THEOREM LeaseOwnedOnceHolds == Spec => []LeaseOwnedOnce
<1>1. OwnerInv => LeaseOwnedOnce
  BY DEF OwnerInv
<1> QED BY <1>1, OwnerInit, OwnerStep, PTL DEF Spec

\* A lease the coordinator still counts is owned, or its loss was reported, or a callback
\* that shutdown overtook stored it into the emptied table: one such lease per callback.
THEOREM SilentLeakOnlyAtShutdownHolds == Spec => []SilentLeakOnlyAtShutdown
<1>1. OwnerInv => SilentLeakOnlyAtShutdown
  BY DEF OwnerInv
<1> QED BY <1>1, OwnerInit, OwnerStep, PTL DEF Spec

\* A callback that returns has its request in the table: the duplicate's entry cannot
\* leave it before, since the engine finishes a request after its callbacks only.
THEOREM AdmissionHoldsLeaseHolds == Spec => AdmissionHoldsLease
<1>1. ASSUME OwnerInv, OwnerInv', [Next]_vars, NEW t \in Threads,
             pc[t] \in {"lookup", "store", "redundant"}, pc'[t] = "idle", phase = "running"
      PROVE  table'[req[t]] # NoLease
  <2>1. Lookup(t) \/ Store(t) \/ Release(t) \/ ReleaseFails(t)
    <3>1. \E u \in Threads : CallbackNext(u)
      BY <1>1 DEF OwnerInv, TypeOK, Next, vars, threadVars, BeatNext, ShutdownNext, LateReserve,
         LateRelease, LateHeartbeat, Restart, Start, StartFails, NewRequest, RequestFinished,
         WaitEnds, WaitStopped, PollReturns, PollFails, Look, Heartbeat, HeartbeatReturns,
         HeartbeatFails, Shutdown, TakeTable, ShutdownRelease, ShutdownEnds, Tick
    <3>2. PICK u \in Threads : CallbackNext(u)
      BY <3>1
    <3>3. u = t
      BY <1>1, <3>2 DEF OwnerInv, TypeOK, CallbackNext, Lookup, Granted, ReserveFails, Store,
         Commit, Release, ReleaseFails, Grant
    <3> QED BY <1>1, <3>2, <3>3 DEF CallbackNext, Granted, ReserveFails, Commit, Grant
  <2>2. CASE Lookup(t)
    BY <1>1, <2>2 DEF OwnerInv, TypeOK, Lookup
  <2>3. CASE Store(t)
    <3>1. lease[t] \in Leases
      BY <1>1, <2>3 DEF OwnerInv, TypeOK, HoldInv, Holding, Store
    <3> QED BY <1>1, <2>3, <3>1, NoLeaseIsNone DEF OwnerInv, TypeOK, Store
  <2>4. CASE Release(t) \/ ReleaseFails(t)
    BY <1>1, <2>4 DEF OwnerInv, TypeOK, RedundantInv, Release, ReleaseFails
  <2> QED BY <2>1, <2>2, <2>3, <2>4
<1>2. OwnerInv /\ OwnerInv' /\ [Next]_vars =>
        [\A t \in Threads :
           /\ pc[t] \in {"lookup", "store", "redundant"} /\ pc'[t] = "idle"
           /\ phase = "running"
           => table'[req[t]] # NoLease]_vars
  BY <1>1
<1> QED BY <1>2, OwnerInit, OwnerStep, PTL DEF Spec, AdmissionHoldsLease

-----------------------------------------------------------------------------
(* Time.                                                                   *)

PollTime == IF LiveResize THEN CallTime ELSE 0

\* At each point of the loop, the ticks from the last reset of hclock to the next
\* renewal or failure.
Pass ==
  CASE hb = "wait"    -> Interval + PollTime + CallTime
    [] hb = "poll"    -> 2 * CallTime
    [] hb = "renewed" -> Interval + PollTime + 2 * CallTime
    [] OTHER          -> CallTime

ClockInv ==
  /\ hb = "wait" => hclock <= Interval
  /\ hb \in {"poll", "call", "renewed"} => hclock <= CallTime
  /\ hb \in {"look", "dead"} => hclock = 0
  /\ hb = "poll" => LiveResize
  /\ \A t \in Threads : tclock[t] <= CallTime
  /\ \A t \in Threads : pc[t] \in {"idle", "lookup"} => tclock[t] = 0
  /\ phase = "starting" => hb = "dead" /\ \A r \in Requests : table[r] = NoLease
  /\ phase = "running" /\ ~failed => hb # "dead"

\* The scheduler has authority over the leases.
Authority == phase = "running" /\ ~failed /\ ~lost

RenewedInv ==
  hb = "renewed" => \A l \in Leases : live[l] > 0 => live[l] + hclock >= TTL

GrantedInv ==
  \A t \in Threads : pc[t] \in {"granted", "store"} => live[lease[t]] + tclock[t] >= TTL

TableInv ==
  \A r \in Requests : table[r] # NoLease => live[table[r]] + hclock > Pass + CallTime

CommitInv ==
  \A t \in Threads : pc[t] = "commit" => live[lease[t]] + tclock[t] > CallTime

TimeInv ==
  /\ OwnerInv /\ ClockInv
  /\ Authority => RenewedInv /\ GrantedInv /\ TableInv /\ CommitInv

LEMMA PassBounds ==
  ASSUME TypeOK, ClockInv
  PROVE  /\ PollTime \in Nat /\ Pass \in Nat
         /\ hb # "dead" => hclock <= Pass
         /\ Interval + PollTime + 2 * CallTime >= Pass
<1>1. PollTime \in Nat /\ (LiveResize => PollTime = CallTime)
  BY TimesPositive DEF PollTime
<1>2. CASE hb = "poll"
  BY <1>1, <1>2, TimesPositive DEF Pass, ClockInv, TypeOK
<1>3. CASE hb # "poll"
  BY <1>1, <1>3, TimesPositive DEF Pass, ClockInv, TypeOK
<1> QED BY <1>1, <1>2, <1>3

LEMMA ClockStep == ASSUME OwnerInv, ClockInv, [Next]_vars PROVE ClockInv'
<1> USE TimesPositive
<1>1. CASE BeatNext
  <2>1. UNCHANGED <<table, phase, pc, tclock>>
    BY <1>1 DEF BeatNext, WaitEnds, WaitStopped, PollReturns, PollFails, Look,
       Heartbeat, HeartbeatReturns, HeartbeatFails, threadVars, downVars
  <2>2. /\ hb' = "wait" => hclock' <= Interval
        /\ hb' \in {"poll", "call", "renewed"} => hclock' <= CallTime
        /\ hb' \in {"look", "dead"} => hclock' = 0
        /\ hb' = "poll" => LiveResize
    BY <1>1 DEF OwnerInv, TypeOK, ClockInv, BeatNext, LoopTo, WaitEnds, WaitStopped,
       PollReturns, PollFails, Look, Heartbeat, HeartbeatReturns, HeartbeatFails
  <2>3. phase # "starting" /\ (phase = "running" /\ ~failed' => hb' # "dead")
    BY <1>1 DEF ClockInv, BeatNext, LoopTo, Stopping, WaitEnds, WaitStopped,
       PollReturns, PollFails, Look, Heartbeat, HeartbeatReturns, HeartbeatFails
  <2> QED BY <2>1, <2>2, <2>3 DEF ClockInv
<1>2. ASSUME NEW t \in Threads, CallbackNext(t) PROVE ClockInv'
  <2>1. UNCHANGED <<beatVars, phase>>
    BY <1>2 DEF CallbackNext, Lookup, Grant, Granted, ReserveFails, Store, Commit, Release,
       ReleaseFails, downVars
  <2>2. /\ \A u \in Threads : tclock'[u] <= CallTime
        /\ \A u \in Threads : pc'[u] \in {"idle", "lookup"} => tclock'[u] = 0
    BY <1>2 DEF OwnerInv, TypeOK, ClockInv, CallbackNext, Lookup, Grant, Granted,
       ReserveFails, Store, Commit, Release, ReleaseFails
  <2>3. phase # "starting"
    BY <1>2 DEF OwnerInv, ClosingInv, CallbackNext, Lookup, Grant, Granted,
       ReserveFails, Store, Commit, Release, ReleaseFails
  <2> QED BY <2>1, <2>2, <2>3 DEF ClockInv, beatVars
<1>3. ASSUME NEW t \in Threads, NEW r \in Requests, NewRequest(t, r) \/ RequestFinished(t, r)
      PROVE  ClockInv'
  BY <1>3 DEF OwnerInv, TypeOK, ClockInv, NewRequest, RequestFinished, beatVars, downVars
<1>4. CASE Tick
  <2>1. UNCHANGED <<table, phase, pc, hb, failed>>
    BY <1>4 DEF Tick
  <2>2. /\ hb = "wait" => hclock' <= Interval
        /\ hb \in {"poll", "call", "renewed"} => hclock' <= CallTime
        /\ hb \in {"look", "dead"} => hclock' = 0
    BY <1>4 DEF OwnerInv, TypeOK, ClockInv, Tick, HeartbeatMayWait
  <2>3. /\ \A u \in Threads : tclock'[u] <= CallTime
        /\ \A u \in Threads : pc[u] \in {"idle", "lookup"} => tclock'[u] = 0
    BY <1>4 DEF OwnerInv, TypeOK, ClockInv, Tick, ThreadMayWait, Calling
  <2> QED BY <2>1, <2>2, <2>3 DEF ClockInv
<1>5. CASE Start
  BY <1>5 DEF OwnerInv, TypeOK, ClockInv, Start, threadVars
<1>8. CASE StartFails \/ Shutdown \/ ShutdownEnds
  BY <1>8 DEF ClockInv, StartFails, Shutdown, ShutdownEnds, beatVars, threadVars
<1>9. CASE TakeTable
  BY <1>9 DEF ClockInv, TakeTable, beatVars, threadVars
<1>10. ASSUME NEW l \in Leases, ShutdownRelease(l) PROVE ClockInv'
  BY <1>10 DEF ClockInv, ShutdownRelease, beatVars, threadVars
<1>6. CASE Restart \/ LateHeartbeat \/ UNCHANGED vars
  BY <1>6 DEF ClockInv, Restart, LateHeartbeat, vars, beatVars, threadVars, downVars
<1>7. ASSUME NEW l \in Leases, LateReserve(l) \/ LateRelease(l) PROVE ClockInv'
  BY <1>7 DEF ClockInv, LateReserve, LateRelease, beatVars, threadVars, downVars
<1> QED BY <1>1, <1>2, <1>3, <1>4, <1>5, <1>6, <1>7, <1>8, <1>9, <1>10 DEF Next, ShutdownNext

TimeGoal == RenewedInv /\ GrantedInv /\ TableInv /\ CommitInv

\* The coordinator on its own only renews or grants; a late release finds no owner.
LEMMA TimeCoordinator ==
  ASSUME TimeInv, Authority, TypeOK', UNCHANGED <<table, beatVars, threadVars>>,
         \A l \in Leases : live'[l] \in {0, live[l], TTL},
         \A l \in Leases : live'[l] = 0 => live[l] = 0 \/ Unowned(l)
  PROVE  TimeGoal'
<1> USE TimesPositive
<1>1. \A l \in Leases : ~Unowned(l) => live'[l] >= live[l]
  BY DEF TimeInv, OwnerInv, TypeOK
<1>2. Pass' = Pass
  BY DEF Pass, beatVars
<1>3. RenewedInv'
  BY DEF TimeInv, OwnerInv, TypeOK, RenewedInv, beatVars
<1>4. TableInv'
  BY <1>1, <1>2, PassBounds DEF TimeInv, OwnerInv, TypeOK, TableInv, Unowned, beatVars
<1>5. GrantedInv' /\ CommitInv'
  <2>1. \A t \in Threads : pc[t] \in Holding => lease[t] \in Leases /\ ~Unowned(lease[t])
    BY DEF TimeInv, OwnerInv, HoldInv, TypeOK, Unowned
  <2> QED BY <1>1, <2>1 DEF TimeInv, OwnerInv, TypeOK, GrantedInv, CommitInv, Holding, threadVars
<1> QED BY <1>3, <1>4, <1>5 DEF TimeGoal

LEMMA TimeBeat == ASSUME Timely, TimeInv, Authority, TypeOK', BeatNext, ~failed' PROVE TimeGoal'
<1> USE TimesPositive
<1>1. UNCHANGED <<table, threadVars>>
  BY DEF BeatNext, WaitEnds, WaitStopped, PollReturns, PollFails, Look,
     Heartbeat, HeartbeatReturns, HeartbeatFails
<1>2. \A r \in Requests : table[r] # NoLease => table[r] \in Leases /\ live[table[r]] > CallTime
  BY PassBounds DEF TimeInv, Authority, OwnerInv, TypeOK, TableInv, ClockInv
<1>3. \A l \in Leases : live'[l] >= live[l]
  BY DEF TimeInv, OwnerInv, TypeOK, BeatNext, WaitEnds, WaitStopped, PollReturns, PollFails, Look,
     Heartbeat, HeartbeatReturns, HeartbeatFails, Renewed, coVars
<1>4. GrantedInv' /\ CommitInv'
  <2>1. \A t \in Threads : pc[t] \in Holding => lease[t] \in Leases
    BY DEF TimeInv, OwnerInv, HoldInv, TypeOK
  <2> QED BY <1>1, <1>3, <2>1 DEF TimeInv, OwnerInv, TypeOK, GrantedInv, CommitInv, Holding, threadVars
<1>5. RenewedInv'
  <2>1. CASE Heartbeat
    BY <2>1 DEF TimeInv, OwnerInv, TypeOK, RenewedInv, Heartbeat, Renewed
  <2>2. CASE ~Heartbeat
    BY <2>2 DEF RenewedInv, BeatNext, LoopTo, WaitEnds, WaitStopped, PollReturns, PollFails, Look,
       HeartbeatReturns, HeartbeatFails
  <2> QED BY <2>1, <2>2
<1>6. TableInv'
  <2>1. CASE WaitEnds /\ LiveResize
    BY <1>2, <2>1 DEF TimeInv, Authority, OwnerInv, TypeOK, TableInv, ClockInv, Pass, PollTime, WaitEnds,
       LoopTo, coVars
  <2>2. CASE WaitEnds /\ ~LiveResize
    BY <1>2, <2>2 DEF TimeInv, Authority, OwnerInv, TypeOK, TableInv, ClockInv, Pass, PollTime, WaitEnds,
       LoopTo, coVars
  <2>3. CASE PollReturns
    BY <1>2, <2>3 DEF TimeInv, Authority, OwnerInv, TypeOK, TableInv, ClockInv, Pass, PollReturns,
       LoopTo, coVars
  <2>4. CASE Look
    BY <1>2, <2>4 DEF TimeInv, Authority, OwnerInv, TypeOK, TableInv, ClockInv, Pass, Look,
       LoopTo, coVars, HasLeases
  <2>5. CASE Heartbeat
    BY <1>2, <2>5 DEF TimeInv, Authority, OwnerInv, TypeOK, TableInv, ClockInv, Pass, Heartbeat,
       Renewed, Timely, PollTime
  <2>6. CASE HeartbeatReturns
    <3>1. PollTime \in Nat
      BY PassBounds DEF TimeInv, OwnerInv
    <3> QED BY <1>2, <2>6, <3>1 DEF TimeInv, Authority, OwnerInv, TypeOK, TableInv, ClockInv, Pass,
         HeartbeatReturns, LoopTo, coVars
  <2>7. CASE HeartbeatFails
    BY <2>7 DEF TableInv, HeartbeatFails, HasLeases
  <2> QED BY <2>1, <2>2, <2>3, <2>4, <2>5, <2>6, <2>7
       DEF BeatNext, WaitStopped, PollFails, Authority, Stopping
<1> QED BY <1>4, <1>5, <1>6 DEF TimeGoal

LEMMA TimeThread ==
  ASSUME Timely, TimeInv, Authority, TypeOK', NEW t \in Threads, NEW r \in Requests,
         CallbackNext(t) \/ NewRequest(t, r) \/ RequestFinished(t, r)
  PROVE  TimeGoal'
<1> USE TimesPositive
<1>1. UNCHANGED beatVars /\ Pass' = Pass
  BY DEF CallbackNext, NewRequest, RequestFinished, Lookup, Grant, Granted, ReserveFails, Store,
     Commit, Release, ReleaseFails, beatVars, Pass
<1>2. \A u \in Threads : pc[u] \in Holding => lease[u] \in Leases
  BY DEF TimeInv, OwnerInv, HoldInv, TypeOK
<1>3. ASSUME NEW l \in Leases, Grant(t, l) PROVE TimeGoal'
  <2>1. RenewedInv'
    BY <1>1, <1>3 DEF TimeInv, Authority, OwnerInv, TypeOK, RenewedInv, Grant, beatVars
  <2>2. TableInv'
    BY <1>1, <1>3 DEF TimeInv, Authority, OwnerInv, TypeOK, TableInv, Grant, Fresh, beatVars
  <2>3. GrantedInv' /\ CommitInv'
    BY <1>2, <1>3 DEF TimeInv, Authority, OwnerInv, TypeOK, GrantedInv, CommitInv, Grant, Fresh, Holding
  <2> QED BY <2>1, <2>2, <2>3 DEF TimeGoal
<1>4. CASE Store(t)
  <2>1. lease[t] \in Leases /\ live[lease[t]] + CallTime >= TTL /\ tclock[t] \in Nat
    BY <1>2, <1>4 DEF TimeInv, Authority, OwnerInv, TypeOK, GrantedInv, ClockInv, Store, Holding
  <2>2. live[lease[t]] + hclock > Pass + CallTime
    <3>1. CASE hb = "renewed"
      BY <2>1, <3>1 DEF TimeInv, Authority, OwnerInv, TypeOK, RenewedInv, Pass, Timely, PollTime
    <3>2. CASE hb = "wait"
      BY <2>1, <3>2 DEF TimeInv, OwnerInv, TypeOK, Pass, Timely, PollTime
    <3>3. CASE hb = "poll"
      BY <2>1, <3>3 DEF TimeInv, OwnerInv, TypeOK, ClockInv, Pass, Timely
    <3>4. CASE hb \notin {"renewed", "wait", "poll"}
      BY <2>1, <3>4 DEF TimeInv, OwnerInv, TypeOK, Pass, Timely
    <3> QED BY <3>1, <3>2, <3>3, <3>4
  <2>3. TableInv'
    BY <1>1, <1>4, <2>2 DEF TimeInv, Authority, OwnerInv, TypeOK, TableInv, Store, beatVars, coVars
  <2>4. RenewedInv'
    BY <1>1, <1>4 DEF TimeInv, Authority, RenewedInv, Store, beatVars, coVars
  <2>5. GrantedInv' /\ CommitInv'
    BY <1>4 DEF TimeInv, Authority, OwnerInv, TypeOK, GrantedInv, CommitInv, Store, coVars
  <2> QED BY <2>3, <2>4, <2>5 DEF TimeGoal
<1>5. CASE RequestFinished(t, r)
  <2>1. live[table[r]] > CallTime /\ table[r] \in Leases
    BY <1>5, PassBounds DEF TimeInv, Authority, OwnerInv, TypeOK, TableInv, ClockInv, RequestFinished
  <2>2. tclock[t] = 0
    BY <1>5 DEF TimeInv, ClockInv, RequestFinished
  <2>3. GrantedInv' /\ CommitInv'
    BY <1>5, <2>1, <2>2 DEF TimeInv, Authority, OwnerInv, TypeOK, GrantedInv, CommitInv, RequestFinished,
       coVars
  <2>4. TableInv'
    BY <1>1, <1>5 DEF TimeInv, Authority, OwnerInv, TypeOK, TableInv, RequestFinished, coVars, beatVars
  <2>5. RenewedInv'
    BY <1>1, <1>5 DEF TimeInv, Authority, RenewedInv, RequestFinished, coVars, beatVars
  <2> QED BY <2>3, <2>4, <2>5 DEF TimeGoal
<1>6. CASE NewRequest(t, r) \/ Lookup(t) \/ Granted(t) \/ Commit(t)
  <2>1. UNCHANGED <<live, table, lease>>
    BY <1>6 DEF NewRequest, Lookup, Granted, Commit, coVars
  <2>2. RenewedInv' /\ TableInv'
    BY <1>1, <2>1 DEF TimeInv, Authority, RenewedInv, TableInv, beatVars
  <2>3. GrantedInv' /\ CommitInv'
    BY <1>6, <2>1 DEF TimeInv, Authority, OwnerInv, TypeOK, GrantedInv, CommitInv, NewRequest, Lookup,
       Granted, Commit
  <2> QED BY <2>2, <2>3 DEF TimeGoal
<1>7. CASE ReserveFails(t) \/ Release(t) \/ ReleaseFails(t)
  <2>1. /\ table' = table /\ pc' = [pc EXCEPT ![t] = "idle"]
        /\ tclock' = [tclock EXCEPT ![t] = 0] /\ lease' = [lease EXCEPT ![t] = NoLease]
    BY <1>7 DEF ReserveFails, Release, ReleaseFails
  <2>2. \A l \in Leases : live'[l] = live[l] \/ (l = lease[t] /\ live'[l] = 0)
    BY <1>7 DEF TimeInv, OwnerInv, TypeOK, ReserveFails, Release, ReleaseFails
  <2>3. RenewedInv'
    BY <1>1, <2>2 DEF TimeInv, Authority, RenewedInv, beatVars
  <2>4. TableInv'
    BY <1>1, <2>1, <2>2, NoLeaseIsNone
       DEF TimeInv, Authority, OwnerInv, TypeOK, TableInv, LeaseOwnedOnce, beatVars
  <2>5. GrantedInv' /\ CommitInv'
    BY <1>2, <2>1, <2>2, NoLeaseIsNone
       DEF TimeInv, Authority, OwnerInv, TypeOK, GrantedInv, CommitInv, LeaseOwnedOnce, Holding
  <2> QED BY <2>3, <2>4, <2>5 DEF TimeGoal
<1> QED BY <1>3, <1>4, <1>5, <1>6, <1>7 DEF CallbackNext

LEMMA TimeTick == ASSUME Timely, TimeInv, Authority, TypeOK', Tick PROVE TimeGoal'
<1> USE TimesPositive
<1>1. UNCHANGED <<hb, table, pc, lease>> /\ hclock' = hclock + 1 /\ Pass' = Pass
  BY DEF Tick, Pass, TimeInv, ClockInv, Authority
<1>2. \A l \in Leases : live'[l] = IF live[l] > 0 THEN live[l] - 1 ELSE 0
  BY DEF Tick
<1>3. RenewedInv'
  <2>1. live \in [Leases -> 0..TTL] /\ hclock \in Nat /\ RenewedInv
    BY DEF TimeInv, OwnerInv, TypeOK
  <2> QED BY <1>1, <1>2, <2>1 DEF RenewedInv
<1>4. TableInv'
  BY <1>1, <1>2, PassBounds DEF TimeInv, Authority, OwnerInv, TypeOK, TableInv, ClockInv
<1>5. GrantedInv' /\ CommitInv'
  <2>1. \A t \in Threads : pc[t] \in Holding => lease[t] \in Leases
    BY DEF TimeInv, OwnerInv, HoldInv, TypeOK
  <2>2. \A t \in Threads : pc[t] \in {"granted", "commit"} =>
          tclock[t] < CallTime /\ tclock'[t] = tclock[t] + 1
    BY DEF Tick, ThreadMayWait, Calling
  <2>3. \A t \in Threads : pc[t] # "store"
    BY DEF Tick, ThreadMayWait
  <2>4. CallTime < TTL
    BY DEF Timely
  <2> QED BY <1>1, <1>2, <2>1, <2>2, <2>3, <2>4
       DEF TimeInv, Authority, OwnerInv, TypeOK, GrantedInv, CommitInv, Holding
<1> QED BY <1>3, <1>4, <1>5 DEF TimeGoal

LEMMA TimeStep == ASSUME Timely, TimeInv, [Next]_vars PROVE TimeInv'
<1>1. OwnerInv' /\ TypeOK' /\ ClockInv'
  BY OwnerStep, ClockStep DEF TimeInv, OwnerInv
<1> SUFFICES ASSUME Authority' PROVE TimeGoal'
  BY <1>1 DEF TimeInv, TimeGoal
<1>2. CASE Start
  BY <1>2 DEF TimeInv, OwnerInv, ClosingInv, ClockInv, TimeGoal, RenewedInv, GrantedInv, TableInv,
     CommitInv, Start, threadVars
<1>3. CASE StartFails \/ Shutdown \/ ShutdownNext \/ Restart
  BY <1>3 DEF StartFails, Shutdown, ShutdownNext, TakeTable, ShutdownEnds, ShutdownRelease, Restart,
     Authority
<1>4. ASSUME Authority, LateHeartbeat PROVE TimeGoal'
  <2>1. UNCHANGED <<table, beatVars, threadVars>>
    BY <1>4 DEF LateHeartbeat
  <2>2. \A l \in Leases : live'[l] = IF live[l] > 0 THEN TTL ELSE 0
    BY <1>4 DEF LateHeartbeat, Renewed
  <2> QED BY <1>1, <1>4, <2>1, <2>2, TimeCoordinator, TimesPositive DEF TimeInv, OwnerInv, TypeOK
<1>5. ASSUME Authority, NEW l \in Leases, LateReserve(l) \/ LateRelease(l) PROVE TimeGoal'
  <2>1. UNCHANGED <<table, beatVars, threadVars>>
    BY <1>5 DEF LateReserve, LateRelease
  <2>2. \A m \in Leases : live'[m] \in {0, live[m], TTL}
    BY <1>5 DEF LateReserve, LateRelease, TimeInv, OwnerInv, TypeOK
  <2>3. LateRelease(l) => Unowned(l)
    BY DEF LateRelease, Call, TimeInv, OwnerInv, LateInv
  <2>4. \A m \in Leases : live'[m] = 0 => live[m] = 0 \/ Unowned(m)
    BY <1>5, <2>3, TimesPositive DEF LateReserve, LateRelease, TimeInv, OwnerInv, TypeOK
  <2> QED BY <1>1, <1>5, <2>1, <2>2, <2>4, TimeCoordinator
<1>6. ASSUME Authority, BeatNext PROVE TimeGoal'
  BY <1>1, <1>6, TimeBeat DEF Authority
<1>7. ASSUME Authority, NEW t \in Threads, NEW r \in Requests,
             CallbackNext(t) \/ NewRequest(t, r) \/ RequestFinished(t, r)
      PROVE  TimeGoal'
  BY <1>1, <1>7, TimeThread
<1>8. ASSUME Authority, NEW t \in Threads, CallbackNext(t) PROVE TimeGoal'
  <2>1. req[t] \in Requests
    BY DEF TimeInv, OwnerInv, TypeOK
  <2> QED BY <1>1, <1>8, <2>1, TimeThread
<1>9. ASSUME Authority, Tick PROVE TimeGoal'
  BY <1>1, <1>9, TimeTick
<1>10. CASE UNCHANGED vars
  BY <1>10 DEF TimeInv, Authority, TimeGoal, RenewedInv, GrantedInv, TableInv, CommitInv, Pass,
     vars, coVars, beatVars, threadVars, downVars
<1>11. ~Start => Authority \/ UNCHANGED vars \/ StartFails \/ Shutdown \/ ShutdownNext \/ Restart
  BY DEF Authority, Next, LateReserve, LateRelease, LateHeartbeat, NewRequest, RequestFinished,
     CallbackNext, Lookup, Grant, Granted, ReserveFails, Store, Commit, Release, ReleaseFails,
     BeatNext, WaitEnds, WaitStopped, PollReturns, PollFails, Look, Heartbeat, HeartbeatReturns,
     HeartbeatFails, Tick, coVars, beatVars, downVars
<1> QED BY <1>2, <1>3, <1>4, <1>5, <1>6, <1>7, <1>8, <1>9, <1>10, <1>11 DEF Next

\* With a TTL that leaves room for three calls beside the heartbeat's interval (four with
\* live resize), no lease expires under a running request or before its commit unless the
\* scheduler already fails closed.
THEOREM NoSilentExpiryHolds == ASSUME Timely PROVE Spec => []NoSilentExpiry
<1>1. Init => TimeInv
  <2>1. ASSUME Init PROVE ClockInv /\ ~Authority
    BY <2>1, TimesPositive DEF Init, ClockInv, Authority
  <2> QED BY <2>1, OwnerInit DEF TimeInv
<1>2. TimeInv /\ [Next]_vars => TimeInv'
  BY TimeStep
<1>3. TimeInv => NoSilentExpiry
  <2> SUFFICES ASSUME TimeInv, Authority PROVE NoSilentExpiry
    BY DEF NoSilentExpiry, Authority
  <2>1. \A r \in Requests : table[r] # NoLease => live[table[r]] > 0
    BY PassBounds, TimesPositive DEF TimeInv, Authority, OwnerInv, TypeOK, TableInv, ClockInv
  <2>2. \A t \in Threads : pc[t] = "commit" => live[lease[t]] > 0
    <3>1. \A t \in Threads : pc[t] = "commit" => lease[t] \in Leases
      BY DEF TimeInv, OwnerInv, HoldInv, Holding, TypeOK
    <3> QED BY <3>1, TimesPositive DEF TimeInv, OwnerInv, TypeOK, CommitInv, ClockInv
  <2> QED BY <2>1, <2>2 DEF NoSilentExpiry
<1> QED BY <1>1, <1>2, <1>3, PTL DEF Spec
=============================================================================
