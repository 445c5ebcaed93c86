--------------------------- MODULE ResizeContract ---------------------------
(***************************************************************************)
(* What an elastic resize promises, without messages: the physical memory  *)
(* behind the KV cache grows before any worker maps it and every worker    *)
(* maps it before the scheduler may hand out the new blocks; a shrink      *)
(* undoes the three in the opposite order.  ElasticResize implements it.   *)
(***************************************************************************)
EXTENDS Naturals

CONSTANTS Workers, Initial

VARIABLES
  mode,       \* "stable", or the direction of the resize under way
  resident,   \* blocks backed by physical memory
  mapped,     \* blocks each worker has mapped
  exposed     \* blocks the scheduler may hand out

vars == <<mode, resident, mapped, exposed>>

Init ==
  /\ mode = "stable"
  /\ resident = Initial
  /\ mapped = [w \in Workers |-> Initial]
  /\ exposed = Initial

StartGrow ==
  /\ mode = "stable"
  /\ mode' = "grow"
  /\ resident' \in Nat /\ resident' > resident
  /\ UNCHANGED <<mapped, exposed>>

Map(w) ==
  /\ mode = "grow"
  /\ mapped[w] < resident
  /\ mapped' = [mapped EXCEPT ![w] = resident]
  /\ UNCHANGED <<mode, resident, exposed>>

Expose ==
  /\ mode = "grow"
  /\ \A w \in Workers : mapped[w] = resident
  /\ exposed < resident
  /\ exposed' = resident
  /\ UNCHANGED <<mode, resident, mapped>>

EndGrow ==
  /\ mode = "grow"
  /\ exposed = resident
  /\ mode' = "stable"
  /\ UNCHANGED <<resident, mapped, exposed>>

StartShrink ==
  /\ mode = "stable"
  /\ mode' = "shrink"
  /\ UNCHANGED <<resident, mapped, exposed>>

Retire ==
  /\ mode = "shrink"
  /\ exposed = resident
  /\ exposed' \in Nat /\ exposed' < exposed
  /\ UNCHANGED <<mode, resident, mapped>>

Unmap(w) ==
  /\ mode = "shrink"
  /\ mapped[w] > exposed
  /\ mapped' = [mapped EXCEPT ![w] = exposed]
  /\ UNCHANGED <<mode, resident, exposed>>

EndShrink ==
  /\ mode = "shrink"
  /\ exposed < resident
  /\ \A w \in Workers : mapped[w] = exposed
  /\ mode' = "stable"
  /\ resident' = exposed
  /\ UNCHANGED <<mapped, exposed>>

Next ==
  \/ StartGrow \/ Expose \/ EndGrow
  \/ StartShrink \/ Retire \/ EndShrink
  \/ \E w \in Workers : Map(w) \/ Unmap(w)

Spec == Init /\ [][Next]_vars
=============================================================================
