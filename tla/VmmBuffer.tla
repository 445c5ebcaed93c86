----------------------------- MODULE VmmBuffer -----------------------------
(* One worker's stable virtual range (CudaVmmBuffer over _ManagedVmmImport,  *)
(* shared_pool.py): the segments mapped into it, the table that remembers    *)
(* them, and the driver calls that may fail in the middle of a growth, a     *)
(* shrink, their rollback or the close.  Segments are numbered by offset,    *)
(* one allocation unit each.                                                 *)
EXTENDS Integers, FiniteSets, FiniteSetsExt

CONSTANTS
  Units,      \* the virtual range, in segments
  Initial,    \* segments mapped at start
  MaxFaults,  \* bound: driver calls that fail
  MaxOps      \* bound: resize operations applied or tried

VmmAssumption ==
  /\ Units \in Nat /\ Initial \in 1 .. Units /\ MaxFaults \in Nat /\ MaxOps \in Nat

VARIABLES
  phys,     \* segments the driver has mapped
  handles,  \* segments whose imported handle is not released
  table,    \* _ManagedVmmImport.segments
  size,     \* _mapped_bytes, in segments
  served,   \* segments the scheduler lets blocks lie in
  pending,  \* target of the resize the coordinator is driving, 0 for none
  state,    \* open, closed
  faults,   \* driver calls failed so far
  ops       \* resize operations so far

vars == <<phys, handles, table, size, served, pending, state, faults, ops>>

TypeOK ==
  /\ phys \subseteq 1 .. Units /\ handles \subseteq 1 .. Units
  /\ table \subseteq 1 .. Units
  /\ size \in 1 .. Units /\ served \in 1 .. Units /\ pending \in 0 .. Units
  /\ state \in {"open", "closed", "closed_dirty"}
  /\ faults \in 0 .. MaxFaults /\ ops \in 0 .. MaxOps

\* The buffer's constructor reserved the range and mapped the initial segments;
\* when that fails the worker does not start.
Init ==
  /\ phys = 1 .. Initial /\ handles = 1 .. Initial /\ table = 1 .. Initial
  /\ size = Initial /\ served = Initial /\ pending = 0
  /\ state = "open" /\ faults = 0 /\ ops = 0

\* One attempt at the pending operation.  The coordinator repeats an operation
\* that was not acknowledged, and starts no other before it is.
Attempt == state = "open" /\ pending # 0 /\ ops < MaxOps /\ ops' = ops + 1
New == size + 1 .. pending      \* the segments a growth carries
Old == pending + 1 .. size      \* the segments a shrink carries
Fail(n) == faults + n <= MaxFaults /\ faults' = faults + n

-----------------------------------------------------------------------------
(* Growth and shrink.  External: the coordinator picks a target; before a    *)
(* shrink reaches the workers the scheduler has retired the tail's blocks.   *)

StartResize(target) ==
  /\ state = "open" /\ pending = 0 /\ target # size
  /\ pending' = target
  /\ served' = IF target < served THEN target ELSE served
  /\ UNCHANGED <<phys, handles, table, size, state, faults, ops>>

\* The loop of map_segments stops at the first segment that is in the table
\* already or that the driver does not map: a range that is mapped is refused.
Blocked(s) == s \in table \cup phys

MapSegments ==
  /\ Attempt /\ pending > size
  /\ \A s \in New : ~Blocked(s)
  /\ phys' = phys \cup New /\ handles' = handles \cup New /\ table' = table \cup New
  /\ size' = pending /\ served' = pending /\ pending' = 0
  /\ UNCHANGED <<state, faults>>

\* The zero check of the conformance mode fails after the table took the
\* segments: _mapped_bytes stays, and the repeated operation is refused.
ZeroCheckFails ==
  /\ Attempt /\ pending > size
  /\ \A s \in New : ~Blocked(s)
  /\ phys' = phys \cup New /\ handles' = handles \cup New /\ table' = table \cup New
  /\ UNCHANGED <<size, served, pending, state, faults>>

\* Segment k is refused or its driver call fails (1 fault); the segments mapped
\* before it are taken back from the top down.  An unmap that fails there (the
\* second fault, at segment j) still releases its handle and leaves the segments
\* below it mapped, held and unrecorded.  So does the unchecked unmap of k itself
\* after its access rights could not be set.
MapSegmentsFails(k) ==
  LET done == size + 1 .. k - 1
      first == IF Blocked(k) THEN 0 ELSE 1
  IN /\ Attempt /\ k \in New
     /\ \A s \in done : ~Blocked(s)
     /\ \/ Fail(first) /\ UNCHANGED <<phys, handles>>
        \/ /\ Fail(first + 1)
           /\ \E j \in done :
                /\ phys' = phys \cup {s \in done : s <= j}
                /\ handles' = handles \cup {s \in done : s < j}
        \/ /\ ~Blocked(k) /\ Fail(2)
           /\ phys' = phys \cup {k} /\ UNCHANGED handles
     /\ UNCHANGED <<table, size, served, pending, state>>

\* unmap_segments: every segment of the operation must be in the table, then
\* they go from the top down.
UnmapSegments ==
  /\ Attempt /\ pending < size
  /\ Old \subseteq table \cap phys
  /\ phys' = phys \ Old /\ handles' = handles \ Old /\ table' = table \ Old
  /\ size' = pending /\ pending' = 0
  /\ UNCHANGED <<served, state, faults>>

\* The unmap of segment k fails (of a segment unmapped by an earlier attempt it
\* always does), or its release after the unmap: what is above k is gone, k is
\* still in the table, and _mapped_bytes stays.
\* Mutant: the segments go from the bottom up.
UnmapSegmentsFails_Upward(k) ==
  LET gone == {s \in Old : s < k}
  IN /\ Attempt /\ k \in Old /\ Old \subseteq table
     /\ Fail(1)
     /\ phys' = phys \ gone /\ handles' = handles \ gone /\ table' = table \ gone
     /\ UNCHANGED <<size, served, pending, state>>
UnmapSegmentsFails(k) ==
  LET gone == {s \in Old : s > k}
  IN /\ Attempt /\ k \in Old
     /\ Old \subseteq table /\ gone \subseteq phys
     /\ Fail(IF k \in phys THEN 1 ELSE 0)
     /\ \/ phys' = phys \ gone
        \/ phys' = phys \ (gone \cup {k})
     /\ handles' = handles \ gone /\ table' = table \ gone
     /\ UNCHANGED <<size, served, pending, state>>

\* The operation names a segment the table lost: nothing is touched.
UnmapRefused ==
  /\ Attempt /\ pending < size
  /\ ~(Old \subseteq table)
  /\ UNCHANGED <<phys, handles, table, size, served, pending, state, faults>>

\* The deleter of the last view closes the import: every segment of the table is
\* unmapped and its handle released, an error in one kept for the end (and
\* swallowed by the deleter); then the range is freed.
Close ==
  /\ state = "open"
  /\ \/ /\ phys' = phys \ table /\ handles' = handles \ table
        /\ state' = "closed" /\ UNCHANGED faults
     \/ \E s \in table :
          /\ Fail(1)
          /\ \/ phys' = phys \ (table \ {s}) /\ handles' = handles \ table
             \/ phys' = phys \ table /\ handles' = handles \ (table \ {s})
          /\ state' = "closed_dirty"
  /\ table' = {}
  /\ UNCHANGED <<size, served, pending, ops>>

Next ==
  \/ \E target \in 1 .. Units : StartResize(target)
  \/ MapSegments
  \/ ZeroCheckFails
  \/ \E k \in 1 .. Units : MapSegmentsFails(k)
  \/ UnmapSegments
  \/ \E k \in 1 .. Units : UnmapSegmentsFails(k)
  \/ UnmapRefused
  \/ Close

Spec == Init /\ [][Next]_vars

-----------------------------------------------------------------------------
(* Properties *)

\* However growths and shrinks fail, a segment a block may lie in is mapped and
\* recorded (map_segments, unmap_segments): a kernel never reaches an unmapped
\* address while the buffer is open.
ServedIsMapped == state = "open" => 1 .. served \subseteq phys \cap table

\* A half-done shrink or a growth that failed its check leaves no hole: the table
\* is a prefix of the range (unmap_segments goes from the top down), and with no
\* operation pending it is exactly the promised size.
TableIsPrefix ==
  state = "open" =>
    /\ table = 1 .. Cardinality(table)
    /\ pending = 0 => Cardinality(table) = size

\* With at most one failed driver call, whatever is mapped or held is recorded:
\* a growth's rollback restores exactly what there was.
NothingUnrecorded ==
  state = "open" /\ faults <= 1 => phys \subseteq table /\ handles = table

\* After a single failure anywhere before it, closing still releases every
\* mapping and every handle (_ManagedVmmImport.close goes on past errors).
CloseReleasesAll ==
  state = "closed" /\ faults <= 1 => phys = {} /\ handles = {}

\* When the coordinator repeats an operation, the import refuses it only where it must:
\* a growth only if the table took its segments before the zero check failed, or if a
\* rollback failed on top of it; a shrink only after a driver call failed.  (A shrink
\* that failed below its top segment, and a growth that failed its check, are refused
\* in every repetition: the table never gets back what it lost, or loses what it took.)
RepeatPossible ==
  state = "open" /\ pending # 0 =>
    /\ pending > size /\ faults <= 1 /\ table = 1 .. size => \A s \in New : ~Blocked(s)
    /\ pending < size /\ faults = 0 => Old \subseteq table \cap phys

\* Whatever driver call fails in whatever growth, shrink or close, the import knows
\* what is mapped, what is served is mapped, a repeated operation is refused only
\* where the failure left its mark, and nothing outlives the close.
MappingAccounted ==
  /\ TypeOK
  /\ ServedIsMapped
  /\ TableIsPrefix
  /\ NothingUnrecorded
  /\ RepeatPossible
  /\ CloseReleasesAll
=============================================================================
