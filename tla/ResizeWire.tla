----------------------------- MODULE ResizeWire -----------------------------
(* The segment lists of the wire contract (contract.py) and the worker that  *)
(* acts on them: a binding's elastic receipt and the resize operations that  *)
(* follow are validated, then mapped or unmapped by id.  An operation brings *)
(* its own bytes_per_block and granularity, which nothing compares with the  *)
(* binding's.  The coordinator (external) may get anything wrong: those two, *)
(* the block count it starts from, stage, alignment, the list of segments    *)
(* and its order, their ids, ranges and handle indices.                      *)
EXTENDS Integers, FiniteSets, Sequences, SequencesExt

CONSTANTS
  Ids,          \* segment ids
  MaxBlocks,    \* block_count of the binding
  Stride,       \* bytes_per_block of the binding
  Grain,        \* allocation_granularity_bytes of the binding
  Headers,      \* bytes_per_block (stride) and granularity (grain) of an operation
  Alignment,    \* resize_alignment_blocks
  Offsets,      \* offsets and lengths the coordinator puts into segments
  Lengths,
  Targets,      \* block counts it puts into operations
  MaxSegments   \* bound: segments of one message

WireAssumption ==
  /\ IsFiniteSet(Ids)
  /\ {MaxBlocks, Stride, Grain, Alignment, MaxSegments} \subseteq Nat \ {0}
  /\ Offsets \subseteq Nat /\ Lengths \subseteq Nat \ {0} /\ Targets \subseteq Nat \ {0}
  /\ Headers \subseteq [stride : Nat \ {0}, grain : Nat \ {0}]

Virtual == MaxBlocks * Stride
Stages == {"map_workers", "activate_scheduler", "retire_scheduler", "unmap_workers"}
Segments ==
  [id : Ids, offset : Offsets, length : Lengths, handle : 0 .. MaxSegments - 1]
Pools ==
  [minimum : 1 .. MaxBlocks, mapped : 1 .. MaxBlocks, maximum : {MaxBlocks - 1, MaxBlocks},
   segments : BoundedSeq(Segments, MaxSegments)]
Operations ==
  [from : Targets, target : Targets, stage : Stages, header : Headers,
   segments : BoundedSeq(Segments, MaxSegments)]

-----------------------------------------------------------------------------
(* Validation *)

\* sorted(segments, key=offset): the list rearranged so that no offset falls.  sorted
\* keeps ties in their order, which nothing below tells apart: every length is
\* positive, so the second of two segments at one offset is refused in either order.
ByOffset(segments) ==
  LET order == CHOOSE p \in Bijection(DOMAIN segments, DOMAIN segments) :
                 \A i, j \in DOMAIN segments :
                   i < j => segments[p[i]].offset <= segments[p[j]].offset
  IN  [i \in DOMAIN segments |-> segments[order[i]]]

\* One segment of the loop: the offset expected next, or -1 once one was refused.
Covered(segments, i, expected, grain) ==
  /\ \A j \in 1 .. i - 1 : /\ segments[j].id # segments[i].id
                           /\ segments[j].handle # segments[i].handle
  /\ segments[i].offset = expected
  /\ segments[i].offset % grain = 0 /\ segments[i].length % grain = 0

\* Where the sorted segments end when they densely cover a range from start, -1 when
\* they do not.
CoverEnd(segments, start, grain) ==
  LET s == ByOffset(segments)
      end[i \in 0 .. Len(s)] ==
        IF i = 0 THEN start
        ELSE IF end[i - 1] >= 0 /\ Covered(s, i, end[i - 1], grain)
             THEN end[i - 1] + s[i].length
             ELSE -1
  IN  end[Len(s)]

\* _validate_elastic_pool
ElasticPoolAccepted(p) ==
  /\ p.maximum = MaxBlocks /\ p.minimum <= p.mapped /\ p.mapped <= p.maximum
  /\ p.minimum % Alignment = 0 /\ p.mapped % Alignment = 0
  /\ p.minimum * Stride % Grain = 0 /\ p.mapped * Stride % Grain = 0
  /\ p.maximum * Stride % Grain = 0
  /\ p.segments # <<>>
  /\ CoverEnd(p.segments, 0, Grain) = p.mapped * Stride

Lower(o) == (IF o.from < o.target THEN o.from ELSE o.target) * o.header.stride
Upper(o) == (IF o.from < o.target THEN o.target ELSE o.from) * o.header.stride
Physical(o) == o.stage \in {"map_workers", "unmap_workers"}

\* validate_resize_operation
ResizeAccepted(o) ==
  /\ o.from # o.target
  /\ o.stage \in (IF o.target > o.from THEN {"map_workers", "activate_scheduler"}
                                       ELSE {"retire_scheduler", "unmap_workers"})
  /\ Lower(o) % o.header.grain = 0 /\ Upper(o) % o.header.grain = 0
  /\ Physical(o) = (o.segments # <<>>)
  /\ Physical(o) => CoverEnd(o.segments, Lower(o), o.header.grain) = Upper(o)

-----------------------------------------------------------------------------
(* The worker *)

VARIABLES
  pc,       \* register, open, offered, failed
  offer,    \* the operation under way
  table,    \* segments mapped, by id
  mapped,   \* _mapped_bytes
  inStep    \* every operation applied so far began where the mapping ended (or, a
            \* shrink, ended there): from_block_count * bytes_per_block = _mapped_bytes

vars == <<pc, offer, table, mapped, inStep>>

NoOffer == [stage |-> "none"]
Entry(s) == [offset |-> s.offset, length |-> s.length]
Entries(segments) ==
  [i \in {segments[k].id : k \in DOMAIN segments} |->
     Entry(segments[CHOOSE k \in DOMAIN segments : segments[k].id = i])]

TypeOK ==
  /\ pc \in {"register", "open", "offered", "failed"}
  /\ offer \in Operations \cup {NoOffer}
  /\ DOMAIN table \subseteq Ids
  /\ \A i \in DOMAIN table : table[i] \in [offset : Offsets, length : Lengths]
  /\ mapped \in 0 .. Virtual
  /\ inStep \in BOOLEAN

Init ==
  /\ pc = "register" /\ offer = NoOffer
  /\ table = [i \in {} |-> 0] /\ mapped = 0 /\ inStep = TRUE

\* register_with_handles, then CudaVmmBuffer.__init__: every handle index of the
\* receipt is one that came, and the other way round.
Referenced(segments) == {segments[k].handle : k \in DOMAIN segments}

Register ==
  /\ pc = "register"
  /\ \E p \in Pools, n \in 0 .. MaxSegments :
       IF ElasticPoolAccepted(p) /\ Referenced(p.segments) = 0 .. n - 1
       THEN /\ pc' = "open"
            /\ table' = Entries(p.segments) /\ mapped' = p.mapped * Stride
       ELSE pc' = "failed" /\ UNCHANGED <<table, mapped>>
  /\ UNCHANGED <<offer, inStep>>

\* External: the coordinator's next operation.
Offer ==
  /\ pc = "open"
  /\ offer' \in Operations /\ pc' = "offered"
  /\ UNCHANGED <<table, mapped, inStep>>

Bytes(s) == s.offset .. s.offset + s.length - 1
Grained(segments, grain) ==
  \A k \in DOMAIN segments : segments[k].length % grain = 0 /\ segments[k].offset % grain = 0

\* map_segments: a growth inside the virtual range, of segments with new ids that fit the
\* binding's granularity.  The driver (external) maps no byte that is mapped.
Mappable(o) ==
  /\ o.target * o.header.stride \in mapped + 1 .. Virtual
  /\ Grained(o.segments, Grain)
  /\ \A k \in DOMAIN o.segments :
       /\ o.segments[k].id \notin DOMAIN table
       /\ o.segments[k].offset + o.segments[k].length <= Virtual
       /\ \A i \in DOMAIN table : Bytes(o.segments[k]) \cap Bytes(table[i]) = {}

\* unmap_segments: a shrink that leaves something, of segments the table holds at the
\* same place.
\* Mutant: the id alone is looked up.
Unmappable_ById(o) ==
  /\ o.target * o.header.stride \in 1 .. mapped - 1
  /\ \A k \in DOMAIN o.segments : o.segments[k].id \in DOMAIN table
Unmappable(o) ==
  /\ o.target * o.header.stride \in 1 .. mapped - 1
  /\ \A k \in DOMAIN o.segments :
       /\ o.segments[k].id \in DOMAIN table
       /\ table[o.segments[k].id] = Entry(o.segments[k])

Without(ids) == [i \in DOMAIN table \ ids |-> table[i]]
With(more) ==
  [i \in DOMAIN table \cup DOMAIN more |-> IF i \in DOMAIN more THEN more[i] ELSE table[i]]

Respond(ok) ==
  /\ pc' = IF ok THEN "open" ELSE "failed"
  /\ offer' = NoOffer

\* The poll's checks, apply_worker_resize and the buffer's own: any refusal is an
\* exception in the engine's step.  handles is how many came.  The scheduler's stages are
\* refused by a worker.
ApplyResize(handles) ==
  LET o == offer
      ids == {o.segments[k].id : k \in DOMAIN o.segments}
      grows == o.stage = "map_workers" /\ Mappable(o)
      shrinks == o.stage = "unmap_workers" /\ handles = 0 /\ Unmappable(o)
      ok == /\ ResizeAccepted(o)
            /\ (IF o.stage = "map_workers" THEN Referenced(o.segments) ELSE {})
                 = 0 .. handles - 1
            /\ grows \/ shrinks
  IN  /\ pc = "offered"
      /\ Respond(ok)
      /\ mapped' = IF ok THEN o.target * o.header.stride ELSE mapped
      /\ inStep' = (inStep /\ (ok => o.from * o.header.stride = mapped))
      /\ table' = IF ~ok THEN table
                  ELSE IF grows THEN With(Entries(o.segments)) ELSE Without(ids)

Next ==
  \/ Register
  \/ Offer
  \/ \E n \in 0 .. MaxSegments : ApplyResize(n)

Spec == Init /\ [][Next]_vars

-----------------------------------------------------------------------------
(* Properties *)

Partition(segments, from, to) ==
  /\ UNION {Bytes(segments[k]) : k \in DOMAIN segments} = from .. to - 1
  /\ \A j, k \in DOMAIN segments : j # k => Bytes(segments[j]) \cap Bytes(segments[k]) = {}
Named(segments) ==
  \A j, k \in DOMAIN segments :
    j # k => segments[j].id # segments[k].id /\ segments[j].handle # segments[k].handle

\* validate_resize_operation's one pass over the sorted list decides exactly what it
\* is for: an operation with segments is accepted if and only if its stage fits its
\* direction and the segments, in whatever order they come, partition the tail it says it
\* changes into pieces of the granularity it names, with ids and handles of their own; one
\* without segments if and only if it is the scheduler's.
AcceptedIffPartition ==
  pc = "offered" /\ offer.from # offer.target =>
    LET o == offer
        grows == o.target > o.from
        aligned == Lower(o) % o.header.grain = 0 /\ Upper(o) % o.header.grain = 0
    IN  ResizeAccepted(o) <=>
          /\ aligned
          /\ \/ /\ o.stage = (IF grows THEN "map_workers" ELSE "unmap_workers")
                /\ Partition(o.segments, Lower(o), Upper(o))
                /\ Named(o.segments) /\ Grained(o.segments, o.header.grain)
             \/ /\ o.stage = (IF grows THEN "activate_scheduler" ELSE "retire_scheduler")
                /\ o.segments = <<>>

\* Whatever the coordinator sends after a receipt that was accepted, no byte is mapped
\* twice and none outside the virtual range.  And as long as every operation the worker
\* applied began at the byte the mapping ended at, which no check ensures, its segments
\* are a partition of the bytes the worker believes mapped: no hole below, nothing above.
MappedIsPartitioned ==
  pc # "register" =>
    /\ \A i \in DOMAIN table : Bytes(table[i]) \subseteq 0 .. Virtual - 1
    /\ \A i, j \in DOMAIN table : i # j => Bytes(table[i]) \cap Bytes(table[j]) = {}
    /\ inStep => UNION {Bytes(table[i]) : i \in DOMAIN table} = 0 .. mapped - 1

\* What validate_resize_operation accepts cuts the range the message names into pieces, and
\* the importer never maps a byte twice; message after message the pieces cut the mapped
\* range as well, provided each message starts where the mapping ends.
MessagesArePartitions ==
  /\ TypeOK
  /\ AcceptedIffPartition
  /\ MappedIsPartitioned
=============================================================================
