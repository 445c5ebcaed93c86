---------------------------- MODULE MCKvSizing -----------------------------
(* Cases of KvSizing for TLC: sizing policies around every boundary of       *)
(* size_rank and worker configurations the checks accept or refuse, in an    *)
(* arithmetic of small words.                                                *)
EXTENDS KvSizing

Member(kind, block, heads, state, window) ==
  [kind |-> kind, block |-> block, heads |-> heads, state |-> state,
   window |-> window, dense |-> TRUE, page |-> block * heads * state]

Plain(layers, m, seqBytes) ==
  [layers |-> layers, wrapped |-> FALSE, kind |-> m.kind, block |-> m.block,
   page |-> m.page, members |-> [d \in {0} |-> m], seqBytes |-> seqBytes]

Wrapped(kind, members, seqBytes) ==
  [layers |-> DOMAIN members, wrapped |-> TRUE, kind |-> kind,
   block |-> members[CHOOSE l \in DOMAIN members : TRUE].block,
   page |-> MapThenSumSet(LAMBDA l : members[l].page, DOMAIN members),
   members |-> members, seqBytes |-> seqBytes]

Config(groups) == [groups |-> groups, packed |-> [sizes |-> {}, blocks |-> 1]]

Full == Member("full_attention", 2, 1, 1, Absent)
Sliding == Member("sliding_window", 2, 1, 2, 4)
Quantised == [Full EXCEPT !.dense = FALSE]
Padded == [Full EXCEPT !.page = 3]

FullGroup == Plain({"l1", "l2"}, Full, 5)
SlidingGroup == Wrapped("sliding_window", [l \in {"l3", "l4"} |-> Sliding], 9)
WideGroup == Plain({"l1", "l2", "l3"}, Member("full_attention", 3, 2, 2, Absent), 12)
MixedGroup ==
  Wrapped("sliding_window",
          [l \in {"l3", "l4"} |-> IF l = "l3" THEN Sliding
                                  ELSE [Sliding EXCEPT !.window = 6]], 9)

MCConfigs ==
  {Config({FullGroup}), Config({FullGroup, SlidingGroup}), Config({WideGroup}),
   Config({MixedGroup}), Config({Plain({"l1"}, Quantised, 4)}),
   Config({Plain({"l1"}, Padded, 4)}), Config({FullGroup, WideGroup}),
   [Config({FullGroup}) EXCEPT !.packed = [sizes |-> {12}, blocks |-> 3]],
   [Config({FullGroup}) EXCEPT !.packed = [sizes |-> {12}, blocks |-> 4]]}

MCPolicies ==
  [target : {1, 3}, maximum : {Absent, 2, 6}, headroom : {0, 20, 50, 101},
   prefix : {0, 3}, alignment : {1, 3}, minBytes : {Absent, 40},
   maxBytes : {Absent, 30, 50}, strict : BOOLEAN]
=============================================================================
