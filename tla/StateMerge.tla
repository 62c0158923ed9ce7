----------------------------- MODULE StateMerge -----------------------------
(***************************************************************************)
(* States of one ref and their three-way merge.                            *)
(*                                                                         *)
(* A state tree is content-addressed, so a tree and its root id are the    *)
(* same thing here: a function from the paths of interest to the value     *)
(* stored there, NoValue where the path is absent.  Merging such trees is  *)
(* core/src/merge.rs restricted to leaves.                                 *)
(***************************************************************************)
CONSTANTS Path, Value, NoValue

ASSUME NoValueAssumption == NoValue \notin Value

State == [Path -> Value \cup {NoValue}]

EmptyState == [p \in Path |-> NoValue]

(* tree_set and tree_delete on a leaf (deleting is writing NoValue). *)
TreeSet(s, p, v) == [s EXCEPT ![p] = v]

(* Paths both sides changed, differently. *)
Conflicts(base, ours, theirs) ==
    {p \in Path : /\ ours[p] # theirs[p]
                  /\ base[p] # ours[p]
                  /\ base[p] # theirs[p]}

(* merge_maps: the side that changed wins, and ours on a conflict. *)
MergeStates(base, ours, theirs) ==
    [p \in Path |-> IF base[p] = ours[p] THEN theirs[p] ELSE ours[p]]

(* three_way_merge_collect answers FastForward by comparing state roots. *)
IsFastForward(base, ours, theirs) ==
    base = ours \/ base = theirs \/ ours = theirs

FastForwardRoot(base, ours, theirs) ==
    IF base = ours THEN theirs ELSE ours
=============================================================================
