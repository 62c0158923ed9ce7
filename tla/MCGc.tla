-------------------------------- MODULE MCGc --------------------------------
(* Model values and bounds for checking Gc. *)
EXTENDS Gc, TLC

CONSTANTS c1, c2, main, dev, feat, px, py, v1, Ops1, Ops2

MCOps == c1 :> Ops1 @@ c2 :> Ops2
(* Both clients write main, or one main and the other dev. *)
MCWritesMain == c1 :> {<<main, px>>} @@ c2 :> {<<main, px>>}
MCWritesBoth == c1 :> {<<dev, px>>} @@ c2 :> {<<main, py>>}

(* As much as a sweep can take: with milestones, and without. *)
MCPolicy == {[keepRecent |-> 0, checkpointEvery |-> 0, milestones |-> TRUE]}
MCPolicyNoMilestones == {[keepRecent |-> 0, checkpointEvery |-> 0, milestones |-> FALSE]}
=============================================================================
