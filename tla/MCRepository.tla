---------------------------- MODULE MCRepository ----------------------------
(* Model values and bounds for checking Repository: two clients, which     *)
(* between them call every operation in the runs' configurations.          *)
EXTENDS Repository, TLC

CONSTANTS c1, c2, main, dev, hash, ep, px, py, v1,
          Ops1, Ops2  \* what each client calls

MCOps == c1 :> Ops1 @@ c2 :> Ops2

(* The hash ref-spec names the first commit stored. *)
MCSpecTarget == [h \in HashSpec |-> 1]

MCSealMain == [e \in Epoch |-> Main]
MCSealPlan == [e \in Epoch |-> NoRef]
=============================================================================
