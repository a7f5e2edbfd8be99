----------------------------- MODULE MCTunnels ------------------------------
(* Constants of the model-checking runs of Tunnels.                        *)
EXTENDS Tunnels, TLC

CONSTANTS m1, m2, e1, e2, c1, c2, c3

(* One entry of each machine.                                              *)
Owners == [e \in Entries |-> IF e = e2 THEN m2 ELSE m1]

(* The first machine is registered a second time, as c2.                   *)
OwnTokens == [i \in Ids |-> IF i = c3 THEN {m2} ELSE {m1}]

(* The tasks are alike, and the two client ids of the first machine.       *)
Alike == Permutations(Tasks) \cup Permutations({c1, c2})
=============================================================================
