--------------------------- MODULE MCConfigStore ---------------------------
(* Constants of the model-checking run of ConfigStore.                     *)
EXTENDS ConfigStore

CONSTANTS f1, f2, v0, v1

(* f2 is one that _defaults() draws, as it does the session secret.        *)
DefaultsValue == {[f \in Fields |-> IF f = f1 THEN v0 ELSE v] : v \in Values}
UpdatesValue  == [field : Fields, value : {v1}]
============================================================================
