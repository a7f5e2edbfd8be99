--------------------------- MODULE MCServerShares ---------------------------
(* Constants of the model-checking runs of ServerShares.                   *)
EXTENDS ServerShares

CONSTANTS b1, b2, x, y, k

(* A device with a serial and one that reports none.                       *)
OneSerial == [d \in Devs |-> IF d = x THEN k ELSE None]

OneDevice  == [b \in Busids |-> IF b = b1 THEN x ELSE None]
TwoDevices == [b \in Busids |-> IF b = b1 THEN x ELSE IF b = b2 THEN y ELSE None]
=============================================================================
