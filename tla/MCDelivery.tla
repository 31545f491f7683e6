---- MODULE MCDelivery ----
(***************************************************************************)
(* Heights of the other peers for Delivery: one has the whole channel, the *)
(* other less than a full batch needs.                                     *)
(***************************************************************************)
EXTENDS Delivery, TLC

CONSTANTS p1, p2

Ahead == (p1 :> Top) @@ (p2 :> 2)
====
