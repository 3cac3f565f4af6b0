------------------------------ MODULE MCTopUps ------------------------------
(***************************************************************************)
(* TopUps for TLC: one user, one invoice of 2, two keys, the second of     *)
(* which is the first one rotated or a second registration.                *)
(*                                                                         *)
(* billing: two greenlets, so that a webhook and its repetition, or a      *)
(*   credit and a rotation, race.                                          *)
(* recovery: one greenlet that also serves lookups, a restart, a ban or a  *)
(*   failed write, and an order that grows old.                            *)
(***************************************************************************)
EXTENDS TopUps, TLC

CONSTANTS ann, invoice1, w1, w2

OneUser == {ann}
OneOwnerOf == [k \in Keys |-> ann]
OnePayerOf == invoice1 :> ann
OneAmount == invoice1 :> 2

BillingServes == (w1 :> {"register", "on", "rotate", "topup"}) @@ (w2 :> {"topup"})
(* Keys differ in nothing but their name: both are ann's. *)
KeySymmetry == Permutations(Keys)

RecoveryServes == w1 :> {"register", "on", "off", "lookup", "topup"}
=============================================================================
