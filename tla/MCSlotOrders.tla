---------------------------- MODULE MCSlotOrders ----------------------------
(***************************************************************************)
(* SlotOrders for TLC, with one account of one slot, so that every sale    *)
(* competes for the same row.                                              *)
(*                                                                         *)
(* renewal: one buyer opens two single orders, the second of which may     *)
(*   hold a reservation and renew the slot that the first one lets lapse.  *)
(* cart: one buyer pays a cart of two orders.                              *)
(* contest: a single order and the cart of another buyer.                  *)
(***************************************************************************)
EXTENDS SlotOrders, TLC

CONSTANTS alice, bob, single, renewal, cart, key1, key2, key3

RenewalCheckoutOf == <<single, renewal>>
RenewalBuyerOf == (single :> alice) @@ (renewal :> alice)
RenewalKeyOf == <<key1, key2>>

CartCheckoutOf == <<cart, cart>>
CartBuyerOf == cart :> bob
CartKeyOf == <<key1, key2>>

ContestCheckoutOf == <<single, cart, cart>>
ContestBuyerOf == (single :> alice) @@ (cart :> bob)
ContestKeyOf == <<key1, key2, key3>>
=============================================================================
