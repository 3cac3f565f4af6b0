-------------------------- MODULE MCClaimPipeline --------------------------
(***************************************************************************)
(* ClaimPipeline for TLC. Main product: one prepaid licence with a balance *)
(* of 1, so that the second of two claims overdraws it, and the legacy     *)
(* stream; room for one claim in the queue; three events when scripts      *)
(* report in one currency, two when they report in two. Slot product: one  *)
(* slot, which belongs to the first buyer at the start.                    *)
(***************************************************************************)
EXTENDS ClaimPipeline, TLC

CONSTANTS c1, b1, btc, usdt

OpeningOne == [l \in Licenses |-> 1]
Slotted == {[mode |-> "api", owner |-> b1, currencies |-> {}, events |-> 0]}
Played ==
    {[mode |-> "main", owner |-> None, currencies |-> {usdt}, events |-> 3],
     [mode |-> "main", owner |-> None, currencies |-> {btc, usdt}, events |-> 2]} \cup Slotted
OneEntry == Slots \X {c1}
=============================================================================
