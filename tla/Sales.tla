------------------------------- MODULE Sales -------------------------------
(***************************************************************************)
(* What the slot shop promises of a sale, whatever happens concurrently:   *)
(* an order gets its slot at most once, never loses or changes it, and     *)
(* gets it only after the whole checkout it belongs to has been paid.      *)
(***************************************************************************)
EXTENDS Integers

CONSTANTS Orders, Checkouts, CheckoutOf, Price, Places, None

VARIABLES paid, place

Funded(c) == paid[c] >= Price[c]

Init ==
    /\ paid = [c \in Checkouts |-> 0]
    /\ place = [o \in Orders |-> None]

Receive(c) ==
    /\ paid[c] = 0
    /\ \E amount \in 1 .. Price[c] : paid' = [paid EXCEPT ![c] = amount]
    /\ UNCHANGED place

Deliver(o, p) ==
    /\ place[o] = None /\ Funded(CheckoutOf[o])
    /\ place' = [place EXCEPT ![o] = p]
    /\ UNCHANGED paid

Next ==
    \/ \E c \in Checkouts : Receive(c)
    \/ \E o \in Orders, p \in Places : Deliver(o, p)

Spec == Init /\ [][Next]_<<paid, place>>
=============================================================================
