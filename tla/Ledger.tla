------------------------------- MODULE Ledger -------------------------------
(***************************************************************************)
(* What prepaid billing promises of the money, whatever happens            *)
(* concurrently: a payment is credited at most once, in full and to one    *)
(* account, in one step; otherwise a balance changes only by charges.      *)
(***************************************************************************)
EXTENDS Integers

CONSTANTS Accounts, Payments, Amount

VARIABLES opened, credited, balance

Init ==
    /\ opened = {}
    /\ credited = {}
    /\ balance = [a \in Accounts |-> 0]

(* An account is opened once; what it starts with is not the ledger's. *)
Open(a) ==
    /\ a \notin opened /\ opened' = opened \cup {a}
    /\ \A b \in Accounts \ {a} : balance'[b] = balance[b]
    /\ UNCHANGED credited

Credit(p, a) ==
    /\ p \notin credited /\ a \in opened
    /\ credited' = credited \cup {p}
    /\ balance' = [balance EXCEPT ![a] = @ + Amount[p]]
    /\ UNCHANGED opened

Charge(a) ==
    /\ a \in opened
    /\ balance' = [balance EXCEPT ![a] = @ - 1]
    /\ UNCHANGED <<opened, credited>>

Next ==
    \/ \E a \in Accounts : Open(a) \/ Charge(a)
    \/ \E p \in Payments, a \in Accounts : Credit(p, a)

Spec == Init /\ [][Next]_<<opened, credited, balance>>
=============================================================================
