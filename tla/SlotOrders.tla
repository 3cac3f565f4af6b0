----------------------------- MODULE SlotOrders -----------------------------
(***************************************************************************)
(* Slot sales of the API-Claimer product: buyers order slots, OxaPay       *)
(* reports the payment, request greenlets allocate paid orders onto the    *)
(* slots of connected accounts, and a background sweep expires slots and   *)
(* reservations, recovers missed payments and serves backorders.           *)
(*                                                                         *)
(* Every greenlet may be suspended at every database statement, and a      *)
(* rolling deploy runs two processes, so a handler is a series of steps.   *)
(* Postgres runs at READ COMMITTED: a SELECT sees the last commit, SELECT  *)
(* ... FOR UPDATE and UPDATE wait for the row's lock, and the ORM writes   *)
(* only the columns whose value differs from what it read (Merge below).   *)
(*                                                                         *)
(* Data that is abstracted: every order costs 1; a plan is SlotTerm long;  *)
(* the uuids, the buyer and the Stake key of each order are constants.     *)
(***************************************************************************)
EXTENDS Integers, FiniteSets

CONSTANTS
    Accounts,       \* ids of the operator accounts whose slots are sold
    MaxSlots,       \* ApiAccount.max_slots
    Orders,         \* ids of the order rows, in creation order
    Checkouts,      \* payment references: an order_id or a cart_id
    Carts,          \* the references that are cart_ids
    CheckoutOf,     \* order -> the reference it is paid under
    Buyers,
    BuyerOf,        \* reference -> telegram_id
    Keys,
    KeyOf,          \* order -> the Stake API key it was opened with
    Workers,        \* request greenlets
    Sweeper,        \* the Slot-Expiry-Sweep thread
    Attempts,       \* the retries range(4) on an IntegrityError
    SlotTerm,       \* plan duration, in ticks
    ReservationTtl, \* Config.RESERVATION_TTL_S, in ticks
    ReconcileWindow,\* max_age_min of reconcile_pending_orders, in ticks
    MaxTime,        \* bound on the clock
    MaxFaults,    \* bound on restarts and lost connections
    None            \* SQL NULL

Procs == Workers \cup {Sweeper}
Indexes == 0 .. MaxSlots - 1
Places == Accounts \X Indexes
OrdersOf(c) == {o \in Orders : CheckoutOf[o] = c}
Owner(o) == BuyerOf[CheckoutOf[o]]

ASSUME ConstantsAssumption ==
    /\ Accounts \subseteq Nat /\ MaxSlots \in Nat /\ Orders \subseteq Nat
    /\ IsFiniteSet(Accounts) /\ IsFiniteSet(Orders)
    /\ Carts \subseteq Checkouts
    /\ CheckoutOf \in [Orders -> Checkouts]
    /\ BuyerOf \in [Checkouts -> Buyers]
    /\ KeyOf \in [Orders -> Keys]
    /\ Sweeper \notin Workers
    /\ {Attempts, SlotTerm, ReservationTtl} \subseteq Nat \ {0}
    /\ {ReconcileWindow, MaxTime, MaxFaults} \subseteq Nat
    /\ None \notin Places \cup Orders \cup Checkouts \cup Buyers \cup Keys \cup Procs

VARIABLES
    now,        \* wall clock
    pool,       \* accounts with a live userscript (_pool_accounts)
    slots,      \* api_slots, by (account_id, slot_index)
    orders,     \* api_orders
    paid,       \* what OxaPay has received under each reference
    job,        \* what each greenlet is doing
    sweep,      \* the transaction and the lists of the sweep thread
    faults

vars == <<now, pool, slots, orders, paid, job, sweep, faults>>

OrderStatus == {"unborn", "pending", "awaiting_capacity", "allocated",
                "failed", "reservation_expired"}
Closed == {"allocated", "failed", "reservation_expired"}

SlotRow == [status: {"absent", "active", "expired"}, owner: Buyers \cup {None},
            key: Keys \cup {None}, expires: Nat]
NoRow == [status |-> "absent", owner |-> None, key |-> None, expires |-> 0]

OrderRow == [status: OrderStatus, key: {"none", "sealed", "unreadable"},
             slot: Places \cup {None}, held: Places \cup {None}, until: Nat,
             tracked: BOOLEAN, created: Nat]
Unborn == [status |-> "unborn", key |-> "none", slot |-> None, held |-> None,
           until |-> 0, tracked |-> FALSE, created |-> 0]

JobPc == {"idle", "begun", "resolved", "next", "picked", "read"}
JobKind == {"none", "begin", "allocate", "fulfil"}
JobRecord == [pc: JobPc, kind: JobKind, now: Nat, checkout: Checkouts \cup {None},
              prior: SUBSET Orders, expected: Nat, todo: SUBSET Orders,
              order: Orders \cup {None}, place: Places \cup {None}, row: SlotRow,
              tries: Nat]
Job == {j \in JobRecord :
          /\ j.pc \in {"begun", "resolved"} => j.checkout # None
          /\ j.pc \in {"picked", "read"} => j.order # None /\ j.place # None}
Idle == [pc |-> "idle", kind |-> "none", now |-> 0, checkout |-> None,
         prior |-> {}, expected |-> 0, todo |-> {}, order |-> None,
         place |-> None, row |-> NoRow, tries |-> 0]

SweepPc == {"asleep", "selected", "flushed", "scanned", "committed", "reconciling"}
Sweep == [pc: SweepPc, now: Nat, lapsed: SUBSET Places, wiped: SUBSET Places,
          stale: SUBSET Orders, leftover: SUBSET Orders, refs: SUBSET Checkouts]
Asleep == [pc |-> "asleep", now |-> 0, lapsed |-> {}, wiped |-> {},
           stale |-> {}, leftover |-> {}, refs |-> {}]

TypeOK ==
    /\ now \in Nat /\ faults \in Nat
    /\ pool \subseteq Accounts
    /\ slots \in [Places -> SlotRow]
    /\ orders \in [Orders -> OrderRow]
    /\ paid \in [Checkouts -> Nat]
    /\ job \in [Procs -> Job]
    /\ sweep \in Sweep

Init ==
    /\ now = 0 /\ faults = 0
    /\ pool = Accounts
    /\ slots = [p \in Places |-> NoRow]
    /\ orders = [o \in Orders |-> Unborn]
    /\ paid = [c \in Checkouts |-> 0]
    /\ job = [p \in Procs |-> Idle]
    /\ sweep = Asleep

-----------------------------------------------------------------------------
(* Row locks *)

Holds(p, o) == job[p].pc \in {"picked", "read"} /\ job[p].order = o

(* No other open transaction holds the FOR UPDATE lock of a row of os. *)
Unlocked(p, os) == \A q \in Procs \ {p} : \A o \in os : ~Holds(q, o)

(* Rows of api_slots the sweep has updated in its open transaction. *)
SweptPlaces ==
    IF sweep.pc \in {"flushed", "scanned"} THEN sweep.lapsed \cup sweep.wiped ELSE {}

-----------------------------------------------------------------------------
(* Capacity *)

Live(row, t) == row.status = "active" /\ row.expires > t

Reserves(o, t) == orders[o].status = "pending" /\ orders[o].held # None /\ orders[o].until > t

Occupied(a, t) == {i \in Indexes : Live(slots[<<a, i>>], t)}

(* Indexes of a held by a valid reservation of an order other than o. *)
Reserved(a, t, o) ==
    {i \in Indexes : \E q \in Orders \ {o} : Reserves(q, t) /\ orders[q].held = <<a, i>>}

Taken(a, t, o) == Occupied(a, t) \cup Reserved(a, t, o)
Free(a, t, o) == Indexes \ Taken(a, t, o)

LeastLoaded(a, t, o) ==
    /\ a \in pool /\ Free(a, t, o) # {}
    /\ \A b \in pool : Free(b, t, o) # {} =>
          LET la == Cardinality(Taken(a, t, o))
              lb == Cardinality(Taken(b, t, o))
          IN  la < lb \/ (la = lb /\ a <= b)

(* What _pick_free returns: the preferred place if it is still free, else the
   lowest free index of the least loaded account; no place when all are full. *)
PickFree(t, o, prefer) ==
    IF prefer # None /\ prefer[1] \in pool /\ prefer[2] \in Free(prefer[1], t, o)
    THEN {prefer}
    ELSE {p \in Places :
            /\ LeastLoaded(p[1], t, o)
            /\ p[2] \in Free(p[1], t, o)
            /\ \A j \in Free(p[1], t, o) : p[2] <= j}

HasCapacity(t) ==
    Cardinality({p \in Places : p[1] \in pool /\ Live(slots[p], t)})
      + Cardinality({o \in Orders : Reserves(o, t) /\ orders[o].held[1] \in pool})
      < MaxSlots * Cardinality(pool)

-----------------------------------------------------------------------------
(* POST /order/begin and /order/cart-begin: one transaction that reads the
   capacity and the buyer's pending orders, then supersedes them and inserts
   the new ones. It takes no row lock until it writes. *)

Superseded(r) ==
    [r EXCEPT !.status = "reservation_expired", !.key = "none", !.held = None, !.until = 0]

(* Mutant: ids that are not drawn afresh. *)
UnusedAnyId(c) == \A p \in Procs : job[p].kind = "begin" => job[p].checkout # c

Unused(c) ==
    /\ \A o \in OrdersOf(c) : orders[o].status = "unborn"
    /\ \A p \in Procs : job[p].kind = "begin" => job[p].checkout # c

HasPurchase(b) == \E o \in Orders : Owner(o) = b /\ orders[o].status = "allocated"

PendingOf(b) == {o \in Orders : Owner(o) = b /\ orders[o].status = "pending"}

Begin(p, c, hold) ==
    job' = [job EXCEPT ![p] = [Idle EXCEPT !.pc = "begun", !.kind = "begin", !.now = now,
                !.checkout = c, !.prior = PendingOf(BuyerOf[c]), !.place = hold]]

OrderBegin(p, c) ==
    /\ job[p].pc = "idle" /\ c \notin Carts /\ Unused(c)
    /\ HasCapacity(now)
    /\ LET free == PickFree(now, None, None) IN
         IF HasPurchase(BuyerOf[c]) /\ free # {}
         THEN \E hold \in free : Begin(p, c, hold)
         ELSE Begin(p, c, None)
    /\ UNCHANGED <<now, pool, slots, orders, paid, sweep, faults>>

OrderCartBegin(p, c) ==
    /\ job[p].pc = "idle" /\ c \in Carts /\ Unused(c)
    /\ Begin(p, c, None)
    /\ UNCHANGED <<now, pool, slots, orders, paid, sweep, faults>>

NewOrder(j) ==
    [Unborn EXCEPT !.status = "pending", !.key = "sealed", !.held = j.place,
        !.until = IF j.place = None THEN 0 ELSE j.now + ReservationTtl, !.created = now]

BeginCommit(p) ==
    LET j == job[p] IN
    /\ j.pc = "begun"
    /\ Unlocked(p, j.prior)
    /\ orders' = [o \in Orders |->
                    IF CheckoutOf[o] = j.checkout THEN NewOrder(j)
                    ELSE IF o \in j.prior THEN Superseded(orders[o])
                    ELSE orders[o]]
    /\ job' = [job EXCEPT ![p] = Idle]
    /\ UNCHANGED <<now, pool, slots, paid, sweep, faults>>

-----------------------------------------------------------------------------
(* POST /order/track and /order/cart-track *)

OrderTrack(c) ==
    LET pend == {o \in OrdersOf(c) : orders[o].status = "pending"} IN
    /\ \E o \in pend : ~orders[o].tracked
    /\ Unlocked(None, pend)
    /\ orders' = [o \in Orders |->
                    IF o \in pend THEN [orders[o] EXCEPT !.tracked = TRUE] ELSE orders[o]]
    /\ UNCHANGED <<now, pool, slots, paid, job, sweep, faults>>

(* The buyer pays the invoice, in full or in part (external: OxaPay). *)
Pay(c) ==
    /\ paid[c] = 0
    /\ \E o \in OrdersOf(c) : orders[o].status # "unborn"
    /\ \E amount \in 1 .. Cardinality(OrdersOf(c)) : paid' = [paid EXCEPT ![c] = amount]
    /\ UNCHANGED <<now, pool, slots, orders, job, sweep, faults>>

-----------------------------------------------------------------------------
(* _allocate_order: resolve the reference, verify the payment with OxaPay
   outside any transaction, then place its orders one transaction each. *)

(* Mutant: each order of a cart is checked on its own. *)
DuePerOrder(c) == 1

Due(c) == Cardinality({o \in OrdersOf(c) : orders[o].status # "allocated"})

Resolve(p, c) ==
    /\ job[p].pc = "idle"
    /\ \E o \in OrdersOf(c) : orders[o].status # "unborn"
    /\ job' = [job EXCEPT ![p] = [Idle EXCEPT !.pc = "resolved", !.kind = "allocate",
                  !.now = now, !.checkout = c, !.expected = Due(c)]]

(* The bot's credit worker calls once OxaPay has told it of a payment, and may
   call again. *)
OrderAllocate(p, c) ==
    /\ paid[c] > 0
    /\ Resolve(p, c)
    /\ UNCHANGED <<now, pool, slots, orders, paid, sweep, faults>>

(* Mutant: no positive proof of payment. *)
PaidUpUnproved(j) == paid[j.checkout] >= 0

PaidUp(j) == paid[j.checkout] > 0 /\ paid[j.checkout] >= j.expected

VerifyPayment(p) ==
    /\ job[p].pc = "resolved" /\ PaidUp(job[p])
    /\ job' = [job EXCEPT ![p] = [@ EXCEPT !.pc = "next", !.todo = OrdersOf(job[p].checkout)]]
    /\ UNCHANGED <<now, pool, slots, orders, paid, sweep, faults>>

(* Not paid, paid below the total, or OxaPay could not be asked. *)
RefusePayment(p) ==
    /\ job[p].pc = "resolved"
    /\ job' = [job EXCEPT ![p] = Idle]
    /\ UNCHANGED <<now, pool, slots, orders, paid, sweep, faults>>

First(os, o) == o \in os /\ \A q \in os : o <= q

(* Mutant: the backorder sweep looks for the wrong status. *)
PlaceableNotWaiting(kind) == {"pending"}

Placeable(kind) ==
    IF kind = "fulfil" THEN {"awaiting_capacity"} ELSE {"pending", "awaiting_capacity"}

(* The job as it goes on to its next order, this one being dealt with. *)
Onward(j, o) ==
    IF j.todo \ {o} = {} THEN Idle
    ELSE [j EXCEPT !.pc = "next", !.todo = @ \ {o}, !.order = None, !.place = None,
                   !.row = NoRow, !.tries = 0]

(* SELECT ... FOR UPDATE of the job's next order. What the transaction reads
   up to the slot row is one step with it: a step of another greenlet in
   between cannot touch the locked order and could as well have come before. *)
Locks(p, o) == job[p].pc = "next" /\ First(job[p].todo, o) /\ Unlocked(p, {o})

Open(p, o) == orders[o].status \in Placeable(job[p].kind)

FreeFor(p, o) == PickFree(job[p].now, o, orders[o].held)

(* _place_paid_order, first half: decrypt the key and choose a place. *)
PickSlot(p, o) ==
    /\ Locks(p, o) /\ Open(p, o) /\ orders[o].key = "sealed"
    /\ \E place \in FreeFor(p, o) :
          job' = [job EXCEPT ![p] = [@ EXCEPT !.pc = "picked", !.order = o, !.place = place]]
    /\ UNCHANGED <<now, pool, slots, orders, paid, sweep, faults>>

(* No place: the paid order waits, with its key, for capacity. *)
Backorder(p, o) ==
    /\ Locks(p, o) /\ Open(p, o) /\ orders[o].key = "sealed"
    /\ FreeFor(p, o) = {}
    /\ orders' = [orders EXCEPT ![o].status = "awaiting_capacity"]
    /\ job' = [job EXCEPT ![p] = Onward(@, o)]
    /\ UNCHANGED <<now, pool, slots, paid, sweep, faults>>

(* The key no longer decrypts: the order fails; the sweep wipes the key. *)
TokenLost(p, o) ==
    /\ Locks(p, o) /\ Open(p, o) /\ orders[o].key # "sealed"
    /\ orders' = [orders EXCEPT ![o].status = "failed"]
    /\ job' = [job EXCEPT ![p] = Onward(@, o)]
    /\ UNCHANGED <<now, pool, slots, paid, sweep, faults>>

(* Already allocated, or in a state that is not placed. *)
SkipOrder(p, o) ==
    /\ Locks(p, o) /\ ~Open(p, o)
    /\ job' = [job EXCEPT ![p] = Onward(@, o)]
    /\ UNCHANGED <<now, pool, slots, orders, paid, sweep, faults>>

(* The slot row is read without a lock. *)
ReadSlot(p) ==
    /\ job[p].pc = "picked"
    /\ job' = [job EXCEPT ![p] = [@ EXCEPT !.pc = "read", !.row = slots[job[p].place]]]
    /\ UNCHANGED <<now, pool, slots, orders, paid, sweep, faults>>

(* The ORM leaves out of its UPDATE a column set to the value it was read with. *)
Merge(current, read, new) == IF new = read THEN current ELSE new

Sold(current, read, o, t) ==
    [status  |-> Merge(current.status, read.status, "active"),
     owner   |-> Merge(current.owner, read.owner, Owner(o)),
     key     |-> Merge(current.key, read.key, KeyOf[o]),
     expires |-> Merge(current.expires, read.expires, t + SlotTerm)]

(* An INSERT of a row that has appeared since it was read not to exist. *)
Conflict(j) == j.row.status = "absent" /\ slots[j.place].status # "absent"

(* Mutant: order.slot_id is not set. *)
AllocatedUnlinked(r, place) ==
    [r EXCEPT !.status = "allocated", !.key = "none", !.held = None, !.until = 0]

Allocated(r, place) ==
    [r EXCEPT !.status = "allocated", !.slot = place, !.key = "none", !.held = None, !.until = 0]

(* _place_paid_order, second half: write the slot and the order, commit. *)
WriteSlot(p) ==
    LET j == job[p] IN
    /\ j.pc = "read" /\ j.place \notin SweptPlaces
    /\ ~Conflict(j)
    /\ slots' = [slots EXCEPT ![j.place] = Sold(@, j.row, j.order, j.now)]
    /\ orders' = [orders EXCEPT ![j.order] = Allocated(@, j.place)]
    /\ job' = [job EXCEPT ![p] = Onward(j, j.order)]
    /\ UNCHANGED <<now, pool, paid, sweep, faults>>

Again(j) ==
    [j EXCEPT !.pc = "next", !.order = None, !.place = None, !.row = NoRow, !.tries = @ + 1]

(* IntegrityError: roll back and try again, or give the order up. *)
RetryOrder(p) ==
    LET j == job[p] IN
    /\ j.pc = "read" /\ j.place \notin SweptPlaces
    /\ Conflict(j)
    /\ job' = [job EXCEPT ![p] =
                 IF j.tries + 1 < Attempts
                 THEN Again(j)
                 ELSE Onward(j, j.order)]
    /\ UNCHANGED <<now, pool, slots, orders, paid, sweep, faults>>

-----------------------------------------------------------------------------
(* One cycle of the Slot-Expiry-Sweep thread: a transaction that expires slots
   and reservations and wipes keys, then reconcile_pending_orders, then
   fulfil_awaiting_capacity. *)

SweepSelect ==
    /\ sweep.pc = "asleep" /\ job[Sweeper].pc = "idle"
    /\ sweep' = [Asleep EXCEPT !.pc = "selected", !.now = now,
                   !.lapsed = {p \in Places : slots[p].status = "active" /\ slots[p].expires <= now}]
    /\ UNCHANGED <<now, pool, slots, orders, paid, job, faults>>

(* The two UPDATEs of api_slots: their row locks last until the commit. *)
SweepFlush ==
    /\ sweep.pc = "selected"
    /\ sweep' = [sweep EXCEPT !.pc = "flushed",
                   !.wiped = {p \in Places : slots[p].status = "expired" /\ slots[p].key # None}]
    /\ UNCHANGED <<now, pool, slots, orders, paid, job, faults>>

(* Mutant: the leftover wipe forgets failed orders. *)
SweepScanNotFailed ==
    /\ sweep.pc = "flushed"
    /\ sweep' = [sweep EXCEPT !.pc = "scanned",
          !.stale = {o \in Orders : /\ orders[o].status = "pending" /\ orders[o].held # None
                                    /\ orders[o].until <= sweep.now},
          !.leftover = {o \in Orders : orders[o].status = "reservation_expired"
                                       /\ orders[o].key # "none"}]
    /\ UNCHANGED <<now, pool, slots, orders, paid, job, faults>>

SweepScan ==
    /\ sweep.pc = "flushed"
    /\ sweep' = [sweep EXCEPT !.pc = "scanned",
          !.stale = {o \in Orders : /\ orders[o].status = "pending" /\ orders[o].held # None
                                    /\ orders[o].until <= sweep.now},
          !.leftover = {o \in Orders : /\ orders[o].status \in {"failed", "reservation_expired"}
                                       /\ orders[o].key # "none"}]
    /\ UNCHANGED <<now, pool, slots, orders, paid, job, faults>>

(* Mutant: a status the readers of api_slots do not expect. *)
ExpiredAsClosed(row) == [row EXCEPT !.status = "reservation_expired", !.key = None]

Expired(row) == [row EXCEPT !.status = "expired", !.key = None]

SweepCommit ==
    /\ sweep.pc = "scanned"
    /\ Unlocked(None, sweep.stale \cup sweep.leftover)
    /\ slots' = [p \in Places |->
                   IF p \in sweep.lapsed THEN Expired(slots[p])
                   ELSE IF p \in sweep.wiped THEN [slots[p] EXCEPT !.key = None]
                   ELSE slots[p]]
    /\ orders' = [o \in Orders |->
                   IF o \in sweep.stale THEN Superseded(orders[o])
                   ELSE IF o \in sweep.leftover THEN [orders[o] EXCEPT !.key = "none"]
                   ELSE orders[o]]
    /\ sweep' = [Asleep EXCEPT !.pc = "committed"]
    /\ UNCHANGED <<now, pool, paid, job, faults>>

(* Mutant: the age cutoff is off by one. *)
ReconcileListLate ==
    /\ sweep.pc = "committed"
    /\ sweep' = [sweep EXCEPT !.pc = "reconciling",
                   !.refs = {CheckoutOf[o] : o \in {q \in Orders :
                               /\ orders[q].status = "pending" /\ orders[q].tracked
                               /\ orders[q].created + ReconcileWindow > now}}]
    /\ UNCHANGED <<now, pool, slots, orders, paid, job, faults>>

ReconcileList ==
    /\ sweep.pc = "committed"
    /\ sweep' = [sweep EXCEPT !.pc = "reconciling",
                   !.refs = {CheckoutOf[o] : o \in {q \in Orders :
                               /\ orders[q].status = "pending" /\ orders[q].tracked
                               /\ orders[q].created + ReconcileWindow >= now}}]
    /\ UNCHANGED <<now, pool, slots, orders, paid, job, faults>>

Reconcile(c) ==
    /\ sweep.pc = "reconciling" /\ c \in sweep.refs
    /\ Resolve(Sweeper, c)
    /\ sweep' = [sweep EXCEPT !.refs = @ \ {c}]
    /\ UNCHANGED <<now, pool, slots, orders, paid, faults>>

(* fulfil_awaiting_capacity, the last part of the cycle. *)
FulfilList ==
    /\ sweep.pc = "reconciling" /\ sweep.refs = {} /\ job[Sweeper].pc = "idle"
    /\ sweep' = Asleep
    /\ LET waiting == {o \in Orders : orders[o].status = "awaiting_capacity"} IN
         job' = IF waiting = {} THEN job
                ELSE [job EXCEPT ![Sweeper] = [Idle EXCEPT !.pc = "next", !.kind = "fulfil",
                                                 !.now = now, !.todo = waiting]]
    /\ UNCHANGED <<now, pool, slots, orders, paid, faults>>

(* The sweep waits for the order p has locked, p for a slot the sweep has
   updated: Postgres aborts one of the two transactions. *)
Deadlocked(p) ==
    /\ sweep.pc = "scanned" /\ job[p].pc = "read"
    /\ job[p].order \in sweep.stale \cup sweep.leftover
    /\ job[p].place \in SweptPlaces

DeadlockAbort(p) ==
    /\ Deadlocked(p)
    /\ \/ sweep' = Asleep /\ job' = job
       \/ job' = [job EXCEPT ![p] = Idle] /\ sweep' = sweep
    /\ UNCHANGED <<now, pool, slots, orders, paid, faults>>

-----------------------------------------------------------------------------
(* Environment *)

Connect(a) ==
    /\ a \notin pool /\ pool' = pool \cup {a}
    /\ UNCHANGED <<now, slots, orders, paid, job, sweep, faults>>

Disconnect(a) ==
    /\ a \in pool /\ pool' = pool \ {a}
    /\ faults < MaxFaults /\ faults' = faults + 1
    /\ UNCHANGED <<now, slots, orders, paid, job, sweep>>

Tick ==
    /\ now < MaxTime /\ now' = now + 1
    /\ UNCHANGED <<pool, slots, orders, paid, job, sweep, faults>>

(* The process dies and starts again: open transactions roll back, connections
   are gone, and TOKEN_ENC_KEY may have been changed. *)
Restart ==
    /\ faults < MaxFaults /\ faults' = faults + 1
    /\ pool' = {}
    /\ job' = [p \in Procs |-> Idle]
    /\ sweep' = Asleep
    /\ \/ orders' = orders
       \/ orders' = [o \in Orders |->
                       IF orders[o].key = "sealed"
                       THEN [orders[o] EXCEPT !.key = "unreadable"] ELSE orders[o]]
    /\ UNCHANGED <<now, slots, paid>>

-----------------------------------------------------------------------------

(* The steps of a job that has started. *)
Proceed(p) ==
    \/ BeginCommit(p) \/ VerifyPayment(p) \/ RefusePayment(p)
    \/ ReadSlot(p) \/ WriteSlot(p) \/ RetryOrder(p)
    \/ \E o \in Orders : PickSlot(p, o) \/ Backorder(p, o) \/ TokenLost(p, o) \/ SkipOrder(p, o)

SweepStep ==
    \/ SweepSelect \/ SweepFlush \/ SweepScan \/ SweepCommit
    \/ ReconcileList \/ FulfilList
    \/ \E c \in Checkouts : Reconcile(c)

Request(p) ==
    \E c \in Checkouts : OrderBegin(p, c) \/ OrderCartBegin(p, c) \/ OrderAllocate(p, c)

Environment ==
    \/ \E a \in Accounts : Connect(a) \/ Disconnect(a)
    \/ \E c \in Checkouts : Pay(c) \/ OrderTrack(c)
    \/ Tick \/ Restart

Next ==
    \/ \E p \in Workers : Request(p)
    \/ \E p \in Procs : Proceed(p) \/ DeadlockAbort(p)
    \/ SweepStep
    \/ Environment

Spec == Init /\ [][Next]_vars
(* A request greenlet or the sweep runs on once started. Postgres grants a row
   lock in the order of the waiters (nobody waits for one for ever while it is
   freed again and again) and breaks every deadlock. OxaPay is not unreachable
   at every attempt. *)
FairSpec ==
    /\ Spec
    /\ WF_vars(SweepStep) /\ SF_vars(SweepCommit)
    /\ \A p \in Procs : SF_vars(Proceed(p)) /\ WF_vars(DeadlockAbort(p))
    /\ SF_vars(VerifyPayment(Sweeper))

-----------------------------------------------------------------------------
(* Invariants *)

Funded(c) == paid[c] >= Cardinality(OrdersOf(c))

(* The encrypted Stake key of an order is gone once the order is allocated or
   given up (models.py: "WIPED ... secure-deleted"). *)
KeyWiped ==
    \A o \in Orders :
        orders[o].status \in {"unborn", "allocated", "reservation_expired"} => orders[o].key = "none"

(* An order has a slot once it has been allocated, and is then never again in
   a state from which allocation would place it a second time. *)
PlacedIsSettled ==
    \A o \in Orders :
        /\ orders[o].slot # None => orders[o].status \in {"allocated", "reservation_expired"}
        /\ orders[o].status = "allocated" => orders[o].slot # None

(* The FOR UPDATE lock: one holder, and nobody moves the order meanwhile. *)
LockedIsOpen ==
    \A p \in Procs, o \in Orders :
        Holds(p, o) =>
            /\ orders[o].status \in {"pending", "awaiting_capacity"}
            /\ orders[o].slot = None
            /\ \A q \in Procs \ {p} : ~Holds(q, o)

(* An order that is placed, or waits for capacity as paid, belongs to a
   checkout whose TOTAL has been paid: a cart cannot be had for a part of it. *)
PaidBeforePlaced ==
    \A o \in Orders :
        orders[o].slot # None \/ orders[o].status \in {"awaiting_capacity", "allocated"}
            => Funded(CheckoutOf[o])

(* What a job has learnt of the payment stays true while it places orders. *)
VerifiedJob(p) ==
    /\ job[p].pc = "resolved" =>
          \/ job[p].expected = Cardinality(OrdersOf(job[p].checkout))
          \/ Funded(job[p].checkout)
    /\ job[p].pc \in {"next", "picked", "read"} =>
          \A o \in job[p].todo : Funded(CheckoutOf[o])
    /\ job[p].pc \in {"picked", "read"} => job[p].order \in job[p].todo
VerifiedJobs == \A p \in Procs : VerifiedJob(p)

(* The ids of a checkout that is being opened are nobody else's, and a
   transaction supersedes or wipes only orders that exist. *)
FreshReferences ==
    \A p \in Procs :
        job[p].pc = "begun" =>
            /\ job[p].kind = "begin"
            /\ \A o \in OrdersOf(job[p].checkout) : orders[o].status = "unborn"
            /\ \A q \in Procs \ {p} :
                  job[q].pc = "begun" => job[q].checkout # job[p].checkout
ListedExist ==
    \A o \in Orders :
        (o \in sweep.stale \cup sweep.leftover \/ \E p \in Procs : o \in job[p].prior)
            => orders[o].status # "unborn"

SaleInv ==
    /\ KeyWiped /\ PlacedIsSettled /\ LockedIsOpen
    /\ PaidBeforePlaced /\ VerifiedJobs
    /\ FreshReferences /\ ListedExist

(* A Stake key sits on a slot only because an order opened with that key was
   paid for and placed on that very slot, however sales, sweeps and renewals
   interleave on the row. *)
KeyOnlyOnPaidSlot ==
    \A p \in Places :
        slots[p].key # None =>
            \E o \in Orders :
                KeyOf[o] = slots[p].key /\ orders[o].slot = p /\ Funded(CheckoutOf[o])

-----------------------------------------------------------------------------
(* Action properties *)

(* A closed order is never taken up again: a late or duplicated payment
   callback does not revive an order that was superseded, failed or placed. *)
ClosedStays ==
    [][\A o \in Orders : orders[o].status \in Closed => orders'[o].status \in Closed]_vars

Sale == INSTANCE Sales WITH
            Price <- [c \in Checkouts |-> Cardinality(OrdersOf(c))],
            place <- [o \in Orders |-> orders[o].slot]

(* The shop implements the abstract sale: one slot per order, after payment. *)
ImplementsSale == Sale!Spec

(* models.py:384,390 "never re-entering a terminal state", "allocated is
   terminal": an allocated order stays allocated. *)
AllocatedIsTerminal ==
    [][\A o \in Orders : orders[o].status = "allocated" => orders'[o].status = "allocated"]_vars

(* api_customer.py:838 "unique (account,index) guards races": a slot whose
   subscription runs is not handed to another order. *)
LiveSlotNotResold ==
    [][\A p \in Places : Live(slots[p], now) => slots'[p].owner = slots[p].owner]_vars

(* app/__init__.py:518 "Expire sold slots whose time is up": the sweep leaves
   alone a slot whose subscription runs. *)
LiveSlotNotExpired ==
    [][\A p \in Places : Live(slots[p], now) => slots'[p].status = "active"]_vars

-----------------------------------------------------------------------------
(* Liveness *)

(* A lost webhook: an order whose invoice is known and whose checkout is paid
   is settled by the sweep, unless the reconcile window closes first. *)
TrackedPaymentSettles ==
    \A o \in Orders :
        (orders[o].status = "pending" /\ orders[o].tracked /\ Funded(CheckoutOf[o]))
            ~> (orders[o].status # "pending" \/ now > orders[o].created + ReconcileWindow)

(* A paid order does not wait for ever while a sold-able place stays free. *)
BackorderServed ==
    \A o \in Orders :
        ~<>[](orders[o].status = "awaiting_capacity" /\ PickFree(now, o, orders[o].held) # {})

(* A key left on an order that failed, or on a slot whose subscription ended,
   is wiped by a later sweep. *)
KeysCleared ==
    /\ \A o \in Orders :
          (orders[o].status = "failed" /\ orders[o].key # "none") ~> (orders[o].key = "none")
    /\ \A p \in Places :
          (slots[p].key # None /\ ~Live(slots[p], now))
              ~> (slots[p].key = None \/ Live(slots[p], now))
=============================================================================
