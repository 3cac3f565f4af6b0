-------------------------- MODULE SlotOrdersProofs --------------------------
(***************************************************************************)
(* Proofs about SlotOrders, for any number of accounts, slots, buyers,     *)
(* orders, carts and request greenlets, and any plan length.               *)
(***************************************************************************)
EXTENDS SlotOrders, FiniteSetTheorems, TLAPS

(* The constant rows and jobs have their types. *)
LEMMA ConstantTypes ==
    /\ NoRow \in SlotRow /\ Unborn \in OrderRow /\ Idle \in Job /\ Asleep \in Sweep
  BY DEF NoRow, SlotRow, Unborn, OrderRow, OrderStatus, Idle, Job, JobRecord, JobPc, JobKind,
         Asleep, Sweep, SweepPc

(* What is due on a reference is a number. *)
LEMMA DueType == \A c : Due(c) \in Nat
  <1>1. TAKE c
  <1>2. {o \in OrdersOf(c) : orders[o].status # "allocated"} \subseteq Orders
    BY DEF OrdersOf
  <1>3. IsFiniteSet({o \in OrdersOf(c) : orders[o].status # "allocated"})
    BY <1>2, ConstantsAssumption, FS_Subset
  <1> QED BY <1>3, FS_CardinalityType DEF Due

(* _pick_free returns places of the accounts' grids. *)
LEMMA PickFreeType ==
    ASSUME NEW t, NEW o, NEW prefer \in Places \cup {None}
    PROVE  PickFree(t, o, prefer) \subseteq Places
  BY DEF PickFree

LEMMA OnwardType ==
    ASSUME NEW j \in Job, NEW o
    PROVE  Onward(j, o) \in Job
  BY ConstantTypes DEF Onward, Job, JobRecord, JobPc

LEMMA RetryType ==
    ASSUME NEW j \in Job
    PROVE  Again(j) \in Job
  <1>1. j.tries + 1 \in Nat
    BY DEF Job, JobRecord
  <1> QED BY <1>1, ConstantTypes DEF Again, Job, JobRecord, JobPc

LEMMA OwnerType == \A o \in Orders : Owner(o) \in Buyers /\ KeyOf[o] \in Keys
  BY ConstantsAssumption DEF Owner

LEMMA InitType == Init => TypeOK
  BY ConstantTypes DEF Init, TypeOK

LEMMA BeginType ==
    ASSUME TypeOK, NEW p \in Workers, NEW c \in Checkouts, NEW hold \in Places \cup {None},
           Begin(p, c, hold)
    PROVE  job' \in [Procs -> Job]
  BY ConstantTypes, ConstantsAssumption DEF TypeOK, Begin, Job, JobRecord, JobPc, JobKind, PendingOf, Idle

LEMMA ResolveType ==
    ASSUME TypeOK, NEW p \in Procs, NEW c \in Checkouts, Resolve(p, c)
    PROVE  job' \in [Procs -> Job]
  <1>1. Due(c) \in Nat /\ c # None /\ now \in Nat
    BY DueType, ConstantsAssumption DEF TypeOK
  <1>2. [Idle EXCEPT !.pc = "resolved", !.kind = "allocate", !.now = now, !.checkout = c,
                     !.expected = Due(c)] \in Job
    BY <1>1, ConstantTypes DEF Job, JobRecord, JobPc, JobKind, Idle
  <1> QED BY <1>2 DEF Resolve, TypeOK

LEMMA TypeStep == TypeOK /\ [Next]_vars => TypeOK'
  <1> SUFFICES ASSUME TypeOK, [Next]_vars PROVE TypeOK'
    OBVIOUS
  <1> USE ConstantTypes, ConstantsAssumption
  <1>1. ASSUME NEW p \in Workers, NEW c \in Checkouts, OrderBegin(p, c) PROVE TypeOK'
    <2>1. job' \in [Procs -> Job]
      <3>1. None \in Places \cup {None} OBVIOUS
      <3> QED BY <1>1, <3>1, BeginType, PickFreeType DEF OrderBegin
    <2> QED BY <2>1, <1>1 DEF OrderBegin, TypeOK
  <1>2. ASSUME NEW p \in Workers, NEW c \in Checkouts, OrderCartBegin(p, c) PROVE TypeOK'
    BY <1>2, BeginType DEF OrderCartBegin, TypeOK
  <1>3. ASSUME NEW p \in Workers, NEW c \in Checkouts, OrderAllocate(p, c) PROVE TypeOK'
    BY <1>3, ResolveType DEF OrderAllocate, TypeOK, Procs
  <1>4. ASSUME NEW p \in Procs, BeginCommit(p) PROVE TypeOK'
    <2>1. NewOrder(job[p]) \in OrderRow
      <3>1. job[p].place \in Places \cup {None} /\ job[p].now \in Nat /\ now \in Nat
        BY DEF TypeOK, Job, JobRecord
      <3>2. job[p].now + ReservationTtl \in Nat
        BY <3>1
      <3> QED BY <3>1, <3>2 DEF NewOrder, OrderRow, OrderStatus, Unborn
    <2>2. \A o \in Orders : Superseded(orders[o]) \in OrderRow
      BY DEF Superseded, TypeOK, OrderRow, OrderStatus
    <2>3. orders' \in [Orders -> OrderRow]
      BY <1>4, <2>1, <2>2 DEF BeginCommit, TypeOK
    <2> QED BY <1>4, <2>3 DEF BeginCommit, TypeOK
  <1>5. ASSUME NEW p \in Procs, VerifyPayment(p) PROVE TypeOK'
    <2>1. [job[p] EXCEPT !.pc = "next", !.todo = OrdersOf(job[p].checkout)] \in Job
      BY DEF TypeOK, Job, JobRecord, JobPc, OrdersOf
    <2> QED BY <2>1, <1>5 DEF VerifyPayment, TypeOK
  <1>6. ASSUME NEW p \in Procs, RefusePayment(p) PROVE TypeOK'
    BY <1>6 DEF RefusePayment, TypeOK
  <1>7. ASSUME NEW p \in Procs, NEW o \in Orders, PickSlot(p, o) PROVE TypeOK'
    <2>1. FreeFor(p, o) \subseteq Places
      BY PickFreeType DEF FreeFor, TypeOK, OrderRow
    <2>2. PICK place \in Places :
             job' = [job EXCEPT ![p] = [@ EXCEPT !.pc = "picked", !.order = o, !.place = place]]
      BY <2>1, <1>7 DEF PickSlot
    <2>3. place # None /\ o # None
      OBVIOUS
    <2>4. [job[p] EXCEPT !.pc = "picked", !.order = o, !.place = place] \in Job
      BY <2>3 DEF TypeOK, Job, JobRecord, JobPc
    <2> QED BY <2>2, <2>4, <1>7 DEF PickSlot, TypeOK
  <1>8. ASSUME NEW p \in Procs, NEW o \in Orders, Backorder(p, o) PROVE TypeOK'
    BY <1>8, OnwardType DEF Backorder, TypeOK, OrderRow, OrderStatus
  <1>9. ASSUME NEW p \in Procs, NEW o \in Orders, TokenLost(p, o) PROVE TypeOK'
    BY <1>9, OnwardType DEF TokenLost, TypeOK, OrderRow, OrderStatus
  <1>10. ASSUME NEW p \in Procs, NEW o \in Orders, SkipOrder(p, o) PROVE TypeOK'
    BY <1>10, OnwardType DEF SkipOrder, TypeOK
  <1>11. ASSUME NEW p \in Procs, ReadSlot(p) PROVE TypeOK'
    <2>1. job[p].place \in Places
      BY <1>11 DEF TypeOK, Job, JobRecord, ReadSlot
    <2>2. slots[job[p].place] \in SlotRow
      BY <2>1 DEF TypeOK
    <2>3. [job[p] EXCEPT !.pc = "read", !.row = slots[job[p].place]] \in Job
      BY <2>1, <2>2, <1>11 DEF TypeOK, Job, JobRecord, JobPc, ReadSlot
    <2> QED BY <2>3, <1>11 DEF ReadSlot, TypeOK
  <1>12. ASSUME NEW p \in Procs, WriteSlot(p) PROVE TypeOK'
    <2> DEFINE j == job[p]
    <2>1. j \in Job /\ j.place \in Places /\ j.order \in Orders /\ j.row \in SlotRow /\ j.now \in Nat
      BY <1>12 DEF TypeOK, Job, JobRecord, WriteSlot
    <2>2. Sold(slots[j.place], j.row, j.order, j.now) \in SlotRow
      <3>1. slots[j.place] \in SlotRow
        BY <2>1 DEF TypeOK
      <3>2. Owner(j.order) \in Buyers /\ KeyOf[j.order] \in Keys /\ j.now + SlotTerm \in Nat
        <4>1. SlotTerm \in Nat
          OBVIOUS
        <4>2. job[p].now + SlotTerm \in Nat
          BY <4>1, <2>1
        <4>3. Owner(j.order) \in Buyers /\ KeyOf[j.order] \in Keys
          BY <2>1, OwnerType, Zenon
        <4> QED BY <4>2, <4>3
      <3> QED BY <3>1, <3>2, <2>1 DEF Sold, Merge, SlotRow
    <2>3. Allocated(orders[j.order], j.place) \in OrderRow
      BY <2>1 DEF Allocated, TypeOK, OrderRow, OrderStatus
    <2>4. Onward(j, j.order) \in Job
      BY <2>1, OnwardType
    <2> HIDE DEF j
    <2> QED BY <2>1, <2>2, <2>3, <2>4, <1>12 DEF WriteSlot, TypeOK, j
  <1>13. ASSUME NEW p \in Procs, RetryOrder(p) PROVE TypeOK'
    <2>1. job[p] \in Job
      BY DEF TypeOK
    <2>2. Again(job[p]) \in Job
      BY <2>1, RetryType
    <2>3. Onward(job[p], job[p].order) \in Job
      BY <2>1, OnwardType
    <2> QED BY <2>2, <2>3, <1>13 DEF RetryOrder, TypeOK
  <1>14. CASE SweepSelect
    BY <1>14 DEF SweepSelect, TypeOK, Sweep, SweepPc, Asleep
  <1>15. CASE SweepFlush
    BY <1>15 DEF SweepFlush, TypeOK, Sweep, SweepPc
  <1>16. CASE SweepScan
    BY <1>16 DEF SweepScan, TypeOK, Sweep, SweepPc
  <1>17. CASE SweepCommit
    <2>1. \A p \in Places : Expired(slots[p]) \in SlotRow /\ [slots[p] EXCEPT !.key = None] \in SlotRow
      BY DEF Expired, SlotRow, TypeOK
    <2>2. \A o \in Orders : Superseded(orders[o]) \in OrderRow /\ [orders[o] EXCEPT !.key = "none"] \in OrderRow
      BY DEF Superseded, OrderRow, OrderStatus, TypeOK
    <2>3. sweep' \in Sweep
      BY <1>17 DEF SweepCommit, Sweep, SweepPc, Asleep
    <2> QED BY <2>1, <2>2, <2>3, <1>17 DEF SweepCommit, TypeOK
  <1>18. CASE ReconcileList
    <2>1. \A o \in Orders : CheckoutOf[o] \in Checkouts
      OBVIOUS
    <2>2. {CheckoutOf[o] : o \in {q \in Orders : /\ orders[q].status = "pending" /\ orders[q].tracked
                                               /\ orders[q].created + ReconcileWindow >= now}}
            \in SUBSET Checkouts
      BY <2>1
    <2>3. sweep' \in Sweep
      BY <2>2, <1>18 DEF ReconcileList, TypeOK, Sweep, SweepPc
    <2> QED BY <2>3, <1>18 DEF ReconcileList, TypeOK
  <1>19. ASSUME NEW c \in Checkouts, Reconcile(c) PROVE TypeOK'
    <2>1. job' \in [Procs -> Job]
      BY <1>19, ResolveType DEF Reconcile, Procs
    <2>2. sweep' \in Sweep
      BY <1>19 DEF Reconcile, TypeOK, Sweep
    <2> QED BY <2>1, <2>2, <1>19 DEF Reconcile, TypeOK
  <1>20. CASE FulfilList
    <2> DEFINE waiting == {o \in Orders : orders[o].status = "awaiting_capacity"}
    <2>1. [Idle EXCEPT !.pc = "next", !.kind = "fulfil", !.now = now, !.todo = waiting] \in Job
      BY DEF TypeOK, Idle, Job, JobRecord, JobPc, JobKind
    <2>2. job' \in [Procs -> Job]
      BY <2>1, <1>20 DEF FulfilList, TypeOK
    <2> QED BY <2>2, <1>20 DEF FulfilList, TypeOK
  <1>21. ASSUME NEW p \in Procs, DeadlockAbort(p) PROVE TypeOK'
    BY <1>21 DEF DeadlockAbort, TypeOK
  <1>22. ASSUME NEW a \in Accounts, Connect(a) \/ Disconnect(a) PROVE TypeOK'
    <2>1. faults + 1 \in Nat
      BY DEF TypeOK
    <2> QED BY <2>1, <1>22 DEF Connect, Disconnect, TypeOK
  <1>23. ASSUME NEW c \in Checkouts, Pay(c) PROVE TypeOK'
    <2>1. 1 .. Cardinality(OrdersOf(c)) \subseteq Nat
      OBVIOUS
    <2> QED BY <2>1, <1>23 DEF Pay, TypeOK
  <1>24. ASSUME NEW c \in Checkouts, OrderTrack(c) PROVE TypeOK'
    <2>1. \A o \in Orders : [orders[o] EXCEPT !.tracked = TRUE] \in OrderRow
      BY DEF TypeOK, OrderRow
    <2> QED BY <2>1, <1>24 DEF OrderTrack, TypeOK
  <1>25. CASE Tick
    BY <1>25 DEF Tick, TypeOK
  <1>26. CASE Restart
    <2>1. \A o \in Orders : [orders[o] EXCEPT !.key = "unreadable"] \in OrderRow
      BY DEF TypeOK, OrderRow
    <2> QED BY <2>1, <1>26 DEF Restart, TypeOK
  <1>27. CASE UNCHANGED vars
    BY <1>27 DEF vars, TypeOK
  <1> QED
    BY <1>1, <1>2, <1>3, <1>4, <1>5, <1>6, <1>7, <1>8, <1>9, <1>10, <1>11, <1>12, <1>13,
       <1>14, <1>15, <1>16, <1>17, <1>18, <1>19, <1>20, <1>21, <1>22, <1>23, <1>24,
       <1>25, <1>26, <1>27
    DEF Next, Request, Proceed, SweepStep, Environment

(* Every variable keeps its type: in particular a greenlet that has locked an
   order has one, and one that writes a slot has chosen it. *)
THEOREM TypeCorrect == Spec => []TypeOK
  <1> QED BY InitType, TypeStep, PTL DEF Spec

(* The next job of a greenlet that has dealt with an order. *)
LEMMA OnwardFacts ==
    ASSUME NEW j \in Job, NEW o
    PROVE  LET n == Onward(j, o) IN
           /\ n.pc \in {"idle", "next"} /\ n.todo \subseteq j.todo /\ n.prior \subseteq j.prior
  BY DEF Onward, Idle, Job, JobRecord

LEMMA AgainFacts ==
    ASSUME NEW j \in Job
    PROVE  Again(j).pc = "next" /\ Again(j).todo = j.todo /\ Again(j).prior = j.prior
  BY DEF Again, Job, JobRecord

(* What the sale's safety asks of the greenlets' jobs. *)
JobsFit(f, g) ==
    \A p \in Procs : g[p] # f[p] =>
        /\ g[p].pc \in {"idle", "resolved", "next"} /\ g[p].prior \subseteq f[p].prior

(* A step that only moves jobs to where they hold nothing keeps the sale safe
   if what it has learnt of the payment is true. *)
LEMMA QuietStep ==
    ASSUME SaleInv, JobsFit(job, job'), VerifiedJobs',
           orders' = orders, paid' = paid,
           sweep'.stale \subseteq sweep.stale, sweep'.leftover \subseteq sweep.leftover
    PROVE  SaleInv'
  <1>1. \A p \in Procs, o \in Orders : Holds(p, o)' => Holds(p, o)
    BY DEF Holds, JobsFit
  <1>2. KeyWiped' /\ PlacedIsSettled' /\ PaidBeforePlaced'
    BY DEF SaleInv, KeyWiped, PlacedIsSettled, PaidBeforePlaced, Funded
  <1>3. LockedIsOpen'
    BY <1>1 DEF SaleInv, LockedIsOpen
  <1>4. FreshReferences'
    BY DEF SaleInv, FreshReferences, JobsFit
  <1>5. ListedExist'
    BY DEF SaleInv, ListedExist, JobsFit
  <1> QED BY <1>2, <1>3, <1>4, <1>5 DEF SaleInv

(* What a job has learnt of the payment stays true while payments only grow. *)
LEMMA VerifiedStays ==
    ASSUME TypeOK, VerifiedJobs,
           \A q \in Procs : job'[q] = job[q] \/ VerifiedJob(q)',
           \A c \in Checkouts : Funded(c) => Funded(c)'
    PROVE  VerifiedJobs'
  <1> SUFFICES ASSUME NEW q \in Procs, job'[q] = job[q] PROVE VerifiedJob(q)'
    BY DEF VerifiedJobs
  <1>1. VerifiedJob(q) /\ job'[q] = job[q] /\ job[q] \in Job
    BY DEF VerifiedJobs, TypeOK
  <1>2. \A o \in job[q].todo : o \in Orders /\ CheckoutOf[o] \in Checkouts
    BY <1>1, ConstantsAssumption DEF Job, JobRecord
  <1>3. job[q].pc = "resolved" => job[q].checkout \in Checkouts
    BY <1>1 DEF Job, JobRecord
  <1> QED BY <1>1, <1>2, <1>3 DEF VerifiedJob

LEMMA ResolveSafe ==
    ASSUME TypeOK, SaleInv, NEW p \in Procs, NEW c \in Checkouts, Resolve(p, c),
           orders' = orders, paid' = paid,
           sweep'.stale = sweep.stale, sweep'.leftover = sweep.leftover
    PROVE  SaleInv'
  <1> DEFINE n == [Idle EXCEPT !.pc = "resolved", !.kind = "allocate", !.now = now,
                               !.checkout = c, !.expected = Due(c)]
  <1>1. job' = [job EXCEPT ![p] = n]
    BY DEF Resolve
  <1>2. job'[p] = n /\ \A q \in Procs \ {p} : job'[q] = job[q]
    BY <1>1 DEF TypeOK
  <1>3. n.pc = "resolved" /\ n.prior = {} /\ n.expected = Due(c) /\ n.checkout = c
    BY DEF Idle
  <1>4. Due(c) = Cardinality(OrdersOf(c)) \/ Funded(c)
    <2>1. CASE \A o \in OrdersOf(c) : orders[o].status # "allocated"
      <3>1. {o \in OrdersOf(c) : orders[o].status # "allocated"} = OrdersOf(c)
        BY <2>1
      <3> QED BY <3>1 DEF Due
    <2>2. CASE \E o \in OrdersOf(c) : orders[o].status = "allocated"
      BY <2>2 DEF SaleInv, PaidBeforePlaced, OrdersOf
    <2> QED BY <2>1, <2>2
  <1>5. JobsFit(job, job')
    BY <1>2, <1>3 DEF JobsFit
  <1> HIDE DEF n
  <1>6. VerifiedJob(p)'
    BY <1>2, <1>3, <1>4 DEF VerifiedJob, Funded
  <1>7. VerifiedJobs'
    BY <1>2, <1>6 DEF VerifiedJobs, SaleInv, VerifiedJob, Funded
  <1> QED BY <1>5, <1>7, QuietStep

LEMMA BeginSafe ==
    ASSUME TypeOK, SaleInv, NEW p \in Procs, NEW c \in Checkouts, NEW hold,
           job[p].pc = "idle", Unused(c), Begin(p, c, hold),
           orders' = orders, paid' = paid, sweep' = sweep
    PROVE  SaleInv'
  <1>1. /\ job'[p].pc = "begun" /\ job'[p].kind = "begin" /\ job'[p].checkout = c
        /\ job'[p].prior = PendingOf(BuyerOf[c])
        /\ \A q \in Procs \ {p} : job'[q] = job[q]
    BY DEF Begin, TypeOK, Idle
  <1>2. \A q \in Procs, o \in Orders : Holds(q, o)' => Holds(q, o)
    BY <1>1 DEF Holds
  <1>3. KeyWiped' /\ PlacedIsSettled' /\ PaidBeforePlaced' /\ LockedIsOpen'
    BY <1>2 DEF SaleInv, KeyWiped, PlacedIsSettled, PaidBeforePlaced, Funded, LockedIsOpen
  <1>4. VerifiedJobs'
    <2>1. VerifiedJob(p)'
      BY <1>1 DEF VerifiedJob
    <2> QED BY <1>1, <2>1 DEF VerifiedJobs, SaleInv, VerifiedJob, Funded
  <1>5. FreshReferences'
    BY <1>1 DEF SaleInv, FreshReferences, Unused
  <1>6. ListedExist'
    BY <1>1 DEF SaleInv, ListedExist, PendingOf
  <1> QED BY <1>3, <1>4, <1>5, <1>6 DEF SaleInv

LEMMA BeginCommitSafe ==
    ASSUME TypeOK, SaleInv, NEW p \in Procs, BeginCommit(p)
    PROVE  SaleInv'
  <1> DEFINE j == job[p]
             new == OrdersOf(j.checkout)
  <1>1. j.pc = "begun" /\ Unlocked(p, j.prior) /\ j.prior \subseteq Orders
    BY DEF BeginCommit, TypeOK, Job, JobRecord
  <1>2. \A o \in Orders :
           /\ o \in new => orders[o].status = "unborn"
                           /\ orders'[o].status = "pending" /\ orders'[o].slot = None
           /\ o \notin new /\ o \in j.prior =>
                 /\ orders'[o].status = "reservation_expired" /\ orders'[o].key = "none"
                 /\ orders'[o].slot = orders[o].slot /\ orders[o].status # "unborn"
           /\ o \notin new /\ o \notin j.prior => orders'[o] = orders[o]
    <2>1. \A o \in Orders : o \in new => orders[o].status = "unborn"
      BY <1>1 DEF SaleInv, FreshReferences
    <2>2. \A o \in Orders : o \in j.prior => orders[o].status # "unborn"
      BY <1>1 DEF SaleInv, ListedExist
    <2>3. \A o \in Orders : orders'[o] = IF o \in new THEN NewOrder(j)
                                        ELSE IF o \in j.prior THEN Superseded(orders[o])
                                        ELSE orders[o]
      BY DEF BeginCommit, OrdersOf
    <2>4. NewOrder(j).status = "pending" /\ NewOrder(j).slot = None
      BY DEF NewOrder, Unborn
    <2>5. \A o \in Orders : /\ Superseded(orders[o]).status = "reservation_expired"
                            /\ Superseded(orders[o]).key = "none"
                            /\ Superseded(orders[o]).slot = orders[o].slot
      BY DEF Superseded, TypeOK, OrderRow
    <2> QED BY <2>1, <2>2, <2>3, <2>4, <2>5
  <1>3. job'[p] = Idle /\ \A q \in Procs \ {p} : job'[q] = job[q]
    BY DEF BeginCommit, TypeOK
  <1>4. paid' = paid /\ sweep' = sweep
    BY DEF BeginCommit
  <1>5. \A q \in Procs, o \in Orders : Holds(q, o)' => q # p /\ Holds(q, o) /\ orders'[o] = orders[o]
    <2> SUFFICES ASSUME NEW q \in Procs, NEW o \in Orders, Holds(q, o)'
                 PROVE  q # p /\ Holds(q, o) /\ orders'[o] = orders[o]
      OBVIOUS
    <2>1. q # p
      BY <1>3 DEF Holds, Idle
    <2>2. Holds(q, o)
      BY <2>1, <1>3 DEF Holds
    <2>3. o \notin j.prior
      BY <2>1, <2>2, <1>1 DEF Unlocked
    <2>4. o \notin new
      BY <2>2, <1>2 DEF SaleInv, LockedIsOpen
    <2> QED BY <2>1, <2>2, <2>3, <2>4, <1>2
  <1> HIDE DEF new, j
  <1>6. KeyWiped'
    BY <1>2 DEF SaleInv, KeyWiped
  <1>7. PlacedIsSettled'
    BY <1>2 DEF SaleInv, PlacedIsSettled
  <1>8. LockedIsOpen'
    BY <1>5 DEF SaleInv, LockedIsOpen
  <1>9. PaidBeforePlaced'
    BY <1>2, <1>4 DEF SaleInv, PaidBeforePlaced, Funded
  <1>10. VerifiedJobs'
    <2>1. VerifiedJob(p)'
      BY <1>3 DEF VerifiedJob, Idle
    <2> QED BY <1>3, <1>4, <2>1 DEF VerifiedJobs, SaleInv, VerifiedJob, Funded
  <1>11. FreshReferences'
    <2> SUFFICES ASSUME NEW q \in Procs, job'[q].pc = "begun"
                 PROVE  /\ job'[q].kind = "begin"
                        /\ \A o \in OrdersOf(job'[q].checkout) : orders'[o].status = "unborn"
                        /\ \A r \in Procs \ {q} :
                             job'[r].pc = "begun" => job'[r].checkout # job'[q].checkout
      BY DEF FreshReferences
    <2>1. q # p /\ job'[q] = job[q] /\ job[q].pc = "begun"
      BY <1>3 DEF Idle
    <2>2. job[q].checkout # job[p].checkout /\ job[q].kind = "begin"
          /\ \A o \in OrdersOf(job[q].checkout) : orders[o].status = "unborn"
      BY <2>1, <1>1 DEF SaleInv, FreshReferences, j
    <2>3. \A o \in OrdersOf(job[q].checkout) : orders'[o].status = "unborn"
      BY <2>2, <1>2 DEF OrdersOf, new, j
    <2>4. \A r \in Procs \ {q} :
             job'[r].pc = "begun" => job'[r].checkout # job'[q].checkout
      BY <2>1, <1>3 DEF SaleInv, FreshReferences, Idle
    <2> QED BY <2>1, <2>2, <2>3, <2>4
  <1>12. ListedExist'
    <2>1. \A q \in Procs : job'[q].prior \subseteq job[q].prior
      BY <1>3 DEF Idle
    <2> QED BY <2>1, <1>2, <1>4 DEF SaleInv, ListedExist
  <1> QED BY <1>6, <1>7, <1>8, <1>9, <1>10, <1>11, <1>12 DEF SaleInv

(* A step that settles one order a greenlet may lock: nobody else moves. *)
LEMMA SettleSafe ==
    ASSUME TypeOK, SaleInv, NEW p \in Procs, NEW o \in Orders,
           Unlocked(p, {o}), orders[o].status \in {"pending", "awaiting_capacity"},
           o \in job[p].todo, job[p].pc \in {"next", "read"},
           job[p].pc = "read" => job[p].order = o,
           orders[o].slot = None,
           NEW new, orders' = [orders EXCEPT ![o] = new],
           new.status \notin {"unborn", "reservation_expired"},
           new.status = "allocated" <=> new.slot # None,
           new.status = "allocated" => new.key = "none",
           job' = [job EXCEPT ![p] = Onward(@, o)],
           paid' = paid, sweep' = sweep
    PROVE  SaleInv'
  <1>1. /\ job'[p].pc \in {"idle", "next"} /\ job'[p].todo \subseteq job[p].todo
        /\ job'[p].prior \subseteq job[p].prior
        /\ \A q \in Procs \ {p} : job'[q] = job[q]
    <2>1. job[p] \in Job /\ job'[p] = Onward(job[p], o) /\ \A q \in Procs \ {p} : job'[q] = job[q]
      BY DEF TypeOK
    <2> QED BY <2>1, OnwardFacts
  <1>2. orders'[o] = new /\ \A x \in Orders \ {o} : orders'[x] = orders[x]
    BY DEF TypeOK
  <1>3. Funded(CheckoutOf[o])
    BY DEF SaleInv, VerifiedJobs, VerifiedJob
  <1>4. \A q \in Procs, x \in Orders : Holds(q, x)' => q # p /\ x # o /\ Holds(q, x)
    BY <1>1 DEF Holds, Unlocked
  <1>5. KeyWiped' /\ PlacedIsSettled'
    BY <1>2 DEF SaleInv, KeyWiped, PlacedIsSettled
  <1>6. LockedIsOpen'
    BY <1>2, <1>4 DEF SaleInv, LockedIsOpen
  <1>7. PaidBeforePlaced'
    BY <1>2, <1>3 DEF SaleInv, PaidBeforePlaced, Funded
  <1>8. VerifiedJobs'
    <2>1. VerifiedJob(p)'
      BY <1>1 DEF SaleInv, VerifiedJobs, VerifiedJob, Funded
    <2> QED BY <1>1, <2>1 DEF VerifiedJobs, SaleInv, VerifiedJob, Funded
  <1>9. FreshReferences'
    BY <1>1, <1>2 DEF SaleInv, FreshReferences, OrdersOf
  <1>10. ListedExist'
    BY <1>1, <1>2 DEF SaleInv, ListedExist
  <1> QED BY <1>5, <1>6, <1>7, <1>8, <1>9, <1>10 DEF SaleInv

LEMMA PickSlotSafe ==
    ASSUME TypeOK, SaleInv, NEW p \in Procs, NEW o \in Orders, PickSlot(p, o)
    PROVE  SaleInv'
  <1>1. PICK place \in FreeFor(p, o) :
           job' = [job EXCEPT ![p] = [@ EXCEPT !.pc = "picked", !.order = o, !.place = place]]
    BY DEF PickSlot
  <1>2. job[p].pc = "next" /\ o \in job[p].todo /\ Unlocked(p, {o})
        /\ orders[o].status \in {"pending", "awaiting_capacity"}
    BY DEF PickSlot, Locks, First, Open, Placeable
  <1>3. /\ job'[p].pc = "picked" /\ job'[p].order = o /\ job'[p].todo = job[p].todo
        /\ job'[p].prior = job[p].prior
        /\ \A q \in Procs \ {p} : job'[q] = job[q]
    BY <1>1 DEF TypeOK, Job, JobRecord
  <1>4. orders' = orders /\ paid' = paid /\ sweep' = sweep
    BY DEF PickSlot
  <1>5. \A q \in Procs, x \in Orders :
           Holds(q, x)' => (q = p /\ x = o) \/ (q # p /\ x # o /\ Holds(q, x))
    BY <1>2, <1>3 DEF Holds, Unlocked
  <1>6. orders[o].slot = None
    BY <1>2 DEF SaleInv, PlacedIsSettled
  <1>7. KeyWiped' /\ PlacedIsSettled' /\ PaidBeforePlaced'
    BY <1>4 DEF SaleInv, KeyWiped, PlacedIsSettled, PaidBeforePlaced, Funded
  <1>8. LockedIsOpen'
    BY <1>2, <1>4, <1>5, <1>6 DEF SaleInv, LockedIsOpen
  <1>9. VerifiedJobs'
    <2>1. VerifiedJob(p)'
      BY <1>2, <1>3, <1>4 DEF SaleInv, VerifiedJobs, VerifiedJob, Funded
    <2> QED BY <1>3, <1>4, <2>1 DEF VerifiedJobs, SaleInv, VerifiedJob, Funded
  <1>10. FreshReferences' /\ ListedExist'
    BY <1>3, <1>4 DEF SaleInv, FreshReferences, ListedExist
  <1> QED BY <1>7, <1>8, <1>9, <1>10 DEF SaleInv

LEMMA ReadSlotSafe ==
    ASSUME TypeOK, SaleInv, NEW p \in Procs, ReadSlot(p)
    PROVE  SaleInv'
  <1>1. /\ job[p].pc = "picked" /\ job'[p].pc = "read" /\ job'[p].order = job[p].order
        /\ job'[p].todo = job[p].todo /\ job'[p].prior = job[p].prior
        /\ \A q \in Procs \ {p} : job'[q] = job[q]
    BY DEF ReadSlot, TypeOK, Job, JobRecord
  <1>2. orders' = orders /\ paid' = paid /\ sweep' = sweep
    BY DEF ReadSlot
  <1>3. \A q \in Procs, x \in Orders : Holds(q, x)' <=> Holds(q, x)
    BY <1>1 DEF Holds
  <1>4. KeyWiped' /\ PlacedIsSettled' /\ PaidBeforePlaced'
    BY <1>2 DEF SaleInv, KeyWiped, PlacedIsSettled, PaidBeforePlaced, Funded
  <1>5. LockedIsOpen'
    BY <1>2, <1>3 DEF SaleInv, LockedIsOpen
  <1>6. VerifiedJobs'
    BY <1>1, <1>2 DEF SaleInv, VerifiedJobs, VerifiedJob, Funded
  <1>7. FreshReferences' /\ ListedExist'
    BY <1>1, <1>2 DEF SaleInv, FreshReferences, ListedExist
  <1> QED BY <1>4, <1>5, <1>6, <1>7 DEF SaleInv

LEMMA WriteSlotSafe ==
    ASSUME TypeOK, SaleInv, NEW p \in Procs, WriteSlot(p)
    PROVE  SaleInv'
  <1> DEFINE o == job[p].order
             new == Allocated(orders[o], job[p].place)
  <1>1. job[p].pc = "read" /\ o \in Orders /\ job[p].place # None /\ job[p] \in Job
    BY DEF WriteSlot, TypeOK, Job, JobRecord
  <1>2. /\ orders' = [orders EXCEPT ![o] = new] /\ job' = [job EXCEPT ![p] = Onward(@, o)]
        /\ paid' = paid /\ sweep' = sweep
    BY DEF WriteSlot
  <1>3. Holds(p, o)
    BY <1>1 DEF Holds
  <1>4. Unlocked(p, {o}) /\ orders[o].status \in {"pending", "awaiting_capacity"}
        /\ orders[o].slot = None
    BY <1>1, <1>3 DEF SaleInv, LockedIsOpen, Unlocked
  <1>5. o \in job[p].todo
    BY <1>1 DEF SaleInv, VerifiedJobs, VerifiedJob
  <1>6. new.status = "allocated" /\ new.slot = job[p].place /\ new.key = "none"
    BY <1>1 DEF Allocated, TypeOK, OrderRow
  <1> HIDE DEF new, o
  <1> QED BY <1>1, <1>2, <1>4, <1>5, <1>6, SettleSafe DEF o

LEMMA ParkSafe ==
    ASSUME TypeOK, SaleInv, NEW p \in Procs, NEW o \in Orders,
           Backorder(p, o) \/ TokenLost(p, o)
    PROVE  SaleInv'
  <1>1. /\ job[p].pc = "next" /\ o \in job[p].todo /\ Unlocked(p, {o})
        /\ orders[o].status \in {"pending", "awaiting_capacity"}
    BY DEF Backorder, TokenLost, Locks, First, Open, Placeable
  <1>2. orders[o].slot = None
    BY <1>1 DEF SaleInv, PlacedIsSettled
  <1>3. PICK st \in {"awaiting_capacity", "failed"} : orders' = [orders EXCEPT ![o].status = st]
    BY DEF Backorder, TokenLost
  <1>4. orders' = [orders EXCEPT ![o] = [orders[o] EXCEPT !.status = st]]
    BY <1>3
  <1>5. /\ [orders[o] EXCEPT !.status = st].status = st
        /\ [orders[o] EXCEPT !.status = st].slot = None
    BY <1>2 DEF TypeOK, OrderRow
  <1>6. job' = [job EXCEPT ![p] = Onward(@, o)] /\ paid' = paid /\ sweep' = sweep
    BY DEF Backorder, TokenLost
  <1> QED BY <1>1, <1>2, <1>4, <1>5, <1>6, SettleSafe

LEMMA SweepCommitSafe ==
    ASSUME TypeOK, SaleInv, SweepCommit
    PROVE  SaleInv'
  <1>1. /\ Unlocked(None, sweep.stale \cup sweep.leftover) /\ paid' = paid /\ job' = job
        /\ sweep'.stale = {} /\ sweep'.leftover = {}
    BY DEF SweepCommit, Asleep
  <1>2. sweep.stale \subseteq Orders /\ sweep.leftover \subseteq Orders
    BY DEF TypeOK, Sweep
  <1>3. \A o \in Orders :
           /\ o \in sweep.stale =>
                 /\ orders'[o].status = "reservation_expired" /\ orders'[o].key = "none"
                 /\ orders'[o].slot = orders[o].slot /\ orders[o].status # "unborn"
           /\ o \notin sweep.stale /\ o \in sweep.leftover =>
                 /\ orders'[o].status = orders[o].status /\ orders'[o].key = "none"
                 /\ orders'[o].slot = orders[o].slot /\ orders[o].status # "unborn"
           /\ o \notin sweep.stale \cup sweep.leftover => orders'[o] = orders[o]
    BY DEF SweepCommit, Superseded, TypeOK, OrderRow, SaleInv, ListedExist
  <1>4. \A p \in Procs, o \in Orders : Holds(p, o) => o \notin sweep.stale \cup sweep.leftover
    BY <1>1, ConstantsAssumption DEF Unlocked
  <1>5. \A p \in Procs, o \in Orders : Holds(p, o)' <=> Holds(p, o)
    BY <1>1 DEF Holds
  <1>6. KeyWiped' /\ PlacedIsSettled'
    BY <1>3 DEF SaleInv, KeyWiped, PlacedIsSettled
  <1>7. LockedIsOpen'
    BY <1>3, <1>4, <1>5 DEF SaleInv, LockedIsOpen
  <1>8. PaidBeforePlaced'
    BY <1>1, <1>3 DEF SaleInv, PaidBeforePlaced, Funded
  <1>9. VerifiedJobs'
    BY <1>1 DEF SaleInv, VerifiedJobs, VerifiedJob, Funded
  <1>10. FreshReferences'
    BY <1>1, <1>3 DEF SaleInv, FreshReferences, OrdersOf
  <1>11. ListedExist'
    BY <1>1, <1>3 DEF SaleInv, ListedExist
  <1> QED BY <1>6, <1>7, <1>8, <1>9, <1>10, <1>11 DEF SaleInv

LEMMA SweepScanSafe ==
    ASSUME TypeOK, SaleInv, SweepScan
    PROVE  SaleInv'
  <1>1. orders' = orders /\ paid' = paid /\ job' = job
    BY DEF SweepScan
  <1>2. \A o \in Orders : o \in sweep'.stale \cup sweep'.leftover => orders[o].status # "unborn"
    BY DEF SweepScan, TypeOK, Sweep
  <1>3. KeyWiped' /\ PlacedIsSettled' /\ PaidBeforePlaced' /\ LockedIsOpen'
    BY <1>1 DEF SaleInv, KeyWiped, PlacedIsSettled, PaidBeforePlaced, Funded, LockedIsOpen, Holds
  <1>4. VerifiedJobs' /\ FreshReferences'
    BY <1>1 DEF SaleInv, VerifiedJobs, VerifiedJob, Funded, FreshReferences
  <1>5. ListedExist'
    BY <1>1, <1>2 DEF SaleInv, ListedExist
  <1> QED BY <1>3, <1>4, <1>5 DEF SaleInv

(* Marking an order as tracked, or losing the key that sealed its token. *)
LEMMA MarkSafe ==
    ASSUME TypeOK, SaleInv,
           \A o \in Orders : /\ orders'[o].status = orders[o].status
                             /\ orders'[o].slot = orders[o].slot
                             /\ orders[o].key = "none" => orders'[o].key = "none",
           JobsFit(job, job'), \A p \in Procs : job'[p] = job[p] \/ job'[p].pc = "idle",
           paid' = paid,
           sweep'.stale \subseteq sweep.stale, sweep'.leftover \subseteq sweep.leftover
    PROVE  SaleInv'
  <1>1. \A p \in Procs, o \in Orders : Holds(p, o)' => Holds(p, o)
    BY DEF Holds
  <1>2. KeyWiped' /\ PlacedIsSettled'
    BY DEF SaleInv, KeyWiped, PlacedIsSettled
  <1>3. PaidBeforePlaced'
    BY DEF SaleInv, PaidBeforePlaced, Funded
  <1>4. LockedIsOpen'
    BY <1>1 DEF SaleInv, LockedIsOpen
  <1>5. VerifiedJobs'
    BY DEF SaleInv, VerifiedJobs, VerifiedJob, Funded
  <1>6. FreshReferences'
    BY DEF SaleInv, FreshReferences, OrdersOf
  <1>7. ListedExist'
    BY DEF SaleInv, ListedExist, JobsFit
  <1> QED BY <1>2, <1>3, <1>4, <1>5, <1>6, <1>7 DEF SaleInv

LEMMA PaySafe ==
    ASSUME TypeOK, SaleInv, NEW c \in Checkouts, Pay(c)
    PROVE  SaleInv'
  <1>1. orders' = orders /\ job' = job /\ sweep' = sweep
    BY DEF Pay
  <1>2. \A d \in Checkouts : Funded(d) => Funded(d)'
    <2>1. PICK amount \in 1 .. Cardinality(OrdersOf(c)) : paid' = [paid EXCEPT ![c] = amount]
      BY DEF Pay
    <2>2. paid[c] = 0
      BY DEF Pay
    <2>3. OrdersOf(c) \subseteq Orders
      BY DEF OrdersOf
    <2>4. Cardinality(OrdersOf(c)) \in Nat
      BY <2>3, ConstantsAssumption, FS_Subset, FS_CardinalityType
    <2>5. ~Funded(c)
      BY <2>1, <2>2, <2>4 DEF Funded
    <2> QED BY <2>1, <2>5 DEF Funded, TypeOK
  <1>3. KeyWiped' /\ PlacedIsSettled' /\ LockedIsOpen' /\ FreshReferences' /\ ListedExist'
    BY <1>1 DEF SaleInv, KeyWiped, PlacedIsSettled, LockedIsOpen, Holds, FreshReferences, ListedExist
  <1>4. PaidBeforePlaced'
    BY <1>1, <1>2, ConstantsAssumption DEF SaleInv, PaidBeforePlaced
  <1>5. VerifiedJobs'
    BY <1>1, <1>2, VerifiedStays DEF SaleInv
  <1> QED BY <1>3, <1>4, <1>5 DEF SaleInv

(* A greenlet that lets go of its order without changing it. *)
LEMMA MovedOnSafe ==
    ASSUME TypeOK, SaleInv, NEW p \in Procs, job[p].pc \in {"next", "read"},
           NEW n, job' = [job EXCEPT ![p] = n], n.pc \in {"idle", "next"},
           n.todo \subseteq job[p].todo, n.prior \subseteq job[p].prior,
           orders' = orders, paid' = paid, sweep' = sweep
    PROVE  SaleInv'
  <1>1. job'[p] = n /\ \A q \in Procs \ {p} : job'[q] = job[q]
    BY DEF TypeOK
  <1>2. JobsFit(job, job')
    BY <1>1 DEF JobsFit
  <1>3. VerifiedJob(p)'
    BY <1>1 DEF SaleInv, VerifiedJobs, VerifiedJob, Funded
  <1>4. VerifiedJobs'
    BY <1>1, <1>3 DEF SaleInv, VerifiedJobs, VerifiedJob, Funded
  <1> QED BY <1>2, <1>4, QuietStep

LEMMA SaleInit == Init => SaleInv
  BY DEF Init, SaleInv, KeyWiped, PlacedIsSettled, LockedIsOpen, PaidBeforePlaced, VerifiedJobs,
         VerifiedJob, FreshReferences, ListedExist, Unborn, Idle, Asleep, Holds

LEMMA SaleStep == TypeOK /\ SaleInv /\ [Next]_vars => SaleInv'
  <1> SUFFICES ASSUME TypeOK, SaleInv, [Next]_vars PROVE SaleInv'
    OBVIOUS
  <1>1. ASSUME NEW p \in Workers, NEW c \in Checkouts, OrderBegin(p, c) PROVE SaleInv'
    BY <1>1, BeginSafe DEF OrderBegin, Procs
  <1>2. ASSUME NEW p \in Workers, NEW c \in Checkouts, OrderCartBegin(p, c) PROVE SaleInv'
    BY <1>2, BeginSafe DEF OrderCartBegin, Procs
  <1>3. ASSUME NEW p \in Workers, NEW c \in Checkouts, OrderAllocate(p, c) PROVE SaleInv'
    BY <1>3, ResolveSafe DEF OrderAllocate, Procs
  <1>4. ASSUME NEW p \in Procs, BeginCommit(p) PROVE SaleInv'
    BY <1>4, BeginCommitSafe
  <1>5. ASSUME NEW p \in Procs, VerifyPayment(p) PROVE SaleInv'
    <2>1. /\ job'[p].pc = "next" /\ job'[p].todo = OrdersOf(job[p].checkout)
          /\ job'[p].prior = job[p].prior
          /\ \A q \in Procs \ {p} : job'[q] = job[q]
      BY <1>5 DEF VerifyPayment, TypeOK, Job, JobRecord
    <2>2. Funded(job[p].checkout)
      BY <1>5 DEF VerifyPayment, PaidUp, SaleInv, VerifiedJobs, VerifiedJob, Funded
    <2>3. VerifiedJob(p)'
      BY <2>1, <2>2, <1>5 DEF VerifiedJob, OrdersOf, Funded, VerifyPayment
    <2>4. VerifiedJobs'
      BY <2>1, <2>3, <1>5 DEF SaleInv, VerifiedJobs, VerifiedJob, Funded, VerifyPayment
    <2>5. JobsFit(job, job')
      BY <2>1 DEF JobsFit
    <2> QED BY <2>4, <2>5, <1>5, QuietStep DEF VerifyPayment
  <1>6. ASSUME NEW p \in Procs, RefusePayment(p) \/ DeadlockAbort(p) PROVE SaleInv'
    <2>1. \A q \in Procs : job'[q] = job[q] \/ job'[q] = Idle
      BY <1>6 DEF RefusePayment, DeadlockAbort, TypeOK
    <2>2. JobsFit(job, job')
      BY <2>1 DEF JobsFit, Idle
    <2>3. VerifiedJobs'
      BY <2>1, <1>6 DEF SaleInv, VerifiedJobs, VerifiedJob, Funded, Idle, RefusePayment, DeadlockAbort
    <2>4. sweep'.stale \subseteq sweep.stale /\ sweep'.leftover \subseteq sweep.leftover
      BY <1>6 DEF RefusePayment, DeadlockAbort, Asleep
    <2> QED BY <2>2, <2>3, <2>4, <1>6, QuietStep DEF RefusePayment, DeadlockAbort
  <1>7. ASSUME NEW p \in Procs, NEW o \in Orders, PickSlot(p, o) PROVE SaleInv'
    BY <1>7, PickSlotSafe
  <1>8. ASSUME NEW p \in Procs, NEW o \in Orders, Backorder(p, o) \/ TokenLost(p, o) PROVE SaleInv'
    BY <1>8, ParkSafe
  <1>9. ASSUME NEW p \in Procs, NEW o \in Orders, SkipOrder(p, o) PROVE SaleInv'
    <2>1. job[p] \in Job /\ job[p].pc = "next" /\ orders' = orders /\ paid' = paid /\ sweep' = sweep
      BY <1>9 DEF TypeOK, SkipOrder, Locks
    <2>2. job' = [job EXCEPT ![p] = Onward(job[p], o)]
      BY <1>9 DEF SkipOrder
    <2> QED BY <2>1, <2>2, OnwardFacts, MovedOnSafe
  <1>10. ASSUME NEW p \in Procs, RetryOrder(p) PROVE SaleInv'
    <2>1. job[p] \in Job /\ job[p].pc = "read" /\ orders' = orders /\ paid' = paid /\ sweep' = sweep
      BY <1>10 DEF TypeOK, RetryOrder
    <2>2. job' = [job EXCEPT ![p] = Again(job[p])]
          \/ job' = [job EXCEPT ![p] = Onward(job[p], job[p].order)]
      BY <1>10 DEF RetryOrder
    <2> QED BY <2>1, <2>2, OnwardFacts, AgainFacts, MovedOnSafe
  <1>11. ASSUME NEW p \in Procs, ReadSlot(p) PROVE SaleInv'
    BY <1>11, ReadSlotSafe
  <1>12. ASSUME NEW p \in Procs, WriteSlot(p) PROVE SaleInv'
    BY <1>12, WriteSlotSafe
  <1>13. CASE SweepScan
    BY <1>13, SweepScanSafe
  <1>14. CASE SweepCommit
    BY <1>14, SweepCommitSafe
  <1>15. CASE SweepSelect \/ SweepFlush \/ ReconcileList
    <2>1. /\ orders' = orders /\ paid' = paid /\ job' = job
          /\ sweep'.stale \subseteq sweep.stale /\ sweep'.leftover \subseteq sweep.leftover
      BY <1>15 DEF SweepSelect, SweepFlush, ReconcileList, Asleep, TypeOK, Sweep
    <2>2. VerifiedJobs'
      BY <2>1 DEF SaleInv, VerifiedJobs, VerifiedJob, Funded
    <2> QED BY <2>1, <2>2, QuietStep DEF JobsFit
  <1>16. ASSUME NEW c \in Checkouts, Reconcile(c) PROVE SaleInv'
    <2>1. sweep'.stale = sweep.stale /\ sweep'.leftover = sweep.leftover
      BY <1>16 DEF Reconcile, TypeOK, Sweep
    <2> QED BY <1>16, <2>1, ResolveSafe DEF Reconcile, Procs
  <1>17. CASE FulfilList
    <2> DEFINE waiting == {o \in Orders : orders[o].status = "awaiting_capacity"}
               n == [Idle EXCEPT !.pc = "next", !.kind = "fulfil", !.now = now, !.todo = waiting]
    <2>1. job' = job \/ job' = [job EXCEPT ![Sweeper] = n]
      BY <1>17 DEF FulfilList
    <2>2. n.pc = "next" /\ n.todo = waiting /\ n.prior = {}
      BY DEF Idle
    <2>3. orders' = orders /\ paid' = paid /\ sweep' = Asleep
      BY <1>17 DEF FulfilList
    <2>4. \A o \in waiting : Funded(CheckoutOf[o])
      BY DEF SaleInv, PaidBeforePlaced
    <2> HIDE DEF waiting, n
    <2>5. \A q \in Procs : job'[q] = job[q] \/ job'[q] = n
      BY <2>1 DEF TypeOK
    <2>6. JobsFit(job, job')
      BY <2>2, <2>5 DEF JobsFit
    <2>7. VerifiedJobs'
      BY <2>2, <2>3, <2>4, <2>5 DEF SaleInv, VerifiedJobs, VerifiedJob, Funded
    <2> QED BY <2>3, <2>6, <2>7, QuietStep DEF Asleep
  <1>18. ASSUME NEW c \in Checkouts, Pay(c) PROVE SaleInv'
    BY <1>18, PaySafe
  <1>19. ASSUME NEW c \in Checkouts, OrderTrack(c) PROVE SaleInv'
    <2>1. \A o \in Orders : /\ orders'[o].status = orders[o].status
                            /\ orders'[o].slot = orders[o].slot
                            /\ orders[o].key = "none" => orders'[o].key = "none"
      BY <1>19 DEF OrderTrack, TypeOK, OrderRow
    <2> QED BY <2>1, <1>19, MarkSafe DEF OrderTrack, JobsFit
  <1>20. CASE Restart
    <2>1. \A o \in Orders : /\ orders'[o].status = orders[o].status
                            /\ orders'[o].slot = orders[o].slot
                            /\ orders[o].key = "none" => orders'[o].key = "none"
      BY <1>20 DEF Restart, TypeOK, OrderRow
    <2>2. \A p \in Procs : job'[p] = Idle
      BY <1>20 DEF Restart
    <2>3. paid' = paid /\ sweep' = Asleep
      BY <1>20 DEF Restart
    <2> QED BY <2>1, <2>2, <2>3, MarkSafe DEF JobsFit, Idle, Asleep
  <1>21. CASE Tick \/ (\E a \in Accounts : Connect(a) \/ Disconnect(a)) \/ UNCHANGED vars
    <2>1. orders' = orders /\ paid' = paid /\ job' = job /\ sweep' = sweep
      BY <1>21 DEF Tick, Connect, Disconnect, vars
    <2>2. VerifiedJobs'
      BY <2>1 DEF SaleInv, VerifiedJobs, VerifiedJob, Funded
    <2> QED BY <2>1, <2>2, QuietStep DEF JobsFit
  <1> QED
    BY <1>1, <1>2, <1>3, <1>4, <1>5, <1>6, <1>7, <1>8, <1>9, <1>10, <1>11, <1>12, <1>13,
       <1>14, <1>15, <1>16, <1>17, <1>18, <1>19, <1>20, <1>21
    DEF Next, Request, Proceed, SweepStep, Environment

(* The safety of a sale: no order holds a slot before its whole checkout is
   paid, a locked order stays where its holder found it, keys are wiped, and
   the ids of a new checkout are not disturbed. *)
THEOREM SaleSafety == Spec => []SaleInv
  <1>1. Init => TypeOK /\ SaleInv
    BY InitType, SaleInit
  <1>2. (TypeOK /\ SaleInv) /\ [Next]_vars => (TypeOK /\ SaleInv)'
    BY TypeStep, SaleStep
  <1> QED BY <1>1, <1>2, PTL DEF Spec

-----------------------------------------------------------------------------
(* What a step can do to the orders, and to the slots they are placed on. *)

(* BeginCommit overwrites only orders that were not there. *)
LEMMA BeginWritesNew ==
    ASSUME TypeOK, SaleInv, NEW p \in Procs, BeginCommit(p)
    PROVE  \A o \in Orders :
              \/ orders[o].status = "unborn" /\ orders'[o].slot = None
              \/ /\ orders'[o] = Superseded(orders[o]) \/ orders'[o] = orders[o]
                 /\ orders'[o].slot = orders[o].slot
                 /\ orders'[o].status \in {orders[o].status, "reservation_expired"}
  <1>1. \A o \in OrdersOf(job[p].checkout) : orders[o].status = "unborn"
    BY DEF BeginCommit, SaleInv, FreshReferences
  <1>2. NewOrder(job[p]).slot = None
    BY DEF NewOrder, Unborn
  <1>3. \A o \in Orders : /\ Superseded(orders[o]).slot = orders[o].slot
                          /\ Superseded(orders[o]).status = "reservation_expired"
    BY DEF Superseded, TypeOK, OrderRow
  <1> QED BY <1>1, <1>2, <1>3 DEF BeginCommit, OrdersOf

Untouched ==
    /\ paid' = paid
    /\ \A o \in Orders : orders'[o].slot = orders[o].slot
    /\ \A p \in Places : slots'[p].key \in {slots[p].key, None}

LEMMA StepKinds ==
    ASSUME TypeOK, SaleInv, [Next]_vars
    PROVE  \/ \E p \in Procs : WriteSlot(p)
           \/ \E c \in Checkouts : Pay(c)
           \/ Untouched
  <1>1. ASSUME UNCHANGED <<slots, orders, paid>> PROVE Untouched
    BY <1>1 DEF Untouched
  <1>2. ASSUME NEW p \in Procs, BeginCommit(p) PROVE Untouched
    <2>1. \A o \in Orders : orders[o].status = "unborn" => orders[o].slot = None
      BY DEF SaleInv, PlacedIsSettled
    <2> QED BY <2>1, <1>2, BeginWritesNew DEF Untouched, BeginCommit
  <1>3. ASSUME NEW p \in Procs, NEW o \in Orders, Backorder(p, o) \/ TokenLost(p, o) PROVE Untouched
    BY <1>3 DEF Backorder, TokenLost, Untouched, TypeOK, OrderRow
  <1>4. ASSUME NEW c \in Checkouts, OrderTrack(c) PROVE Untouched
    BY <1>4 DEF OrderTrack, Untouched, TypeOK, OrderRow
  <1>5. CASE SweepCommit
    <2>1. \A o \in Orders : orders'[o].slot = orders[o].slot
      BY <1>5 DEF SweepCommit, Superseded, TypeOK, OrderRow
    <2>2. \A p \in Places : slots'[p].key \in {slots[p].key, None}
      BY <1>5 DEF SweepCommit, Expired, TypeOK, SlotRow
    <2> QED BY <2>1, <2>2, <1>5 DEF SweepCommit, Untouched
  <1>6. CASE Restart
    BY <1>6 DEF Restart, Untouched, TypeOK, OrderRow
  <1>7. ASSUME NEW p \in Procs, NEW c \in Checkouts,
               OrderBegin(p, c) \/ OrderCartBegin(p, c) \/ OrderAllocate(p, c) \/ Reconcile(c)
        PROVE  UNCHANGED <<slots, orders, paid>>
    BY <1>7 DEF OrderBegin, OrderCartBegin, OrderAllocate, Reconcile
  <1>8. ASSUME NEW p \in Procs, NEW o \in Orders, PickSlot(p, o) \/ SkipOrder(p, o)
        PROVE  UNCHANGED <<slots, orders, paid>>
    BY <1>8 DEF PickSlot, SkipOrder
  <1>9. ASSUME NEW p \in Procs,
               \/ VerifyPayment(p) \/ RefusePayment(p) \/ ReadSlot(p) \/ RetryOrder(p)
               \/ DeadlockAbort(p)
        PROVE  UNCHANGED <<slots, orders, paid>>
    BY <1>9 DEF VerifyPayment, RefusePayment, ReadSlot, RetryOrder, DeadlockAbort
  <1>10. CASE \/ SweepSelect \/ SweepFlush \/ SweepScan \/ ReconcileList \/ FulfilList
              \/ Tick \/ (\E a \in Accounts : Connect(a) \/ Disconnect(a)) \/ UNCHANGED vars
    <2>1. UNCHANGED <<slots, orders, paid>>
      BY <1>10 DEF SweepSelect, SweepFlush, SweepScan, ReconcileList, FulfilList, Tick,
                   Connect, Disconnect, vars
    <2> QED BY <2>1, <1>1
  <1>11. Workers \subseteq Procs /\ Sweeper \in Procs
    BY DEF Procs
  <1> QED
    BY <1>1, <1>2, <1>3, <1>4, <1>5, <1>6, <1>7, <1>8, <1>9, <1>10, <1>11
    DEF Next, Request, Proceed, SweepStep, Environment

(* Placing an order: what WriteSlot does to the order, the slot and the money. *)
LEMMA WriteSlotFacts ==
    ASSUME TypeOK, SaleInv, NEW p \in Procs, WriteSlot(p)
    PROVE  LET o == job[p].order
               place == job[p].place
           IN  /\ o \in Orders /\ place \in Places /\ paid' = paid
               /\ orders[o].slot = None /\ orders[o].status \in {"pending", "awaiting_capacity"}
               /\ Funded(CheckoutOf[o])
               /\ orders'[o].slot = place /\ orders'[o].status = "allocated"
               /\ \A x \in Orders \ {o} : orders'[x] = orders[x]
               /\ slots'[place].key \in {slots[place].key, KeyOf[o]}
               /\ \A q \in Places \ {place} : slots'[q] = slots[q]
  <1> DEFINE o == job[p].order
             place == job[p].place
  <1>1. job[p].pc = "read" /\ o \in Orders /\ place \in Places /\ job[p] \in Job
    BY DEF WriteSlot, TypeOK, Job, JobRecord
  <1>2. Holds(p, o)
    BY <1>1 DEF Holds
  <1>3. orders[o].slot = None /\ orders[o].status \in {"pending", "awaiting_capacity"}
    BY <1>1, <1>2 DEF SaleInv, LockedIsOpen
  <1>4. Funded(CheckoutOf[o])
    BY <1>1 DEF SaleInv, VerifiedJobs, VerifiedJob
  <1>5. /\ orders' = [orders EXCEPT ![o] = Allocated(@, place)]
        /\ slots' = [slots EXCEPT ![place] = Sold(@, job[p].row, o, job[p].now)]
        /\ paid' = paid
    BY DEF WriteSlot
  <1>6. Allocated(orders[o], place).slot = place /\ Allocated(orders[o], place).status = "allocated"
    BY <1>1 DEF Allocated, TypeOK, OrderRow
  <1>7. Sold(slots[place], job[p].row, o, job[p].now).key \in {slots[place].key, KeyOf[o]}
    BY DEF Sold, Merge
  <1> HIDE DEF o, place
  <1>8. orders'[o] = Allocated(orders[o], place) /\ \A x \in Orders \ {o} : orders'[x] = orders[x]
    BY <1>1, <1>5 DEF TypeOK
  <1>9. /\ slots'[place] = Sold(slots[place], job[p].row, o, job[p].now)
        /\ \A q \in Places \ {place} : slots'[q] = slots[q]
    BY <1>1, <1>5 DEF TypeOK
  <1> QED BY <1>1, <1>3, <1>4, <1>5, <1>6, <1>7, <1>8, <1>9 DEF o, place

LEMMA PayFunds ==
    ASSUME TypeOK, NEW c \in Checkouts, Pay(c)
    PROVE  /\ \A d \in Checkouts : Funded(d) => Funded(d)'
           /\ UNCHANGED <<slots, orders>>
  <1>1. PICK amount \in 1 .. Cardinality(OrdersOf(c)) : paid' = [paid EXCEPT ![c] = amount]
    BY DEF Pay
  <1>2. paid[c] = 0
    BY DEF Pay
  <1>3. OrdersOf(c) \subseteq Orders
    BY DEF OrdersOf
  <1>4. Cardinality(OrdersOf(c)) \in Nat
    BY <1>3, ConstantsAssumption, FS_Subset, FS_CardinalityType
  <1>5. ~Funded(c)
    BY <1>1, <1>2, <1>4 DEF Funded
  <1> QED BY <1>1, <1>5 DEF Funded, TypeOK, Pay

LEMMA KeyStep == TypeOK /\ SaleInv /\ KeyOnlyOnPaidSlot /\ [Next]_vars => KeyOnlyOnPaidSlot'
  <1> SUFFICES ASSUME TypeOK, SaleInv, KeyOnlyOnPaidSlot, [Next]_vars,
                      NEW q \in Places, slots'[q].key # None
               PROVE  \E o \in Orders :
                         KeyOf[o] = slots'[q].key /\ orders'[o].slot = q /\ Funded(CheckoutOf[o])'
    BY DEF KeyOnlyOnPaidSlot
  <1>1. ASSUME NEW p \in Procs, WriteSlot(p)
        PROVE  \E o \in Orders :
                  KeyOf[o] = slots'[q].key /\ orders'[o].slot = q /\ Funded(CheckoutOf[o])'
    <2>1. \A c : Funded(c) => Funded(c)'
      BY <1>1, WriteSlotFacts DEF Funded
    <2>2. CASE slots'[q].key = slots[q].key
      <3>1. PICK o \in Orders : KeyOf[o] = slots[q].key /\ orders[o].slot = q /\ Funded(CheckoutOf[o])
        BY <2>2 DEF KeyOnlyOnPaidSlot
      <3>2. q # None
        BY ConstantsAssumption
      <3>3. orders'[o].slot = orders[o].slot
        BY <3>1, <3>2, <1>1, WriteSlotFacts
      <3> QED BY <3>1, <3>3, <2>1, <2>2
    <2>3. CASE slots'[q].key # slots[q].key
      BY <2>3, <2>1, <1>1, WriteSlotFacts
    <2> QED BY <2>2, <2>3
  <1>2. ASSUME NEW c \in Checkouts, Pay(c)
        PROVE  \E o \in Orders :
                  KeyOf[o] = slots'[q].key /\ orders'[o].slot = q /\ Funded(CheckoutOf[o])'
    BY <1>2, PayFunds, ConstantsAssumption DEF KeyOnlyOnPaidSlot
  <1>3. ASSUME Untouched
        PROVE  \E o \in Orders :
                  KeyOf[o] = slots'[q].key /\ orders'[o].slot = q /\ Funded(CheckoutOf[o])'
    BY <1>3 DEF Untouched, KeyOnlyOnPaidSlot, Funded
  <1> QED BY <1>1, <1>2, <1>3, StepKinds

(* A Stake key sits on a slot only because an order opened with that key was
   paid for and placed there. *)
THEOREM KeySafety == Spec => []KeyOnlyOnPaidSlot
  <1>1. Init => KeyOnlyOnPaidSlot
    BY DEF Init, KeyOnlyOnPaidSlot, NoRow
  <1> QED BY <1>1, InitType, SaleInit, TypeStep, SaleStep, KeyStep, PTL DEF Spec

LEMMA ClosedStep ==
    ASSUME TypeOK, SaleInv, [Next]_vars, NEW o \in Orders, orders[o].status \in Closed
    PROVE  orders'[o].status \in Closed
  <1>1. ASSUME NEW p \in Procs, BeginCommit(p) PROVE orders'[o].status \in Closed
    BY <1>1, BeginWritesNew DEF Closed
  <1>2. ASSUME NEW p \in Procs, NEW x \in Orders, Backorder(p, x) \/ TokenLost(p, x)
        PROVE  orders'[o].status \in Closed
    BY <1>2 DEF Backorder, TokenLost, Open, Placeable, Closed, TypeOK, OrderRow
  <1>3. ASSUME NEW p \in Procs, WriteSlot(p) PROVE orders'[o].status \in Closed
    BY <1>3, WriteSlotFacts DEF Closed
  <1>4. ASSUME NEW c \in Checkouts, OrderTrack(c) PROVE orders'[o].status \in Closed
    BY <1>4 DEF OrderTrack, TypeOK, OrderRow
  <1>5. CASE SweepCommit
    BY <1>5 DEF SweepCommit, Superseded, Closed, TypeOK, OrderRow
  <1>6. CASE Restart
    BY <1>6 DEF Restart, TypeOK, OrderRow
  <1>7. CASE orders' = orders
    BY <1>7
  <1>8. ASSUME NEW p \in Procs, NEW c \in Checkouts,
               \/ OrderBegin(p, c) \/ OrderCartBegin(p, c) \/ OrderAllocate(p, c)
               \/ Reconcile(c) \/ Pay(c)
        PROVE  orders' = orders
    BY <1>8 DEF OrderBegin, OrderCartBegin, OrderAllocate, Reconcile, Pay
  <1>9. ASSUME NEW p \in Procs, NEW x \in Orders, PickSlot(p, x) \/ SkipOrder(p, x)
        PROVE  orders' = orders
    BY <1>9 DEF PickSlot, SkipOrder
  <1>10. ASSUME NEW p \in Procs,
                \/ VerifyPayment(p) \/ RefusePayment(p) \/ ReadSlot(p) \/ RetryOrder(p)
                \/ DeadlockAbort(p)
         PROVE  orders' = orders
    BY <1>10 DEF VerifyPayment, RefusePayment, ReadSlot, RetryOrder, DeadlockAbort
  <1>11. CASE \/ SweepSelect \/ SweepFlush \/ SweepScan \/ ReconcileList \/ FulfilList
              \/ Tick \/ (\E a \in Accounts : Connect(a) \/ Disconnect(a)) \/ UNCHANGED vars
    BY <1>11 DEF SweepSelect, SweepFlush, SweepScan, ReconcileList, FulfilList, Tick,
                 Connect, Disconnect, vars
  <1>12. Workers \subseteq Procs /\ Sweeper \in Procs
    BY DEF Procs
  <1> QED
    BY <1>1, <1>2, <1>3, <1>4, <1>5, <1>6, <1>7, <1>8, <1>9, <1>10, <1>11, <1>12
    DEF Next, Request, Proceed, SweepStep, Environment

(* A closed order is never taken up again. *)
THEOREM ClosedForGood == Spec => ClosedStays
  <1>1. TypeOK /\ SaleInv /\ [Next]_vars
            => [\A o \in Orders : orders[o].status \in Closed => orders'[o].status \in Closed]_vars
    BY ClosedStep
  <1> QED BY <1>1, TypeCorrect, SaleSafety, PTL DEF Spec, ClosedStays

-----------------------------------------------------------------------------
(* Refinement of Sales *)

LEMMA SaleInitRefined == Init => Sale!Init
  BY DEF Init, Sale!Init, Unborn

LEMMA SaleStepRefined ==
    ASSUME TypeOK, SaleInv, [Next]_vars
    PROVE  Sale!Next \/ UNCHANGED <<paid, [o \in Orders |-> orders[o].slot]>>
  <1> DEFINE place == [o \in Orders |-> orders[o].slot]
  <1>1. ASSUME NEW p \in Procs, WriteSlot(p) PROVE Sale!Next
    <2>1. PICK o \in Orders, at \in Places :
             /\ paid' = paid
             /\ orders[o].slot = None /\ Funded(CheckoutOf[o]) /\ orders'[o].slot = at
             /\ \A x \in Orders \ {o} : orders'[x] = orders[x]
      BY <1>1, WriteSlotFacts
    <2>2. place[o] = None /\ place' = [place EXCEPT ![o] = at]
      BY <2>1
    <2>3. Sale!Funded(CheckoutOf[o])
      BY <2>1, ConstantsAssumption DEF Funded, Sale!Funded
    <2>4. Sale!Deliver(o, at)
      BY <2>1, <2>2, <2>3 DEF Sale!Deliver
    <2> QED BY <2>4 DEF Sale!Next
  <1>2. ASSUME NEW c \in Checkouts, Pay(c) PROVE Sale!Next
    <2>1. Sale!Receive(c)
      BY <1>2 DEF Pay, Sale!Receive
    <2> QED BY <2>1 DEF Sale!Next
  <1>3. ASSUME Untouched PROVE UNCHANGED <<paid, place>>
    BY <1>3 DEF Untouched
  <1> QED BY <1>1, <1>2, <1>3, StepKinds

(* However the greenlets, the sweep, restarts and deadlocks interleave, the
   slot shop is an abstract sale: an order gets one slot, once, after its whole
   checkout has been paid. *)
THEOREM ShopSells == Spec => ImplementsSale
  <1>1. TypeOK /\ SaleInv /\ [Next]_vars
            => [Sale!Next]_<<paid, [o \in Orders |-> orders[o].slot]>>
    BY SaleStepRefined
  <1> QED BY <1>1, SaleInitRefined, TypeCorrect, SaleSafety, PTL DEF Spec, ImplementsSale, Sale!Spec
=============================================================================
