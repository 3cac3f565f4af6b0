---------------------------- MODULE TopUpsProofs ----------------------------
(***************************************************************************)
(* Proofs about TopUps, for any number of users, keys, payments and        *)
(* request greenlets, and any amounts.                                     *)
(***************************************************************************)
EXTENDS TopUps, FiniteSetTheorems, WellFoundedInduction, TLAPS

LEMMA ConstantTypes ==
    /\ NoLicense \in License /\ NoPayment \in Payment /\ Idle \in Job
    /\ Unseen \in [Keys -> Seen] /\ Booted \in Scan /\ Asleep \in Scan
  <1>1. NoLicense \in License /\ NoPayment \in Payment
    BY DEF NoLicense, License, NoPayment, Payment
  <1>2. Idle \in Job
    BY DEF Idle, Job, JobRecord, JobPc, Invoice, CacheEntry
  <1>3. Unseen \in [Keys -> Seen]
    BY DEF Unseen, Seen
  <1>4. Booted \in Scan
    BY <1>3 DEF Booted, Scan
  <1>5. Asleep \in Scan
    BY <1>4 DEF Asleep, Scan
  <1> QED BY <1>1, <1>2, <1>3, <1>4, <1>5

(* A new row is ranked after all others, and above 0. *)
LEMMA NextRankType == NextRank \in Nat \ {0}
  <1>1. Existing \subseteq Keys
    BY DEF Existing
  <1>2. Cardinality(Existing) \in Nat
    BY <1>1, ConstantsAssumption, FS_Subset, FS_CardinalityType
  <1> QED BY <1>2 DEF NextRank

LEMMA CurrentType == \A u : Current(u) \subseteq LicensesOf(u) /\ LicensesOf(u) \subseteq Existing
  BY DEF Current, LicensesOf

LEMMA ExistingKeys == Existing \subseteq Keys
  BY DEF Existing

LEMMA InitType == Init => TypeOK
  BY ConstantTypes DEF Init, TypeOK, Invoice, CacheEntry

(* What a request turns to next is a job. *)
LEMMA JobTypes ==
    /\ \A k \in Keys, pc \in {"registering", "credited"} : Doing(pc, k) \in Job
    /\ \A k \in Keys, pc \in {"switchingOn", "switchingOff"}, was \in BOOLEAN :
          Switching(pc, k, was) \in Job
    /\ \A k, new \in Keys, carry \in Int : Rotating(k, new, carry) \in Job
    /\ \A p \in Payments, k \in Keys : Opening(p, k) \in Job
    /\ \A p \in Payments, a \in Invoice \cup {"trusted"} : Answered(p, a) \in Job
    /\ \A j \in Job, k \in Keys : j.pc = "answered" => Crediting(j, k) \in Job
    /\ \A k \in Keys, e \in CacheEntry : Caching(k, e) \in Job
  <1>1. None \notin Keys \cup Payments
    BY ConstantsAssumption
  <1>2. Idle \in Job
    BY ConstantTypes
  <1> USE <1>1, <1>2 DEF Job, JobRecord, JobPc, Doing
  <1>3. \A k \in Keys, pc \in {"registering", "credited"} : Doing(pc, k) \in Job
    OBVIOUS
  <1>4. \A k \in Keys, pc \in {"switchingOn", "switchingOff"}, was \in BOOLEAN :
          Switching(pc, k, was) \in Job
    BY DEF Switching
  <1>5. \A k, new \in Keys, carry \in Int : Rotating(k, new, carry) \in Job
    BY DEF Rotating
  <1>6. \A p \in Payments, k \in Keys : Opening(p, k) \in Job
    BY DEF Opening
  <1>7. \A p \in Payments, a \in Invoice \cup {"trusted"} : Answered(p, a) \in Job
    BY DEF Answered
  <1>8. \A j \in Job, k \in Keys : j.pc = "answered" => Crediting(j, k) \in Job
    BY DEF Crediting
  <1>9. \A k \in Keys, e \in CacheEntry : Caching(k, e) \in Job
    BY DEF Caching
  <1> HIDE DEF Job, JobRecord, JobPc, Doing
  <1> QED BY <1>3, <1>4, <1>5, <1>6, <1>7, <1>8, <1>9

(* A request that turns to a job stays typed. *)
LEMMA TurnType ==
    ASSUME TypeOK, NEW w \in Workers, NEW j \in Job, Turn(w, j)
    PROVE  job' \in [Workers -> Job]
  BY DEF Turn, TypeOK

LEMMA TypeStep == TypeOK /\ [Next]_vars => TypeOK'
  <1> SUFFICES ASSUME TypeOK, [Next]_vars PROVE TypeOK'
    OBVIOUS
  <1>1. ASSUME NEW w \in Workers, NEW k \in Keys, Register(w, k) PROVE TypeOK'
    <2>1. job' \in [Workers -> Job]
      BY <1>1, JobTypes, TurnType DEF Register
    <2> QED BY <1>1, <2>1 DEF Register, TypeOK
  <1>2. ASSUME NEW w \in Workers, RegisterCommit(w) PROVE TypeOK'
    <2>1. job[w].key \in Keys
      BY <1>2 DEF RegisterCommit, TypeOK, Job, JobRecord
    <2>2. [NoLicense EXCEPT !.born = NextRank] \in License
      BY NextRankType, ConstantTypes DEF License
    <2>3. job' \in [Workers -> Job]
      BY <1>2, ConstantTypes, TurnType DEF RegisterCommit, EndJob
    <2> QED BY <1>2, <2>1, <2>2, <2>3 DEF RegisterCommit, TypeOK
  <1>3. ASSUME NEW w \in Workers, NEW k \in Keys, LicActivate(w, k) \/ LicDeactivate(w, k) PROVE TypeOK'
    <2>1. PICK pc \in {"switchingOn", "switchingOff"} : SwitchRead(w, k, pc)
      BY <1>3 DEF LicActivate, LicDeactivate
    <2>2. licenses[k].active \in BOOLEAN
      BY DEF TypeOK, License
    <2>3. job' \in [Workers -> Job]
      BY <2>1, <2>2, JobTypes, TurnType DEF SwitchRead
    <2> QED BY <2>1, <2>3 DEF SwitchRead, TypeOK
  <1>4. ASSUME NEW w \in Workers, SwitchOn(w) PROVE TypeOK'
    <2>1. job[w].key \in Keys
      BY <1>4 DEF SwitchOn, TypeOK, Job, JobRecord
    <2>2. job' \in [Workers -> Job]
      <3>1. Caching(job[w].key, "active") \in Job
        BY <2>1, JobTypes DEF CacheEntry
      <3> QED BY <1>4, <3>1, ConstantTypes, TurnType DEF SwitchOn, EndJob
    <2>3. [licenses EXCEPT ![job[w].key].active = TRUE] \in [Keys -> License]
      BY <2>1 DEF TypeOK, License
    <2> QED BY <1>4, <2>2, <2>3 DEF SwitchOn, TypeOK
  <1>5. ASSUME NEW w \in Workers, SwitchOff(w) PROVE TypeOK'
    <2>1. job[w].key \in Keys
      BY <1>5 DEF SwitchOff, TypeOK, Job, JobRecord
    <2>2. job' \in [Workers -> Job]
      <3>1. Caching(job[w].key, "absent") \in Job
        BY <2>1, JobTypes DEF CacheEntry
      <3> QED BY <1>5, <3>1, TurnType DEF SwitchOff
    <2>3. [licenses EXCEPT ![job[w].key].active = FALSE] \in [Keys -> License]
      BY <2>1 DEF TypeOK, License
    <2> QED BY <1>5, <2>2, <2>3 DEF SwitchOff, TypeOK
  <1>6. ASSUME NEW w \in Workers, NEW k \in Keys, NEW new \in Keys, Rotate(w, k, new) PROVE TypeOK'
    <2>1. licenses[k].balance \in Int
      BY DEF TypeOK, License
    <2>2. job' \in [Workers -> Job]
      BY <1>6, <2>1, JobTypes, TurnType DEF Rotate
    <2> QED BY <1>6, <2>2 DEF Rotate, TypeOK
  <1>7. ASSUME NEW w \in Workers, RotateCommit(w) PROVE TypeOK'
    <2>1. job[w].key \in Keys /\ job[w].new \in Keys /\ job[w].carry \in Int
      BY <1>7 DEF RotateCommit, TypeOK, Job, JobRecord
    <2>2. [job[w] EXCEPT !.pc = "rotated"] \in Job
      BY <1>7, <2>1 DEF RotateCommit, TypeOK, Job, JobRecord, JobPc
    <2>3. [NoLicense EXCEPT !.born = NextRank, !.active = TRUE,
                           !.balance = job[w].carry, !.opening = job[w].carry] \in License
      BY <2>1, NextRankType, ConstantTypes DEF License
    <2>4. Rotated(job[w].key, job[w].new, job[w].carry) \in [Keys -> License]
      BY <2>1, <2>3 DEF Rotated, TypeOK, License
    <2>5. job' \in [Workers -> Job]
      BY <1>7, <2>2, ConstantTypes, TurnType DEF RotateCommit, EndJob
    <2> QED BY <1>7, <2>4, <2>5 DEF RotateCommit, TypeOK
  <1>8. ASSUME NEW w \in Workers, RotateCache(w) PROVE TypeOK'
    <2>1. job[w].key \in Keys /\ job[w].new \in Keys
      BY <1>8 DEF RotateCache, TypeOK, Job, JobRecord
    <2>2. job' \in [Workers -> Job]
      BY <1>8, ConstantTypes, TurnType DEF RotateCache, EndJob
    <2> QED BY <1>8, <2>1, <2>2 DEF RotateCache, TypeOK, CacheEntry
  <1>9. ASSUME NEW w \in Workers, NEW p \in Payments, BeginTopup(w, p) PROVE TypeOK'
    <2>1. job' \in [Workers -> Job]
      BY <1>9, JobTypes, TurnType, CurrentType, ExistingKeys DEF BeginTopup
    <2> QED BY <1>9, <2>1 DEF BeginTopup, TypeOK
  <1>10. ASSUME NEW w \in Workers, BeginCommit(w) PROVE TypeOK'
    <2>1. job[w].key \in Keys /\ job[w].payment \in Payments
      BY <1>10 DEF BeginCommit, TypeOK, Job, JobRecord
    <2>2. [NoPayment EXCEPT !.status = "new", !.key = job[w].key] \in Payment
      BY <2>1, ConstantTypes DEF Payment
    <2>3. job' \in [Workers -> Job]
      BY <1>10, ConstantTypes, TurnType DEF BeginCommit, EndJob
    <2> QED BY <1>10, <2>1, <2>2, <2>3 DEF BeginCommit, TypeOK
  <1>11. ASSUME NEW p \in Payments, RecordTopup(p) PROVE TypeOK'
    BY <1>11 DEF RecordTopup, TypeOK, Payment
  <1>12. ASSUME NEW w \in Workers, NEW p \in Payments, VerifyAndCredit(w, p) PROVE TypeOK'
    <2>1. Reports(p) \subseteq Invoice \cup {"trusted"}
      BY DEF Reports, TypeOK
    <2>2. job' \in [Workers -> Job]
      BY <1>12, <2>1, JobTypes, TurnType DEF VerifyAndCredit
    <2> QED BY <1>12, <2>2 DEF VerifyAndCredit, TypeOK
  <1>13. ASSUME NEW w \in Workers, MarkStatus(w) \/ AmountMismatch(w) PROVE TypeOK'
    <2>1. job[w].payment \in Payments
      BY <1>13 DEF MarkStatus, AmountMismatch, TypeOK, Job, JobRecord
    <2>2. payments' \in [Payments -> Payment]
      BY <1>13, <2>1 DEF MarkStatus, AmountMismatch, ClosedStatus, TypeOK, Payment
    <2>3. job' \in [Workers -> Job]
      BY <1>13, ConstantTypes, TurnType DEF MarkStatus, AmountMismatch, EndJob
    <2> QED BY <1>13, <2>2, <2>3 DEF MarkStatus, AmountMismatch, TypeOK
  <1>14. ASSUME NEW w \in Workers, LockAndTarget(w) PROVE TypeOK'
    <2>1. job[w] \in Job /\ job[w].pc = "answered"
      BY <1>14 DEF LockAndTarget, TypeOK
    <2>2. job' \in [Workers -> Job]
      BY <1>14, <2>1, JobTypes, ConstantTypes, TurnType, CurrentType, ExistingKeys
         DEF LockAndTarget, EndJob
    <2> QED BY <1>14, <2>2 DEF LockAndTarget, TypeOK
  <1>15. ASSUME NEW w \in Workers, Credit(w) PROVE TypeOK'
    <2>1. job[w].key \in Keys /\ job[w].payment \in Payments
      BY <1>15 DEF Credit, TypeOK, Job, JobRecord
    <2>2. Credited(licenses[job[w].key], Amount[job[w].payment]) \in License
      <3>1. Amount[job[w].payment] \in Nat /\ licenses[job[w].key] \in License
        BY <2>1, ConstantsAssumption DEF TypeOK
      <3>2. licenses[job[w].key].balance + Amount[job[w].payment] \in Int
        BY <3>1 DEF License
      <3>3. \A row \in License, n \in Nat : row.balance + n \in Int => Credited(row, n) \in License
        BY DEF Credited, License
      <3> QED BY <3>1, <3>2, <3>3
    <2>3. Latched(payments[job[w].payment], job[w].key) \in Payment
      BY <2>1 DEF Latched, TypeOK, Payment
    <2>4. job' \in [Workers -> Job]
      BY <1>15, <2>1, JobTypes, ConstantTypes, TurnType DEF Credit, EndJob
    <2> QED BY <1>15, <2>2, <2>3, <2>4 DEF Credit, TypeOK
  <1>16. ASSUME NEW w \in Workers, RefreshRead(w) PROVE TypeOK'
    <2>1. job[w].key \in Keys
      BY <1>16 DEF RefreshRead, TypeOK, Job, JobRecord
    <2>2. job' \in [Workers -> Job]
      BY <1>16, <2>1, JobTypes, TurnType DEF RefreshRead, CacheEntry
    <2> QED BY <1>16, <2>2 DEF RefreshRead, TypeOK
  <1>17. ASSUME NEW w \in Workers, NEW k \in Keys, LookupMiss(w, k) PROVE TypeOK'
    <2>1. job' \in [Workers -> Job]
      BY <1>17, JobTypes, TurnType DEF LookupMiss, CacheEntry
    <2> QED BY <1>17, <2>1 DEF LookupMiss, TypeOK
  <1>18. ASSUME NEW w \in Workers, WriteCache(w) PROVE TypeOK'
    <2>1. job[w].key \in Keys /\ job[w].entry \in CacheEntry
      BY <1>18 DEF WriteCache, TypeOK, Job, JobRecord
    <2>2. job' \in [Workers -> Job]
      BY <1>18, ConstantTypes, TurnType DEF WriteCache, EndJob
    <2> QED BY <1>18, <2>1, <2>2 DEF WriteCache, TypeOK
  <1>19. ASSUME NEW k \in Keys, ReportClaim(k) PROVE TypeOK'
    BY <1>19 DEF ReportClaim, TypeOK
  <1>33. ASSUME NEW k \in Keys, Connect(k) PROVE TypeOK'
    BY <1>33 DEF Connect, TypeOK
  <1>20. ASSUME NEW k \in Keys, Convert(k) PROVE TypeOK'
    BY <1>20 DEF Convert, TypeOK, License
  <1>21. ASSUME ScanSelect PROVE TypeOK'
    <2>1. Snapshot \in [Keys -> Seen]
      BY DEF Snapshot, Seen, TypeOK, License
    <2> QED BY <1>21, <2>1, ExistingKeys DEF ScanSelect, TypeOK, Scan
  <1>22. ASSUME ScanBaseline PROVE TypeOK'
    <2> DEFINE missing == {k \in Keys : Eligible(k) /\ cache[k] = "absent"}
    <2>1. missing \subseteq Keys
      OBVIOUS
    <2>2. scan' = Asleep \/ scan' = [scan EXCEPT !.pc = "seeding", !.todo = missing]
      BY <1>22 DEF ScanBaseline
    <2> HIDE DEF missing
    <2>3. scan' \in Scan
      BY <2>1, <2>2, ConstantTypes DEF TypeOK, Scan
    <2> QED BY <1>22, <2>3 DEF ScanBaseline, TypeOK
  <1>23. \A k \in Keys : Without(k) \in Scan
    BY ConstantTypes DEF Without, TypeOK, Scan
  <1>24. ASSUME NEW k \in Keys, ScanSeed(k) \/ ScanRefresh(k) PROVE TypeOK'
    <2>1. scan' \in Scan
      BY <1>23, <1>24 DEF ScanSeed, ScanRefresh
    <2> QED BY <1>24, <2>1 DEF ScanSeed, ScanRefresh, Scanned, TypeOK, CacheEntry
  <1>25. ASSUME NEW k \in Keys, ScanPause(k) PROVE TypeOK'
    <2>1. scan' \in Scan
      <3>1. scan \in Scan /\ scan.seen[k] \in Seen
        BY DEF TypeOK, Scan
      <3>2. [scan.seen[k] EXCEPT !.active = FALSE] \in Seen
        BY <3>1 DEF Seen
      <3>3. scan' = [scan EXCEPT !.pc = "paused", !.at = k, !.seen = [scan.seen EXCEPT ![k] = [scan.seen[k] EXCEPT !.active = FALSE]]]
        BY <1>25, <3>1 DEF ScanPause, Scan
      <3>4. [scan.seen EXCEPT ![k] = [scan.seen[k] EXCEPT !.active = FALSE]] \in [Keys -> Seen]
        BY <3>1, <3>2 DEF Scan
      <3> QED BY <3>1, <3>3, <3>4 DEF Scan
    <2>2. licenses' \in [Keys -> License]
      BY <1>25 DEF ScanPause, TypeOK, License
    <2> QED BY <1>25, <2>1, <2>2 DEF ScanPause, TypeOK
  <1>26. ASSUME ScanPop PROVE TypeOK'
    BY <1>26 DEF ScanPop, TypeOK, Scan, CacheEntry
  <1>27. ASSUME NEW k \in Keys, ScanPauseFails(k) PROVE TypeOK'
    BY <1>27 DEF ScanPauseFails, TypeOK, Scan
  <1>28. ASSUME NEW p \in Payments, CreateInvoice(p) \/ InvoiceMoves(p) PROVE TypeOK'
    BY <1>28 DEF CreateInvoice, InvoiceMoves, TypeOK, Invoice
  <1>29. ASSUME NEW p \in Payments, TimePasses(p) PROVE TypeOK'
    BY <1>29 DEF TimePasses, TypeOK, Payment
  <1>30. ASSUME NEW k \in Keys, Ban(k) PROVE TypeOK'
    <2>1. licenses' \in [Keys -> License]
      BY <1>30 DEF Ban, TypeOK, License
    <2> QED BY <1>30, <2>1 DEF Ban, TypeOK
  <1>31. ASSUME Restart PROVE TypeOK'
    BY <1>31, ConstantTypes DEF Restart, TypeOK, CacheEntry
  <1>32. CASE UNCHANGED vars
    BY <1>32 DEF vars, TypeOK
  <1> QED
    BY <1>1, <1>2, <1>3, <1>4, <1>5, <1>6, <1>7, <1>8, <1>9, <1>10, <1>11, <1>12, <1>13, <1>14,
       <1>15, <1>16, <1>17, <1>18, <1>19, <1>20, <1>21, <1>22, <1>24, <1>25, <1>27, <1>28, <1>29,
       <1>30, <1>31, <1>32, <1>33, <1>26
       DEF Next, Request, Proceed, Scanner, Outside

(* Every reachable state of the licence and payment tables, the caches and the
   requests under way has its type. *)
THEOREM TypeCorrect == Spec => []TypeOK
  BY InitType, TypeStep, PTL DEF Spec

-----------------------------------------------------------------------------
(* What can change the tables *)

LEMMA PaymentWrites ==
    ASSUME [Next]_vars
    PROVE  \/ payments' = payments
           \/ \E w \in Workers : BeginCommit(w) \/ MarkStatus(w) \/ AmountMismatch(w) \/ Credit(w)
           \/ \E p \in Payments : RecordTopup(p) \/ TimePasses(p)
  <1> DEFINE Same == payments' = payments
  <1>1. ASSUME NEW w \in Workers, Request(w) PROVE Same
    BY <1>1 DEF Request, Register, SwitchRead, LicActivate, LicDeactivate, Rotate,
                BeginTopup, VerifyAndCredit, LookupMiss
  <1>2. ASSUME NEW w \in Workers, Proceed(w) PROVE Same \/ BeginCommit(w) \/ MarkStatus(w) \/ AmountMismatch(w) \/ Credit(w)
    BY <1>2 DEF Proceed, RegisterCommit, SwitchOn, SwitchOff, RotateCommit,
                RotateCache, LockAndTarget, RefreshRead, WriteCache
  <1>3. ASSUME Scanner PROVE Same
    <2>1. ASSUME ScanSelect \/ ScanBaseline \/ ScanPop PROVE Same
      BY <2>1 DEF ScanSelect, ScanBaseline, ScanPop
    <2>2. ASSUME NEW k \in Keys, ScanSeed(k) \/ ScanPause(k) \/ ScanRefresh(k) PROVE Same
      BY <2>2 DEF ScanSeed, ScanPause, ScanRefresh
    <2> QED BY <1>3, <2>1, <2>2 DEF Scanner
  <1>4. ASSUME Outside PROVE Same \/ \E p \in Payments : RecordTopup(p) \/ TimePasses(p)
    BY <1>4 DEF Outside, CreateInvoice, InvoiceMoves, Connect, ReportClaim, ScanPauseFails,
                Ban, Restart
  <1>5. ASSUME NEW k \in Keys, Convert(k) PROVE Same
    BY <1>5 DEF Convert
  <1>6. UNCHANGED vars => Same
    BY DEF vars
  <1> HIDE DEF Same
  <1> QED BY <1>1, <1>2, <1>3, <1>4, <1>5, <1>6 DEF Next, Same

LEMMA LicenseWrites ==
    ASSUME [Next]_vars
    PROVE  \/ licenses' = licenses
           \/ \E w \in Workers : \/ RegisterCommit(w) \/ SwitchOn(w) \/ SwitchOff(w)
                                 \/ RotateCommit(w) \/ Credit(w)
           \/ \E k \in Keys : Convert(k) \/ ScanPause(k) \/ Ban(k)
  <1> DEFINE Same == licenses' = licenses
  <1>1. ASSUME NEW w \in Workers, Request(w) PROVE Same
    BY <1>1 DEF Request, Register, SwitchRead, LicActivate, LicDeactivate, Rotate,
                BeginTopup, VerifyAndCredit, LookupMiss
  <1>2. ASSUME NEW w \in Workers, Proceed(w) PROVE Same \/ RegisterCommit(w) \/ SwitchOn(w) \/ SwitchOff(w) \/ RotateCommit(w) \/ Credit(w)
    BY <1>2 DEF Proceed, RotateCache, BeginCommit, MarkStatus, AmountMismatch,
                LockAndTarget, RefreshRead, WriteCache
  <1>3. ASSUME Scanner PROVE Same \/ \E k \in Keys : ScanPause(k)
    <2>1. ASSUME ScanSelect \/ ScanBaseline \/ ScanPop PROVE Same
      BY <2>1 DEF ScanSelect, ScanBaseline, ScanPop
    <2>2. ASSUME NEW k \in Keys, ScanSeed(k) \/ ScanRefresh(k) PROVE Same
      BY <2>2 DEF ScanSeed, ScanRefresh
    <2> HIDE DEF Same
    <2> QED BY <1>3, <2>1, <2>2 DEF Scanner
  <1>4. ASSUME Outside PROVE Same \/ \E k \in Keys : Ban(k)
    BY <1>4 DEF Outside, RecordTopup, CreateInvoice, InvoiceMoves, TimePasses,
                Connect, ReportClaim, ScanPauseFails, Restart
  <1> HIDE DEF Same
  <1>5. UNCHANGED vars => Same
    BY DEF vars, Same
  <1> QED BY <1>1, <1>2, <1>3, <1>4, <1>5 DEF Next, Same

(* The parts of what a request is doing. *)
LEMMA JobFields ==
    /\ Idle.pc = "idle" /\ Idle.key = None /\ Idle.new = None
    /\ \A pc, k : Doing(pc, k).pc = pc /\ Doing(pc, k).key = k /\ Doing(pc, k).new = None
    /\ \A pc, k, was : Switching(pc, k, was).pc = pc /\ Switching(pc, k, was).key = k
                         /\ Switching(pc, k, was).new = None
    /\ \A k, new, carry : Rotating(k, new, carry).pc = "rotating" /\ Rotating(k, new, carry).key = k
                            /\ Rotating(k, new, carry).new = new
    /\ \A p, k : Opening(p, k).pc = "opening" /\ Opening(p, k).key = k /\ Opening(p, k).new = None
                  /\ Opening(p, k).payment = p
    /\ \A p, a : Answered(p, a).pc = "answered" /\ Answered(p, a).key = None
                  /\ Answered(p, a).new = None /\ Answered(p, a).payment = p /\ Answered(p, a).answer = a
    /\ \A j \in Job : \A k : Crediting(j, k).pc = "crediting" /\ Crediting(j, k).key = k
                           /\ Crediting(j, k).new = j.new /\ Crediting(j, k).payment = j.payment
                           /\ Crediting(j, k).answer = j.answer
    /\ \A k, e : Caching(k, e).pc = "caching" /\ Caching(k, e).key = k /\ Caching(k, e).new = None
  BY DEF Idle, Doing, Switching, Rotating, Opening, Answered, Crediting, Caching, Job, JobRecord

(* The row a request works on is one of the tables. *)
LEMMA JobKeys ==
    ASSUME TypeOK, NEW w \in Workers
    PROVE  /\ job[w] \in Job
           /\ job[w].pc \notin {"idle", "answered"} => job[w].key \in Keys /\ job[w].key # None
           /\ job[w].pc \in {"rotating", "rotated"} => job[w].new \in Keys /\ job[w].new # None
           /\ job[w].pc \in {"opening", "answered", "crediting"} => job[w].payment \in Payments
  BY ConstantsAssumption DEF TypeOK, Job, JobRecord

(* A row of the table payments changes in one of three ways: it is inserted,
   its status is set while it is not credited, or it is credited for good. *)
LEMMA PaymentSteps ==
    ASSUME TypeOK, BillingInv, [Next]_vars, NEW p \in Payments
    PROVE  \/ /\ payments'[p].status = payments[p].status
              /\ payments'[p].credited = payments[p].credited /\ payments'[p].key = payments[p].key
           \/ /\ ~payments[p].credited /\ ~payments'[p].credited
              /\ payments[p].status # "absent" /\ payments'[p].status \notin {"absent", "new"}
           \/ /\ \E w \in Workers : /\ job[w].pc = "opening" /\ job[w].payment = p
                                     /\ job'[w].pc # "opening"
              /\ ~payments[p].credited /\ ~payments'[p].credited
              /\ payments[p].status = "absent" /\ payments'[p].status = "new"
           \/ \E w \in Workers : /\ job[w].pc = "crediting" /\ job[w].payment = p
                                 /\ job'[w].pc # "crediting"
                                 /\ ~payments[p].credited /\ payments'[p].credited
                                 /\ payments'[p].status = "paid" /\ payments'[p].key = job[w].key
  <1>1. ASSUME NEW w \in Workers, BeginCommit(w) PROVE
               \/ payments'[p] = payments[p]
               \/ /\ job[w].pc = "opening" /\ job[w].payment = p /\ job'[w].pc # "opening"
                  /\ ~payments[p].credited /\ ~payments'[p].credited
                  /\ payments[p].status = "absent" /\ payments'[p].status = "new"
    <2>1. job'[w].pc = "idle" /\ job[w].pc = "opening"
      BY <1>1, JobFields DEF BeginCommit, EndJob, Turn, TypeOK
    <2>2. job[w].payment = p => payments[p].status = "absent" /\ ~payments[p].credited
      BY <2>1 DEF BillingInv, FreshIds, Unborn, CreditedIsPaid
    <2>3. job[w].payment = p => payments'[p].status = "new" /\ ~payments'[p].credited
      BY <1>1 DEF BeginCommit, NoPayment, TypeOK
    <2>4. job[w].payment # p => payments'[p] = payments[p]
      BY <1>1 DEF BeginCommit, TypeOK
    <2> QED BY <2>1, <2>2, <2>3, <2>4
  <1>2. ASSUME NEW w \in Workers, MarkStatus(w) \/ AmountMismatch(w) PROVE
               \/ payments'[p] = payments[p]
               \/ /\ ~payments[p].credited /\ ~payments'[p].credited
                  /\ payments[p].status # "absent" /\ payments'[p].status \notin {"absent", "new"}
    <2>1. job[w].pc = "answered"
      BY <1>2 DEF MarkStatus, AmountMismatch
    <2>2. job[w].payment = p => payments[p].status # "absent"
      BY <2>1 DEF BillingInv, LearntHolds, Learnt
    <2>3. job[w].payment # p => payments'[p] = payments[p]
      BY <1>2 DEF MarkStatus, AmountMismatch, TypeOK
    <2>4. job[w].payment = p =>
             \/ payments'[p] = payments[p]
             \/ /\ ~payments[p].credited /\ ~payments'[p].credited
                /\ payments'[p].status \notin {"absent", "new"}
      BY <1>2 DEF MarkStatus, AmountMismatch, Markable, Creditable, ClosedStatus, TypeOK, Payment
    <2> QED BY <2>2, <2>3, <2>4
  <1>3. ASSUME NEW w \in Workers, Credit(w) PROVE
               \/ payments'[p] = payments[p]
               \/ /\ job[w].pc = "crediting" /\ job[w].payment = p /\ job'[w].pc # "crediting"
                  /\ ~payments[p].credited /\ payments'[p].credited
                  /\ payments'[p].status = "paid" /\ payments'[p].key = job[w].key
    <2>1. job[w].pc = "crediting" /\ job'[w].pc # "crediting"
      BY <1>3, JobFields DEF Credit, EndJob, Turn, TypeOK
    <2>2. job[w].payment = p => ~payments[p].credited
      BY <2>1 DEF BillingInv, LearntHolds, Learnt
    <2>3. \/ payments' = payments
          \/ payments' = [payments EXCEPT ![job[w].payment] = Latched(@, job[w].key)]
      BY <1>3 DEF Credit
    <2>4. payments[p] \in Payment
      BY DEF TypeOK
    <2>5. /\ Latched(payments[p], job[w].key).credited
          /\ Latched(payments[p], job[w].key).status = "paid"
          /\ Latched(payments[p], job[w].key).key = job[w].key
      BY <2>4 DEF Latched, Payment
    <2> QED BY <2>1, <2>2, <2>3, <2>5 DEF TypeOK
  <1>4. ASSUME NEW q \in Payments, RecordTopup(q) PROVE
               \/ payments'[p] = payments[p]
               \/ /\ ~payments[p].credited /\ ~payments'[p].credited
                  /\ payments[p].status # "absent" /\ payments'[p].status \notin {"absent", "new"}
    BY <1>4 DEF RecordTopup, TypeOK, Payment
  <1>5. ASSUME NEW q \in Payments, TimePasses(q) PROVE
               /\ payments'[p].status = payments[p].status
               /\ payments'[p].credited = payments[p].credited /\ payments'[p].key = payments[p].key
    BY <1>5 DEF TimePasses, TypeOK, Payment
  <1> QED BY <1>1, <1>2, <1>3, <1>4, <1>5, PaymentWrites

(* A licence comes into being by a registration or a rotation, is never
   deleted, and only one that exists is switched on. *)
LEMMA LicenseSteps ==
    ASSUME TypeOK, BillingInv, [Next]_vars, NEW k \in Keys
    PROVE  /\ Exists(k) => Exists(k)'
           /\ ~Exists(k) /\ Exists(k)' =>
                 \E w \in Workers : /\ job[w].pc \in {"registering", "rotating"} /\ job'[w].pc # job[w].pc
                                    /\ job[w].pc = "registering" => k = job[w].key
                                    /\ job[w].pc = "rotating" => k = job[w].new
           /\ licenses'[k].active => licenses[k].active \/ Exists(k)'
  <1> DEFINE Kept == /\ licenses'[k].born = licenses[k].born
                     /\ licenses'[k].active => licenses[k].active \/ Exists(k)
             Born == /\ Exists(k)'
                     /\ \E w \in Workers :
                           /\ job[w].pc \in {"registering", "rotating"} /\ job'[w].pc # job[w].pc
                           /\ job[w].pc = "registering" => k = job[w].key
                           /\ job[w].pc = "rotating" => k = job[w].new
  <1>0. licenses[k] \in License
    BY DEF TypeOK
  <1>1. ASSUME NEW w \in Workers, RegisterCommit(w) PROVE Kept \/ Born
    <2>1. job[w].pc = "registering" /\ job'[w].pc = "idle"
      BY <1>1, JobFields DEF RegisterCommit, EndJob, Turn, TypeOK
    <2>2. licenses' = [licenses EXCEPT ![job[w].key] = [NoLicense EXCEPT !.born = NextRank]]
      BY <1>1 DEF RegisterCommit
    <2>3. CASE job[w].key = k
      <3>1. licenses'[k].born = NextRank
        BY <2>2, <2>3 DEF NoLicense, TypeOK
      <3> QED BY <2>1, <2>3, <3>1, NextRankType DEF Exists
    <2>4. CASE job[w].key # k
      BY <2>2, <2>4 DEF TypeOK
    <2> QED BY <2>3, <2>4
  <1>2. ASSUME NEW w \in Workers, SwitchOn(w) \/ SwitchOff(w) PROVE Kept
    <2>1. job[w].key \in Existing
      BY <1>2 DEF SwitchOn, SwitchOff, BillingInv, LearntHolds, Learnt
    <2>2. \/ licenses' = licenses
          \/ \E on \in BOOLEAN : licenses' = [licenses EXCEPT ![job[w].key].active = on]
      BY <1>2 DEF SwitchOn, SwitchOff
    <2>3. licenses'[k].born = licenses[k].born /\ (job[w].key # k => licenses'[k] = licenses[k])
      <3>1. CASE licenses' = licenses
        BY <3>1
      <3>2. ASSUME NEW on \in BOOLEAN, licenses' = [licenses EXCEPT ![job[w].key].active = on]
            PROVE  licenses'[k].born = licenses[k].born /\ (job[w].key # k => licenses'[k] = licenses[k])
        <4>1. licenses'[k] = IF job[w].key = k THEN [licenses[k] EXCEPT !.active = on] ELSE licenses[k]
          BY <3>2 DEF TypeOK
        <4> QED BY <1>0, <4>1 DEF License
      <3> QED BY <2>2, <3>1, <3>2
    <2> QED BY <2>1, <2>3 DEF Existing
  <1>3. ASSUME NEW w \in Workers, RotateCommit(w) PROVE Kept \/ Born
    <2>1. job[w].pc = "rotating" /\ job'[w].pc # "rotating"
      BY <1>3, JobFields, JobKeys DEF RotateCommit, EndJob, Turn, TypeOK, Job, JobRecord
    <2>2. licenses' = licenses \/ licenses' = Rotated(job[w].key, job[w].new, job[w].carry)
      BY <1>3 DEF RotateCommit
    <2>3. CASE job[w].new = k
      <3>1. Rotated(job[w].key, job[w].new, job[w].carry)[k].born = NextRank
        BY <2>3 DEF Rotated, NoLicense, TypeOK
      <3> QED BY <2>1, <2>2, <2>3, <3>1, NextRankType DEF Exists
    <2>4. CASE job[w].new # k
      <3>1. /\ Rotated(job[w].key, job[w].new, job[w].carry)[k].born = licenses[k].born
            /\ Rotated(job[w].key, job[w].new, job[w].carry)[k].active => licenses[k].active
        BY <1>0, <2>4 DEF Rotated, TypeOK, License
      <3> QED BY <2>2, <3>1
    <2> QED BY <2>3, <2>4
  <1>4. ASSUME NEW w \in Workers, Credit(w) PROVE Kept
    <2>1. job[w].key \in Existing
      BY <1>4 DEF Credit, BillingInv, LearntHolds, Learnt
    <2>2. \/ licenses' = licenses
          \/ licenses' = [licenses EXCEPT ![job[w].key] =
                            Credited(licenses[job[w].key], Amount[job[w].payment])]
      BY <1>4 DEF Credit
    <2>3. Credited(licenses[k], Amount[job[w].payment]).born = licenses[k].born
      BY <1>0 DEF Credited, License
    <2> QED BY <2>1, <2>2, <2>3 DEF TypeOK, Existing
  <1>5. ASSUME NEW j \in Keys, Convert(j) \/ ScanPause(j) \/ Ban(j) PROVE Kept
    <2>1. CASE Convert(j)
      BY <1>0, <2>1 DEF Convert, TypeOK, License
    <2>2. CASE ScanPause(j)
      BY <1>0, <2>2 DEF ScanPause, TypeOK, License
    <2>3. CASE Ban(j)
      <3>1. licenses' = [licenses EXCEPT ![j].banned = TRUE]
        BY <2>3 DEF Ban
      <3> QED BY <1>0, <3>1 DEF TypeOK, License
    <2> QED BY <1>5, <2>1, <2>2, <2>3
  <1>6. Kept \/ Born
    BY <1>1, <1>2, <1>3, <1>4, <1>5, LicenseWrites
  <1> QED BY <1>6 DEF Exists

(* An invoice that has been paid stays paid. *)
LEMMA InvoiceSteps ==
    ASSUME TypeOK, [Next]_vars, NEW p \in Payments, invoice[p] \in {"paid", "short"}
    PROVE  invoice'[p] = invoice[p]
  <1>1. ASSUME NEW w \in Workers, Request(w) PROVE invoice' = invoice
    BY <1>1 DEF Request, Register, SwitchRead, LicActivate, LicDeactivate, Rotate, BeginTopup,
                VerifyAndCredit, LookupMiss
  <1>2. ASSUME NEW w \in Workers, Proceed(w) PROVE invoice' = invoice
    BY <1>2 DEF Proceed, RegisterCommit, SwitchOn, SwitchOff, RotateCommit, RotateCache, BeginCommit,
                MarkStatus, AmountMismatch, LockAndTarget, Credit, RefreshRead, WriteCache
  <1>3. ASSUME Scanner PROVE invoice' = invoice
    <2>1. ASSUME ScanSelect \/ ScanBaseline \/ ScanPop PROVE invoice' = invoice
      BY <2>1 DEF ScanSelect, ScanBaseline, ScanPop
    <2>2. ASSUME NEW k \in Keys, ScanSeed(k) \/ ScanPause(k) \/ ScanRefresh(k) PROVE invoice' = invoice
      BY <2>2 DEF ScanSeed, ScanPause, ScanRefresh
    <2> QED BY <1>3, <2>1, <2>2 DEF Scanner
  <1>4. ASSUME Outside PROVE invoice'[p] = invoice[p]
    BY <1>4 DEF Outside, RecordTopup, CreateInvoice, InvoiceMoves, TimePasses, Connect, ReportClaim,
                ScanPauseFails, Ban, Restart, TypeOK
  <1> QED BY <1>1, <1>2, <1>3, <1>4 DEF Next, Convert, vars

-----------------------------------------------------------------------------
(* The invariant of the money *)

LEMMA CreditedIsPaidStep ==
    ASSUME TypeOK, BillingInv, [Next]_vars
    PROVE  CreditedIsPaid'
  <1> SUFFICES ASSUME NEW p \in Payments, payments'[p].credited
               PROVE  /\ payments'[p].status = "paid" /\ payments'[p].key \in LicensesOf(PayerOf[p])'
                      /\ invoice'[p] = "paid" \/ (TrustBot /\ invoice'[p] = "short")
    BY DEF CreditedIsPaid
  <1>1. LicensesOf(PayerOf[p]) \subseteq LicensesOf(PayerOf[p])'
    BY LicenseSteps DEF LicensesOf, Existing
  <1>2. CASE payments[p].credited
    <2>1. /\ payments'[p].status = payments[p].status /\ payments'[p].key = payments[p].key
      BY <1>2, PaymentSteps
    <2>2. /\ payments[p].status = "paid" /\ payments[p].key \in LicensesOf(PayerOf[p])
          /\ invoice[p] = "paid" \/ (TrustBot /\ invoice[p] = "short")
      BY <1>2 DEF BillingInv, CreditedIsPaid
    <2> QED BY <1>1, <2>1, <2>2, InvoiceSteps
  <1>3. CASE ~payments[p].credited
    <2>1. PICK w \in Workers : /\ job[w].pc = "crediting" /\ job[w].payment = p
                               /\ payments'[p].status = "paid" /\ payments'[p].key = job[w].key
      BY <1>3, PaymentSteps
    <2>2. /\ job[w].key \in LicensesOf(PayerOf[p])
          /\ invoice[p] = "paid" \/ (TrustBot /\ invoice[p] \in {"paid", "short"})
      BY <2>1 DEF BillingInv, LearntHolds, Learnt, LicensesOf
    <2> QED BY <1>1, <2>1, <2>2, InvoiceSteps
  <1> QED BY <1>2, <1>3

(* What a greenlet holds stays true through the steps of the others. *)
LEMMA LearntStays ==
    ASSUME TypeOK, BillingInv, [Next]_vars, NEW w \in Workers, job'[w] = job[w]
    PROVE  Learnt(job[w])' /\ Unborn(job[w])'
  <1>1. Learnt(job[w]) /\ Unborn(job[w])
    BY DEF BillingInv, LearntHolds, FreshIds
  <1>2. Existing \subseteq Existing'
    BY LicenseSteps DEF Existing
  <1>3. \A v \in Workers : job'[v].pc # job[v].pc => Apart(job[v], job[w])
    BY DEF BillingInv, FreshIds
  <1>4. ASSUME job[w].pc = "registering" PROVE ~Exists(job[w].key)'
    BY <1>1, <1>3, <1>4, LicenseSteps, JobKeys DEF Unborn, Apart
  <1>5. ASSUME job[w].pc = "rotating" PROVE ~Exists(job[w].new)'
    BY <1>1, <1>3, <1>5, LicenseSteps, JobKeys DEF Unborn, Apart
  <1>6. ASSUME job[w].pc = "opening" PROVE payments'[job[w].payment].status = "absent"
    <2>1. job[w].payment \in Payments /\ payments[job[w].payment].status = "absent"
      BY <1>1, <1>6, JobKeys DEF Unborn
    <2>2. \A v \in Workers : job[v].pc = "opening" /\ job'[v].pc # "opening"
                                 => job[v].payment # job[w].payment
      BY <1>3, <1>6 DEF Apart
    <2>3. ~payments[job[w].payment].credited
      BY <2>1 DEF BillingInv, CreditedIsPaid
    <2>4. \A v \in Workers : job[v].pc = "crediting" => job[v].payment # job[w].payment
      BY <2>1 DEF BillingInv, LearntHolds, Learnt
    <2> QED BY <2>1, <2>2, <2>3, <2>4, PaymentSteps
  <1>7. ASSUME job[w].pc \in {"answered", "crediting"}
        PROVE  /\ payments'[job[w].payment].status \notin {"absent", "new"}
               /\ job[w].answer = "paid" => invoice'[job[w].payment] = "paid"
               /\ job[w].answer = "trusted" =>
                     TrustBot /\ invoice'[job[w].payment] \in {"paid", "short"}
    <2>1. job[w].payment \in Payments
      BY <1>7, JobKeys
    <2>2. payments[job[w].payment].status \notin {"absent", "new"}
      BY <1>1, <1>7 DEF Learnt
    <2>3. payments'[job[w].payment].status \notin {"absent", "new"}
      BY <2>1, <2>2, PaymentSteps
    <2> QED BY <1>1, <1>7, <2>1, <2>3, InvoiceSteps DEF Learnt
  <1>8. ASSUME job[w].pc = "crediting" PROVE ~payments'[job[w].payment].credited
    <2>1. job[w].payment \in Payments /\ ~payments[job[w].payment].credited
      BY <1>1, <1>8, JobKeys DEF Learnt
    <2>2. \A v \in Workers : job[v].pc = "crediting" /\ job'[v].pc # "crediting"
                                 => job[v].payment # job[w].payment
      BY <1>3, <1>8 DEF Apart
    <2> QED BY <2>1, <2>2, PaymentSteps
  <1>9. Unborn(job[w])'
    BY <1>4, <1>5, <1>6 DEF Unborn
  <1> QED BY <1>1, <1>2, <1>7, <1>8, <1>9 DEF Learnt

(* A greenlet that names no new id keeps apart from those that do. *)
LEMMA ApartSettled ==
    ASSUME TypeOK, BillingInv, NEW v \in Workers, NEW j,
           j.pc \notin {"registering", "rotating"},
           j.key \in Existing \cup {None}, j.new = None,
           j.pc \in {"opening", "crediting"} /\ job[v].pc = j.pc => j.payment # job[v].payment
    PROVE  Apart(j, job[v]) /\ Apart(job[v], j)
  <1>1. Unborn(job[v])
    BY DEF BillingInv, FreshIds
  <1>2. job[v].pc = "registering" => job[v].key \notin Existing \cup {None}
    BY <1>1, JobKeys DEF Unborn, Existing
  <1>3. job[v].pc = "rotating" => job[v].new \notin Existing \cup {None}
    BY <1>1, JobKeys DEF Unborn, Existing
  <1> QED BY <1>2, <1>3 DEF Apart

(* A greenlet turns to what it has just learnt, and to new ids of its own. *)
LEMMA TurnStep ==
    ASSUME TypeOK, BillingInv, [Next]_vars
    PROVE  \/ job' = job
           \/ job' = [w \in Workers |-> Idle]
           \/ \E w \in Workers, j \in Job :
                 /\ Turn(w, j) /\ Learnt(j)' /\ Unborn(j)'
                 /\ \A v \in Workers \ {w} : Apart(j, job[v]) /\ Apart(job[v], j)
  <1> DEFINE SafeTurn == \E w \in Workers, j \in Job :
                 /\ Turn(w, j) /\ Learnt(j)' /\ Unborn(j)'
                 /\ \A v \in Workers \ {w} : Apart(j, job[v]) /\ Apart(job[v], j)
  <1>1. ASSUME NEW w \in Workers, EndJob(w) PROVE SafeTurn
    <2>1. Learnt(Idle)' /\ Unborn(Idle)'
      BY JobFields DEF Learnt, Unborn
    <2> QED BY <1>1, <2>1, ConstantTypes, JobFields, ApartSettled DEF EndJob
  <1>2. ASSUME NEW w \in Workers, NEW k \in Keys, Register(w, k) PROVE SafeTurn
    <2>1. PICK j \in Job : Turn(w, j) /\ j.pc = "registering" /\ j.key = k /\ j.new = None
      BY <1>2, JobTypes, JobFields DEF Register
    <2>2. ~Exists(k)' /\ \A v \in Workers : k \notin {job[v].key, job[v].new}
      BY <1>2 DEF Register, Fresh, Exists
    <2>3. Learnt(j)' /\ Unborn(j)'
      BY <2>1, <2>2 DEF Learnt, Unborn
    <2>4. \A v \in Workers \ {w} : Apart(j, job[v]) /\ Apart(job[v], j)
      BY <2>1, <2>2, JobKeys DEF Apart
    <2> QED BY <2>1, <2>3, <2>4
  <1>3. ASSUME NEW w \in Workers, NEW k \in Keys, LicActivate(w, k) \/ LicDeactivate(w, k) PROVE SafeTurn
    <2>1. licenses[k].active \in BOOLEAN
      BY DEF TypeOK, License
    <2>2. PICK pc \in {"switchingOn", "switchingOff"} : SwitchRead(w, k, pc)
      BY <1>3 DEF LicActivate, LicDeactivate
    <2>3. PICK j \in Job : Turn(w, j) /\ j.pc = pc /\ j.key = k /\ j.new = None
      BY <2>1, <2>2, JobTypes, JobFields DEF SwitchRead
    <2>4. k \in Existing /\ Existing' = Existing
      BY <2>2 DEF SwitchRead, Existing, Exists
    <2>5. Learnt(j)' /\ Unborn(j)'
      BY <2>3, <2>4 DEF Learnt, Unborn
    <2>6. \A v \in Workers \ {w} : Apart(j, job[v]) /\ Apart(job[v], j)
      BY <2>3, <2>4, ApartSettled
    <2> QED BY <2>3, <2>5, <2>6
  <1>4. ASSUME NEW w \in Workers, NEW k \in Keys, NEW e \in CacheEntry, k \in Existing,
               Turn(w, Caching(k, e))
        PROVE  SafeTurn
    <2>1. PICK j \in Job : Turn(w, j) /\ j.pc = "caching" /\ j.key = k /\ j.new = None
      BY <1>4, JobTypes, JobFields
    <2>2. k \in Existing'
      BY <1>4, LicenseSteps DEF Existing
    <2>3. Learnt(j)' /\ Unborn(j)'
      BY <2>1, <2>2 DEF Learnt, Unborn
    <2>4. \A v \in Workers \ {w} : Apart(j, job[v]) /\ Apart(job[v], j)
      BY <1>4, <2>1, ApartSettled
    <2> QED BY <2>1, <2>3, <2>4
  <1>5. ASSUME NEW w \in Workers, SwitchOn(w) \/ SwitchOff(w) \/ RefreshRead(w)
        PROVE  SafeTurn
    <2>1. job[w].key \in Existing
      BY <1>5 DEF SwitchOn, SwitchOff, RefreshRead, BillingInv, LearntHolds, Learnt
    <2>2. EndJob(w) \/ \E e \in CacheEntry : Turn(w, Caching(job[w].key, e))
      BY <1>5 DEF SwitchOn, SwitchOff, RefreshRead, CacheEntry
    <2> HIDE DEF SafeTurn
    <2> QED BY <1>1, <1>4, <2>1, <2>2, ExistingKeys
  <1>6. ASSUME NEW w \in Workers, NEW k \in Keys, LookupMiss(w, k) PROVE SafeTurn
    <2>1. k \in Existing
      BY <1>6 DEF LookupMiss, Existing
    <2>2. \E e \in CacheEntry : Turn(w, Caching(k, e))
      BY <1>6 DEF LookupMiss, CacheEntry
    <2> HIDE DEF SafeTurn
    <2> QED BY <1>4, <2>1, <2>2
  <1>7. ASSUME NEW w \in Workers, NEW k \in Keys, NEW new \in Keys, Rotate(w, k, new) PROVE SafeTurn
    <2>1. licenses[k].balance \in Int
      BY DEF TypeOK, License
    <2>2. PICK j \in Job : Turn(w, j) /\ j.pc = "rotating" /\ j.key = k /\ j.new = new
      BY <1>7, <2>1, JobTypes, JobFields DEF Rotate
    <2>3. k \in Existing /\ Existing' = Existing /\ ~Exists(new)'
      BY <1>7 DEF Rotate, Fresh, Existing, Exists
    <2>4. \A v \in Workers : new \notin {job[v].key, job[v].new}
      BY <1>7 DEF Rotate, Fresh
    <2>5. Learnt(j)' /\ Unborn(j)'
      BY <2>2, <2>3 DEF Learnt, Unborn
    <2>6. \A v \in Workers : Unborn(job[v])
      BY DEF BillingInv, FreshIds
    <2>7. \A v \in Workers \ {w} : Apart(j, job[v]) /\ Apart(job[v], j)
      BY <2>2, <2>3, <2>4, <2>6 DEF Apart, Unborn, Existing
    <2> QED BY <2>2, <2>5, <2>7
  <1>8. ASSUME NEW w \in Workers, RotateCommit(w) PROVE SafeTurn
    <2>1. job[w].pc = "rotating" /\ job[w] \in Job /\ job[w].key \in Existing /\ job[w].new \in Keys
      BY <1>8, JobKeys DEF RotateCommit, BillingInv, LearntHolds, Learnt
    <2>2. CASE EndJob(w)
      BY <1>1, <2>2
    <2>3. CASE /\ Turn(w, [job[w] EXCEPT !.pc = "rotated"])
               /\ licenses' = Rotated(job[w].key, job[w].new, job[w].carry)
      <3>1. [job[w] EXCEPT !.pc = "rotated"] \in Job
        BY <2>1 DEF Job, JobRecord, JobPc
      <3>2. PICK j \in Job : /\ Turn(w, j) /\ j.pc = "rotated"
                             /\ j.key = job[w].key /\ j.new = job[w].new
        BY <2>1, <2>3, <3>1 DEF Job, JobRecord
      <3>3. licenses'[job[w].new].born = NextRank
        BY <2>1, <2>3 DEF Rotated, NoLicense, TypeOK
      <3>4. j.key \in Existing' /\ j.new \in Existing'
        BY <2>1, <3>2, <3>3, NextRankType, LicenseSteps DEF Existing, Exists
      <3>5. \A v \in Workers \ {w} : Apart(job[v], job[w])
        BY DEF BillingInv, FreshIds
      <3>6. Learnt(j)' /\ Unborn(j)'
        BY <3>2, <3>4 DEF Learnt, Unborn
      <3>7. \A v \in Workers \ {w} : Apart(j, job[v]) /\ Apart(job[v], j)
        BY <2>1, <3>2, <3>5 DEF Apart
      <3> QED BY <3>2, <3>6, <3>7
    <2> QED BY <1>8, <2>2, <2>3 DEF RotateCommit
  <1>9. ASSUME NEW w \in Workers, NEW p \in Payments, BeginTopup(w, p) PROVE SafeTurn
    <2>1. PICK k \in Current(PayerOf[p]) : Turn(w, Opening(p, k))
      BY <1>9 DEF BeginTopup
    <2>2. k \in Existing /\ k \in Keys
      BY CurrentType, ExistingKeys
    <2>3. PICK j \in Job : /\ Turn(w, j) /\ j.pc = "opening"
                           /\ j.key = k /\ j.new = None /\ j.payment = p
      BY <2>1, <2>2, JobTypes, JobFields
    <2>4. Existing' = Existing /\ payments'[p].status = "absent" /\ \A v \in Workers : job[v].payment # p
      BY <1>9 DEF BeginTopup, Existing, Exists
    <2>5. Learnt(j)' /\ Unborn(j)'
      BY <2>2, <2>3, <2>4 DEF Learnt, Unborn
    <2>6. \A v \in Workers \ {w} : Apart(j, job[v]) /\ Apart(job[v], j)
      BY <2>2, <2>3, <2>4, ApartSettled
    <2> QED BY <2>3, <2>5, <2>6
  <1>10. ASSUME NEW w \in Workers, NEW p \in Payments, VerifyAndCredit(w, p) PROVE SafeTurn
    <2>1. PICK a \in Reports(p) : Turn(w, Answered(p, a))
      BY <1>10 DEF VerifyAndCredit
    <2>2. a \in Invoice \cup {"trusted"}
      BY DEF Reports, TypeOK
    <2>3. a = "paid" => invoice[p] = "paid"
      BY DEF Reports
    <2>4. a = "trusted" => TrustBot /\ invoice[p] \in {"paid", "short"}
      BY DEF Reports, TypeOK, Invoice
    <2>5. PICK j \in Job : /\ Turn(w, j) /\ j.pc = "answered" /\ j.key = None /\ j.new = None
                           /\ j.payment = p /\ j.answer = a
      BY <2>1, <2>2, JobTypes, JobFields
    <2>6. payments'[p].status \notin {"absent", "new"} /\ invoice' = invoice
      BY <1>10 DEF VerifyAndCredit
    <2>7. Learnt(j)' /\ Unborn(j)'
      BY <2>3, <2>4, <2>5, <2>6 DEF Learnt, Unborn
    <2>8. \A v \in Workers \ {w} : Apart(j, job[v]) /\ Apart(job[v], j)
      BY <2>5, ApartSettled
    <2> QED BY <2>5, <2>7, <2>8
  <1>11. ASSUME NEW w \in Workers, LockAndTarget(w) PROVE SafeTurn
    <2>1. CASE EndJob(w)
      BY <1>1, <2>1
    <2>2. ASSUME NEW k \in Current(PayerOf[job[w].payment]), Turn(w, Crediting(job[w], k)),
                 Creditable(payments[job[w].payment])
          PROVE  SafeTurn
      <3>1. PICK p \in Payments : job[w].payment = p
        BY <1>11, JobKeys DEF LockAndTarget
      <3>2. /\ job[w] \in Job /\ job[w].pc = "answered"
            /\ job[w].answer \in {"paid", "trusted"} /\ Unlocked(p)
        BY <1>11, <3>1, JobKeys DEF LockAndTarget
      <3>3. k \in Existing /\ k \in Keys /\ OwnerOf[k] = PayerOf[p]
        BY <3>1, CurrentType, ExistingKeys DEF LicensesOf
      <3>4. PICK j \in Job : /\ Turn(w, j) /\ j.pc = "crediting" /\ j.key = k /\ j.new = job[w].new
                             /\ j.payment = p /\ j.answer = job[w].answer
        BY <2>2, <3>1, <3>2, <3>3, JobTypes, JobFields
      <3>5. Learnt(job[w])
        BY DEF BillingInv, LearntHolds
      <3>6. /\ payments[p].status \notin {"absent", "new"} /\ ~payments[p].credited
            /\ j.answer = "paid" => invoice[p] = "paid"
            /\ j.answer = "trusted" => TrustBot /\ invoice[p] \in {"paid", "short"}
        BY <2>2, <3>1, <3>2, <3>4, <3>5 DEF Learnt, Creditable
      <3>7. Existing' = Existing /\ payments' = payments /\ invoice' = invoice
        BY <1>11 DEF LockAndTarget, Existing, Exists
      <3>8. Learnt(j)' /\ Unborn(j)'
        BY <3>2, <3>3, <3>4, <3>6, <3>7 DEF Learnt, Unborn
      <3>9. \A v \in Workers \ {w} : Apart(j, job[v]) /\ Apart(job[v], j)
        <4>1. TAKE v \in Workers \ {w}
        <4>2. Apart(job[v], job[w]) /\ Unborn(job[v])
          BY DEF BillingInv, FreshIds
        <4>3. job[v].pc = "crediting" => job[v].payment # p
          BY <3>2 DEF Unlocked
        <4>4. job[v].pc = "registering" => job[v].key # k
          BY <3>3, <4>2 DEF Unborn, Existing
        <4>5. job[v].pc = "rotating" => job[v].new # k
          BY <3>3, <4>2 DEF Unborn, Existing
        <4> QED BY <3>4, <4>2, <4>3, <4>4, <4>5 DEF Apart
      <3> QED BY <3>4, <3>8, <3>9
    <2> HIDE DEF SafeTurn
    <2> QED BY <1>11, <2>1, <2>2 DEF LockAndTarget
  <1>12. ASSUME NEW w \in Workers, Credit(w) PROVE SafeTurn
    <2>1. PICK k \in Keys : job[w].key = k /\ k \in Existing
      BY <1>12, ExistingKeys DEF Credit, BillingInv, LearntHolds, Learnt
    <2>2. CASE EndJob(w)
      BY <1>1, <2>2
    <2>3. CASE Turn(w, Doing("credited", job[w].key))
      <3>1. PICK j \in Job : Turn(w, j) /\ j.pc = "credited" /\ j.key = k /\ j.new = None
        BY <2>1, <2>3, JobTypes, JobFields
      <3>2. k \in Existing'
        BY <2>1, LicenseSteps DEF Existing
      <3>3. Learnt(j)' /\ Unborn(j)'
        BY <3>1, <3>2 DEF Learnt, Unborn
      <3>4. \A v \in Workers \ {w} : Apart(j, job[v]) /\ Apart(job[v], j)
        BY <2>1, <3>1, ApartSettled
      <3> QED BY <3>1, <3>3, <3>4
    <2> QED BY <1>12, <2>2, <2>3 DEF Credit
  <1> HIDE DEF SafeTurn
  <1>13. ASSUME NEW w \in Workers, Proceed(w) PROVE SafeTurn
    <2>1. ASSUME RegisterCommit(w) \/ RotateCache(w) \/ BeginCommit(w) \/ MarkStatus(w)
                   \/ AmountMismatch(w) \/ WriteCache(w)
          PROVE  SafeTurn
      <3>1. EndJob(w)
        BY <2>1 DEF RegisterCommit, RotateCache, BeginCommit, MarkStatus, AmountMismatch, WriteCache
      <3> QED BY <1>1, <3>1
    <2> QED BY <1>5, <1>8, <1>11, <1>12, <1>13, <2>1 DEF Proceed
  <1>14. ASSUME NEW w \in Workers, Request(w) PROVE SafeTurn
    <2> QED BY <1>2, <1>3, <1>6, <1>7, <1>9, <1>10, <1>14 DEF Request
  <1>15. ASSUME Scanner PROVE job' = job
    <2>1. ASSUME ScanSelect \/ ScanBaseline \/ ScanPop PROVE job' = job
      BY <2>1 DEF ScanSelect, ScanBaseline, ScanPop
    <2>2. ASSUME NEW k \in Keys, ScanSeed(k) \/ ScanPause(k) \/ ScanRefresh(k) PROVE job' = job
      BY <2>2 DEF ScanSeed, ScanPause, ScanRefresh
    <2> QED BY <1>15, <2>1, <2>2 DEF Scanner
  <1> DEFINE Reset == job' = [w \in Workers |-> Idle]
  <1>16. ASSUME Outside PROVE job' = job \/ Reset
    BY <1>16 DEF Outside, RecordTopup, CreateInvoice, InvoiceMoves, TimePasses, Connect, ReportClaim,
                 ScanPauseFails, Ban, Restart
  <1>17. ASSUME NEW k \in Keys, Convert(k) PROVE job' = job
    BY <1>17 DEF Convert
  <1>18. ASSUME UNCHANGED vars PROVE job' = job
    BY <1>18 DEF vars
  <1> HIDE DEF Reset
  <1>19. SafeTurn \/ job' = job \/ Reset
    BY <1>13, <1>14, <1>15, <1>16, <1>17, <1>18 DEF Next
  <1> QED BY <1>19 DEF SafeTurn, Reset

LEMMA RequestsStep ==
    ASSUME TypeOK, BillingInv, [Next]_vars
    PROVE  FreshIds' /\ LearntHolds'
  <1>1. CASE job' = job
    <2>1. \A w \in Workers : Learnt(job[w])' /\ Unborn(job[w])'
      BY <1>1, LearntStays
    <2> QED BY <1>1, <2>1 DEF BillingInv, FreshIds, LearntHolds, Apart
  <1>2. CASE job' = [w \in Workers |-> Idle]
    BY <1>2, JobFields DEF FreshIds, LearntHolds, Learnt, Unborn, Apart
  <1>3. ASSUME NEW w \in Workers, NEW j \in Job, Turn(w, j), Learnt(j)', Unborn(j)',
               \A v \in Workers \ {w} : Apart(j, job[v]) /\ Apart(job[v], j)
        PROVE  FreshIds' /\ LearntHolds'
    <2>1. job'[w] = j /\ \A v \in Workers \ {w} : job'[v] = job[v]
      BY <1>3 DEF Turn, TypeOK
    <2>2. \A v \in Workers : Learnt(job[v])' /\ Unborn(job[v])'
      <3>1. TAKE v \in Workers
      <3>2. CASE v = w
        BY <1>3, <2>1, <3>2 DEF Learnt, Unborn
      <3>3. CASE v # w
        BY <2>1, <3>3, LearntStays
      <3> QED BY <3>2, <3>3
    <2>3. \A v, x \in Workers : v # x => Apart(job[v], job[x])'
      BY <1>3, <2>1 DEF BillingInv, FreshIds, Apart
    <2> QED BY <2>2, <2>3 DEF FreshIds, LearntHolds
  <1> QED BY <1>1, <1>2, <1>3, TurnStep

(* Each of the things in memory is written from what was known before. *)
LEMMA QueueStep ==
    ASSUME TypeOK, [Next]_vars, NEW k \in Keys, queued'[k] > 0
    PROVE  queued[k] > 0 \/ k \in sessions
  <1>1. ASSUME NEW w \in Workers, Request(w) PROVE queued' = queued
    BY <1>1 DEF Request, Register, SwitchRead, LicActivate, LicDeactivate, Rotate, BeginTopup,
                VerifyAndCredit, LookupMiss
  <1>2. ASSUME NEW w \in Workers, Proceed(w) PROVE queued' = queued
    BY <1>2 DEF Proceed, RegisterCommit, SwitchOn, SwitchOff, RotateCommit, RotateCache, BeginCommit,
                MarkStatus, AmountMismatch, LockAndTarget, Credit, RefreshRead, WriteCache
  <1>3. ASSUME Scanner PROVE queued' = queued
    <2>1. ASSUME ScanSelect \/ ScanBaseline \/ ScanPop PROVE queued' = queued
      BY <2>1 DEF ScanSelect, ScanBaseline, ScanPop
    <2>2. ASSUME NEW j \in Keys, ScanSeed(j) \/ ScanPause(j) \/ ScanRefresh(j) PROVE queued' = queued
      BY <2>2 DEF ScanSeed, ScanPause, ScanRefresh
    <2> QED BY <1>3, <2>1, <2>2 DEF Scanner
  <1>4. ASSUME NEW j \in Keys, Convert(j) PROVE queued[k] > 0
    BY <1>4 DEF Convert, TypeOK
  <1>5. ASSUME NEW j \in Keys, ReportClaim(j) PROVE queued[k] > 0 \/ k \in sessions
    BY <1>5 DEF ReportClaim, TypeOK
  <1>6. ASSUME Outside PROVE queued[k] > 0 \/ k \in sessions
    BY <1>5, <1>6 DEF Outside, RecordTopup, CreateInvoice, InvoiceMoves, TimePasses,
                      Connect, ScanPauseFails, Ban, Restart
  <1> QED BY <1>1, <1>2, <1>3, <1>4, <1>6 DEF Next, vars

LEMMA SessionStep ==
    ASSUME TypeOK, [Next]_vars, NEW k \in sessions'
    PROVE  k \in sessions \/ cache[k] = "active"
  <1>1. ASSUME NEW w \in Workers, Request(w) PROVE sessions' = sessions
    BY <1>1 DEF Request, Register, SwitchRead, LicActivate, LicDeactivate, Rotate, BeginTopup,
                VerifyAndCredit, LookupMiss
  <1>2. ASSUME NEW w \in Workers, Proceed(w) PROVE sessions' = sessions
    BY <1>2 DEF Proceed, RegisterCommit, SwitchOn, SwitchOff, RotateCommit, RotateCache, BeginCommit,
                MarkStatus, AmountMismatch, LockAndTarget, Credit, RefreshRead, WriteCache
  <1>3. ASSUME Scanner PROVE sessions' = sessions
    <2>1. ASSUME ScanSelect \/ ScanBaseline \/ ScanPop PROVE sessions' = sessions
      BY <2>1 DEF ScanSelect, ScanBaseline, ScanPop
    <2>2. ASSUME NEW j \in Keys, ScanSeed(j) \/ ScanPause(j) \/ ScanRefresh(j) PROVE sessions' = sessions
      BY <2>2 DEF ScanSeed, ScanPause, ScanRefresh
    <2> QED BY <1>3, <2>1, <2>2 DEF Scanner
  <1>4. ASSUME Outside PROVE k \in sessions \/ cache[k] = "active"
    BY <1>4 DEF Outside, RecordTopup, CreateInvoice, InvoiceMoves, TimePasses, Connect, ReportClaim,
                ScanPauseFails, Ban, Restart
  <1> QED BY <1>1, <1>2, <1>3, <1>4 DEF Next, Convert, vars

LEMMA CacheStep ==
    ASSUME TypeOK, BillingInv, [Next]_vars, NEW k \in Keys, cache'[k] # "absent"
    PROVE  Exists(k)
  <1>1. licenses[k].active \/ cache[k] # "absent" \/ scan.seen[k].active \/ k \in scan.todo => Exists(k)
    BY DEF BillingInv, KnownKeys
  <1>2. ASSUME NEW w \in Workers, Request(w) PROVE cache' = cache
    BY <1>2 DEF Request, Register, SwitchRead, LicActivate, LicDeactivate, Rotate, BeginTopup,
                VerifyAndCredit, LookupMiss
  <1>3. ASSUME NEW w \in Workers, RotateCache(w) \/ WriteCache(w) PROVE cache'[k] = cache[k] \/ Exists(k)
    <2>1. Learnt(job[w])
      BY DEF BillingInv, LearntHolds
    <2>2. job[w].key \in Existing /\ (job[w].pc = "rotated" => job[w].new \in Existing)
      BY <1>3, <2>1 DEF RotateCache, WriteCache, Learnt
    <2> QED BY <1>3, <2>2 DEF RotateCache, WriteCache, TypeOK, Existing
  <1>4. ASSUME NEW w \in Workers, Proceed(w) PROVE cache'[k] = cache[k] \/ Exists(k)
    BY <1>3, <1>4 DEF Proceed, RegisterCommit, SwitchOn, SwitchOff, RotateCommit, BeginCommit,
                      MarkStatus, AmountMismatch, LockAndTarget, Credit, RefreshRead
  <1>5. ASSUME Scanner PROVE cache'[k] = cache[k] \/ cache'[k] = "absent" \/ Exists(k)
    <2>1. ASSUME ScanSelect \/ ScanBaseline \/ ScanPop PROVE cache'[k] = cache[k] \/ cache'[k] = "absent"
      BY <2>1 DEF ScanSelect, ScanBaseline, ScanPop, TypeOK
    <2>2. ASSUME NEW j \in Keys, ScanPause(j) PROVE cache' = cache
      BY <2>2 DEF ScanPause
    <2>3. ASSUME NEW j \in Keys, ScanSeed(j) \/ ScanRefresh(j) PROVE cache'[k] = cache[k] \/ Exists(k)
      BY <1>1, <2>3 DEF ScanSeed, ScanRefresh, Scanned, Eligible, TypeOK
    <2> QED BY <1>5, <2>1, <2>2, <2>3 DEF Scanner
  <1>6. ASSUME Outside PROVE cache'[k] = cache[k] \/ Exists(k)
    BY <1>1, <1>6 DEF Outside, RecordTopup, CreateInvoice, InvoiceMoves, TimePasses, Connect, ReportClaim,
                      ScanPauseFails, Ban, Restart, Usable
  <1>7. ASSUME NEW j \in Keys, Convert(j) PROVE cache' = cache
    BY <1>7 DEF Convert
  <1>8. cache'[k] = cache[k] \/ Exists(k)
    BY <1>2, <1>4, <1>5, <1>6, <1>7 DEF Next, vars
  <1> QED BY <1>1, <1>8

LEMMA ScanStep ==
    ASSUME TypeOK, BillingInv, [Next]_vars, NEW k \in Keys, scan'.seen[k].active \/ k \in scan'.todo
    PROVE  Exists(k)
  <1>1. licenses[k].active \/ scan.seen[k].active \/ k \in scan.todo => Exists(k)
    BY DEF BillingInv, KnownKeys
  <1> DEFINE Known == scan'.seen[k].active \/ k \in scan'.todo => Exists(k)
  <1>2. Unseen[k].active = FALSE /\ Booted.seen[k].active = FALSE /\ k \notin Booted.todo
        /\ Asleep.seen[k].active = FALSE /\ k \notin Asleep.todo
    BY DEF Unseen, Booted, Asleep
  <1>3. scan = scan' => Known
    BY <1>1
  <1>4. ASSUME NEW w \in Workers, Request(w) PROVE scan' = scan
    BY <1>4 DEF Request, Register, SwitchRead, LicActivate, LicDeactivate, Rotate, BeginTopup,
                VerifyAndCredit, LookupMiss
  <1>5. ASSUME NEW w \in Workers, Proceed(w) PROVE scan' = scan
    BY <1>5 DEF Proceed, RegisterCommit, SwitchOn, SwitchOff, RotateCommit, RotateCache, BeginCommit,
                MarkStatus, AmountMismatch, LockAndTarget, Credit, RefreshRead, WriteCache
  <1>6. ASSUME Scanner PROVE Known
    <2>1. ASSUME ScanSelect PROVE Known
      <3>1. Snapshot[k].active = licenses[k].active
        BY DEF Snapshot
      <3>2. /\ scan'.seen = Snapshot
            /\ scan'.todo = scan.todo \/ scan'.todo = Existing
        BY <2>1 DEF ScanSelect, TypeOK, Scan
      <3> QED BY <1>1, <3>1, <3>2 DEF Existing
    <2>2. ASSUME ScanBaseline PROVE Known
      BY <1>1, <1>2, <2>2 DEF ScanBaseline, Eligible, TypeOK, Scan
    <2>3. ASSUME NEW j \in Keys, ScanSeed(j) \/ ScanRefresh(j) PROVE Known
      <3>1. scan' = Without(j)
        BY <2>3 DEF ScanSeed, ScanRefresh
      <3> QED BY <1>1, <1>2, <3>1 DEF Without, TypeOK, Scan
    <2>4. ASSUME NEW j \in Keys, ScanPause(j) PROVE Known
      BY <1>1, <2>4 DEF ScanPause, TypeOK, Scan, Seen
    <2>5. ASSUME ScanPop PROVE Known
      BY <1>1, <2>5 DEF ScanPop, TypeOK, Scan
    <2> HIDE DEF Known
    <2> QED BY <1>6, <2>1, <2>2, <2>3, <2>4, <2>5 DEF Scanner
  <1>7. ASSUME NEW j \in Keys, ScanPauseFails(j) PROVE Known
    BY <1>1, <1>7 DEF ScanPauseFails, TypeOK, Scan
  <1>8. ASSUME Restart PROVE Known
    BY <1>2, <1>8 DEF Restart
  <1> HIDE DEF Known
  <1>9. ASSUME Outside PROVE Known
    BY <1>3, <1>7, <1>8, <1>9 DEF Outside, RecordTopup, CreateInvoice, InvoiceMoves, TimePasses,
                                  Connect, ReportClaim, Ban
  <1>10. Known
    BY <1>3, <1>4, <1>5, <1>6, <1>9 DEF Next, Convert, vars
  <1> QED BY <1>10 DEF Known

LEMMA KnownKeysStep ==
    ASSUME TypeOK, BillingInv, [Next]_vars
    PROVE  KnownKeys'
  <1> SUFFICES ASSUME NEW k \in Keys,
                      \/ licenses'[k].active \/ cache'[k] # "absent" \/ queued'[k] > 0
                      \/ k \in sessions' \/ scan'.seen[k].active \/ k \in scan'.todo
               PROVE  Exists(k)'
    BY DEF KnownKeys
  <1>1. licenses[k].active \/ cache[k] # "absent" \/ queued[k] > 0 \/ k \in sessions => Exists(k)
    BY DEF BillingInv, KnownKeys
  <1> QED BY <1>1, LicenseSteps, QueueStep, SessionStep, CacheStep, ScanStep

LEMMA BillingInit == Init => BillingInv
  BY JobFields DEF Init, BillingInv, CreditedIsPaid, NoPayment, NoLicense, KnownKeys, Booted, Unseen,
                   FreshIds, Unborn, Apart, LearntHolds, Learnt

LEMMA BillingStep == TypeOK /\ BillingInv /\ [Next]_vars => BillingInv'
  BY CreditedIsPaidStep, KnownKeysStep, RequestsStep DEF BillingInv

(* Whatever requests, webhooks, sweeps, rotations and scans run concurrently, a
   payment is credited only if OxaPay reports it paid, to a licence of its
   payer, and no request acts on a row or an id that is not what it read. *)
THEOREM BillingCorrect == Spec => []BillingInv
  <1>1. Init => TypeOK /\ BillingInv
    BY InitType, BillingInit
  <1>2. TypeOK /\ BillingInv /\ [Next]_vars => (TypeOK /\ BillingInv)'
    BY TypeStep, BillingStep
  <1> QED BY <1>1, <1>2, PTL DEF Spec

(* No money without payment: a payment that is booked is marked paid, to a
   licence of the user who pays, and its invoice is paid at OxaPay, in full
   unless the bot's word stands in for OxaPay's. *)
THEOREM PaidBeforeCredited == Spec => []CreditedIsPaid
  <1>1. BillingInv => CreditedIsPaid
    BY DEF BillingInv
  <1> QED BY <1>1, BillingCorrect, PTL

(* A late or repeated answer of OxaPay never takes back a credit: the latch,
   the status and the licence of a credited payment stay as they are. *)
THEOREM CreditsAreKept == Spec => CreditedKept
  <1>1. TypeOK /\ BillingInv /\ [Next]_vars =>
          [\A p \in Payments : payments[p].credited =>
              /\ payments'[p].credited
              /\ payments'[p].status = "paid" /\ payments'[p].key = payments[p].key]_vars
    <2> SUFFICES ASSUME TypeOK, BillingInv, [Next]_vars, NEW p \in Payments, payments[p].credited
                 PROVE  /\ payments'[p].credited
                        /\ payments'[p].status = "paid" /\ payments'[p].key = payments[p].key
      OBVIOUS
    <2>1. payments[p].status = "paid"
      BY DEF BillingInv, CreditedIsPaid
    <2> QED BY <2>1, PaymentSteps
  <1> QED BY <1>1, TypeCorrect, BillingCorrect, PTL DEF Spec, CreditedKept
-----------------------------------------------------------------------------
(* The ledger *)

LEMMA LedgerInit == Init => Book!Init
  BY DEF Init, Book!Init, Existing, Exists, NoLicense, NoPayment

(* A step that leaves born, balance and credited of every row alone is no step
   of the ledger. *)
LEMMA LedgerStutter ==
    ASSUME TypeOK, TypeOK',
           \A k \in Keys : /\ licenses'[k].born = licenses[k].born
                          /\ licenses'[k].balance = licenses[k].balance,
           \A p \in Payments : payments'[p].credited = payments[p].credited
    PROVE  UNCHANGED <<Existing, {p \in Payments : payments[p].credited},
                       [k \in Keys |-> licenses[k].balance]>>
  BY DEF Existing, Exists

(* Only a commit that credits sets a latch. *)
LEMMA CreditedStep ==
    ASSUME TypeOK, BillingInv, [Next]_vars, NEW p \in Payments,
           payments'[p].credited # payments[p].credited
    PROVE  \E w \in Workers : Credit(w)
  <1>1. payments[p] \in Payment
    BY DEF TypeOK
  <1>2. ASSUME NEW w \in Workers, BeginCommit(w) \/ MarkStatus(w) \/ AmountMismatch(w) PROVE FALSE
    <2>1. BeginCommit(w) => job[w].payment # p
      <3>1. BeginCommit(w) /\ job[w].payment = p =>
               payments[p].status = "absent" /\ payments'[p].credited = FALSE
        BY DEF BeginCommit, BillingInv, FreshIds, Unborn, NoPayment, TypeOK
      <3>2. payments[p].status = "absent" => payments[p].credited = FALSE
        BY <1>1 DEF BillingInv, CreditedIsPaid, Payment
      <3> QED BY <3>1, <3>2
    <2> QED BY <1>1, <1>2, <2>1 DEF BeginCommit, MarkStatus, AmountMismatch, TypeOK, Payment
  <1>3. ASSUME NEW q \in Payments, RecordTopup(q) \/ TimePasses(q) PROVE FALSE
    BY <1>1, <1>3 DEF RecordTopup, TimePasses, TypeOK, Payment
  <1> QED BY <1>2, <1>3, PaymentWrites

LEMMA LedgerStep ==
    ASSUME TypeOK, TypeOK', BillingInv, [Next]_vars
    PROVE  [Book!Next]_<<Existing, {p \in Payments : payments[p].credited},
                         [k \in Keys |-> licenses[k].balance]>>
  <1> DEFINE latched == {p \in Payments : payments[p].credited}
             balance == [k \in Keys |-> licenses[k].balance]
             Stutter == UNCHANGED <<Existing, latched, balance>>
  <1>1. ASSUME NEW w \in Workers, RegisterCommit(w) PROVE \E k \in Keys : Book!Open(k)
    <2>1. job[w].key \in Keys /\ job[w].key \notin Existing
      BY <1>1, JobKeys DEF RegisterCommit, BillingInv, FreshIds, Unborn, Existing
    <2>2. licenses' = [licenses EXCEPT ![job[w].key] = [NoLicense EXCEPT !.born = NextRank]]
      BY <1>1 DEF RegisterCommit
    <2>3. licenses'[job[w].key].born = NextRank
      BY <2>1, <2>2 DEF TypeOK, NoLicense
    <2>4. \A k \in Keys \ {job[w].key} : licenses'[k] = licenses[k]
      BY <2>1, <2>2 DEF TypeOK
    <2>5. Existing' = Existing \cup {job[w].key}
      BY <2>1, <2>3, <2>4, NextRankType DEF Existing, Exists
    <2>6. payments' = payments
      BY <1>1 DEF RegisterCommit
    <2> QED BY <2>1, <2>4, <2>5, <2>6 DEF Book!Open
  <1>2. ASSUME NEW w \in Workers, RotateCommit(w) PROVE Stutter \/ \E k \in Keys : Book!Open(k)
    <2>1. job[w].key \in Keys /\ job[w].new \in Keys /\ job[w].new \notin Existing
      BY <1>2, JobKeys DEF RotateCommit, BillingInv, FreshIds, Unborn, Existing
    <2>2. payments' = payments
      BY <1>2 DEF RotateCommit
    <2>3. CASE licenses' = licenses
      BY <2>2, <2>3, LedgerStutter
    <2>4. CASE licenses' = Rotated(job[w].key, job[w].new, job[w].carry)
      <3>1. licenses'[job[w].new].born = NextRank
        BY <2>1, <2>4 DEF Rotated, NoLicense, TypeOK
      <3>2. \A k \in Keys \ {job[w].new} : /\ licenses'[k].born = licenses[k].born
                                          /\ licenses'[k].balance = licenses[k].balance
        BY <2>1, <2>4 DEF Rotated, TypeOK, License
      <3>3. Existing' = Existing \cup {job[w].new}
        BY <2>1, <3>1, <3>2, NextRankType DEF Existing, Exists
      <3> QED BY <2>1, <2>2, <3>2, <3>3 DEF Book!Open
    <2> QED BY <1>2, <2>3, <2>4 DEF RotateCommit
  <1>3. ASSUME NEW w \in Workers, Credit(w)
        PROVE  Stutter \/ \E p \in Payments, k \in Keys : Book!Credit(p, k)
    <2> DEFINE p == job[w].payment
               k == job[w].key
    <2>1. p \in Payments /\ k \in Keys /\ k \in Existing /\ ~payments[p].credited
      BY <1>3, JobKeys DEF Credit, BillingInv, LearntHolds, Learnt
    <2>2. CASE UNCHANGED <<licenses, payments>>
      BY <2>2, LedgerStutter
    <2>3. CASE /\ licenses' = [licenses EXCEPT ![k] = Credited(licenses[k], Amount[p])]
               /\ payments' = [payments EXCEPT ![p] = Latched(@, k)]
      <3>1. licenses[k] \in License /\ payments[p] \in Payment
        BY <2>1 DEF TypeOK
      <3>2. /\ Credited(licenses[k], Amount[p]).born = licenses[k].born
            /\ Credited(licenses[k], Amount[p]).balance = licenses[k].balance + Amount[p]
        BY <3>1 DEF Credited, License
      <3>3. Latched(payments[p], k).credited
        BY <3>1 DEF Latched, Payment
      <3> HIDE DEF p, k
      <3>4. /\ licenses'[k].born = licenses[k].born
            /\ licenses'[k].balance = licenses[k].balance + Amount[p]
            /\ \A j \in Keys \ {k} : licenses'[j] = licenses[j]
        BY <2>1, <2>3, <3>2 DEF TypeOK
      <3>5. payments'[p].credited /\ \A q \in Payments \ {p} : payments'[q] = payments[q]
        BY <2>1, <2>3, <3>3 DEF TypeOK
      <3>6. Existing' = Existing
        BY <3>4 DEF Existing, Exists
      <3>7. latched' = latched \cup {p} /\ p \notin latched
        BY <2>1, <3>5
      <3>8. balance' = [balance EXCEPT ![k] = @ + Amount[p]]
        BY <2>1, <3>4
      <3> QED BY <2>1, <3>6, <3>7, <3>8 DEF Book!Credit
    <2> QED BY <1>3, <2>2, <2>3 DEF Credit
  <1>4. ASSUME NEW k \in Keys, Convert(k) PROVE Book!Charge(k)
    <2>1. k \in Existing
      BY <1>4 DEF Convert, BillingInv, KnownKeys, Existing
    <2>2. licenses[k] \in License
      BY DEF TypeOK
    <2>3. /\ licenses'[k].born = licenses[k].born /\ licenses'[k].balance = licenses[k].balance - 1
          /\ \A j \in Keys \ {k} : licenses'[j] = licenses[j]
      BY <1>4, <2>2 DEF Convert, TypeOK, License
    <2>4. Existing' = Existing /\ payments' = payments
      BY <1>4, <2>3 DEF Convert, Existing, Exists
    <2>5. balance' = [balance EXCEPT ![k] = @ - 1]
      BY <2>3
    <2> QED BY <2>1, <2>4, <2>5 DEF Book!Charge
  <1>5. ASSUME NEW w \in Workers, SwitchOn(w) \/ SwitchOff(w) PROVE Stutter
    <2>1. \A k \in Keys : /\ licenses'[k].born = licenses[k].born
                          /\ licenses'[k].balance = licenses[k].balance
      BY <1>5 DEF SwitchOn, SwitchOff, TypeOK, License
    <2>2. payments' = payments
      BY <1>5 DEF SwitchOn, SwitchOff
    <2> QED BY <2>1, <2>2, LedgerStutter
  <1>6. ASSUME NEW k \in Keys, ScanPause(k) \/ Ban(k) PROVE Stutter
    <2>1. \A j \in Keys : /\ licenses'[j].born = licenses[j].born
                          /\ licenses'[j].balance = licenses[j].balance
      BY <1>6 DEF ScanPause, Ban, TypeOK, License
    <2>2. payments' = payments
      BY <1>6 DEF ScanPause, Ban
    <2> QED BY <2>1, <2>2, LedgerStutter
  <1>7. ASSUME licenses' = licenses, ~\E w \in Workers : Credit(w) PROVE Stutter
    <2>1. \A p \in Payments : payments'[p].credited = payments[p].credited
      BY <1>7, CreditedStep
    <2> QED BY <1>7, <2>1, LedgerStutter
  <1> HIDE DEF Stutter
  <1>8. \/ Stutter \/ (\E k \in Keys : Book!Open(k) \/ Book!Charge(k))
        \/ \E p \in Payments, k \in Keys : Book!Credit(p, k)
    BY <1>1, <1>2, <1>3, <1>4, <1>5, <1>6, <1>7, LicenseWrites
  <1> QED BY <1>8 DEF Stutter, Book!Next

(* Top-ups, rotations, claims and scans, interleaved at every statement, keep a
   ledger: each payment is credited once, in full, to one licence, and nothing
   else raises or lowers a balance but a claim. *)
THEOREM LedgerKept == Spec => ImplementsLedger
  <1>1. Init => Book!Init
    BY LedgerInit
  <1>2. TypeOK /\ TypeOK' /\ BillingInv /\ [Next]_vars =>
          [Book!Next]_<<Existing, {p \in Payments : payments[p].credited},
                        [k \in Keys |-> licenses[k].balance]>>
    BY LedgerStep
  <1> QED BY <1>1, <1>2, TypeCorrect, BillingCorrect, PTL DEF Spec, ImplementsLedger, Book!Spec

-----------------------------------------------------------------------------
(* Sums of payments *)

(* Induction on the naturals, for a set. *)
LEMMA NatSetInduction ==
    ASSUME NEW G, 0 \in G, \A n \in Nat : n \in G => n + 1 \in G
    PROVE  Nat \subseteq G
  <1> DEFINE R == {ss \in Nat \X Nat : ss[1] < ss[2]}
             Bad == Nat \ G
  <1>1. IsWellFoundedOn(R, Nat)
    BY NatLessThanWellFounded DEF OpToRel
  <1>2. \A x, y \in Nat : <<y, x>> \in R <=> y < x
    OBVIOUS
  <1> HIDE DEF R
  <1> SUFFICES ASSUME Bad # {} PROVE FALSE
    OBVIOUS
  <1>3. Bad \subseteq Nat
    OBVIOUS
  <1>4. PICK n \in Bad : \A m \in Bad : ~(<<m, n>> \in R)
    BY <1>1, <1>3, WFMin
  <1>5. n \in Nat /\ n # 0 /\ n \notin G
    OBVIOUS
  <1>6. n - 1 \in Nat /\ n - 1 < n /\ (n - 1) + 1 = n
    BY <1>5
  <1>7. n - 1 \in G
    BY <1>2, <1>4, <1>5, <1>6
  <1> QED BY <1>5, <1>6, <1>7

(* Induction on the subsets of a finite set. *)
LEMMA SubsetInduction ==
    ASSUME NEW S, IsFiniteSet(S), NEW G,
           \A s \in SUBSET S : (\A x \in s : s \ {x} \in G) => s \in G
    PROVE  SUBSET S \subseteq G
  <1> DEFINE UpTo(n) == {s \in SUBSET S : Cardinality(s) <= n}
             H == {n \in Nat : UpTo(n) \subseteq G}
  <1>1. \A s \in SUBSET S : IsFiniteSet(s) /\ Cardinality(s) \in Nat
    BY FS_Subset, FS_CardinalityType
  <1>2. \A s \in SUBSET S : \A x \in s : Cardinality(s \ {x}) = Cardinality(s) - 1
    BY <1>1, FS_RemoveElement
  <1>3. 0 \in H
    <2> SUFFICES ASSUME NEW s \in SUBSET S, Cardinality(s) <= 0 PROVE s \in G
      OBVIOUS
    <2>1. s = {}
      BY <1>1, FS_EmptySet
    <2> QED BY <2>1
  <1>4. ASSUME NEW n \in Nat, n \in H PROVE n + 1 \in H
    <2> SUFFICES ASSUME NEW s \in SUBSET S, Cardinality(s) <= n + 1 PROVE s \in G
      OBVIOUS
    <2>1. \A x \in s : s \ {x} \in SUBSET S /\ Cardinality(s \ {x}) <= n
      BY <1>1, <1>2
    <2>2. \A x \in s : s \ {x} \in G
      BY <1>4, <2>1
    <2> QED BY <2>2
  <1> HIDE DEF H
  <1>5. Nat \subseteq H
    BY <1>3, <1>4, NatSetInduction
  <1>6. ASSUME NEW s \in SUBSET S PROVE s \in G
    <2>1. Cardinality(s) \in H /\ s \in UpTo(Cardinality(s))
      BY <1>1, <1>5
    <2> QED BY <2>1 DEF H
  <1> QED BY <1>6

(* A sum of amounts, as the fold of the library computes it: by a function on
   the subsets that takes one element away at a time. *)
First(s) == CHOOSE x \in s : TRUE

Sums(g, D) == g = [s \in D |-> IF s = {} THEN 0 ELSE Amount[First(s)] + g[s \ {First(s)}]]

SumOn(S) == CHOOSE g : Sums(g, SUBSET S)

Total(S) == MapThenSumSet(LAMBDA p : Amount[p], S)

LEMMA TotalIs == \A S : Total(S) = SumOn(S)[S]
  BY DEF Total, MapThenSumSet, MapThenFoldSet, Sums, SumOn, First

LEMMA FirstIn == \A s : s # {} => First(s) \in s
  BY DEF First

(* The recursion has a solution: one for each size, by extension. *)
LEMMA SumsExist ==
    ASSUME NEW S, IsFiniteSet(S)
    PROVE  Sums(SumOn(S), SUBSET S)
  <1> DEFINE UpTo(n) == {s \in SUBSET S : Cardinality(s) <= n}
             H == {n \in Nat : \E g : Sums(g, UpTo(n))}
  <1>1. \A s \in SUBSET S : IsFiniteSet(s) /\ Cardinality(s) \in Nat
    BY FS_Subset, FS_CardinalityType
  <1>2. \A s \in SUBSET S : \A x \in s : Cardinality(s \ {x}) = Cardinality(s) - 1
    BY <1>1, FS_RemoveElement
  <1>3. 0 \in H
    <2>1. \A s \in UpTo(0) : s = {}
      BY <1>1, FS_EmptySet
    <2> DEFINE g == [s \in UpTo(0) |-> 0]
    <2>2. Sums(g, UpTo(0))
      BY <2>1 DEF Sums
    <2> QED BY <2>2
  <1>4. ASSUME NEW n \in Nat, n \in H PROVE n + 1 \in H
    <2>1. PICK g : Sums(g, UpTo(n))
      BY <1>4
    <2> DEFINE h == [s \in UpTo(n + 1) |->
                       IF s = {} THEN 0 ELSE Amount[First(s)] + g[s \ {First(s)}]]
    <2>2. \A s \in UpTo(n + 1) : s # {} => s \ {First(s)} \in UpTo(n)
      BY <1>1, <1>2, FirstIn
    <2>3. UpTo(n) \subseteq UpTo(n + 1)
      BY <1>1
    <2>4. \A s \in UpTo(n) : g[s] = IF s = {} THEN 0 ELSE Amount[First(s)] + g[s \ {First(s)}]
      BY <2>1 DEF Sums
    <2>5. \A s \in UpTo(n + 1) : h[s] = IF s = {} THEN 0 ELSE Amount[First(s)] + g[s \ {First(s)}]
      OBVIOUS
    <2>6. \A s \in UpTo(n) : h[s] = g[s]
      BY <2>3, <2>4, <2>5
    <2>7. Sums(h, UpTo(n + 1))
      <3> DEFINE D == UpTo(n + 1)
      <3>1. \A s \in D : s # {} => h[s \ {First(s)}] = g[s \ {First(s)}]
        BY <2>2, <2>6
      <3> HIDE DEF UpTo
      <3> QED BY <3>1 DEF Sums
    <2> HIDE DEF h
    <2>8. n + 1 \in Nat
      BY <1>4
    <2> QED BY <2>7, <2>8
  <1>5. Nat \subseteq H
    <2> HIDE DEF H
    <2> QED BY <1>3, <1>4, NatSetInduction
  <1>6. Cardinality(S) \in H
    BY <1>1, <1>5
  <1>7. UpTo(Cardinality(S)) = SUBSET S
    <2>1. \A s \in SUBSET S : Cardinality(s) <= Cardinality(S)
      BY FS_Subset
    <2> QED BY <2>1
  <1>8. \E g : Sums(g, SUBSET S)
    BY <1>6, <1>7
  <1> QED BY <1>8 DEF SumOn

LEMMA SumUnfolds ==
    ASSUME NEW S, IsFiniteSet(S)
    PROVE  /\ SumOn(S)[{}] = 0
           /\ \A s \in SUBSET S : s # {} =>
                 SumOn(S)[s] = Amount[First(s)] + SumOn(S)[s \ {First(s)}]
  <1> DEFINE g == SumOn(S)
  <1>1. g = [s \in SUBSET S |-> IF s = {} THEN 0 ELSE Amount[First(s)] + g[s \ {First(s)}]]
    BY SumsExist DEF Sums
  <1> HIDE DEF g
  <1>2. {} \in SUBSET S
    OBVIOUS
  <1>3. g[{}] = 0
    BY <1>1, <1>2
  <1>4. ASSUME NEW s \in SUBSET S, s # {} PROVE g[s] = Amount[First(s)] + g[s \ {First(s)}]
    BY <1>1, <1>4
  <1> QED BY <1>3, <1>4 DEF g

LEMMA SumTyped ==
    ASSUME NEW S \in SUBSET Payments, IsFiniteSet(S)
    PROVE  \A s \in SUBSET S : SumOn(S)[s] \in Int
  <1> DEFINE G == {s \in SUBSET S : SumOn(S)[s] \in Int}
  <1>1. ASSUME NEW s \in SUBSET S, \A x \in s : s \ {x} \in G PROVE s \in G
    <2>1. CASE s = {}
      BY <2>1, SumUnfolds
    <2>2. CASE s # {}
      <3>1. First(s) \in s /\ Amount[First(s)] \in Int
        BY <2>2, FirstIn, ConstantsAssumption
      <3>2. SumOn(S)[s \ {First(s)}] \in Int
        BY <1>1, <3>1
      <3>3. SumOn(S)[s] = Amount[First(s)] + SumOn(S)[s \ {First(s)}]
        BY <2>2, SumUnfolds
      <3> QED BY <3>1, <3>2, <3>3
    <2> QED BY <2>1, <2>2
  <1> HIDE DEF G
  <1>2. SUBSET S \subseteq G
    BY <1>1, SubsetInduction
  <1> QED BY <1>2 DEF G

(* The sum of a set does not depend on the set it was computed within. *)
LEMMA SumAgrees ==
    ASSUME NEW S, IsFiniteSet(S), NEW T \in SUBSET S
    PROVE  SumOn(T)[T] = SumOn(S)[T]
  <1> DEFINE G == {s \in SUBSET T : SumOn(T)[s] = SumOn(S)[s]}
  <1>0. IsFiniteSet(T)
    BY FS_Subset
  <1>1. ASSUME NEW s \in SUBSET T, \A x \in s : s \ {x} \in G PROVE s \in G
    <2>1. CASE s = {}
      BY <1>0, <2>1, SumUnfolds
    <2>2. CASE s # {}
      <3>1. First(s) \in s
        BY <2>2, FirstIn
      <3>2. SumOn(T)[s \ {First(s)}] = SumOn(S)[s \ {First(s)}]
        BY <1>1, <3>1
      <3>3. SumOn(T)[s] = Amount[First(s)] + SumOn(T)[s \ {First(s)}]
        BY <1>0, <2>2, SumUnfolds
      <3>4. s \in SUBSET S
        OBVIOUS
      <3>5. SumOn(S)[s] = Amount[First(s)] + SumOn(S)[s \ {First(s)}]
        BY <2>2, <3>4, SumUnfolds
      <3> QED BY <3>2, <3>3, <3>5
    <2> QED BY <2>1, <2>2
  <1> HIDE DEF G
  <1>2. SUBSET T \subseteq G
    BY <1>0, <1>1, SubsetInduction
  <1> QED BY <1>2 DEF G

(* Nor on the order in which the elements were taken away. *)
LEMMA SumWithout ==
    ASSUME NEW S \in SUBSET Payments, IsFiniteSet(S)
    PROVE  \A s \in SUBSET S : \A y \in s : SumOn(S)[s] = SumOn(S)[s \ {y}] + Amount[y]
  <1> DEFINE g == SumOn(S)
             G == {s \in SUBSET S : \A y \in s : g[s] = g[s \ {y}] + Amount[y]}
  <1>0. \A s \in SUBSET S : g[s] \in Int
    BY SumTyped
  <1>00. \A s \in SUBSET S : s # {} => g[s] = Amount[First(s)] + g[s \ {First(s)}]
    BY SumUnfolds
  <1> HIDE DEF g
  <1>1. ASSUME NEW s \in SUBSET S, \A x \in s : s \ {x} \in G PROVE s \in G
    <2> SUFFICES ASSUME NEW y \in s PROVE g[s] = g[s \ {y}] + Amount[y]
      OBVIOUS
    <2> DEFINE x == First(s)
    <2>1. x \in s
      BY FirstIn
    <2>2. g[s] = Amount[x] + g[s \ {x}]
      BY <1>00
    <2> HIDE DEF x
    <2>3. Amount[x] \in Int /\ Amount[y] \in Int
      BY <2>1, ConstantsAssumption
    <2>4. CASE x = y
      <3>1. s \ {y} \in SUBSET S
        OBVIOUS
      <3>2. g[s \ {y}] \in Int
        BY <1>0, <3>1
      <3> QED BY <2>2, <2>3, <2>4, <3>2
    <2>5. CASE x # y
      <3> DEFINE a == g[s \ {x}]
                 b == g[s \ {y}]
                 c == g[(s \ {x}) \ {y}]
      <3>1. a = c + Amount[y]
        BY <1>1, <2>1, <2>5
      <3>2. b = g[(s \ {y}) \ {x}] + Amount[x]
        BY <1>1, <2>1, <2>5
      <3>3. (s \ {x}) \ {y} = (s \ {y}) \ {x}
        OBVIOUS
      <3>4. (s \ {x}) \ {y} \in SUBSET S
        OBVIOUS
      <3>5. c \in Int
        BY <1>0, <3>4
      <3>6. b = c + Amount[x]
        BY <3>2, <3>3
      <3>7. g[s] = Amount[x] + a
        BY <2>2
      <3> HIDE DEF a, b, c
      <3>8. g[s] = b + Amount[y]
        BY <2>3, <3>1, <3>5, <3>6, <3>7
      <3> QED BY <3>8 DEF b
    <2> QED BY <2>4, <2>5
  <1> HIDE DEF G
  <1>2. SUBSET S \subseteq G
    BY <1>1, SubsetInduction
  <1> QED BY <1>2 DEF G, g

LEMMA TotalAdds ==
    ASSUME NEW S \in SUBSET Payments, IsFiniteSet(S)
    PROVE  /\ Total({}) = 0
           /\ Total(S) \in Int
           /\ \A y \in Payments \ S : Total(S \cup {y}) = Total(S) + Amount[y]
  <1>1. Total({}) = 0
    BY TotalIs, SumUnfolds, FS_EmptySet
  <1>2. Total(S) \in Int
    BY TotalIs, SumTyped
  <1>3. ASSUME NEW y \in Payments \ S PROVE Total(S \cup {y}) = Total(S) + Amount[y]
    <2> DEFINE T == S \cup {y}
    <2>1. /\ IsFiniteSet(T) /\ T \in SUBSET Payments /\ S \in SUBSET T
          /\ y \in T /\ T \ {y} = S /\ T \in SUBSET T
      BY FS_AddElement
    <2> HIDE DEF T
    <2>2. SumOn(T)[T] = SumOn(T)[S] + Amount[y]
      BY <2>1, SumWithout
    <2>3. SumOn(T)[S] = SumOn(S)[S]
      BY <2>1, SumAgrees
    <2> QED BY <2>2, <2>3, TotalIs DEF T
  <1> QED BY <1>1, <1>2, <1>3

-----------------------------------------------------------------------------
(* The books *)

Balanced(k) ==
    licenses[k].balance = licenses[k].opening - licenses[k].claimed + Total(CreditsOf(k))

(* A sum is the sum of its parts for a finite set only: at any time finitely
   many payments are booked to a licence, however many there may be. *)
BooksInv == \A k \in Keys : IsFiniteSet(CreditsOf(k)) /\ Balanced(k)

LEMMA BooksBalanced == Books <=> \A k \in Keys : Balanced(k)
  BY DEF Books, Balanced, Total, MapThenSumSet, MapThenFoldSet

LEMMA BooksInit == Init => BooksInv
  <1> SUFFICES ASSUME Init, NEW k \in Keys PROVE IsFiniteSet(CreditsOf(k)) /\ Balanced(k)
    BY DEF BooksInv
  <1>1. CreditsOf(k) = {}
    BY DEF Init, NoPayment, CreditsOf
  <1>2. Total({}) = 0
    BY FS_EmptySet, TotalAdds
  <1>3. licenses[k].balance = 0 /\ licenses[k].opening = 0 /\ licenses[k].claimed = 0
    BY DEF Init, NoLicense
  <1> QED BY <1>1, <1>2, <1>3, FS_EmptySet DEF Balanced

(* A licence keeps its credits unless one is booked. *)
LEMMA CreditsStay ==
    ASSUME TypeOK, BillingInv, [Next]_vars, ~\E w \in Workers : Credit(w), NEW k \in Keys
    PROVE  CreditsOf(k)' = CreditsOf(k)
  <1>1. ASSUME NEW p \in Payments
        PROVE  payments'[p].credited /\ payments'[p].key = k <=> payments[p].credited /\ payments[p].key = k
    <2>1. payments'[p].credited = payments[p].credited
      BY CreditedStep
    <2>2. payments[p].credited => payments'[p].key = payments[p].key
      BY PaymentSteps
    <2> QED BY <2>1, <2>2
  <1> QED BY <1>1 DEF CreditsOf

(* Nothing is booked to a licence before it exists. *)
LEMMA NoCreditsYet ==
    ASSUME BillingInv, NEW k \in Keys, k \notin Existing
    PROVE  CreditsOf(k) = {}
  BY DEF BillingInv, CreditedIsPaid, LicensesOf, CreditsOf

LEMMA BooksStep ==
    ASSUME TypeOK, BillingInv, BooksInv, [Next]_vars
    PROVE  BooksInv'
  <1> SUFFICES ASSUME NEW k \in Keys PROVE IsFiniteSet(CreditsOf(k))' /\ Balanced(k)'
    BY DEF BooksInv
  <1> DEFINE Same == /\ licenses'[k].balance = licenses[k].balance
                     /\ licenses'[k].opening = licenses[k].opening
                     /\ licenses'[k].claimed = licenses[k].claimed
             New == /\ k \notin Existing /\ licenses'[k].claimed = 0
                    /\ licenses'[k].balance \in Int
                    /\ licenses'[k].balance = licenses'[k].opening
             Charged == /\ licenses'[k].balance = licenses[k].balance - 1
                        /\ licenses'[k].opening = licenses[k].opening
                        /\ licenses'[k].claimed = licenses[k].claimed + 1
  <1>1. /\ IsFiniteSet(CreditsOf(k)) /\ CreditsOf(k) \in SUBSET Payments
        /\ licenses[k] \in License
        /\ licenses[k].balance \in Int /\ licenses[k].opening \in Int /\ licenses[k].claimed \in Int
        /\ licenses[k].balance = licenses[k].opening - licenses[k].claimed + Total(CreditsOf(k))
    BY DEF BooksInv, Balanced, CreditsOf, TypeOK, License
  <1>2. Total(CreditsOf(k)) \in Int /\ Total({}) = 0
    BY <1>1, TotalAdds
  <1>3. ASSUME NEW w \in Workers, RegisterCommit(w) PROVE Same \/ New
    <2>1. job[w].key \in Keys /\ job[w].key \notin Existing
      BY <1>3, JobKeys DEF RegisterCommit, BillingInv, FreshIds, Unborn, Existing
    <2>2. licenses' = [licenses EXCEPT ![job[w].key] = [NoLicense EXCEPT !.born = NextRank]]
      BY <1>3 DEF RegisterCommit
    <2>3. CASE k = job[w].key
      BY <2>1, <2>2, <2>3 DEF TypeOK, NoLicense
    <2>4. CASE k # job[w].key
      BY <2>2, <2>4 DEF TypeOK
    <2> QED BY <2>3, <2>4
  <1>4. ASSUME NEW w \in Workers, RotateCommit(w) PROVE Same \/ New
    <2>1. /\ job[w].key \in Keys /\ job[w].new \in Keys /\ job[w].new \notin Existing
          /\ job[w].carry \in Int
      BY <1>4, JobKeys DEF RotateCommit, BillingInv, FreshIds, Unborn, Existing, Job, JobRecord
    <2>2. CASE licenses' = licenses
      BY <2>2
    <2>3. CASE licenses' = Rotated(job[w].key, job[w].new, job[w].carry)
      <3>1. CASE k = job[w].new
        <4>1. licenses'[k] = [NoLicense EXCEPT !.born = NextRank, !.active = TRUE,
                                !.balance = job[w].carry, !.opening = job[w].carry]
          BY <2>1, <2>3, <3>1 DEF Rotated, TypeOK
        <4> QED BY <2>1, <3>1, <4>1 DEF NoLicense
      <3>2. CASE k # job[w].new
        BY <2>1, <2>3, <3>2 DEF Rotated, TypeOK, License
      <3> QED BY <3>1, <3>2
    <2> QED BY <1>4, <2>2, <2>3 DEF RotateCommit
  <1>5. ASSUME NEW w \in Workers, SwitchOn(w) \/ SwitchOff(w) PROVE Same
    <2> DEFINE j == job[w].key
    <2>1. \/ licenses' = licenses
          \/ \E on \in BOOLEAN : licenses' = [licenses EXCEPT ![j].active = on]
      BY <1>5 DEF SwitchOn, SwitchOff
    <2> HIDE DEF j
    <2> QED BY <1>1, <2>1 DEF TypeOK, License
  <1>6. ASSUME NEW j \in Keys, ScanPause(j) \/ Ban(j) PROVE Same
    <2>1. ScanPause(j) => licenses' = [licenses EXCEPT ![j].active = FALSE]
      BY DEF ScanPause
    <2>2. Ban(j) => licenses' = [licenses EXCEPT ![j].banned = TRUE]
      BY DEF Ban
    <2> QED BY <1>1, <1>6, <2>1, <2>2 DEF TypeOK, License
  <1>7. ASSUME NEW j \in Keys, Convert(j) PROVE Same \/ Charged
    <2>1. licenses' = [licenses EXCEPT ![j].balance = @ - 1, ![j].claimed = @ + 1]
      BY <1>7 DEF Convert
    <2>2. CASE j = k
      BY <1>1, <2>1, <2>2 DEF TypeOK, License
    <2>3. CASE j # k
      BY <2>1, <2>3 DEF TypeOK
    <2> QED BY <2>2, <2>3
  <1>8. CASE \E w \in Workers : Credit(w)
    <2>1. PICK w \in Workers : Credit(w)
      BY <1>8
    <2> DEFINE p == job[w].payment
               to == job[w].key
    <2>2. p \in Payments /\ to \in Keys /\ ~payments[p].credited
      BY <2>1, JobKeys DEF Credit, BillingInv, LearntHolds, Learnt
    <2>3. CASE UNCHANGED <<licenses, payments>>
      <3>1. CreditsOf(k)' = CreditsOf(k)
        BY <2>3 DEF CreditsOf
      <3> QED BY <1>1, <2>3, <3>1 DEF Balanced
    <2>4. CASE /\ licenses' = [licenses EXCEPT ![to] = Credited(licenses[to], Amount[p])]
               /\ payments' = [payments EXCEPT ![p] = Latched(@, to)]
      <3>1. payments[p] \in Payment /\ Amount[p] \in Int
        BY <2>2, ConstantsAssumption DEF TypeOK
      <3>2. Latched(payments[p], to).credited /\ Latched(payments[p], to).key = to
        BY <3>1 DEF Latched, Payment
      <3> HIDE DEF p, to
      <3>3. /\ payments'[p].credited /\ payments'[p].key = to
            /\ \A q \in Payments \ {p} : payments'[q] = payments[q]
        BY <2>2, <2>4, <3>2 DEF TypeOK
      <3>4. p \in Payments \ CreditsOf(k)
        BY <2>2 DEF CreditsOf
      <3>5. CASE k = to
        <4>1. CreditsOf(k)' = CreditsOf(k) \cup {p}
          BY <2>2, <3>3, <3>5 DEF CreditsOf
        <4>2. /\ Credited(licenses[k], Amount[p]).balance = licenses[k].balance + Amount[p]
              /\ Credited(licenses[k], Amount[p]).opening = licenses[k].opening
              /\ Credited(licenses[k], Amount[p]).claimed = licenses[k].claimed
          BY <1>1 DEF Credited, License
        <4>3. licenses'[k] = Credited(licenses[k], Amount[p])
          BY <2>4, <3>5 DEF TypeOK
        <4>4. Total(CreditsOf(k) \cup {p}) = Total(CreditsOf(k)) + Amount[p]
          BY <1>1, <3>4, TotalAdds
        <4>5. IsFiniteSet(CreditsOf(k) \cup {p})
          BY <1>1, FS_AddElement
        <4>6. licenses'[k].balance = licenses'[k].opening - licenses'[k].claimed
                                       + Total(CreditsOf(k) \cup {p})
          BY <1>1, <1>2, <3>1, <4>2, <4>3, <4>4
        <4> QED BY <4>1, <4>5, <4>6 DEF Balanced
      <3>6. CASE k # to
        <4>1. CreditsOf(k)' = CreditsOf(k)
          BY <2>2, <3>3, <3>6 DEF CreditsOf
        <4>2. licenses'[k] = licenses[k]
          BY <2>4, <3>6 DEF TypeOK
        <4> QED BY <1>1, <4>1, <4>2 DEF Balanced
      <3> QED BY <3>5, <3>6
    <2> QED BY <2>1, <2>3, <2>4 DEF Credit
  <1>9. CASE ~\E w \in Workers : Credit(w)
    <2>1. CreditsOf(k)' = CreditsOf(k)
      BY <1>9, CreditsStay
    <2>2. Same \/ New \/ Charged
      <3>1. licenses' = licenses => Same
        OBVIOUS
      <3> HIDE DEF Same, New, Charged
      <3> QED BY <1>3, <1>4, <1>5, <1>6, <1>7, <1>9, <3>1, LicenseWrites
    <2>3. k \notin Existing => CreditsOf(k) = {}
      BY NoCreditsYet
    <2>4. licenses'[k].balance = licenses'[k].opening - licenses'[k].claimed + Total(CreditsOf(k))
      <3> DEFINE total == Total(CreditsOf(k))
      <3>1. k \notin Existing => total = 0
        BY <1>2, <2>3
      <3>2. total \in Int /\ licenses[k].balance = licenses[k].opening - licenses[k].claimed + total
        BY <1>1, <1>2
      <3> HIDE DEF total
      <3>3. licenses'[k].balance = licenses'[k].opening - licenses'[k].claimed + total
        BY <1>1, <2>2, <3>1, <3>2
      <3> QED BY <3>3 DEF total
    <2> QED BY <1>1, <2>1, <2>4 DEF Balanced
  <1> QED BY <1>8, <1>9

(* A balance can be accounted for from the tables alone, whatever requests,
   rotations, webhooks and claims run together and whichever of them fail: it
   is what the row began with, plus the amounts of the payments booked to it,
   less the claims charged to it. *)
THEOREM BooksAddUp == Spec => []Books
  <1>1. Init => BooksInv
    BY BooksInit
  <1>2. TypeOK /\ BillingInv /\ BooksInv /\ [Next]_vars => BooksInv'
    BY BooksStep
  <1>3. BooksInv => Books
    BY BooksBalanced DEF BooksInv
  <1> QED BY <1>1, <1>2, <1>3, TypeCorrect, BillingCorrect, PTL DEF Spec
=============================================================================
