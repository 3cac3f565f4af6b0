---------------------------- MODULE ConversionProofs ----------------------------
(***************************************************************************)
(* What Conversions keeps, for any number of users, codes and licences:    *)
(* its types, the notices, the first-claim alerts, and that a claim counts *)
(* once. ClaimProofs carries it over to the behaviours of ClaimPipeline.   *)
(***************************************************************************)
EXTENDS Conversions, FiniteSetTheorems, TLAPS

(* What any step of the pipeline does to the variables of this component. *)
MoneyStep == \/ \E c \in Claims, a \in Accounts : Enqueue(c, a) \/ Overflow(c, a)
             \/ ConversionWork \/ ForgetConversions \/ UNCHANGED conversionVars

LEMMA AtWork ==
    ASSUME ConversionTypeOK, worker.pc # "idle"
    PROVE  /\ worker \in [pc: {"rate", "updated"}, item: Item]
           /\ worker.item.claim \in Claims /\ worker.item.claim[2] \in Codes
           /\ worker.item.account \in Accounts
  <1>1. worker \in [pc: {"rate", "updated"}, item: Item]
    BY DEF ConversionTypeOK
  <1>2. worker.item \in Item
    BY <1>1
  <1> QED BY <1>1, <1>2 DEF Item, Claims

(* What the notice of a licence still has to tell. *)
Coming(l) == IF notice[l] = None THEN 0 ELSE notice[l].total

(* Recording a deduction leaves it to be told, and one timer to tell it.   *)
LEMMA NoticeRecorded ==
    ASSUME ConversionTypeOK, NEW l \in Licenses, RecordNotice(l)
    PROVE  /\ notice' \in [Licenses -> Notice \cup {None}]
           /\ timers' \in [Licenses -> Nat] /\ told' \in [Licenses -> Nat]
           /\ told'[l] + Coming(l)' = told[l] + Coming(l) + 1
           /\ timers'[l] = IF notice'[l] = None THEN 0 ELSE 1
           /\ \A k \in Licenses \ {l} : /\ notice'[k] = notice[k] /\ timers'[k] = timers[k]
                                        /\ told'[k] = told[k]
  <1>1. /\ notice \in [Licenses -> Notice \cup {None}] /\ balance \in [Licenses -> Int]
        /\ timers \in [Licenses -> Nat] /\ told \in [Licenses -> Nat]
    BY DEF ConversionTypeOK
  <1>2. notice[l] \in Notice \cup {None} /\ told[l] \in Nat /\ balance[l] \in Int
    BY <1>1
  <1>3. Grown(l) \in Notice /\ Grown(l).total = Coming(l) + 1
    <2>1. CASE notice[l] = None
      BY <1>2, <2>1 DEF Grown, Coming, Notice
    <2>2. CASE notice[l] # None
      BY <1>2, <2>2 DEF Grown, Coming, Notice
    <2> QED BY <2>1, <2>2
  <1>4. Coming(l) \in Nat
    BY <1>2 DEF Coming, Notice
  <1> DEFINE g == Grown(l)
  <1>5. g \in Notice /\ g.total = Coming(l) + 1 /\ g # None
    BY <1>3, NoNotice
  <1>6. \/ /\ notice' = [notice EXCEPT ![l] = g]
           /\ timers' = [timers EXCEPT ![l] = 1] /\ told' = told
        \/ /\ notice' = [notice EXCEPT ![l] = None]
           /\ timers' = [timers EXCEPT ![l] = 0]
           /\ told' = [told EXCEPT ![l] = @ + g.total]
    BY DEF RecordNotice
  <1> HIDE DEF g
  <1>7. CASE /\ notice' = [notice EXCEPT ![l] = g]
             /\ timers' = [timers EXCEPT ![l] = 1] /\ told' = told
    BY <1>1, <1>2, <1>4, <1>5, <1>7 DEF Coming
  <1>8. CASE /\ notice' = [notice EXCEPT ![l] = None]
             /\ timers' = [timers EXCEPT ![l] = 0]
             /\ told' = [told EXCEPT ![l] = @ + g.total]
    BY <1>1, <1>2, <1>4, <1>5, <1>8 DEF Coming
  <1> QED BY <1>6, <1>7, <1>8

LEMMA UpdateTyped ==
    ASSUME ConversionTypeOK, WorkerUpdates
    PROVE  ConversionTypeOK'
  <1> DEFINE a == worker.item.account
             c == worker.item.claim
  <1>1. /\ worker \in [pc: {"rate", "updated"}, item: Item]
        /\ c \in Claims /\ c[2] \in Codes /\ a \in Accounts
    BY AtWork DEF WorkerUpdates
  <1>2. worker' \in [pc: {"rate", "updated"}, item: Item]
    BY <1>1 DEF WorkerUpdates
  <1>3. /\ notice' \in [Licenses -> Notice \cup {None}]
        /\ timers' \in [Licenses -> Nat] /\ told' \in [Licenses -> Nat]
    <2>1. CASE a \in Prepaid
      BY <2>1, NoticeRecorded, ConversionConstants DEF WorkerUpdates
    <2>2. CASE a \notin Prepaid
      BY <2>2 DEF WorkerUpdates, noticeVars, ConversionTypeOK
    <2> QED BY <2>1, <2>2
  <1>4. writing' \in Seq(Claims) /\ Len(writing') <= WriteMax /\ history' = history
    BY <1>1, ConversionConstants DEF WorkerUpdates, RecordHistory, ConversionTypeOK
  <1>5. alerts' \in [Codes -> Nat]
    BY <1>1 DEF WorkerUpdates, AlertFirst, ConversionTypeOK
  <1>6. UNCHANGED <<marks, queue, base, forgets, rows, credited, balance, counts, errors, dropped>>
    BY DEF WorkerUpdates, producerVars, ledgerVars
  <1> QED BY <1>2, <1>3, <1>4, <1>5, <1>6 DEF ConversionTypeOK

LEMMA ConversionTyped == ConversionTypeOK /\ MoneyStep => ConversionTypeOK'
  <1> SUFFICES ASSUME ConversionTypeOK, MoneyStep PROVE ConversionTypeOK'
    OBVIOUS
  <1>1. ASSUME NEW c \in Claims, NEW a \in Accounts, Enqueue(c, a) PROVE ConversionTypeOK'
    <2>1. [claim |-> c, account |-> a] \in Item
      BY DEF Item
    <2>2. queue' \in Seq(Item) /\ Len(queue') <= QueueMax
      BY <1>1, <2>1, ConversionConstants DEF Enqueue, Full, ConversionTypeOK
    <2> QED BY <1>1, <2>2 DEF Enqueue, workVars, ConversionTypeOK
  <1>2. ASSUME NEW c \in Claims, NEW a \in Accounts, Overflow(c, a) PROVE ConversionTypeOK'
    BY <1>2 DEF Overflow, workVars, ConversionTypeOK
  <1>3. CASE WorkerTake
    <2>1. /\ Head(queue) \in Item /\ Tail(queue) \in Seq(Item) /\ Len(Tail(queue)) <= QueueMax
      BY <1>3, ConversionConstants DEF WorkerTake, ConversionTypeOK
    <2> QED BY <1>3, <2>1 DEF WorkerTake, ledgerVars, noticeVars, historyVars, ConversionTypeOK
  <1>4. Idle \in [pc: {"idle"}, item: {None}]
    BY DEF Idle
  <1>5. CASE WorkerSkips \/ WorkerRollsBack
    <2>1. /\ worker.item.claim \in Claims /\ worker' = Idle /\ errors < MaxErrors /\ errors' = errors + 1
          /\ dropped' = dropped \cup {worker.item.claim}
      BY <1>5, AtWork DEF WorkerSkips, WorkerRollsBack
    <2>2. errors' \in 0..MaxErrors
      BY <2>1, ConversionConstants DEF ConversionTypeOK
    <2> QED BY <1>4, <1>5, <2>1, <2>2
         DEF WorkerSkips, WorkerRollsBack, producerVars, ledgerVars, noticeVars, historyVars, ConversionTypeOK
  <1>6. CASE WorkerFindsNoRow
    <2>1. worker.item.claim \in Claims /\ worker.item.claim[2] \in Codes
      BY <1>6, AtWork DEF WorkerFindsNoRow
    <2>2. counts' \in [Codes -> Nat]
      BY <1>6, <2>1 DEF WorkerFindsNoRow, ConversionTypeOK
    <2> QED BY <1>4, <1>6, <2>1, <2>2
         DEF WorkerFindsNoRow, producerVars, noticeVars, historyVars, ConversionTypeOK
  <1>7. CASE WorkerCommits
    <2> DEFINE c == worker.item.claim
               a == worker.item.account
    <2>1. c \in Claims /\ c[2] \in Codes
      BY <1>7, AtWork DEF WorkerCommits
    <2>2. /\ credited' = [credited EXCEPT ![c] = @ + 1]
          /\ counts' = [counts EXCEPT ![c[2]] = @ + 1]
          /\ balance' = IF a \in Prepaid THEN [balance EXCEPT ![a] = @ - 1] ELSE balance
      BY <1>7 DEF WorkerCommits
    <2>3. /\ counts \in [Codes -> Nat] /\ credited \in [Claims -> Nat]
          /\ balance \in [Licenses -> Int]
      BY DEF ConversionTypeOK
    <2> HIDE DEF c, a
    <2>4. counts' \in [Codes -> Nat] /\ credited' \in [Claims -> Nat]
      BY <2>1, <2>2, <2>3
    <2>5. balance' \in [Licenses -> Int]
      <3>1. CASE a \in Prepaid
        <4>1. a \in Licenses /\ balance[a] - 1 \in Int
          BY <2>3, <3>1, ConversionConstants
        <4>2. balance' = [balance EXCEPT ![a] = balance[a] - 1]
          BY <2>2, <3>1
        <4> QED BY <2>3, <4>1, <4>2
      <3>2. CASE a \notin Prepaid
        BY <2>2, <2>3, <3>2
      <3> QED BY <3>1, <3>2
    <2> QED BY <1>4, <1>7, <2>4, <2>5
         DEF WorkerCommits, producerVars, noticeVars, historyVars, ConversionTypeOK
  <1>8. ASSUME NEW l \in Licenses, Flush(l) PROVE ConversionTypeOK'
    <2>1. /\ notice \in [Licenses -> Notice \cup {None}]
          /\ timers \in [Licenses -> Nat] /\ told \in [Licenses -> Nat]
      BY DEF ConversionTypeOK
    <2>2. /\ notice' \in [Licenses -> Notice \cup {None}] /\ timers' \in [Licenses -> Nat]
      BY <1>8, <2>1 DEF Flush
    <2>3. told' \in [Licenses -> Nat]
      <3>1. CASE notice[l] = None
        BY <1>8, <2>1, <3>1 DEF Flush
      <3>2. CASE notice[l] # None
        <4>1. notice[l].total \in Nat
          BY <2>1, <3>2 DEF Notice
        <4> QED BY <1>8, <2>1, <3>2, <4>1 DEF Flush
      <3> QED BY <3>1, <3>2
    <2> QED BY <1>8, <2>2, <2>3 DEF Flush, producerVars, ledgerVars, historyVars, ConversionTypeOK
  <1>9. CASE FlushBatch
    <2>1. writing \in Seq(Claims) /\ history \subseteq Claims /\ WriteMax \in Nat
      BY ConversionConstants DEF ConversionTypeOK
    <2>2. \A i \in DOMAIN writing : writing[i] \in Claims
      BY <2>1
    <2>3. writing' = <<>> /\ history' \subseteq Claims
      BY <1>9, <2>1, <2>2 DEF FlushBatch
    <2>4. writing' \in Seq(Claims) /\ Len(writing') <= WriteMax
      BY <2>1, <2>3
    <2>5. errors' \in 0..MaxErrors
      BY <1>9, ConversionConstants DEF FlushBatch, ConversionTypeOK
    <2>6. UNCHANGED <<marks, queue, base, forgets, worker, rows, credited, balance, counts, alerts,
                      notice, timers, told, dropped>>
      BY <1>9 DEF FlushBatch, producerVars, ledgerVars, noticeVars
    <2> QED BY <2>3, <2>4, <2>5, <2>6 DEF ConversionTypeOK
  <1>10. ASSUME NEW c \in Claims, ExpireMark(c) PROVE ConversionTypeOK'
    BY <1>10, ConversionConstants
       DEF ExpireMark, ledgerVars, noticeVars, historyVars, ConversionTypeOK
  <1>11. ASSUME NEW a \in Accounts, RemoveRow(a) PROVE ConversionTypeOK'
    BY <1>11, ConversionConstants DEF RemoveRow, noticeVars, historyVars, ConversionTypeOK
  <1>12. CASE ForgetConversions
    <2>1. /\ notice \in [Licenses -> Notice \cup {None}] /\ told \in [Licenses -> Nat]
      BY DEF ConversionTypeOK
    <2>2. \A l \in Licenses : told[l] + (IF notice[l] = None THEN 0 ELSE notice[l].total) \in Nat
      <3> TAKE l \in Licenses
      <3>1. CASE notice[l] = None
        BY <2>1, <3>1
      <3>2. CASE notice[l] # None
        BY <2>1, <3>2 DEF Notice
      <3> QED BY <3>1, <3>2
    <2>3. told' \in [Licenses -> Nat]
      BY <1>12, <2>2 DEF ForgetConversions
    <2>4. /\ notice' \in [Licenses -> Notice \cup {None}] /\ timers' \in [Licenses -> Nat]
          /\ worker' = Idle /\ marks' = {} /\ dropped' = {} /\ base' = credited
      BY <1>12 DEF ForgetConversions
    <2>5. /\ queue' \in Seq(Item) /\ Len(queue') <= QueueMax
          /\ writing' \in Seq(Claims) /\ Len(writing') <= WriteMax
      BY <1>12, ConversionConstants DEF ForgetConversions
    <2>6. forgets' \in 0..MaxForgets
      BY <1>12, ConversionConstants DEF ForgetConversions, ConversionTypeOK
    <2>7. UNCHANGED <<rows, credited, balance, counts, alerts, history, errors>>
      BY <1>12 DEF ForgetConversions, ledgerVars
    <2> QED BY <1>4, <2>3, <2>4, <2>5, <2>6, <2>7 DEF ConversionTypeOK
  <1>13. CASE UNCHANGED conversionVars
    BY <1>13 DEF conversionVars, ConversionTypeOK
  <1> QED BY <1>1, <1>2, <1>3, <1>5, <1>6, <1>7, <1>8, <1>9, <1>10, <1>11, <1>12, <1>13,
             UpdateTyped DEF MoneyStep, ConversionWork, WorkerDone

(* What an open transaction has told of, and will deduct when it commits. *)
Owing(l) == IF worker.pc = "updated" /\ worker.item.account = l /\ l \in Prepaid THEN 1 ELSE 0

NoticeInv ==
    \A l \in Licenses :
        /\ timers[l] = IF notice[l] = None THEN 0 ELSE 1
        /\ Opening[l] - balance[l] + Owing(l) <= told[l] + Coming(l)

LEMMA NoticeKept == ConversionTypeOK /\ NoticeInv /\ MoneyStep => NoticeInv'
  <1> SUFFICES ASSUME ConversionTypeOK, NoticeInv, MoneyStep, NEW l \in Licenses
               PROVE  /\ timers'[l] = IF notice'[l] = None THEN 0 ELSE 1
                      /\ Opening[l] - balance'[l] + Owing(l)' <= told'[l] + Coming(l)'
    BY DEF NoticeInv
  <1>1. /\ notice \in [Licenses -> Notice \cup {None}] /\ balance \in [Licenses -> Int]
        /\ timers \in [Licenses -> Nat] /\ told \in [Licenses -> Nat]
    BY DEF ConversionTypeOK
  <1>2. /\ balance[l] \in Int /\ told[l] \in Nat /\ Opening[l] \in Int /\ Coming(l) \in Nat
        /\ Owing(l) \in {0, 1} /\ Owing(l)' \in {0, 1}
    <2>1. CASE notice[l] = None
      BY <1>1, <2>1, ConversionConstants DEF Coming, Owing
    <2>2. CASE notice[l] # None
      BY <1>1, <2>2, ConversionConstants DEF Coming, Owing, Notice
    <2> QED BY <2>1, <2>2
  <1>3. /\ timers[l] = IF notice[l] = None THEN 0 ELSE 1
        /\ Opening[l] - balance[l] + Owing(l) <= told[l] + Coming(l)
    BY DEF NoticeInv
  <1>4. CASE /\ UNCHANGED <<balance, timers, notice, told>> /\ Owing(l)' <= Owing(l)
    <2>1. Coming(l)' = Coming(l)
      BY <1>4 DEF Coming
    <2> QED BY <1>2, <1>3, <1>4, <2>1
  <1>5. ASSUME UNCHANGED worker PROVE Owing(l)' = Owing(l)
    BY <1>5 DEF Owing
  <1>6. ASSUME worker'.pc # "updated" PROVE Owing(l)' <= Owing(l)
    BY <1>2, <1>6 DEF Owing
  <1>7. ASSUME NEW c \in Claims, NEW a \in Accounts, Enqueue(c, a) \/ Overflow(c, a)
        PROVE  UNCHANGED <<worker, balance, timers, notice, told>>
    BY <1>7 DEF Enqueue, Overflow, workVars
  <1>8. CASE WorkerTake \/ WorkerSkips \/ WorkerFindsNoRow \/ WorkerRollsBack
    <2>1. UNCHANGED <<balance, timers, notice, told>> /\ worker'.pc # "updated"
      BY <1>8 DEF WorkerTake, WorkerSkips, WorkerFindsNoRow, WorkerRollsBack, Idle, ledgerVars, noticeVars
    <2> QED BY <1>4, <1>6, <2>1
  <1>9. CASE WorkerUpdates
    <2> DEFINE a == worker.item.account
    <2>1. /\ worker \in [pc: {"rate", "updated"}, item: Item] /\ worker.pc = "rate"
          /\ worker' = [worker EXCEPT !.pc = "updated"] /\ UNCHANGED balance
          /\ IF a \in Prepaid THEN RecordNotice(a) ELSE UNCHANGED noticeVars
      BY <1>9, AtWork DEF WorkerUpdates, ledgerVars
    <2>2. worker'.item = worker.item /\ Owing(l) = 0
      BY <2>1 DEF Owing
    <2>3. Owing(l)' = IF a = l /\ l \in Prepaid THEN 1 ELSE 0
      BY <2>1, <2>2 DEF Owing
    <2> HIDE DEF a
    <2>4. CASE a \in Prepaid /\ a = l
      <3>1. /\ told'[l] + Coming(l)' = told[l] + Coming(l) + 1
            /\ timers'[l] = IF notice'[l] = None THEN 0 ELSE 1
        BY <2>1, <2>4, NoticeRecorded
      <3>2. Owing(l)' = 1
        BY <2>3, <2>4
      <3> QED BY <1>2, <1>3, <2>1, <2>2, <3>1, <3>2
    <2>5. CASE a \in Prepaid /\ a # l
      <3>1. notice'[l] = notice[l] /\ timers'[l] = timers[l] /\ told'[l] = told[l]
        BY <2>1, <2>5, NoticeRecorded, ConversionConstants
      <3>2. Coming(l)' = Coming(l) /\ Owing(l)' = 0
        BY <2>3, <2>5, <3>1 DEF Coming
      <3> QED BY <1>2, <1>3, <2>1, <2>2, <3>1, <3>2
    <2>6. CASE a \notin Prepaid
      <3>1. UNCHANGED <<balance, timers, notice, told>>
        BY <2>1, <2>6 DEF noticeVars
      <3>2. Owing(l)' = 0
        BY <2>3, <2>6
      <3> QED BY <1>4, <2>2, <3>1, <3>2
    <2> QED BY <2>4, <2>5, <2>6
  <1>10. CASE WorkerCommits
    <2> DEFINE a == worker.item.account
    <2>1. /\ UNCHANGED <<timers, notice, told>> /\ worker.pc = "updated" /\ worker' = Idle
          /\ balance' = IF a \in Prepaid THEN [balance EXCEPT ![a] = @ - 1] ELSE balance
      BY <1>10 DEF WorkerCommits, noticeVars
    <2>2. Coming(l)' = Coming(l) /\ Owing(l)' = 0
      BY <2>1 DEF Coming, Owing, Idle
    <2>3. Owing(l) = IF a = l /\ l \in Prepaid THEN 1 ELSE 0
      BY <2>1 DEF Owing
    <2> HIDE DEF a
    <2>4. balance'[l] = balance[l] - Owing(l)
      <3>1. CASE a \in Prepaid /\ a = l
        BY <1>1, <1>2, <2>1, <2>3, <3>1
      <3>2. CASE a \in Prepaid /\ a # l
        BY <1>1, <1>2, <2>1, <2>3, <3>2
      <3>3. CASE a \notin Prepaid
        BY <1>1, <1>2, <2>1, <2>3, <3>3
      <3> QED BY <3>1, <3>2, <3>3
    <2> QED BY <1>2, <1>3, <2>1, <2>2, <2>4
  <1>11. ASSUME NEW k \in Licenses, Flush(k)
         PROVE  /\ timers'[l] = IF notice'[l] = None THEN 0 ELSE 1
                /\ Opening[l] - balance'[l] + Owing(l)' <= told'[l] + Coming(l)'
    <2>1. UNCHANGED <<balance, worker>>
      BY <1>11 DEF Flush, ledgerVars
    <2>2. CASE k = l
      <3>1. timers[l] > 0 /\ notice[l] # None /\ timers[l] = 1
        BY <1>3, <1>11, <2>2 DEF Flush
      <3>2. /\ timers'[l] = 0 /\ notice'[l] = None /\ told'[l] = told[l] + Coming(l)
        BY <1>1, <1>11, <2>2, <3>1 DEF Flush, Coming
      <3>3. Coming(l)' = 0
        BY <3>2 DEF Coming
      <3> QED BY <1>2, <1>3, <1>5, <2>1, <3>2, <3>3
    <2>3. CASE k # l
      <3>1. notice'[l] = notice[l] /\ timers'[l] = timers[l] /\ told'[l] = told[l]
        BY <1>1, <1>11, <2>3 DEF Flush
      <3>2. Coming(l)' = Coming(l)
        BY <3>1 DEF Coming
      <3> QED BY <1>2, <1>3, <1>5, <2>1, <3>1, <3>2
    <2> QED BY <2>2, <2>3
  <1>12. CASE FlushBatch \/ (\E c \in Claims : ExpireMark(c)) \/ (\E a \in Accounts : RemoveRow(a))
    <2>1. UNCHANGED <<worker, balance, timers, notice, told>>
      BY <1>12 DEF FlushBatch, ExpireMark, RemoveRow, ledgerVars, noticeVars
    <2> QED BY <1>2, <1>4, <1>5, <2>1
  <1>13. CASE ForgetConversions
    <2>1. /\ told'[l] = told[l] + Coming(l) /\ notice'[l] = None /\ timers'[l] = 0
          /\ worker' = Idle /\ UNCHANGED balance
      BY <1>13 DEF ForgetConversions, Coming, ledgerVars
    <2>2. Coming(l)' = 0 /\ Owing(l)' = 0
      BY <2>1 DEF Coming, Owing, Idle
    <2> QED BY <1>2, <1>3, <2>1, <2>2
  <1>14. CASE UNCHANGED conversionVars
    <2>1. UNCHANGED <<worker, balance, timers, notice, told>>
      BY <1>14 DEF conversionVars
    <2> QED BY <1>2, <1>4, <1>5, <2>1
  <1>15. CASE \E c \in Claims, a \in Accounts : Enqueue(c, a) \/ Overflow(c, a)
    BY <1>2, <1>4, <1>5, <1>7, <1>15
  <1> QED BY <1>8, <1>9, <1>10, <1>11, <1>12, <1>13, <1>14, <1>15
       DEF MoneyStep, ConversionWork, WorkerDone

(* The claims of a code that were credited. *)
Paid(c) == {x \in Claims : x[2] = c /\ credited[x] > 0}

LEMMA PaidFinite == \A c \in Codes : IsFiniteSet(Paid(c)) /\ Cardinality(Paid(c)) \in Nat
  <1>1. IsFiniteSet(Claims)
    BY FS_Product, PartiesAssumption DEF Claims
  <1>2. ASSUME NEW c \in Codes PROVE IsFiniteSet(Paid(c)) /\ Cardinality(Paid(c)) \in Nat
    <2>1. Paid(c) \in SUBSET Claims
      BY DEF Paid
    <2>2. IsFiniteSet(Paid(c))
      BY <1>1, <2>1, FS_Subset
    <2> QED BY <2>2, FS_CardinalityType
  <1> QED BY <1>2

(* While an alert is missing, more claims were counted than credited; the  *)
(* open transaction's claim is counted beside one that was not.            *)
AlertInv ==
    \A c \in Codes :
        /\ counts[c] >= Cardinality(Paid(c))
        /\ alerts[c] = 0 => Paid(c) = {} \/ counts[c] > Cardinality(Paid(c))
        /\ worker.pc = "updated" /\ worker.item.claim[2] = c /\ alerts[c] = 0 => counts[c] > 0

LEMMA AlertKept == ConversionTypeOK /\ AlertInv /\ MoneyStep => AlertInv'
  <1> SUFFICES ASSUME ConversionTypeOK, AlertInv, MoneyStep, NEW c \in Codes
               PROVE  /\ counts'[c] >= Cardinality(Paid(c)')
                      /\ alerts'[c] = 0 => Paid(c)' = {} \/ counts'[c] > Cardinality(Paid(c)')
                      /\ worker'.pc = "updated" /\ worker'.item.claim[2] = c /\ alerts'[c] = 0
                            => counts'[c] > 0
    BY DEF AlertInv
  <1>1. /\ counts \in [Codes -> Nat] /\ alerts \in [Codes -> Nat] /\ credited \in [Claims -> Nat]
        /\ counts[c] \in Nat /\ alerts[c] \in Nat
    BY DEF ConversionTypeOK
  <1>2. IsFiniteSet(Paid(c)) /\ Cardinality(Paid(c)) \in Nat
    BY PaidFinite
  <1>3. /\ counts[c] >= Cardinality(Paid(c))
        /\ alerts[c] = 0 => Paid(c) = {} \/ counts[c] > Cardinality(Paid(c))
        /\ worker.pc = "updated" /\ worker.item.claim[2] = c /\ alerts[c] = 0 => counts[c] > 0
    BY DEF AlertInv
  <1>4. ASSUME UNCHANGED credited PROVE Paid(c)' = Paid(c)
    BY <1>4 DEF Paid
  <1>5. CASE /\ UNCHANGED <<credited, counts, alerts>>
             /\ UNCHANGED worker \/ worker'.pc # "updated"
    BY <1>3, <1>4, <1>5
  <1>6. ASSUME NEW x \in Claims, NEW a \in Accounts, Enqueue(x, a) \/ Overflow(x, a)
        PROVE  UNCHANGED <<worker, credited, counts, alerts>>
    BY <1>6 DEF Enqueue, Overflow, workVars
  <1>7. CASE \E x \in Claims, a \in Accounts : Enqueue(x, a) \/ Overflow(x, a)
    BY <1>5, <1>6, <1>7
  <1>8. CASE WorkerTake \/ WorkerSkips \/ WorkerRollsBack
    <2>1. UNCHANGED <<credited, counts, alerts>> /\ worker'.pc # "updated"
      BY <1>8 DEF WorkerTake, WorkerSkips, WorkerRollsBack, Idle, producerVars, ledgerVars
    <2> QED BY <1>5, <2>1
  <1>9. CASE WorkerFindsNoRow
    <2>1. /\ UNCHANGED <<credited, alerts>> /\ worker'.pc # "updated"
          /\ worker.item.claim[2] \in Codes
          /\ counts' = [counts EXCEPT ![worker.item.claim[2]] = @ + 1]
      BY <1>9, AtWork DEF WorkerFindsNoRow, Idle
    <2>2. counts'[c] \in Nat /\ counts'[c] >= counts[c]
      BY <1>1, <2>1
    <2> QED BY <1>1, <1>2, <1>3, <1>4, <2>1, <2>2
  <1>10. CASE WorkerUpdates
    <2> DEFINE d == worker.item.claim[2]
    <2>1. /\ worker.pc = "rate" /\ worker' = [worker EXCEPT !.pc = "updated"]
          /\ UNCHANGED <<credited, counts>> /\ AlertFirst(d) /\ d \in Codes
          /\ worker \in [pc: {"rate", "updated"}, item: Item]
      BY <1>10, AtWork DEF WorkerUpdates, ledgerVars
    <2>2. worker'.item.claim[2] = d
      BY <2>1
    <2> HIDE DEF d
    <2>3. alerts'[c] >= alerts[c] /\ alerts'[c] \in Nat /\ (d = c /\ alerts'[c] = 0 => counts[c] # 0)
      <3>1. CASE counts[d] = 0
        BY <1>1, <2>1, <3>1 DEF AlertFirst
      <3>2. CASE counts[d] # 0
        BY <1>1, <2>1, <3>2 DEF AlertFirst
      <3> QED BY <3>1, <3>2
    <2> QED BY <1>1, <1>2, <1>3, <1>4, <2>1, <2>2, <2>3
  <1>11. CASE WorkerCommits
    <2> DEFINE x == worker.item.claim
    <2>1. /\ x \in Claims /\ x[2] \in Codes /\ worker.pc = "updated" /\ worker'.pc # "updated"
          /\ credited' = [credited EXCEPT ![x] = @ + 1]
          /\ counts' = [counts EXCEPT ![x[2]] = @ + 1] /\ UNCHANGED alerts
      BY <1>11, AtWork DEF WorkerCommits, Idle
    <2>2. x[2] = c /\ alerts[c] = 0 => counts[c] > 0
      BY <1>3, <2>1
    <2> HIDE DEF x
    <2>3. credited[x] \in Nat /\ credited'[x] = credited[x] + 1
      BY <1>1, <2>1
    <2>4. CASE x[2] = c
      <3>1. Paid(c)' = Paid(c) \cup {x}
        <4>1. \A y \in Claims : y # x => credited'[y] = credited[y]
          BY <1>1, <2>1
        <4> QED BY <2>1, <2>3, <2>4, <4>1 DEF Paid
      <3>2. /\ Cardinality(Paid(c)') \in Nat /\ Cardinality(Paid(c)') <= Cardinality(Paid(c)) + 1
        <4> DEFINE P == Paid(c)
        <4>1. IsFiniteSet(P) /\ Cardinality(P) \in Nat
          BY <1>2
        <4> HIDE DEF P
        <4>2. /\ IsFiniteSet(P \cup {x})
              /\ Cardinality(P \cup {x}) = IF x \in P THEN Cardinality(P) ELSE Cardinality(P) + 1
          BY <4>1, FS_AddElement
        <4>3. Cardinality(P \cup {x}) \in Nat /\ Cardinality(P \cup {x}) <= Cardinality(P) + 1
          BY <4>1, <4>2
        <4> QED BY <3>1, <4>3 DEF P
      <3>3. counts'[c] = counts[c] + 1
        BY <1>1, <2>1, <2>4
      <3>4. Paid(c) = {} => Cardinality(Paid(c)) = 0
        BY FS_EmptySet
      <3> QED BY <1>1, <1>2, <1>3, <2>1, <2>2, <2>4, <3>2, <3>3, <3>4
    <2>5. CASE x[2] # c
      <3>1. Paid(c)' = Paid(c)
        <4>1. \A y \in Claims : y # x => credited'[y] = credited[y]
          BY <1>1, <2>1
        <4> QED BY <2>1, <2>5, <4>1 DEF Paid
      <3>2. counts'[c] = counts[c]
        BY <1>1, <2>1, <2>5
      <3> QED BY <1>3, <2>1, <3>1, <3>2
    <2> QED BY <2>4, <2>5
  <1>12. ASSUME NEW l \in Licenses, Flush(l) PROVE UNCHANGED <<worker, credited, counts, alerts>>
    BY <1>12 DEF Flush, ledgerVars
  <1>13. CASE \/ FlushBatch \/ (\E x \in Claims : ExpireMark(x)) \/ (\E a \in Accounts : RemoveRow(a))
              \/ (\E l \in Licenses : Flush(l)) \/ UNCHANGED conversionVars
    <2>1. UNCHANGED <<worker, credited, counts, alerts>>
      BY <1>12, <1>13 DEF FlushBatch, ExpireMark, RemoveRow, ledgerVars, conversionVars
    <2> QED BY <1>5, <2>1
  <1>14. CASE ForgetConversions
    <2>1. UNCHANGED <<credited, counts, alerts>> /\ worker'.pc # "updated"
      BY <1>14 DEF ForgetConversions, ledgerVars, Idle
    <2> QED BY <1>5, <2>1
  <1> QED BY <1>7, <1>8, <1>9, <1>10, <1>11, <1>13, <1>14
       DEF MoneyStep, ConversionWork, WorkerDone

-----------------------------------------------------------------------------
(* A claim counts once. *)

(* Where a claim stands in a queue of items. *)
Places(q, c) == {i \in DOMAIN q : q[i].claim = c}

LEMMA PlacesFinite ==
    ASSUME NEW q \in Seq(Item), NEW c
    PROVE  IsFiniteSet(Places(q, c)) /\ Cardinality(Places(q, c)) \in Nat
  <1>1. Places(q, c) \in SUBSET (1..Len(q)) /\ Len(q) \in Nat
    BY DEF Places
  <1>2. IsFiniteSet(1..Len(q))
    BY <1>1, FS_Interval
  <1>3. IsFiniteSet(Places(q, c))
    BY <1>1, <1>2, FS_Subset
  <1> QED BY <1>3, FS_CardinalityType

LEMMA PlacesAppend ==
    ASSUME NEW q \in Seq(Item), NEW item \in Item, NEW c
    PROVE  Cardinality(Places(Append(q, item), c))
             = Cardinality(Places(q, c)) + (IF item.claim = c THEN 1 ELSE 0)
  <1> DEFINE n == Len(q) + 1
             P == Places(q, c)
  <1>1. /\ Append(q, item) \in Seq(Item) /\ DOMAIN Append(q, item) = 1..n
        /\ Append(q, item)[n] = item /\ n \in Nat
        /\ \A i \in 1..Len(q) : Append(q, item)[i] = q[i]
        /\ DOMAIN q = 1..Len(q) /\ Len(q) \in Nat
    OBVIOUS
  <1>2. Places(Append(q, item), c) = P \cup (IF item.claim = c THEN {n} ELSE {})
    BY <1>1 DEF Places
  <1>3. n \notin P
    BY <1>1 DEF Places
  <1>4. IsFiniteSet(P) /\ Cardinality(P) \in Nat
    BY PlacesFinite
  <1> HIDE DEF P, n
  <1>5. CASE item.claim = c
    <2>1. Cardinality(P \cup {n}) = Cardinality(P) + 1
      BY <1>3, <1>4, FS_AddElement
    <2> QED BY <1>2, <1>5, <2>1 DEF P
  <1>6. CASE item.claim # c
    <2>1. Places(Append(q, item), c) = P
      BY <1>2, <1>6
    <2> QED BY <1>4, <1>6, <2>1 DEF P
  <1> QED BY <1>5, <1>6

LEMMA PlacesTail ==
    ASSUME NEW q \in Seq(Item), q # <<>>, NEW c
    PROVE  Cardinality(Places(q, c))
             = Cardinality(Places(Tail(q), c)) + (IF Head(q).claim = c THEN 1 ELSE 0)
  <1> DEFINE S == Places(Tail(q), c)
             T == Places(q, c) \ {1}
             f == [i \in S |-> i + 1]
  <1>1. /\ Tail(q) \in Seq(Item) /\ DOMAIN q = 1..Len(q) /\ Len(q) \in Nat \ {0}
        /\ DOMAIN Tail(q) = 1..(Len(q) - 1)
        /\ \A i \in 1..(Len(q) - 1) : Tail(q)[i] = q[i + 1]
        /\ Head(q) = q[1]
    OBVIOUS
  <1>2. S = {i \in 1..(Len(q) - 1) : q[i + 1].claim = c}
    BY <1>1 DEF Places
  <1>3. T = {i \in 2..Len(q) : q[i].claim = c}
    BY <1>1 DEF Places
  <1>4. IsFiniteSet(S) /\ Cardinality(S) \in Nat
    BY <1>1, PlacesFinite
  <1>5. Cardinality(T) = Cardinality(S)
    <2>1. \A i \in S : i \in Nat /\ f[i] = i + 1 /\ i + 1 \in T
      BY <1>1, <1>2, <1>3
    <2>2. \A j \in T : j - 1 \in S /\ j = (j - 1) + 1
      BY <1>1, <1>2, <1>3
    <2> HIDE DEF S, T
    <2>3. f \in [S -> T]
      BY <2>1
    <2>4. \A i, j \in S : f[i] = f[j] => i = j
      BY <2>1
    <2>5. \A j \in T : \E i \in S : f[i] = j
      BY <2>1, <2>2
    <2>6. f \in Bijection(S, T)
      BY <2>3, <2>4, <2>5 DEF Bijection, Injection, Surjection, IsInjective
    <2>7. ExistsBijection(S, T)
      BY <2>6 DEF ExistsBijection
    <2> QED BY <1>4, <2>7, FS_Bijection
  <1>6. IsFiniteSet(Places(q, c)) /\ Cardinality(Places(q, c)) \in Nat
    BY PlacesFinite
  <1>7. Cardinality(T) = IF 1 \in Places(q, c) THEN Cardinality(Places(q, c)) - 1
                         ELSE Cardinality(Places(q, c))
    BY <1>6, FS_RemoveElement
  <1>8. 1 \in Places(q, c) <=> Head(q).claim = c
    BY <1>1 DEF Places
  <1> HIDE DEF S, T
  <1> QED BY <1>4, <1>5, <1>6, <1>7, <1>8 DEF S

Queued(c) == Cardinality(Places(queue, c))
Held(c) == IF worker.pc # "idle" /\ worker.item.claim = c THEN 1 ELSE 0

CountedInv == CountedOnce /\ \A c \in Claims : base[c] <= credited[c]

LEMMA CountedKept == ConversionTypeOK /\ CountedInv /\ MoneyStep => CountedInv'
  <1> SUFFICES ASSUME ConversionTypeOK, CountedInv, MoneyStep, NEW c \in Claims
               PROVE  /\ base'[c] <= credited'[c]
                      /\ InFlight(c)' + Since(c)' <= 1
                      /\ c \in marks' <=> (InFlight(c)' + Since(c)' = 1 \/ c \in dropped')
    BY DEF CountedInv, CountedOnce, Marked
  <1>1. /\ queue \in Seq(Item) /\ credited \in [Claims -> Nat] /\ base \in [Claims -> Nat]
        /\ credited[c] \in Nat /\ base[c] \in Nat
    BY DEF ConversionTypeOK
  <1>2. InFlight(c) = Queued(c) + Held(c) /\ InFlight(c)' = Queued(c)' + Held(c)'
    BY DEF InFlight, Queued, Places, Held
  <1>3. /\ Queued(c) \in Nat /\ Held(c) \in {0, 1} /\ Since(c) \in Nat
        /\ Since(c) = credited[c] - base[c]
    BY <1>1, PlacesFinite DEF Queued, Held, Since, CountedInv
  <1>4. /\ base[c] <= credited[c]
        /\ Queued(c) + Held(c) + Since(c) <= 1
        /\ c \in marks <=> (Queued(c) + Held(c) + Since(c) = 1 \/ c \in dropped)
    BY <1>2 DEF CountedInv, CountedOnce, Marked
  <1>5. ASSUME UNCHANGED queue PROVE Queued(c)' = Queued(c)
    BY <1>5 DEF Queued
  <1>6. ASSUME UNCHANGED worker PROVE Held(c)' = Held(c)
    BY <1>6 DEF Held
  <1>7. ASSUME UNCHANGED <<credited, base>> PROVE Since(c)' = Since(c)
    BY <1>7 DEF Since
  <1>8. CASE UNCHANGED <<queue, worker, credited, base, marks, dropped>>
    BY <1>2, <1>4, <1>5, <1>6, <1>7, <1>8
  <1>9. ASSUME NEW x \in Claims, NEW a \in Accounts, Enqueue(x, a)
        PROVE  /\ base'[c] <= credited'[c]
               /\ InFlight(c)' + Since(c)' <= 1
               /\ c \in marks' <=> (InFlight(c)' + Since(c)' = 1 \/ c \in dropped')
    <2> DEFINE item == [claim |-> x, account |-> a]
    <2>1. item \in Item /\ item.claim = x
      BY DEF Item
    <2>2. /\ x \notin marks /\ marks' = marks \cup {x} /\ queue' = Append(queue, item)
          /\ UNCHANGED <<worker, credited, base, dropped>>
      BY <1>9 DEF Enqueue, Marked, workVars
    <2> HIDE DEF item
    <2>3. Queued(c)' = Queued(c) + (IF x = c THEN 1 ELSE 0)
      BY <1>1, <2>1, <2>2, PlacesAppend DEF Queued
    <2> QED BY <1>2, <1>3, <1>4, <1>6, <1>7, <2>2, <2>3
  <1>10. CASE \E x \in Claims, a \in Accounts : Overflow(x, a)
    BY <1>8, <1>10 DEF Overflow, workVars
  <1>11. CASE WorkerTake
    <2>1. /\ worker.pc = "idle" /\ queue # <<>> /\ queue' = Tail(queue)
          /\ worker' = [pc |-> "rate", item |-> Head(queue)]
          /\ UNCHANGED <<marks, credited, base, dropped>>
      BY <1>11 DEF WorkerTake, ledgerVars
    <2>2. Held(c) = 0 /\ Held(c)' = IF Head(queue).claim = c THEN 1 ELSE 0
      BY <2>1 DEF Held
    <2>3. Queued(c) = Queued(c)' + (IF Head(queue).claim = c THEN 1 ELSE 0)
      BY <1>1, <2>1, PlacesTail DEF Queued
    <2>4. Tail(queue) \in Seq(Item)
      BY <1>1, <2>1
    <2>5. Queued(c)' \in Nat
      BY <2>1, <2>4, PlacesFinite DEF Queued
    <2> QED BY <1>2, <1>3, <1>4, <1>7, <2>1, <2>2, <2>3, <2>5
  <1>12. CASE WorkerSkips \/ WorkerFindsNoRow \/ WorkerRollsBack
    <2>1. /\ worker.pc # "idle" /\ worker' = Idle /\ dropped' = dropped \cup {worker.item.claim}
          /\ UNCHANGED <<marks, queue, credited, base>>
      BY <1>12 DEF WorkerSkips, WorkerFindsNoRow, WorkerRollsBack, producerVars, ledgerVars
    <2>2. Held(c)' = 0 /\ Held(c) = IF worker.item.claim = c THEN 1 ELSE 0
      BY <2>1 DEF Held, Idle
    <2> QED BY <1>2, <1>3, <1>4, <1>5, <1>7, <2>1, <2>2
  <1>13. CASE WorkerUpdates
    <2>1. /\ worker.pc = "rate" /\ worker' = [worker EXCEPT !.pc = "updated"]
          /\ worker \in [pc: {"rate", "updated"}, item: Item]
          /\ UNCHANGED <<marks, queue, credited, base, dropped>>
      BY <1>13, AtWork DEF WorkerUpdates, producerVars, ledgerVars
    <2>2. Held(c)' = Held(c)
      BY <2>1 DEF Held
    <2> QED BY <1>2, <1>4, <1>5, <1>7, <2>1, <2>2
  <1>14. CASE WorkerCommits
    <2> DEFINE x == worker.item.claim
    <2>1. /\ worker.pc = "updated" /\ worker' = Idle /\ x \in Claims
          /\ credited' = [credited EXCEPT ![x] = @ + 1]
          /\ UNCHANGED <<marks, queue, base, dropped>>
      BY <1>14, AtWork DEF WorkerCommits, producerVars
    <2>2. Held(c)' = 0 /\ Held(c) = IF x = c THEN 1 ELSE 0
      BY <2>1 DEF Held, Idle
    <2> HIDE DEF x
    <2>3. credited'[c] = credited[c] + (IF x = c THEN 1 ELSE 0)
      BY <1>1, <2>1
    <2>4. Since(c)' = credited'[c] - base[c]
      BY <2>1 DEF Since
    <2> QED BY <1>1, <1>2, <1>3, <1>4, <1>5, <2>1, <2>2, <2>3, <2>4
  <1>15. ASSUME NEW x \in Claims, ExpireMark(x)
         PROVE  /\ base'[c] <= credited'[c]
                /\ InFlight(c)' + Since(c)' <= 1
                /\ c \in marks' <=> (InFlight(c)' + Since(c)' = 1 \/ c \in dropped')
    <2>1. /\ InFlight(x) = 0 /\ marks' = marks \ {x} /\ dropped' = dropped \ {x}
          /\ base' = [base EXCEPT ![x] = credited[x]] /\ UNCHANGED <<queue, worker, credited>>
      BY <1>15 DEF ExpireMark, ledgerVars
    <2>2. CASE x = c
      <3>1. base'[c] = credited[c] /\ Since(c)' = 0
        BY <1>1, <2>1, <2>2 DEF Since
      <3> QED BY <1>1, <1>2, <1>3, <1>5, <1>6, <2>1, <2>2, <3>1
    <2>3. CASE x # c
      <3>1. base'[c] = base[c]
        BY <1>1, <2>1, <2>3
      <3>2. Since(c)' = Since(c)
        BY <2>1, <3>1 DEF Since
      <3> QED BY <1>2, <1>4, <1>5, <1>6, <2>1, <2>3, <3>1, <3>2
    <2> QED BY <2>2, <2>3
  <1>16. CASE ForgetConversions
    <2>1. /\ marks' = {} /\ queue' = <<>> /\ worker' = Idle /\ base' = credited /\ dropped' = {}
          /\ UNCHANGED credited
      BY <1>16 DEF ForgetConversions, ledgerVars
    <2>2. Queued(c)' = 0
      <3>1. Places(<<>>, c) = {}
        BY DEF Places
      <3> QED BY <2>1, <3>1, FS_EmptySet DEF Queued
    <2>3. Held(c)' = 0 /\ Since(c)' = 0
      BY <1>1, <2>1 DEF Held, Idle, Since
    <2> QED BY <1>1, <1>2, <2>1, <2>2, <2>3
  <1>17. CASE \/ FlushBatch \/ (\E l \in Licenses : Flush(l)) \/ (\E a \in Accounts : RemoveRow(a))
              \/ UNCHANGED conversionVars
    BY <1>8, <1>17 DEF FlushBatch, Flush, RemoveRow, producerVars, ledgerVars, conversionVars
  <1> QED BY <1>9, <1>10, <1>11, <1>12, <1>13, <1>14, <1>15, <1>16, <1>17
       DEF MoneyStep, ConversionWork, WorkerDone

-----------------------------------------------------------------------------
ConversionInv == ConversionTypeOK /\ NoticeInv /\ AlertInv /\ CountedInv

LEMMA ConversionStarts == ConversionInit => ConversionInv
  <1> SUFFICES ASSUME ConversionInit PROVE ConversionInv
    OBVIOUS
  <1>1. ConversionTypeOK
    BY ConversionConstants DEF ConversionInit, ConversionTypeOK, Idle
  <1>2. NoticeInv
    <2>1. \A l \in Licenses : Owing(l) = 0 /\ Coming(l) = 0 /\ Opening[l] \in Int
      BY ConversionConstants DEF ConversionInit, Idle, Owing, Coming
    <2> QED BY <2>1 DEF ConversionInit, NoticeInv
  <1>3. AlertInv
    <2>1. \A c \in Codes : Paid(c) = {}
      BY DEF ConversionInit, Paid
    <2>2. \A c \in Codes : Cardinality(Paid(c)) = 0
      BY <2>1, FS_EmptySet
    <2> QED BY <2>1, <2>2 DEF ConversionInit, AlertInv, Idle
  <1>4. CountedInv
    <2>1. ASSUME NEW c \in Claims PROVE InFlight(c) = 0 /\ Since(c) = 0 /\ base[c] <= credited[c]
      <3>1. Places(queue, c) = {}
        BY DEF ConversionInit, Places
      <3>2. InFlight(c) = 0
        BY <3>1, FS_EmptySet DEF InFlight, Places, ConversionInit, Idle
      <3> QED BY <3>2 DEF ConversionInit, Since
    <2> QED BY <2>1 DEF ConversionInit, CountedInv, CountedOnce, Marked
  <1> QED BY <1>1, <1>2, <1>3, <1>4 DEF ConversionInv

LEMMA ConversionKept == ConversionInv /\ MoneyStep => ConversionInv'
  BY ConversionTyped, NoticeKept, AlertKept, CountedKept DEF ConversionInv

LEMMA ConversionMeans == ConversionInv => CountedOnce /\ Announced /\ FirstClaimAlerted
  <1> SUFFICES ASSUME ConversionInv PROVE CountedOnce /\ Announced /\ FirstClaimAlerted
    OBVIOUS
  <1>1. CountedOnce
    BY DEF ConversionInv, CountedInv
  <1>2. Announced
    <2> SUFFICES ASSUME NEW l \in Licenses
                 PROVE  /\ timers[l] = IF notice[l] = None THEN 0 ELSE 1
                        /\ Opening[l] - balance[l] <= told[l] + Coming(l)
      BY DEF Announced, Coming
    <2>1. /\ notice[l] \in Notice \cup {None} /\ balance[l] \in Int /\ told[l] \in Nat
          /\ Opening[l] \in Int
      BY ConversionConstants DEF ConversionInv, ConversionTypeOK
    <2>2. Coming(l) \in Nat /\ Owing(l) \in {0, 1}
      BY <2>1 DEF Coming, Notice, Owing
    <2> QED BY <2>1, <2>2 DEF ConversionInv, NoticeInv
  <1>3. FirstClaimAlerted
    BY DEF FirstClaimAlerted, ConversionInv, AlertInv, Paid
  <1> QED BY <1>1, <1>2, <1>3
=============================================================================
