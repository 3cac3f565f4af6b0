---------------------------- MODULE Conversions ----------------------------
(***************************************************************************)
(* How a successful claim becomes money: the marks that make it count      *)
(* once, the bounded conversion queue, the worker with its transaction,    *)
(* and what the worker tells before it commits: the coalesced balance      *)
(* notice, the claim history with its batched writer, the first-claim      *)
(* alert of a code.                                                        *)
(*                                                                         *)
(* Everything runs in one process of green threads: what a handler does    *)
(* between two waits is one step. Waits are the SELECT of the exchange     *)
(* rate, the update and the COMMIT of the worker, the INSERT of the        *)
(* history writer, and the timers of the notices.                          *)
(*                                                                         *)
(* Data that is abstracted: a claim is worth 1; of a licence on the        *)
(* percentage plan it deducts 1, of any other account nothing.             *)
(***************************************************************************)
EXTENDS ClaimParties, Integers, Sequences

CONSTANTS
    Sse,            \* the account of convert_to_usd, which names no licence
    Prepaid,        \* the licences on the percentage plan
    Opening,        \* licence -> available_balance at the start
    QueueMax,       \* CONVERSION_QUEUE_MAX
    WriteMax,       \* claim_history._WRITE_QUEUE_MAX
    MaxForgets,     \* bound on marks that expire, restarts and deleted accounts
    MaxErrors       \* bound on failing statements and commits

Accounts == Licenses \cup {Sse}
Claims == Users \X Codes
Item == [claim: Claims, account: Accounts]

ASSUME ConversionConstants ==
    /\ Sse \notin Licenses
    /\ Prepaid \subseteq Licenses
    /\ Opening \in [Licenses -> Int]
    /\ {QueueMax, WriteMax} \subseteq Nat \ {0}
    /\ {MaxForgets, MaxErrors} \subseteq Nat
    /\ None \notin Item

VARIABLES
    marks,      \* _claimed_codes
    queue,      \* _conversion_queue
    worker,     \* _conversion_worker: the item it has and where it stands
    rows,       \* the accounts whose row exists
    credited,   \* claim -> times usd_claim_amount was raised for it
    balance,    \* licenses.available_balance
    counts,     \* code_claims.total_claims_count
    alerts,     \* code -> first-claim alerts scheduled
    notice,     \* balance_notifier._pending
    timers,     \* licence -> live timers of the notice
    told,       \* licence -> deductions that left the notice, sent or not
    writing,    \* _claims_write_queue and what the writer has taken from it
    history,    \* the table claims: UNIQUE(username, code)
    forgets, errors,
    base,       \* claim -> credits it had when it was last unmarked
    dropped     \* marked claims that the worker let go

conversionVars == <<marks, queue, worker, rows, credited, balance, counts, alerts, notice,
                    timers, told, writing, history, forgets, errors, base, dropped>>

Notice == [count: Nat, total: Nat, balance: Int]
ASSUME NoNotice == None \notin Notice

ConversionTypeOK ==
    /\ marks \subseteq Claims
    /\ queue \in Seq(Item) /\ Len(queue) <= QueueMax
    /\ worker \in [pc: {"idle"}, item: {None}] \cup [pc: {"rate", "updated"}, item: Item]
    /\ rows \subseteq Accounts
    /\ credited \in [Claims -> Nat] /\ base \in [Claims -> Nat]
    /\ balance \in [Licenses -> Int]
    /\ counts \in [Codes -> Nat] /\ alerts \in [Codes -> Nat]
    /\ notice \in [Licenses -> Notice \cup {None}]
    /\ timers \in [Licenses -> Nat] /\ told \in [Licenses -> Nat]
    /\ writing \in Seq(Claims) /\ Len(writing) <= WriteMax
    /\ history \subseteq Claims /\ dropped \subseteq Claims
    /\ forgets \in 0..MaxForgets /\ errors \in 0..MaxErrors

Idle == [pc |-> "idle", item |-> None]

ConversionInit ==
    /\ marks = {} /\ queue = <<>> /\ worker = Idle
    /\ rows = Accounts
    /\ credited = [c \in Claims |-> 0] /\ base = credited
    /\ balance = Opening
    /\ counts = [c \in Codes |-> 0] /\ alerts = counts
    /\ notice = [l \in Licenses |-> None]
    /\ timers = [l \in Licenses |-> 0] /\ told = timers
    /\ writing = <<>> /\ history = {}
    /\ forgets = 0 /\ errors = 0 /\ dropped = {}

-----------------------------------------------------------------------------
(* Recording a claim *)

workVars == <<rows, credited, balance, counts, alerts, notice, timers, told,
              writing, history, forgets, errors>>

FullTooLate == Len(queue) > QueueMax           \* mutant
Full == Len(queue) >= QueueMax

(* _mark_converted: None, so 'duplicate', when the claim is marked. *)
Marked(c) == c \in marks

(* Marked and put_nowait. base: ghost. *)
Enqueue(c, a) ==
    /\ ~Marked(c) /\ ~Full
    /\ marks' = marks \cup {c}
    /\ queue' = Append(queue, [claim |-> c, account |-> a])
    /\ UNCHANGED <<worker, base, dropped, workVars>>

(* Mutant: the mark stays. *)
OverflowKeepsMark(c, a) ==
    /\ ~Marked(c) /\ Full
    /\ marks' = marks \cup {c}
    /\ UNCHANGED <<queue, worker, base, dropped, workVars>>

(* queue.Full: the mark just set is taken back, so that a resend may succeed. *)
Overflow(c, a) ==
    /\ ~Marked(c) /\ Full
    /\ marks' = marks
    /\ UNCHANGED <<queue, worker, base, dropped, workVars>>

(* _record_claim_amount: without a usable amount the mark is not even looked at. *)
RecordClaimAmount(c, a, paid) ==
    IF paid /\ ~Marked(c)
    THEN Enqueue(c, a) \/ Overflow(c, a)
    ELSE UNCHANGED conversionVars

(* POST /users/claims/convert-to-usd: the same queue without a licence. *)
ConvertToUsd(c) ==
    /\ ~Marked(c)
    /\ Enqueue(c, Sse) \/ Overflow(c, Sse)

-----------------------------------------------------------------------------
(* The worker *)

producerVars == <<marks, queue, base, forgets>>
ledgerVars == <<rows, credited, balance, counts>>
noticeVars == <<notice, timers, told>>
historyVars == <<writing, history>>

WorkerTake ==
    /\ worker.pc = "idle" /\ queue # <<>>
    /\ worker' = [pc |-> "rate", item |-> Head(queue)]
    /\ queue' = Tail(queue)
    /\ UNCHANGED <<marks, base, forgets, ledgerVars, alerts, noticeVars, historyVars,
                   errors, dropped>>

(* Mutant: the exception ends the loop. *)
WorkerDies ==
    /\ worker.pc = "rate" /\ errors < MaxErrors
    /\ errors' = errors + 1
    /\ worker' = [worker EXCEPT !.pc = "dead"]
    /\ UNCHANGED <<producerVars, ledgerVars, alerts, noticeVars, historyVars, dropped>>

(* No usable exchange rate, or the statement fails: logged, and the loop continues. *)
WorkerSkips ==
    /\ worker.pc = "rate" /\ errors < MaxErrors
    /\ errors' = errors + 1
    /\ dropped' = dropped \cup {worker.item.claim}
    /\ worker' = Idle
    /\ UNCHANGED <<producerVars, ledgerVars, alerts, noticeVars, historyVars>>

(* The CTE finds no row to credit; it has counted the code all the same. *)
WorkerFindsNoRow ==
    /\ worker.pc = "rate" /\ worker.item.account \notin rows
    /\ counts' = [counts EXCEPT ![worker.item.claim[2]] = @ + 1]
    /\ dropped' = dropped \cup {worker.item.claim}
    /\ worker' = Idle
    /\ UNCHANGED <<producerVars, rows, credited, balance, alerts, noticeVars, historyVars,
                   errors>>

(* balance_notifier.record: the old timer is cancelled and a new one set, or, when
   the burst has lasted for 30 s, the summary goes out at once. *)
Grown(l) ==
    LET n == IF notice[l] = None THEN [count |-> 0, total |-> 0, balance |-> 0] ELSE notice[l]
    IN [count |-> n.count + 1, total |-> n.total + 1, balance |-> balance[l] - 1]

(* Mutant: the timer is cancelled, and only a new notice gets one. *)
RecordNoticeCancels(l) ==
    /\ notice' = [notice EXCEPT ![l] = Grown(l)]
    /\ timers' = [timers EXCEPT ![l] = IF notice[l] = None THEN 1 ELSE 0]
    /\ told' = told

RecordNotice(l) ==
    \/ /\ notice' = [notice EXCEPT ![l] = Grown(l)]
       /\ timers' = [timers EXCEPT ![l] = 1]
       /\ told' = told
    \/ /\ notice[l] # None
       /\ notice' = [notice EXCEPT ![l] = None]
       /\ timers' = [timers EXCEPT ![l] = 0]
       /\ told' = [told EXCEPT ![l] = @ + Grown(l).total]

(* claim_history.record_claim: dropped when the write queue is full. *)
RecordHistory(c) ==
    /\ writing' = IF Len(writing) < WriteMax THEN Append(writing, c) ELSE writing
    /\ UNCHANGED history

(* Mutant: the count read is taken for the one the update leaves. *)
AlertSecond(c) ==
    alerts' = IF counts[c] = 1 THEN [alerts EXCEPT ![c] = @ + 1] ELSE alerts

(* The update returns 1 as the count of the code. *)
AlertFirst(c) ==
    alerts' = IF counts[c] = 0 THEN [alerts EXCEPT ![c] = @ + 1] ELSE alerts

(* The CTE succeeds. The notice, the history and the alert are started inside
   the session, before the COMMIT. *)
WorkerUpdates ==
    LET a == worker.item.account
        c == worker.item.claim
    IN /\ worker.pc = "rate" /\ a \in rows
       /\ worker' = [worker EXCEPT !.pc = "updated"]
       /\ IF a \in Prepaid THEN RecordNotice(a) ELSE UNCHANGED noticeVars
       /\ RecordHistory(c)
       /\ AlertFirst(c[2])
       /\ UNCHANGED <<producerVars, ledgerVars, errors, dropped>>

WorkerCommits ==
    LET a == worker.item.account
        c == worker.item.claim
    IN /\ worker.pc = "updated"
       /\ credited' = [credited EXCEPT ![c] = @ + 1]
       /\ balance' = IF a \in Prepaid THEN [balance EXCEPT ![a] = @ - 1] ELSE balance
       /\ counts' = [counts EXCEPT ![c[2]] = @ + 1]
       /\ worker' = Idle
       /\ UNCHANGED <<producerVars, rows, alerts, noticeVars, historyVars, errors, dropped>>

(* The COMMIT fails: rolled back and logged, with nothing taken back that was told. *)
WorkerRollsBack ==
    /\ worker.pc = "updated" /\ errors < MaxErrors
    /\ errors' = errors + 1
    /\ dropped' = dropped \cup {worker.item.claim}
    /\ worker' = Idle
    /\ UNCHANGED <<producerVars, ledgerVars, alerts, noticeVars, historyVars>>

WorkerDone == WorkerSkips \/ WorkerFindsNoRow \/ WorkerUpdates \/ WorkerCommits \/ WorkerRollsBack

-----------------------------------------------------------------------------
(* The notice goes out, or, with a negative balance, is left to the scanner *)

Flush(l) ==
    /\ timers[l] > 0
    /\ timers' = [timers EXCEPT ![l] = @ - 1]
    /\ notice' = [notice EXCEPT ![l] = None]
    /\ told' = IF notice[l] = None THEN told ELSE [told EXCEPT ![l] = @ + notice[l].total]
    /\ UNCHANGED <<producerVars, worker, ledgerVars, alerts, historyVars, errors, dropped>>

(* The history writer: a batch of all that is queued is inserted ON CONFLICT DO
   NOTHING, or lost. *)
FlushBatch ==
    /\ writing # <<>>
    /\ \/ history' = history \cup {writing[i] : i \in DOMAIN writing} /\ errors' = errors
       \/ errors < MaxErrors /\ errors' = errors + 1 /\ history' = history
    /\ writing' = <<>>
    /\ UNCHANGED <<producerVars, worker, ledgerVars, alerts, noticeVars, dropped>>

-----------------------------------------------------------------------------
(* What happens around them *)

InFlight(c) ==
    Cardinality({i \in DOMAIN queue : queue[i].claim = c})
      + (IF worker.pc # "idle" /\ worker.item.claim = c THEN 1 ELSE 0)

(* CLAIMED_CODE_TTL: twelve hours, far longer than a claim waits in the queue. *)
ExpireMark(c) ==
    /\ Marked(c) /\ InFlight(c) = 0 /\ forgets < MaxForgets
    /\ forgets' = forgets + 1
    /\ marks' = marks \ {c}
    /\ base' = [base EXCEPT ![c] = credited[c]]
    /\ dropped' = dropped \ {c}
    /\ UNCHANGED <<queue, worker, ledgerVars, alerts, noticeVars, historyVars, errors>>

(* A licence or a user is deleted by another service on this database. (No code here
   deletes either; the worker and the licence scanner expect that it happens.) *)
RemoveRow(a) ==
    /\ a \in rows /\ forgets < MaxForgets
    /\ worker.pc = "updated" => worker.item.account # a     \* the row is locked
    /\ forgets' = forgets + 1
    /\ rows' = rows \ {a}
    /\ UNCHANGED <<marks, queue, worker, base, credited, balance, counts, alerts, noticeVars,
                   historyVars, errors, dropped>>

(* The process is replaced: its memory is gone, an open transaction is rolled back. *)
ForgetConversions ==
    /\ forgets < MaxForgets
    /\ forgets' = forgets + 1
    /\ marks' = {} /\ queue' = <<>> /\ worker' = Idle
    /\ told' = [l \in Licenses |-> told[l] + (IF notice[l] = None THEN 0 ELSE notice[l].total)]
    /\ notice' = [l \in Licenses |-> None]
    /\ timers' = [l \in Licenses |-> 0]
    /\ writing' = <<>>
    /\ base' = credited /\ dropped' = {}
    /\ UNCHANGED <<ledgerVars, alerts, history, errors>>

ConversionWork ==
    \/ WorkerTake \/ WorkerDone
    \/ \E l \in Licenses : Flush(l)
    \/ FlushBatch
    \/ \E c \in Claims : ExpireMark(c)
    \/ \E a \in Accounts : RemoveRow(a)

ConversionFairness ==
    /\ WF_conversionVars(WorkerTake)
    /\ WF_conversionVars(WorkerDone)

-----------------------------------------------------------------------------
(* Properties *)

Since(c) == credited[c] - base[c]

(* The same user claiming the same code is counted exactly once, for as long as its
   mark lives: whatever is queued, worked on or credited under a mark is one, a claim
   without a mark has left nothing behind, and one turned away by a full queue can be
   sent again. *)
CountedOnce ==
    \A c \in Claims :
        /\ InFlight(c) + Since(c) <= 1
        /\ Marked(c) <=> (InFlight(c) + Since(c) = 1 \/ c \in dropped)

(* What a claim deducted is in a summary that went out (or was left to the scanner),
   or in one that still will: no deduction falls between a timer that is cancelled
   and the one that replaces it. *)
Announced ==
    \A l \in Licenses :
        /\ timers[l] = IF notice[l] = None THEN 0 ELSE 1
        /\ Opening[l] - balance[l] <= told[l] + (IF notice[l] = None THEN 0 ELSE notice[l].total)

(* A code that was credited has had its first-claim alert, unless a claim that no
   account could be credited with was counted before. *)
FirstClaimAlerted ==
    \A c \in Codes :
        LET paid == {x \in Claims : x[2] = c /\ credited[x] > 0}
        IN paid # {} /\ alerts[c] = 0 =>
              counts[c] > Cardinality(paid)

(* A claim that was accepted into the queue does not stay there: the worker survives
   whatever goes wrong with an item. *)
ClaimLeavesQueue == \A c \in Claims : (InFlight(c) > 0) ~> (InFlight(c) = 0)
=============================================================================
