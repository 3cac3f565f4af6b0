------------------------------- MODULE TopUps -------------------------------
(***************************************************************************)
(* Prepaid licences of the main product: the bot opens top-up invoices and *)
(* asks for them to be credited, admins switch licences on and off and     *)
(* rotate their keys, the conversion worker charges claims, and the        *)
(* license scanner pauses a licence below zero and refreshes the cache of  *)
(* active licences.                                                        *)
(*                                                                         *)
(* Each transaction is a step or two: a SELECT without a lock is a step of *)
(* its own, apart from the write that uses what it read. After a commit    *)
(* the in-process cache is written in a further step.                      *)
(*                                                                         *)
(* Data that is abstracted: a claim costs 1; every licence is on the       *)
(* percentage plan; an invoice is paid its amount, or short of it. Rows    *)
(* are never deleted by this code.                                         *)
(***************************************************************************)
EXTENDS Integers, FiniteSets, FiniteSetsExt

CONSTANTS
    Users,          \* telegram ids
    Keys,           \* licence keys
    OwnerOf,        \* key -> the user it is generated for
    Payments,       \* order_ids of top-ups
    PayerOf,        \* order_id -> telegram_id
    Amount,         \* order_id -> the amount of the invoice
    Workers,        \* request greenlets
    Serves,         \* greenlet -> the kinds of request it is given
    TrustBot,       \* Config.TOPUP_TRUST_BOT_ON_VERIFY_FAIL
    MaxClaims,      \* bound on the claims reported under each key
    MaxAge,         \* bound on the age of an order
    MaxFaults,      \* bound on restarts, failed writes and bans
    None

ASSUME ConstantsAssumption ==
    /\ IsFiniteSet(Keys)
    /\ OwnerOf \in [Keys -> Users]
    /\ PayerOf \in [Payments -> Users]
    /\ Amount \in [Payments -> Nat \ {0}]
    /\ Serves \in [Workers -> SUBSET {"register", "on", "off", "rotate", "lookup", "topup"}]
    /\ TrustBot \in BOOLEAN
    /\ {MaxClaims, MaxAge, MaxFaults} \subseteq Nat
    /\ None \notin Keys \cup Payments

VARIABLES
    licenses,   \* the table licenses, by key
    payments,   \* the table payments, by order_id
    invoice,    \* the state of each invoice at OxaPay
    queued,     \* claims of each key in the conversion queue
    sessions,   \* keys under which a userscript is connected on /_tmc
    cache,      \* active_license_cache
    job,        \* what each request greenlet is doing
    scan,       \* the license scanner
    faults

vars == <<licenses, payments, invoice, queued, sessions, cache, job, scan, faults>>

(* born: rank by created_at, 0 before the row exists; opening: the balance it
   was inserted with; claimed: usd_claim_amount. *)
License == [born: Nat, active: BOOLEAN, banned: BOOLEAN, balance: Int,
            opening: Int, claimed: Nat]
NoLicense == [born |-> 0, active |-> FALSE, banned |-> FALSE, balance |-> 0,
              opening |-> 0, claimed |-> 0]

(* A row has a track_id unless it is new. An order of age 1 is past expires_at,
   of age 2 past the 72 hours that list_pending looks back. *)
Payment == [status: {"absent", "new", "waiting", "paid", "expired", "cancelled"},
            credited: BOOLEAN, key: Keys \cup {None},
            age: Nat]
NoPayment == [status |-> "absent", credited |-> FALSE, key |-> None,
              age |-> 0]

Invoice == {"none", "waiting", "paid", "short", "expired", "failed"}
CacheEntry == {"absent", "inactive", "active"}

JobPc == {"idle", "registering", "switchingOn", "switchingOff", "rotating", "rotated",
          "opening", "answered", "crediting", "credited", "caching"}
JobRecord == [pc: JobPc, key: Keys \cup {None}, new: Keys \cup {None},
              payment: Payments \cup {None}, answer: Invoice \cup {"trusted"},
              was: BOOLEAN, carry: Int, entry: CacheEntry]
Job == {j \in JobRecord : /\ j.pc \notin {"idle", "answered"} => j.key # None
                          /\ j.pc \in {"rotating", "rotated"} => j.new # None
                          /\ j.pc \in {"opening", "answered", "crediting"} => j.payment # None}
Idle == [pc |-> "idle", key |-> None, new |-> None, payment |-> None,
         answer |-> "none", was |-> FALSE, carry |-> 0, entry |-> "absent"]

Seen == [active: BOOLEAN, banned: BOOLEAN, balance: Int]
Scan == [pc: {"booted", "baseline", "seeding", "asleep", "scanning", "paused"},
         seen: [Keys -> Seen], todo: SUBSET Keys, at: Keys \cup {None}]
Unseen == [k \in Keys |-> [active |-> FALSE, banned |-> FALSE, balance |-> 0]]
Booted == [pc |-> "booted", seen |-> Unseen, todo |-> {}, at |-> None]
Asleep == [Booted EXCEPT !.pc = "asleep"]

TypeOK ==
    /\ licenses \in [Keys -> License]
    /\ payments \in [Payments -> Payment]
    /\ invoice \in [Payments -> Invoice]
    /\ queued \in [Keys -> Nat]
    /\ sessions \subseteq Keys
    /\ cache \in [Keys -> CacheEntry]
    /\ job \in [Workers -> Job]
    /\ scan \in Scan
    /\ faults \in Nat

Init ==
    /\ licenses = [k \in Keys |-> NoLicense]
    /\ payments = [p \in Payments |-> NoPayment]
    /\ invoice = [p \in Payments |-> "none"]
    /\ queued = [k \in Keys |-> 0]
    /\ sessions = {}
    /\ cache = [k \in Keys |-> "absent"]
    /\ job = [w \in Workers |-> Idle]
    /\ scan = Booted
    /\ faults = 0

-----------------------------------------------------------------------------
(* The table licenses *)

Exists(k) == licenses[k].born > 0
Existing == {k \in Keys : Exists(k)}
LicensesOf(u) == {k \in Existing : OwnerOf[k] = u}
Usable(k) == licenses[k].active /\ ~licenses[k].banned

(* A uuid that no row and no request has. *)
Fresh(k) == ~Exists(k) /\ \A w \in Workers : k \notin {job[w].key, job[w].new}

NextRank == Cardinality(Existing) + 1

(* The user's current licence: active first, then the newest. *)
Current(u) ==
    {k \in LicensesOf(u) :
        \A j \in LicensesOf(u) \ {k} :
            \/ licenses[k].active /\ ~licenses[j].active
            \/ licenses[k].active = licenses[j].active /\ licenses[k].born > licenses[j].born}

(* uq_licenses_tid_active: k can be active beside the licences of others only. *)
AloneWithout(k, gone) ==
    \A j \in Existing \ {k, gone} : OwnerOf[j] = OwnerOf[k] => ~licenses[j].active

(* What a request holds in its local variables between two steps. *)
Doing(pc, k) == [Idle EXCEPT !.pc = pc, !.key = k]
Switching(pc, k, was) == [Doing(pc, k) EXCEPT !.was = was]
Rotating(k, new, carry) == [Doing("rotating", k) EXCEPT !.new = new, !.carry = carry]
Opening(p, k) == [Doing("opening", k) EXCEPT !.payment = p]
Answered(p, answer) == [Doing("answered", None) EXCEPT !.payment = p, !.answer = answer]
Crediting(j, k) == [j EXCEPT !.pc = "crediting", !.key = k]
Caching(k, entry) == [Doing("caching", k) EXCEPT !.entry = entry]

Turn(w, j) == job' = [job EXCEPT ![w] = j]
EndJob(w) == Turn(w, Idle)

-----------------------------------------------------------------------------
(* POST /lic/reg, /lic/on, /lic/off and /lic/rotate *)

Register(w, k) ==
    /\ job[w].pc = "idle" /\ Fresh(k)
    /\ LicensesOf(OwnerOf[k]) = {}
    /\ Turn(w, Doing("registering", k))
    /\ UNCHANGED <<licenses, payments, invoice, queued, sessions, cache, scan, faults>>

RegisterCommit(w) ==
    /\ job[w].pc = "registering"
    /\ licenses' = [licenses EXCEPT ![job[w].key] = [NoLicense EXCEPT !.born = NextRank]]
    /\ EndJob(w)
    /\ UNCHANGED <<payments, invoice, queued, sessions, cache, scan, faults>>

SwitchRead(w, k, pc) ==
    /\ job[w].pc = "idle" /\ Exists(k)
    /\ Turn(w, Switching(pc, k, licenses[k].active))
    /\ UNCHANGED <<licenses, payments, invoice, queued, sessions, cache, scan, faults>>

LicActivate(w, k) == ~licenses[k].banned /\ SwitchRead(w, k, "switchingOn")
LicDeactivate(w, k) == SwitchRead(w, k, "switchingOff")

(* The ORM writes `active` only if it differs from what was read. *)
SwitchOn(w) ==
    LET k == job[w].key IN
    /\ job[w].pc = "switchingOn"
    /\ IF job[w].was THEN UNCHANGED licenses /\ Turn(w, Caching(k, "active"))
       ELSE IF AloneWithout(k, None)
       THEN licenses' = [licenses EXCEPT ![k].active = TRUE] /\ Turn(w, Caching(k, "active"))
       ELSE UNCHANGED licenses /\ EndJob(w)     \* IntegrityError
    /\ UNCHANGED <<payments, invoice, queued, sessions, cache, scan, faults>>

SwitchOff(w) ==
    LET k == job[w].key IN
    /\ job[w].pc = "switchingOff"
    /\ licenses' = IF job[w].was THEN [licenses EXCEPT ![k].active = FALSE] ELSE licenses
    /\ Turn(w, Caching(k, "absent"))
    /\ UNCHANGED <<payments, invoice, queued, sessions, cache, scan, faults>>

Rotate(w, k, new) ==
    /\ job[w].pc = "idle" /\ Exists(k) /\ licenses[k].active
    /\ Fresh(new) /\ OwnerOf[new] = OwnerOf[k]
    /\ Turn(w, Rotating(k, new, licenses[k].balance))
    /\ UNCHANGED <<licenses, payments, invoice, queued, sessions, cache, scan, faults>>

Rotated(old, new, carry) ==
    [licenses EXCEPT ![old].active = FALSE,
                     ![new] = [NoLicense EXCEPT !.born = NextRank, !.active = TRUE,
                                 !.balance = carry, !.opening = carry]]

RotateCommit(w) ==
    LET old == job[w].key  new == job[w].new IN
    /\ job[w].pc = "rotating"
    /\ IF AloneWithout(new, old)
       THEN /\ licenses' = Rotated(old, new, job[w].carry)
            /\ Turn(w, [job[w] EXCEPT !.pc = "rotated"])
       ELSE UNCHANGED licenses /\ EndJob(w)     \* IntegrityError
    /\ UNCHANGED <<payments, invoice, queued, sessions, cache, scan, faults>>

RotateCache(w) ==
    /\ job[w].pc = "rotated"
    /\ cache' = [cache EXCEPT ![job[w].key] = "absent", ![job[w].new] = "active"]
    /\ EndJob(w)
    /\ UNCHANGED <<licenses, payments, invoice, queued, sessions, scan, faults>>

-----------------------------------------------------------------------------
(* POST /topup/begin and /topup/record *)

Open(u) ==
    {p \in Payments : /\ PayerOf[p] = u /\ payments[p].status = "waiting"
                      /\ ~payments[p].credited /\ payments[p].age < 1}

(* No open invoice to reuse: a fresh order is allocated, in a transaction of
   its own. *)
BeginTopup(w, p) ==
    /\ job[w].pc = "idle"
    /\ payments[p].status = "absent" /\ \A v \in Workers : job[v].payment # p
    /\ Open(PayerOf[p]) = {}
    /\ \E k \in Current(PayerOf[p]) :
          /\ ~licenses[k].banned
          /\ Turn(w, Opening(p, k))
    /\ UNCHANGED <<licenses, payments, invoice, queued, sessions, cache, scan, faults>>

BeginCommit(w) ==
    /\ job[w].pc = "opening"
    /\ payments' = [payments EXCEPT ![job[w].payment] =
                      [NoPayment EXCEPT !.status = "new", !.key = job[w].key]]
    /\ EndJob(w)
    /\ UNCHANGED <<licenses, invoice, queued, sessions, cache, scan, faults>>

(* Mutant: the payment is read without FOR UPDATE. *)
UnlockedAlways(p) == TRUE

(* Nobody else has the payment row locked FOR UPDATE. *)
Unlocked(p) == \A w \in Workers : ~(job[w].pc = "crediting" /\ job[w].payment = p)

RecordTopup(p) ==
    /\ invoice[p] # "none"
    /\ ~payments[p].credited /\ payments[p].status \in {"new", "waiting"}
    /\ Unlocked(p)
    /\ payments' = [payments EXCEPT ![p].status = "waiting"]
    /\ UNCHANGED <<licenses, invoice, queued, sessions, cache, job, scan, faults>>

-----------------------------------------------------------------------------
(* POST /topup/credit: verify_and_credit. The payment row is read without a
   lock; what OxaPay answers is acted on in a later transaction. *)

(* Mutant: a payment still confirming counts as paid. *)
ReportsEarly(p) ==
    IF invoice[p] = "waiting" THEN {"paid"}
    ELSE {invoice[p]} \cup (IF TrustBot /\ invoice[p] \in {"paid", "short"} THEN {"trusted"} ELSE {})

(* What main learns: OxaPay's answer, or, when OxaPay cannot be reached and
   the bot is trusted, the bot's word. "waiting" changes nothing. *)
Reports(p) ==
    ({invoice[p]} \ {"none", "waiting"})
      \cup (IF TrustBot /\ invoice[p] \in {"paid", "short"} THEN {"trusted"} ELSE {})

VerifyAndCredit(w, p) ==
    /\ job[w].pc = "idle"
    /\ payments[p].status \notin {"absent", "new"} /\ ~payments[p].credited
    /\ \E answer \in Reports(p) : Turn(w, Answered(p, answer))
    /\ UNCHANGED <<licenses, payments, invoice, queued, sessions, cache, scan, faults>>

(* Mutant: newly allocated orders are listed instead of open invoices. *)
PendingNew ==
    {p \in Payments : /\ payments[p].status = "new" /\ ~payments[p].credited
                      /\ payments[p].age < 2}

(* list_pending: what the bot's reconciliation sweep verifies again. *)
Pending ==
    {p \in Payments : /\ payments[p].status = "waiting" /\ ~payments[p].credited
                      /\ payments[p].age < 2}

(* Mutant: OxaPay's word is stored as it is. *)
ClosedStatusRaw(answer) == answer

ClosedStatus(answer) == IF answer = "expired" THEN "expired" ELSE "cancelled"

(* Mutant: an expired answer is written without looking at the row. *)
MarkableAlways(row) == TRUE

Markable(row) == ~row.credited

MarkStatus(w) ==
    LET p == job[w].payment IN
    /\ job[w].pc = "answered" /\ job[w].answer \in {"expired", "failed"}
    /\ Unlocked(p)
    /\ payments' = IF Markable(payments[p])
                   THEN [payments EXCEPT ![p].status = ClosedStatus(job[w].answer)]
                   ELSE payments
    /\ EndJob(w)
    /\ UNCHANGED <<licenses, invoice, queued, sessions, cache, scan, faults>>

(* Mutant: the latch is looked at before the lock only. *)
CreditableUnchecked(row) == TRUE

Creditable(row) == ~row.credited

(* amount_mismatch: recorded as paid, for review, and not credited. *)
AmountMismatch(w) ==
    LET p == job[w].payment IN
    /\ job[w].pc = "answered" /\ job[w].answer = "short"
    /\ Unlocked(p)
    /\ payments' = IF Creditable(payments[p])
                   THEN [payments EXCEPT ![p].status = "paid"] ELSE payments
    /\ EndJob(w)
    /\ UNCHANGED <<licenses, invoice, queued, sessions, cache, scan, faults>>

(* FOR UPDATE of the payment; the statement that credits fixes its target. *)
LockAndTarget(w) ==
    LET p == job[w].payment IN
    /\ job[w].pc = "answered" /\ job[w].answer \in {"paid", "trusted"}
    /\ Unlocked(p)
    /\ IF Creditable(payments[p])
       THEN \E k \in Current(PayerOf[p]) : Turn(w, Crediting(job[w], k))
       ELSE EndJob(w)                           \* already_credited
    /\ UNCHANGED <<licenses, payments, invoice, queued, sessions, cache, scan, faults>>

Credited(row, amount) ==
    LET balance == row.balance + amount IN
    [row EXCEPT !.balance = balance, !.active = @ \/ (balance > 0 /\ ~row.banned)]

(* Mutant: the licence named when the order was opened is booked. *)
LatchedAtCreation(row, k) == [row EXCEPT !.status = "paid", !.credited = TRUE]

Latched(row, k) == [row EXCEPT !.status = "paid", !.credited = TRUE, !.key = k]

(* The balance and the latch, in one commit. The UPDATE finds the row as it is
   now; activating it beside another active licence is an IntegrityError. *)
Credit(w) ==
    LET p == job[w].payment  k == job[w].key
        row == Credited(licenses[k], Amount[p]) IN
    /\ job[w].pc = "crediting"
    /\ IF row.active /\ ~AloneWithout(k, None)
       THEN UNCHANGED <<licenses, payments>> /\ EndJob(w)
       ELSE /\ licenses' = [licenses EXCEPT ![k] = row]
            /\ payments' = [payments EXCEPT ![p] = Latched(@, k)]
            /\ Turn(w, Doing("credited", k))
    /\ UNCHANGED <<invoice, queued, sessions, cache, scan, faults>>

(* _refresh_license_cache: the row is read again, then the cache written. *)
RefreshRead(w) ==
    LET k == job[w].key IN
    /\ job[w].pc = "credited"
    /\ Turn(w, Caching(k, IF Usable(k) THEN "active" ELSE "absent"))
    /\ UNCHANGED <<licenses, payments, invoice, queued, sessions, cache, scan, faults>>

-----------------------------------------------------------------------------
(* is_license_active on a cache miss, and the cache writes of all requests *)

LookupMiss(w, k) ==
    /\ job[w].pc = "idle" /\ cache[k] = "absent" /\ Exists(k)
    /\ Turn(w, Caching(k, IF Usable(k) THEN "active" ELSE "inactive"))
    /\ UNCHANGED <<licenses, payments, invoice, queued, sessions, cache, scan, faults>>

WriteCache(w) ==
    /\ job[w].pc = "caching"
    /\ cache' = [cache EXCEPT ![job[w].key] = job[w].entry]
    /\ EndJob(w)
    /\ UNCHANGED <<licenses, payments, invoice, queued, sessions, scan, faults>>

-----------------------------------------------------------------------------
(* Claims: a userscript that connects while its licence is active reports
   claims; the conversion worker charges each to the key it came under. *)

Connect(k) ==
    /\ cache[k] = "active" /\ k \notin sessions
    /\ sessions' = sessions \cup {k}
    /\ UNCHANGED <<licenses, payments, invoice, queued, cache, job, scan, faults>>

(* The licence is not looked at again. That a session ends, or that the room
   of a licence switched off is disconnected, is left out: a claim may already
   be on its way then, and a session may as well fall silent. *)
ReportClaim(k) ==
    /\ k \in sessions
    /\ licenses[k].claimed + queued[k] < MaxClaims
    /\ queued' = [queued EXCEPT ![k] = @ + 1]
    /\ UNCHANGED <<licenses, payments, invoice, sessions, cache, job, scan, faults>>

Convert(k) ==
    /\ queued[k] > 0
    /\ queued' = [queued EXCEPT ![k] = @ - 1]
    /\ licenses' = [licenses EXCEPT ![k].balance = @ - 1, ![k].claimed = @ + 1]
    /\ UNCHANGED <<payments, invoice, sessions, cache, job, scan, faults>>

-----------------------------------------------------------------------------
(* The license scanner *)

Snapshot == [k \in Keys |-> [active |-> licenses[k].active, banned |-> licenses[k].banned,
                             balance |-> licenses[k].balance]]
Eligible(k) == scan.seen[k].active /\ ~scan.seen[k].banned

(* Mutant: the boundary is off by one. *)
OverdrawnByMore(row) == row.balance < -1 /\ row.active

Overdrawn(row) == row.balance < 0 /\ row.active

(* The cycle as it goes on, k being dealt with; it sleeps when nothing is left. *)
Without(k) ==
    IF scan.todo = {k} THEN Asleep
    ELSE [scan EXCEPT !.todo = @ \ {k}, !.at = None, !.seen[k] = Unseen[k]]

(* One SELECT of every licence: the cycle works on this snapshot. *)
ScanSelect ==
    /\ \/ scan.pc = "booted" /\ scan' = [scan EXCEPT !.pc = "baseline", !.seen = Snapshot]
       \/ /\ scan.pc = "asleep" /\ Existing # {}
          /\ scan' = [scan EXCEPT !.pc = "scanning", !.seen = Snapshot, !.todo = Existing]
    /\ UNCHANGED <<licenses, payments, invoice, queued, sessions, cache, job, faults>>

(* The first run compares the snapshot with the cache and adds what it lacks. *)
ScanBaseline ==
    /\ scan.pc = "baseline"
    /\ LET missing == {k \in Keys : Eligible(k) /\ cache[k] = "absent"} IN
         scan' = IF missing = {} THEN Asleep
                 ELSE [scan EXCEPT !.pc = "seeding", !.todo = missing]
    /\ UNCHANGED <<licenses, payments, invoice, queued, sessions, cache, job, faults>>

ScanSeed(k) ==
    /\ scan.pc = "seeding" /\ k \in scan.todo
    /\ cache' = [cache EXCEPT ![k] = "active"]
    /\ scan' = Without(k)
    /\ UNCHANGED <<licenses, payments, invoice, queued, sessions, job, faults>>

(* _deactivate_for_negative_balance: by key, whatever the row is by now. *)
ScanPause(k) ==
    /\ scan.pc = "scanning" /\ scan.at = None /\ k \in scan.todo
    /\ Overdrawn(scan.seen[k])
    /\ licenses' = [licenses EXCEPT ![k].active = FALSE]
    /\ scan' = [scan EXCEPT !.pc = "paused", !.at = k, !.seen[k].active = FALSE]
    /\ UNCHANGED <<payments, invoice, queued, sessions, cache, job, faults>>

(* Its cache entry goes at once, before the notices and the rest of the cycle. *)
ScanPop ==
    /\ scan.pc = "paused"
    /\ cache' = [cache EXCEPT ![scan.at] = "absent"]
    /\ scan' = [scan EXCEPT !.pc = "scanning"]
    /\ UNCHANGED <<licenses, payments, invoice, queued, sessions, job, faults>>

ScanPauseFails(k) ==
    /\ scan.pc = "scanning" /\ scan.at = None /\ k \in scan.todo
    /\ Overdrawn(scan.seen[k])
    /\ faults < MaxFaults /\ faults' = faults + 1
    /\ scan' = [scan EXCEPT !.at = k]
    /\ UNCHANGED <<licenses, payments, invoice, queued, sessions, cache, job>>

(* Mutant: the cache is added to and never cleared. *)
ScannedOnlyAdds(k) == IF Eligible(k) THEN "active" ELSE cache[k]

Scanned(k) == IF Eligible(k) THEN "active" ELSE "absent"

ScanRefresh(k) ==
    /\ scan.pc = "scanning" /\ k \in scan.todo
    /\ scan.at = k \/ (scan.at = None /\ ~Overdrawn(scan.seen[k]))
    /\ cache' = [cache EXCEPT ![k] = Scanned(k)]
    /\ scan' = Without(k)
    /\ UNCHANGED <<licenses, payments, invoice, queued, sessions, job, faults>>

-----------------------------------------------------------------------------
(* Outside: the bot creates the invoice; the payer pays it, short of the
   amount or in full and perhaps after it was reported expired; time passes;
   an admin bans a licence in the database; the process restarts. *)

CreateInvoice(p) ==
    /\ payments[p].status = "new" /\ invoice[p] = "none"
    /\ invoice' = [invoice EXCEPT ![p] = "waiting"]
    /\ UNCHANGED <<licenses, payments, queued, sessions, cache, job, scan, faults>>

InvoiceMoves(p) ==
    /\ \/ invoice[p] = "waiting" /\ \E i \in {"paid", "short", "expired", "failed"} :
                                       invoice' = [invoice EXCEPT ![p] = i]
       \/ invoice[p] = "expired" /\ invoice' = [invoice EXCEPT ![p] = "paid"]
    /\ UNCHANGED <<licenses, payments, queued, sessions, cache, job, scan, faults>>

TimePasses(p) ==
    /\ payments[p].status = "waiting" /\ payments[p].age < MaxAge
    /\ payments' = [payments EXCEPT ![p].age = @ + 1]
    /\ UNCHANGED <<licenses, invoice, queued, sessions, cache, job, scan, faults>>

Ban(k) ==
    /\ Exists(k) /\ ~licenses[k].banned
    /\ faults < MaxFaults /\ faults' = faults + 1
    /\ licenses' = [licenses EXCEPT ![k].banned = TRUE]
    /\ UNCHANGED <<payments, invoice, queued, sessions, cache, job, scan>>

(* The queue and the cache are gone; rebuild_cache_from_db reads the table. *)
Restart ==
    /\ faults < MaxFaults /\ faults' = faults + 1
    /\ job' = [w \in Workers |-> Idle]
    /\ queued' = [k \in Keys |-> 0]
    /\ sessions' = {}
    /\ cache' = [k \in Keys |-> IF Usable(k) THEN "active" ELSE "absent"]
    /\ scan' = Booted
    /\ UNCHANGED <<licenses, payments, invoice>>

-----------------------------------------------------------------------------

Request(w) ==
    \/ "topup" \in Serves[w] /\ \E p \in Payments : BeginTopup(w, p) \/ VerifyAndCredit(w, p)
    \/ \E k \in Keys :
          \/ "register" \in Serves[w] /\ Register(w, k)
          \/ "on" \in Serves[w] /\ LicActivate(w, k)
          \/ "off" \in Serves[w] /\ LicDeactivate(w, k)
          \/ "lookup" \in Serves[w] /\ LookupMiss(w, k)
          \/ "rotate" \in Serves[w] /\ \E new \in Keys : Rotate(w, k, new)

Proceed(w) ==
    \/ RegisterCommit(w) \/ SwitchOn(w) \/ SwitchOff(w) \/ RotateCommit(w) \/ RotateCache(w)
    \/ BeginCommit(w) \/ MarkStatus(w) \/ AmountMismatch(w) \/ LockAndTarget(w)
    \/ Credit(w) \/ RefreshRead(w) \/ WriteCache(w)

Scanner ==
    \/ ScanSelect \/ ScanBaseline \/ ScanPop
    \/ \E k \in Keys : ScanSeed(k) \/ ScanPause(k) \/ ScanRefresh(k)

Outside ==
    \/ \E p \in Payments : RecordTopup(p) \/ CreateInvoice(p) \/ InvoiceMoves(p) \/ TimePasses(p)
    \/ \E k \in Keys : Connect(k) \/ ReportClaim(k) \/ ScanPauseFails(k) \/ Ban(k)
    \/ Restart

Next ==
    \/ \E w \in Workers : Request(w) \/ Proceed(w)
    \/ \E k \in Keys : Convert(k)
    \/ Scanner
    \/ Outside

Spec == Init /\ [][Next]_vars

(* The bot's sweep of the pending list. *)
ReconcileSweep(p) == p \in Pending /\ \E w \in Workers : "topup" \in Serves[w] /\ VerifyAndCredit(w, p)

(* A request runs on once started, the scanner and the conversion worker are
   daemon threads that never return, and the bot goes through the pending
   list again and again, each invoice finding a free greenlet and an answer of
   OxaPay infinitely often. *)
FairSpec ==
    /\ Spec
    /\ WF_vars(Scanner)
    /\ \A k \in Keys : WF_vars(Convert(k))
    /\ \A w \in Workers : WF_vars(Proceed(w))
    /\ \A p \in Payments : SF_vars(ReconcileSweep(p))

-----------------------------------------------------------------------------
(* Invariants *)

CreditsOf(k) == {p \in Payments : payments[p].credited /\ payments[p].key = k}

(* A balance can be accounted for from the tables alone: what the row began
   with, plus the payments booked to it, less the claims charged to it. *)
Books ==
    \A k \in Keys :
        licenses[k].balance = licenses[k].opening - licenses[k].claimed
                                + MapThenSumSet(LAMBDA p : Amount[p], CreditsOf(k))

(* Money is credited only for an invoice that OxaPay reports paid, and paid in
   full unless the bot is trusted in OxaPay's place ("NEVER credited from
   webhook data alone", models.py:140). *)
CreditedIsPaid ==
    \A p \in Payments :
        payments[p].credited =>
            /\ payments[p].status = "paid" /\ payments[p].key \in LicensesOf(PayerOf[p])
            /\ invoice[p] = "paid" \/ (TrustBot /\ invoice[p] = "short")

(* Whatever holds a key in memory - the cache, the queue, a
   session, the scanner's snapshot - holds one that has a row. *)
KnownKeys ==
    \A k \in Keys :
        (\/ licenses[k].active \/ cache[k] # "absent" \/ queued[k] > 0 \/ k \in sessions
         \/ scan.seen[k].active \/ k \in scan.todo) => Exists(k)

(* A key or an order_id about to be inserted is new, and this request's alone;
   so is a payment that is locked. *)
Unborn(j) ==
    /\ j.pc = "registering" => ~Exists(j.key)
    /\ j.pc = "rotating" => ~Exists(j.new)
    /\ j.pc = "opening" => payments[j.payment].status = "absent"

Apart(i, j) ==
    /\ i.pc = "registering" => i.key \notin {j.key, j.new}
    /\ i.pc = "rotating" => i.new \notin {j.key, j.new}
    /\ i.pc \in {"opening", "crediting"} /\ j.pc = i.pc => i.payment # j.payment

FreshIds ==
    \A w \in Workers :
        Unborn(job[w]) /\ \A v \in Workers \ {w} : Apart(job[w], job[v])

(* What a request has learnt still holds when it acts on it: the key has a
   row, the invoice is paid, and the payment it has locked is not credited. *)
Learnt(j) ==
    /\ j.pc \in {"switchingOn", "switchingOff", "rotating", "rotated", "opening",
                 "crediting", "credited", "caching"} => j.key \in Existing
    /\ j.pc = "rotated" => j.new \in Existing
    /\ j.pc \in {"answered", "crediting"} =>
          /\ payments[j.payment].status \notin {"absent", "new"}
          /\ j.answer = "paid" => invoice[j.payment] = "paid"
          /\ j.answer = "trusted" => TrustBot /\ invoice[j.payment] \in {"paid", "short"}
    /\ j.pc = "crediting" =>
          /\ j.answer \in {"paid", "trusted"}
          /\ OwnerOf[j.key] = PayerOf[j.payment]
          /\ ~payments[j.payment].credited

LearntHolds == \A w \in Workers : Learnt(job[w])

BillingInv == CreditedIsPaid /\ KnownKeys /\ FreshIds /\ LearntHolds

-----------------------------------------------------------------------------
(* Action properties *)

(* A late or repeated answer of OxaPay never takes back a credited payment. *)
CreditedKept ==
    [][\A p \in Payments : payments[p].credited =>
          /\ payments'[p].credited
          /\ payments'[p].status = "paid" /\ payments'[p].key = payments[p].key]_vars

Book == INSTANCE Ledger WITH
            Accounts <- Keys,
            opened <- Existing,
            credited <- {p \in Payments : payments[p].credited},
            balance <- [k \in Keys |-> licenses[k].balance]

(* Webhooks, retries and the sweep together credit a payment once, in full and
   to one licence, and nothing but a claim lowers a balance. *)
ImplementsLedger == Book!Spec

(* internal.py:805 "rotation is the SAME user/billing, so their balance must
   not be lost or reset": the new key starts with no less than the old one has. *)
BalanceCarried ==
    [][\A old, new \in Keys :
          (/\ OwnerOf[old] = OwnerOf[new] /\ licenses[old].active
           /\ ~Exists(new) /\ licenses'[new].active)
              => licenses'[new].balance >= licenses[old].balance]_vars

(* models.py:91 "the license-scanner auto-disables the license the moment it
   drops below 0": the scanner pauses no licence that has a balance. *)
PausedOnlyBelowZero ==
    [][\A k \in Keys :
          (scan' # scan /\ licenses[k].active /\ ~licenses'[k].active)
              => licenses[k].balance < 0]_vars

-----------------------------------------------------------------------------
(* Liveness *)

(* A missed webhook: an open invoice that has been paid is found by the bot's
   sweep and recorded, unless it outlives the look-back or an answer from
   before the payment marks it expired first. *)
MissedWebhookRecovered ==
    \A p \in Payments :
        (payments[p].status = "waiting" /\ payments[p].age < 2 /\ invoice[p] \in {"paid", "short"})
            ~> (payments[p].status \in {"paid", "expired"} \/ payments[p].age >= 2)

(* A licence below zero does not stay switched on. *)
OverdrawnPaused ==
    \A k \in Keys : (licenses[k].active /\ licenses[k].balance < 0)
                      ~> (~licenses[k].active \/ licenses[k].balance >= 0)

(* The cache settles on what the table says, whatever stale writes requests
   still had under way. *)
CacheConverges ==
    \A k \in Keys :
        /\ <>[]Usable(k) => <>[](cache[k] = "active")
        /\ <>[]~Usable(k) => <>[](cache[k] # "active")
=============================================================================
