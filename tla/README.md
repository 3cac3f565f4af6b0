# TLA+ for the claims backend

The repository is a Flask and Socket.IO backend that broadcasts bonus codes to
browser userscripts, accounts for the claims they report, sells the capacity
for it, and bills prepaid licences. It runs as one gunicorn worker with an
eventlet hub on Postgres at READ COMMITTED, psycopg2 patched so that a query
yields. Two products share the code: the main product (licences, top-ups,
conversion of claims) and the API-Claimer product (`API_CLAIMER_MODE`: operator
accounts whose slots are sold to buyers).

What makes it hard is the same everywhere: a handler is a series of short
transactions with network calls between them; every query, emit, lock and sleep
is a point where another greenlet may run; a rolling deploy has two processes
at once; the process may die between any two steps; and most facts live twice,
once in Postgres and once in a dictionary of the process.

## Inventory

| Component | State it keeps | Operations | Talks to |
|---|---|---|---|
| Slot sales (`routes/api_customer.py`) | `api_orders`, `api_slots` | begin, cart-begin, track, allocate, reconcile, fulfil | OxaPay, the sweep, the connected accounts |
| Slot expiry sweep (`app/__init__.py:498`) | nothing of its own | expire, release reservations, wipe keys, reconcile, fulfil | slot sales |
| Slot administration (`routes/api_slots.py`) | `api_slots`, `api_claims` | upsert, delete, record a claim | slot push |
| Top-ups (`services/payment_service.py`) | `payments`, `licenses.available_balance` | begin, record, verify and credit, pending list | the bot, OxaPay, the licence cache |
| Licence administration (`routes/internal.py`) | `licenses` | register, on, off, rotate | cache, `/_tmc` rooms, the bot |
| License scanner (`app/__init__.py:820`) | its last snapshot, the alert set | deactivate below zero, refresh the cache, notify | licences, cache, rooms |
| Licence cache and sessions (`license_manager.py`) | active licences, sessions by sid, denylist | lookup with fallback to the database, add, remove, revoke | everything on `/_tmc` |
| Claim conversion (`routes/api.py`) | 12-hour marks, bounded queue | mark, enqueue, unmark, worker | `licenses`, `app_users`, `code_claims`, notices |
| Balance notices (`services/balance_notifier.py`) | pending aggregates and timers | record, flush | the bot |
| Claim ledger (`tmc_routes.py:164-230, 979-1228`) | bonus marks, `code_claims`, `api_claims` | record once | conversion, notices, response report |
| Userscript connections (`tmc_routes.py:713-958, 1331-1557`) | rooms, pushed slots, key versions | connect, disconnect, identify, push slots | sessions, slots |
| Verification relay (`tmc_routes.py:1710-1823`) | waiting requests | relay, answer, time out | one connected userscript |
| Claimer control (`claimer_manager.py`, `tmc_routes.py:2129`) | desired and observed state, dirty set | set, record, flush, reconcile | userscripts, `claimers` |
| Response report (`tmc_routes.py:2665`) | open windows by code | open, extend, fold, send | claims |
| Broadcast (`websocket_manager.py`, `sse_manager.py`, `sse_routes.py`) | recent codes, SSE connections, nonces | broadcast, subscribe, pong, clean up | every client |
| Claim history (`claim_history.py`) | bounded write queue, fallback deque | record, write, read, prune | conversion |
| User cache (`services/user_service.py`) | users by name | look up, preload | SSE, conversion |
| Rate limits, attack monitors, Telegram, Cloudflare | counters | admit, notify | outside |

What makes each correct, and where it can go wrong, in the order in which the
models take them up:

* **Slot sales.** One paid order gets one slot and nobody pays twice or loses a
  running slot; the buyer's Stake key is on a slot only while it is sold and is
  wiped from the order. Hard: allocation, sweep and checkout read rows without
  a lock and write them later; the ORM writes only changed columns; the same
  reference is allocated from the webhook, the sweep and a status poll.
* **Top-ups and licences.** A payment is credited exactly once and the balance
  is the credits less the deductions; a licence with money is active. Hard: the
  scanner acts on a snapshot, rotation copies a balance it read earlier, the
  cache is written after the commit.
* **Claims and conversion.** A claim counts once, for the right owner, and is
  not lost when the queue is full or a transaction fails. Hard: the mark is in
  memory, the record in the database, and two processes overlap in a deploy.
* **Connections, sessions, push, relay.** A disconnected sid leaves no session;
  a slot's config reaches the connection that serves it now; a waiting request
  is answered by its own answer or by its timeout.
* **Claimer control.** A desired state survives a crash, is never overwritten by
  an older observation, and reaches the userscript.
* **Broadcast, history, caches.** A code is sent once per window; a queue at
  its bound drops visibly; a lookup is not older than its time to live.

## Plan

Done, described below:

1. `Sales`, `SlotOrders`, `SlotOrdersProofs`: the slot shop.
2. `Ledger`, `TopUps`, `TopUpsProofs`: prepaid licences.
3. `Conversions`, `DropResults`, `ApiClaims`, composed by `ClaimPipeline`: what
   becomes of a reported claim.
4. `Presence`, `VerifyRelay`, `ClaimerConfig`, `Broadcasts`, `SlotRegistry`,
   composed by `Connections`: the namespace `/_tmc`, the codes sent over it and
   the slots pushed to it.
5. Theorems about both: `ConversionProofs`, `ClaimProofs`, `ConnectionsProofs`,
   `PresenceProofs`, `ConfigProofs`, `RegistryProofs`. With them every invariant
   and every action property that a passing run checks is a theorem.

Left, in this order:

6. `SlotOrders` extended by the writers of a slot that `SlotRegistry` knows (the
   buyer's new key, the operator's edits) and by two request greenlets that
   check out for one buyer. Both write the rows that `SaleInv` is about, so its
   proof has to take them in with the model.
7. The SSE page's nonces and tokens, and the user cache.

## Files

| Module | What it is |
|---|---|
| `Sales` | abstract: a checkout is paid for, then each of its orders is placed on a slot, once and for good |
| `SlotOrders` | slot sales, the sweep, OxaPay's reports and the connected accounts, in detail |
| `SlotOrdersProofs` | its theorems |
| `MCSlotOrders` | its instances for TLC: `slot_renewal`, `slot_cart`, `slot_resold`, `slot_swept`, `order_reopened` |
| `Ledger` | abstract: accounts, payments credited at most once, charges |
| `TopUps` | licences, top-ups, rotation, the licence scanner and the licence cache, in detail |
| `TopUpsProofs` | its theorems |
| `MCTopUps` | its instances for TLC: `topup_billing`, `topup_recovery`, `topup_rotated`, `topup_paused` |
| `ClaimParties` | users, codes, licences: the constants the claim modules share |
| `Conversions` | a claim as money: marks, queue, worker, notices, history |
| `DropResults` | a claim as news: dedup, the owner's summary, the admins' response report |
| `ApiClaims` | a claim of the slot product: the ledger `api_claims` |
| `ClaimPipeline` | `on_user_claim` and broadcast, over these three |
| `ConversionProofs` | what `Conversions` keeps: its inductive invariant |
| `ClaimProofs` | the theorems about `ClaimPipeline` |
| `MCClaimPipeline` | its instances for TLC: `claims`, `claim_owner` |
| `Presence` | sessions of a licence, presence notices, claimers' online flag, broadcast key |
| `VerifyRelay` | a token is verified by connected scripts |
| `ClaimerConfig` | the settings of a claimer: desired, observed, cache, row, script |
| `Broadcasts` | codes sent once per window, and the legacy SSE streams |
| `SlotRegistry` | who changes a slot, and the lists of slots that reach the scripts |
| `Connections` | connect and disconnect, over these five |
| `ConnectionsProofs` | who moves what; the theorems about `VerifyRelay` and `Broadcasts` |
| `PresenceProofs` | the theorems about `Presence` |
| `ConfigProofs` | the theorems about `ClaimerConfig` |
| `RegistryProofs` | the theorems about `SlotRegistry`, and the types of the whole |
| `MCConnections` | its instance for TLC: `connections` |

The four parts (shop, licences, claims, connections) share the process and the
database. Where one part uses another's state it holds its own view of it: the
licence cache is the flag `open` in `Presence`, the balance in `Conversions` is
the one that `TopUps` charges by `Convert`. They are not composed further,
since their product would be out of TLC's reach and no step of one reads more of
another than that.

**How a handler becomes steps.** A greenlet can be suspended at each database
statement and each network call. A SELECT without `FOR UPDATE` is therefore a
step of its own when what it read is used by a later write: the step keeps what
it read in the record `job[p]` (the handler's local variables), and the step
that writes uses the record, not the table. Statements between which nobody can
tell the difference are one step. A row lock held over several steps is a
predicate over `job` (`Holds`, `Unlocked`), and a step that needs the row waits
for it. A write of the ORM changes only columns that differ from what was read.
The commit of `db_session` is the writing step, its rollback leaves the tables
alone and ends the job. A restart, or the death of one process of an overlapping
deploy, clears `job` and the in-process state and leaves the tables.

## SlotOrders

| State | Code |
|---|---|
| `slots` | `api_slots` by (account_id, slot_index): status, owner, key, expiry |
| `orders` | `api_orders`: status, what is left of the encrypted key, slot, reservation and its end, whether a track_id is known, creation time |
| `paid` | what OxaPay has received under each order_id or cart_id |
| `job` | the local variables of a request greenlet, and of the sweep thread while it allocates |
| `sweep` | the sweep's lists and its open transaction |
| `pool` | the accounts with a live userscript |
| `now` | the clock that reservations, subscriptions and the reconcile window are compared with |

| Actions | Code |
|---|---|
| `OrderBegin`, `OrderCartBegin`, `BeginCommit` | `order_begin`, `order_cart_begin`: supersede pending orders, refuse without capacity, insert with a reservation |
| `OrderTrack` | `order_track`: the bot tells the track_id |
| `OrderAllocate`, `VerifyPayment`, `RefusePayment` | the head of `_allocate_order`: orders of the reference, payment check with OxaPay, the total of a cart |
| `PickSlot`, `Backorder`, `TokenLost`, `SkipOrder` | the row lock on an order and `_pick_free`, or the ways not to place it |
| `ReadSlot`, `WriteSlot`, `RetryOrder` | `_place_paid_order`: SELECT of the slot row, then INSERT or UPDATE, and the four attempts |
| `SweepSelect`, `SweepFlush`, `SweepScan`, `SweepCommit` | one cycle of `sweep_loop`, by its transactions |
| `ReconcileList`, `Reconcile`, `FulfilList` | `reconcile_pending_orders`, `fulfil_awaiting_capacity` |
| `DeadlockAbort` | Postgres aborts one of two transactions that wait for each other |
| `Pay`, `Connect`, `Disconnect`, `Tick`, `Restart` | outside |

What each run shows:

* `slot_renewal` (one slot, one buyer, an order and its renewal): the type
  invariant; a Stake key is on a slot only by a paid order placed there
  (`KeyOnlyOnPaidSlot`); closed orders stay closed (`ClosedStays`); the shop
  implements `Sales` (`ImplementsSale`).
* `slot_cart` (a cart of two orders for one slot): the inductive invariant
  `SaleInv`, and under fairness that a missed webhook is recovered
  (`TrackedPaymentSettles`), that a backorder is served when a place stays free
  (`BackorderServed`), and that left-over keys are wiped (`KeysCleared`).
* `slot_resold`: found violated. Two allocations of expired slots read the same
  row and both UPDATE it; the unique constraint guards inserts only.
* `slot_swept`: found violated. The sweep expires a slot that was renewed
  between its SELECT and its UPDATE.
* `order_reopened`: found violated. A checkout or the sweep overwrites an order
  allocated since it was read as pending.

Each violation needs two transactions that interleave; the repository's tests
call the handlers one after the other. The model keeps these behaviours, so
what the passing runs and the proofs show holds in spite of them.

Bounds. One account with one slot, because every conflict is about one row;
two orders (three in `slot_resold`, where the slot has to have lapsed before
two others contest it); one request greenlet beside the sweep thread, which
allocates by the same code, so that two allocations do race; two attempts
instead of four, enough for one failed and one last attempt; terms, reservation
and reconcile window of one tick, so that each can lapse before, at or after
each step; `MaxTime` two ticks, enough for a sale, its end and the renewal's
term; one fault. The proofs need none of these bounds.

Abstractions. Every order costs 1, a merchant key is set and OxaPay reports an
amount. `PaidUp` therefore leaves out two branches of `_allocate_order`: a
report without an amount, when nothing is compared (`api_customer.py:926`),
and the path without a merchant key (`api_customer.py:918-924`), where the
bot's word, a paid status, is all the proof there is. The status `paid` of an order is never
committed by this code and is left out. The LIMIT 50 of the reconcile list is
left out. `OrderAllocate` is enabled once something was paid: a call before
that changes nothing. The SELECTs of one transaction that nobody can tell apart
are one step, and so are the lock of an order row and the pick that follows it.
The pushes to userscripts, the operator's slot administration and the buyer's
slot configuration are the subject of `SlotRegistry`, not of this module.

Fairness (`FairSpec`). The sweep thread and a request run on once started (WF
of `SweepStep`, SF of `Proceed`: a step that waits for a row lock is enabled
again and again and Postgres queues the waiters); the sweep's commit, which may
wait for row locks, is strongly fair for the same reason; deadlocks are broken
(WF of `DeadlockAbort`); OxaPay answers the sweep now and then (SF of
`VerifyPayment(Sweeper)`). No fairness for buyers, payments or webhooks.

## TopUps

| State | Code |
|---|---|
| `licenses` | `licenses` by key: rank by created_at, active, banned, available_balance, usd_claim_amount; `opening` remembers the balance the row was inserted with |
| `payments` | `payments` by order_id: status, `credited` latch, licence, age against expires_at and the look-back |
| `invoice` | the invoice's state at OxaPay |
| `queued` | claims in the conversion queue, by key |
| `sessions` | the licences with a userscript connected on `/_tmc` |
| `cache` | `active_license_cache` |
| `job` | the local variables of a request |
| `scan` | the scanner's cycle: its snapshot and the licences still to go through |

| Actions | Code |
|---|---|
| `Register`, `RegisterCommit` | `POST /lic/reg` |
| `LicActivate`, `SwitchOn`; `LicDeactivate`, `SwitchOff` | `POST /lic/on`, `/lic/off` |
| `Rotate`, `RotateCommit`, `RotateCache` | `POST /lic/rotate`: read, swap under the unique index, cache |
| `BeginTopup`, `BeginCommit`, `RecordTopup` | `begin_topup`, `record_topup` |
| `VerifyAndCredit` | the read of the payment and OxaPay's answer |
| `MarkStatus`, `AmountMismatch` | `_mark_status`, and the under-paid branch of `_credit_verified_payment` |
| `LockAndTarget`, `Credit` | `_credit_verified_payment`: FOR UPDATE, latch test, the statement that credits the current licence, commit |
| `RefreshRead`, `WriteCache`, `LookupMiss` | `_refresh_license_cache`, `is_license_active` on a miss |
| `Connect` | `tmc_connect`, admitted by the cached licence |
| `ReportClaim`, `Convert` | a claim is queued under its key; the worker's deduction |
| `ScanSelect`, `ScanBaseline`, `ScanSeed`, `ScanPause`, `ScanPop`, `ScanPauseFails`, `ScanRefresh` | the scanner loop |
| `CreateInvoice`, `InvoiceMoves`, `TimePasses`, `Ban`, `Restart` | outside |

What each run shows:

* `topup_billing` (two greenlets, one payment, two keys): a webhook and its
  repetition, a rotation, a claim and the scanner race. Every balance is what
  the row was opened with, plus the payments booked to it, less its claims
  (`Books`); a credit rests on a paid invoice and goes to a licence of the payer
  (`CreditedIsPaid`); nothing takes it back (`CreditedKept`); the whole
  implements `Ledger` (`ImplementsLedger`); the inductive invariant
  (`BillingInv`) holds.
* `topup_recovery` (one greenlet, one fault, an order that grows old): a missed
  webhook is recovered within the look-back (`MissedWebhookRecovered`), a
  licence below zero is switched off or recharged (`OverdrawnPaused`), and the
  cache settles on the table whatever stale writes were under way
  (`CacheConverges`).
* `topup_rotated`: found violated. A credit between the rotation's read and its
  commit stays on the old, inactive row.
* `topup_paused`: found violated. The scanner pauses a licence recharged since
  its snapshot; `OverdrawnPaused` still holds, but nothing switches it on again.

Bounds. Two keys of one user are a licence and its successor; one payment is
enough for a double credit, a late answer and a wrong target, since requests
for different payments meet only in the balance, which the proofs treat in
general; one claim of 1 against an invoice of 2 makes a balance that crosses
zero in both directions; two greenlets in `topup_billing` (the second one
serves payments only) and one in `topup_recovery`, where the liveness checks
cost more; one fault there, so that a restart, a failed write and a ban are
each seen. The two keys of `topup_billing` are
interchangeable, and its properties are safety properties, so they are a
symmetry set. `TrustBot` is FALSE, the default of
`TOPUP_TRUST_BOT_ON_VERIFY_FAIL`; the proofs cover TRUE as well.

Abstractions. A claim costs 1 and every licence is on the percentage plan. An
invoice is paid in full or short; OxaPay may report it expired and paid later.
An answer "waiting" changes nothing and is left out. `BeginTopup` is two
transactions of the code in one step, the resolution of the licence and the look
for an open invoice (`payment_service.py:106-192`): the first only finds the key
that the row starts with, and a credit goes by the licences of its own time. The
LIMIT 200 of
`list_pending`, notices, low-balance alerts, pushes to userscripts and the bot,
and the API-account branch of `is_license_active` are left out. A session does
not end (other than by a restart): `on_user_claim` looks at the session only, a
claim may be on its way when the room is disconnected, and a session may fall
silent at any time, so the model allows all that the code does and more. No code of the
repository deletes a licence. How a conversion can fail is the subject of
`Conversions`; here a queued claim is charged or lost in a restart.

Fairness (`FairSpec`). The scanner and the conversion worker are daemon threads
whose loops catch every exception (WF of `Scanner`, `Convert`); a request runs
on once started (WF of `Proceed`); the bot's sweep goes through the pending list
periodically and, again and again, finds a greenlet free and OxaPay answering
(SF of `ReconcileSweep`). No fairness for users, webhooks, payments or admins.

## Claims

A userscript reports the outcome of a drop (`on_user_claim`). In the main
product a success counts as money (`Conversions`) and every outcome as news
(`DropResults`); in the slot product the outcome goes to a ledger
(`ApiClaims`). `ClaimPipeline` is the handler that feeds them, with the
broadcasts it answers and the restart that empties them; `mode` says which of
the two products the process runs.

| State | Code |
|---|---|
| `marks`, `queue`, `worker` | `_claimed_codes`, `_conversion_queue`, `_conversion_worker` (`routes/api.py`) |
| `rows`, `credited`, `balance`, `counts` | what the worker's statement writes: `usd_claim_amount`, `available_balance`, `code_claims` |
| `notice`, `timers`, `told` | `balance_notifier._pending`, its live timers, and what left it |
| `writing`, `history` | the write queue of `claim_history` and the table |
| `dedup`, `buckets`, `summaries` | `_claim_dedup`, `_claim_collectors`, the timers of the drop summaries |
| `tallies`, `reports`, `genSeq` | `_response_tallies`, the timers of the response report, their generations |
| `claims`, `pendingQo`, `holds`, `writes` | `api_claims`, `_pending_qo`, the timers of `_flush`, calls of `record_api_claim` under way |
| `slots`, `owner`, `pushed` | the rows of `api_slots`, the buyer of each, and the one the scripts were last pushed |
| `shown`, `sent`, `answered`, `due`, `owners` | kept for the properties: what people were told, the holds that a real reply came in, the successes reported and not lost, the buyers a slot has had |
| `bonus` | `_bonus_codes` |

| Actions | Code |
|---|---|
| `RecordClaimAmount`, `ConvertToUsd`, `Enqueue`, `Overflow` | `_record_claim_amount`, `convert_to_usd`, `_mark_converted`, the queue at its limit |
| `WorkerTake`, `WorkerSkips`, `WorkerFindsNoRow`, `WorkerUpdates`, `WorkerCommits`, `WorkerRollsBack` | the worker up to its next wait, and its ways to fail |
| `RecordNotice`, `Flush` | `balance_notifier.record`, `_flush` |
| `RecordHistory`, `FlushBatch` | `claim_history.record_claim`, its writer |
| `DropResult`, `FireSummary`, `ForgetDedup` | `_add_drop_result` behind the dedup, the summary five seconds later |
| `ScheduleOrExtend`, `FireReport` | `_schedule_or_extend`, `_fire_response_report` |
| `ReplyOverloaded`, `ReplyReal`, `FlushHeld` | `_record_claim_qo_aware` and its timer |
| `SelectOwner`, `Upsert`, `WriteFails` | `record_api_claim` |
| `UserClaim`, `Broadcast`, `ExpireBonus`, `Convert`, `Restart` | the composition |
| `Sell`, `DeleteSlot`, `Push` | a sale or the operator's edit, `delete_slot` with its cascade, `push_slots_to_account` |
| `ExpireMark`, `RemoveRow`, `ForgetConversions`, `ForgetDrops`, `ForgetApi` | outside: time, rows that other services delete, the process replaced |

`claims` shows: whatever is queued, worked on or credited under a mark is one
claim, and a claim turned away by a full queue leaves no mark (`CountedOnce`);
no deduction falls between a notice's timer that is cancelled and its successor
(`Announced`); a credited code has had its first-claim alert, unless a claim
that found no account was counted before it (`FirstClaimAlerted`); what is
collected has a timer that will tell it (`TimersArmed`); the reports of a code
add up over windows that extend and reopen (`ReportsAddUp`); a success told is
not taken back by what is reported later under the same key (`NeverTakenBack`);
a success reported of a slot's claim is on its row or about to be, whatever
other scripts report and whoever buys the slot, unless its own write was lost or
the slot deleted, and a row stands only with its slot and for somebody who
has owned it (`ClaimedWins`); a held "queue overloaded" never follows a real
reply (`RealReplyWins`); a queued claim is worked off (`ClaimLeavesQueue`) and an
open report window closes, however often its code is dropped again
(`WindowCloses`).

Four of these are weaker than a reader may expect, since the code is.
`NeverTakenBack` is about a key of the dedup, and the key has the currency
(`tmc_routes.py:1174`), which is `usdt` when a result names none (1074) or there
is no result (1084). A late failure that names none, after a success in another
currency, is no duplicate: it opens a bucket of its own for the same user and
code, and the owner who was told ✅ is told ❌. The model has the currencies and
behaves so; what it shows is that within one currency this cannot happen, even
where a summary has one line for results in two. `ClaimedWins` loses a row that
is deleted: `api_claims.slot_id` is ON DELETE CASCADE (`models.py:350`), so
`delete_slot` takes the claims of a slot with it, successes and statistics
included. What is checked is that a write that comes late leaves no row behind
the deletion, that a deletion is the only way a recorded success goes, and that
a write that fails, or ends with its process, is the only way one is never
recorded. `CountedOnce` lets a marked claim be lost (`dropped`): when the worker's
statement or commit fails, the mark stays for its twelve hours and the user's
resend is a duplicate. And what the worker tells it tells before its COMMIT, so
`Announced` is an inequality: more may be announced than was deducted.

`claim_owner` finds violated what the comment in `record_api_claim` says, that
the owner comes from the slot's row: after a resale a script that still has the
old push names the previous buyer, and that buyer is recorded.

Bounds. One user, one prepaid licence and the legacy stream, so that the same
claim may reach the queue by two ways; two codes, the least by which one bucket,
tally or bonus can push out another: `QueueMax`, `WriteMax`, `CollectorsMax`,
`ReportMax` and `BonusMax` are 1 so that each limit is met. A behaviour chooses
one of three `Exercises` at its start: the main product with reports in one
currency and three events (claims, windows of the report, losses and errors
together, with `MaxForgets` and `MaxErrors` one), enough for a claim, its loss
and its repetition, or a window and two responses; the main product with two
currencies and two events, a success and a failure that differ in it; the slot
product, with one slot, one code, two buyers, three replies, one sale and a
deletion. `MaxMoves` is one: within the thirty seconds that a window may last
(`_REPORT_HARD_MAX`) its timer finds the deadline moved once and is set again;
extending itself is free and unbounded. `Opening` is 1, so that the second claim
overdraws.

Abstractions. A claim is worth 1. The labels of failures are one category. A slot
belongs to a buyer at the start of a run (the proofs allow that it is nobody's);
a deleted slot's id is not used again. Time is left out: a timer may fire at any moment, a mark lapses only when its claim
is not under way (twelve hours against seconds), and a dedup entry only when its
result has been told (ninety seconds against five). The main
product and the slot product do not share state, so a behaviour is about one of
them.

Fairness. The worker is a daemon greenlet that catches every exception (WF of
`WorkerTake`, `WorkerDone`); a spawned timer runs (WF of `FireReport`; it is set
again only while its window may still grow, `MaxMoves` times). None for scripts
or users, nor for the other timers, which nothing that is checked rests on.

## Connections

| State | Code |
|---|---|
| `open`, `admin` | the licence is in `active_license_cache`; it is one of the operator's own (`_ADMIN_TELEGRAM_IDS`) |
| `sessions` | `active_sessions` of the licence, by sid: name, claimer, `bk_ver` |
| `notif`, `timers` | `_notif_state` and the greenlets of `_fire_delayed_disconnect_notify` |
| `arriving` | connect handlers that wait for the slots of the account |
| `online` | the flag of the claimers' cache entries |
| `keyHeld` | what a script has of the broadcast key |
| `waiters`, `verdict`, `asked`, `said` | `_verify_waiters`, what calls returned, messages to scripts, their answers |
| `cache`, `row`, `dirty`, `flush`, `changes` | `_claimer_cache`, `claimer_apis`, `_dirty`, `flush_dirty`, the administrator's requests |
| `runs`, `down`, `up` | by connection of the claimer: the setting its script runs with, and the messages both ways |
| `teller` | kept for the property: the connection whose word the observed setting is |
| `recent`, `drops` | `_recent_codes`, and what was sent to whom |
| `register`, `version` | the row of one place in `api_slots`, and how often it was changed |
| `edit` | the handlers that change it: what they read, the list they push |
| `lists`, `heard`, `lost` | lists read by connect handlers, the newest list each script was sent, a push given up |
| `streams` | the entries, queues and health of `SSEManager`, and the generators of `/events` |

| Actions | Code |
|---|---|
| `Join` (`Connect`, `Announce`, `ClaimerConnects`), `Arrive` | `tmc_connect`; in the slot product it reads the database halfway |
| `Disconnect`, `PutOff` (`Leave`, `Farewell`, `FailWaitersFor`, `ClaimerLeaves`) | `tmc_disconnect`, by the script's leaving or by `disconnect_license_room` |
| `TimerFires` | "went offline", after the grace |
| `Relabel` | `tmc_update_identity` |
| `RequestKey`, `StoreKey`, `AckKey` | the handshake for the broadcast key |
| `VerifyCall`, `VerifyResult`, `VerifyReturns` | `verify_token_via_worker` up to its wait, `tmc_verify_token_result`, its return |
| `HearStatus`, `OnAck`, `OnLimited` | `on_claimer_status`, `on_api_result`, either over the rate limit |
| `SetDesired`, `PersistCommits`, `PersistFails`, `PushChange` | the administrator's change: entry, write-through, push |
| `FlushStarts`, `FlushCommits`, `FlushFails` | `flush_dirty` |
| `Restart` | the process replaced: `rebuild_claimer_cache_from_db` |
| `DropToUser`, `DropToLicense`, `DropToEveryone`, `DropByOwner` | the ways a code is sent, with `is_code_duplicate` and `broadcast_code` |
| `OpenStream`, `StartStream`, `ReadCode`, `Keepalive`, `Pong`, `GeneratorEnds`, `CleanupStale` | a legacy stream, and the sweep of the registry |
| `EditStarts`, `EditCommits`, `EditFails` | `upsert_slot`, `delete_slot`, `slot_config`, `_place_paid_order`, the sweep and `on_slot_reload_status`: a read, and a transaction that may fail |
| `PushLists`, `PushSends`, `PushFails` | `push_slots_to_account` after the commit: SELECT, then one message to the room |
| `ListForNew`, `ArriveListed`, `ListLost` | the connect handler's own list |
| `CloseLicense`, `ScriptApplies`, `ScriptChanges`, `ClientGone`, `GoesStale`, `Tick`, `Lapse` | outside |

The modules share one handler and one store: a script that leaves ends its
waits in the relay, its claimer's connection and its part in broadcasts in one
step, and each of those reads the sessions. Their product is too large for one
run, so a behaviour chooses at its start an *exercise*: which of the outside
events may happen besides connecting and leaving. The exercises are a bound
like any other (what two of them would do together is not explored), and
`MCConnections` lists them.

`connections` shows: a licence never carries more names than it paid for or, but
for the operator's own, a name more tabs than the cap, though scripts arrive as
`unknown` and are relabelled (`UserLimits`); of a user who may be about to be reported offline
one timer runs, of others none (`OneTimer`); offline is said only of a user
without a session (`OfflineMeansGone`, with two cases apart, below); the online
flag is the sessions' (`ClaimerOnline`); a session on the shared key holds it
(`Readable`); a verdict is what scripts said in time (`VerifyTruthful`); what the claimer cache holds is in its row or
will be (`RowKept`); "synced" is true of the tab whose word it is, at rest
(`SyncedIsRunning`);
nobody is sent a code twice in its window (`OncePerWindow`); a gone client's
place in the registry is freed (`StreamReaped`); no script misses a change of a
slot that is made while it connects (`NewestSent`).

What the properties leave out, since the code does it: connecting holds the tabs
of the operator's own licences to `MAX_CONNECTIONS_PER_USERNAME_ADMIN` (100, or
none at 0; `tmc_routes.py:617-626, 786-793`), but relabelling to no cap at all
(`license_manager.py:450`, whose comment says "admin-exempt like connect"), so a
hundred tabs and one more that arrives as `unknown` pass it, and `UserLimits`
bounds only the names of such a licence; a session that comes by
relabelling kills no timer, and two tabs of the slot product that connect
together each take the other for the first, so the owner may be told that a
user who is there went offline (both named in `OfflineMeansGone`); two writes of
the claimer's row that overlap may land in the older one's favour (`overlap` in
`RowKept`); two pushes, or a push and a connect handler, that cross may send the
older list last, since a list carries no version (`NewestSent` asks only that
the newest was sent); an event that the rate limit refuses is lost, and with it
the tab's word (`teller`).

A claimer may run in several tabs. `emit_task_to_claimer` pushes to all of them
(`tmc_routes.py:2080-2090`) and `on_claimer_status` and `on_api_result` hear any
of them, but the entry has one observed setting and one state: the last report
handled decides, whichever tab it came from. So "synced" may be shown while
another tab, where the push failed or is not yet applied, or whose user changed
the setting, runs something else. `SyncedIsRunning` therefore speaks of the tab
that told what is observed, as long as it is connected: whatever the other tabs
told before, and however old and new pushes, acknowledgements and reports of
all of them cross, once that tab is quiet and no change is under way "synced"
means that it runs what is desired. The stronger statement about every tab is
false of the code.

Bounds. Three sids, one licence of one user name and two tabs to a name, so that
both limits are met and passed, for a customer's licence and for the operator's
(`AdminTabCap` two as well); `FanoutMax` two of three scripts and
`ConcurrentMax` one of two calls; two requests of the administrator and two values, the least by which one change
overtakes another, on one tab that comes and goes, and one request and two
values on two tabs, the least by which two tabs come to differ; `MaxUpsets` two refused writes,
restarts, script-side changes or refused events; two spellings of one code,
`MaxDrops` two, `Window` two ticks of a clock of `MaxClock` three, so that a
repetition comes before, at and after the end of the window; one stream with
room for one code; two handlers that change one place of one account twice
(`MaxChanges`), with and without a row in it at first, which is enough for a
row to be deleted, inserted or sold between another's read and its write, and
one script that connects before, during or after.

Abstractions. A claimer's tabs are sessions of the one licence modelled
(`sids_for_claimer` finds them by claimer and administrator, under any licence).
One setting stands for token, currency and filters, which are
compared and pushed alike. Of a slot's row only what the handlers decide by is kept: its
identity, owner, status and term; a list is known by the version it was read
at. A rate limit is an event that may be refused. A
process has one broadcast key for its life. The order of messages on one
connection is kept, as Socket.IO keeps it; what is under way when it ends is
lost.

Fairness. The server asks a generator for its first piece, or finds the client gone; a
write to a client that has gone fails; a stream whose generator does not run
falls silent; the cleanup thread looks every minute (`StreamFairness`).

## Proofs

Checked by TLAPS for every value of the constants that satisfies the assumptions
of the module (finite sets of accounts, orders and keys; owners, amounts and
bounds of their types; `None` apart from the values beside which it stands:
`NoSession`, `NoWaiter`, `NoEntry`, `NoRow`, `NoNotice`).

`SlotOrdersProofs`: `TypeCorrect` (`TypeOK`), `SaleSafety` (`SaleInv`),
`KeySafety` (`KeyOnlyOnPaidSlot`), `ClosedForGood` (`ClosedStays`), `ShopSells`
(`ImplementsSale`). That an order is placed only when its checkout is paid says
nothing of how the payment check, made several steps before the write, is still
true then; the inductive invariant adds what a job knows: a job past the check
has a funded checkout (`VerifiedJobs`), an order whose row it has locked is open
and locked by it alone (`LockedIsOpen`), the references it is about to insert
are unused and its own (`FreshReferences`), and the orders it or the sweep has
listed exist (`ListedExist`). Each step is then one case, by the rows it writes.

`TopUpsProofs`: `TypeCorrect` (`TypeOK`), `BillingCorrect` (`BillingInv`),
`PaidBeforeCredited` (`CreditedIsPaid`), `CreditsAreKept` (`CreditedKept`),
`LedgerKept` (`ImplementsLedger`). `CreditedIsPaid` is strengthened in the same
way: what a request has learnt still holds when it acts (`LearntHolds`: its key
has a row, its answer is true of the invoice, a payment it holds locked is not
credited and the licence it chose is the payer's), ids about to be inserted are
fresh and its own (`FreshIds`), and no key is held in memory without a row
(`KnownKeys`), so that a charge or a cache write never hits a row that is not
there. Lemmas on who writes what (`PaymentSteps`, `LicenseSteps`,
`InvoiceSteps`) come first; the invariant and the refinement are then by them.

`BooksAddUp` (`Books`) speaks of a sum over a set, which the library computes by
a recursion that takes one element away at a time. The induction theorems of the
library take an operator that no prover here can instantiate; stated for a set
(`NatSetInduction`: a set that holds 0 and with every number the next holds all;
`SubsetInduction`: a set of sets closed under adding an element holds all
subsets of a finite set) they are first-order and follow from `WFMin`. With them
the recursion has a solution (`SumsExist`), which does not depend on the set it
started from (`SumAgrees`) or on the order of the elements (`SumWithout`), so
that one more payment adds its amount (`TotalAdds`). The payments may be
infinitely many: `BooksInv` adds that those booked to a licence are finitely many
at any time. The steps then need from `BillingInv` that a payment in the course
of being credited is not credited yet, and that nothing is booked to a key that
is about to be inserted.

`ConversionProofs` and `ClaimProofs`: `ClaimsCountOnce` (`CountedOnce`),
`DeductionsTold` (`Announced`), `FirstAlertSent` (`FirstClaimAlerted`),
`RealReplyPrevails` (`RealReplyWins`), `SuccessesKept` (`ClaimedWins`). Each
needs what the worker's open transaction has done already: it has told of a
deduction it has yet to commit (`Owing` in `NoticeInv`), and its code is counted
beside a claim that found nobody unless it has been alerted (`AlertInv`).
`CountedInv` counts the places of a claim in the queue, so that the lemmas
`PlacesAppend` and `PlacesTail` say how they change at its ends. For the ledger
`HoldsApart` says that a generation is held for one entry, and that the one that
is still the newest of its entry had no real reply beside it; this is what
`FlushHeld` needs when it begins its write. `LedgerInv` adds to `ClaimedWins`
where a buyer's name comes from (`Credited`): whatever the scripts were pushed, a
hold keeps or a write carries has owned the slot, unless the slot is gone, when
the write fails.

Of the results of a drop `ClaimProofs` has `TimersStayArmed` (`TimersArmed`),
`ReportsTellAll` (`ReportsAddUp`) and `SuccessStands` (`NeverTakenBack`), from
two invariants that do not need each other. `CollectorsInv`: a key has one
bucket, so that its timer tells all that waits under it; a success that waits or
has been told is remembered by the dedup, and nothing of a claim waits once its
success was told. `WindowsInv`: a code has one tally, its window is open exactly
as long as the timer of its own generation is set, and generations are drawn
once (`DrawnOnce`), so that the timer of an earlier window cannot close a later
one; what was sent of a code is what its tally takes as told (`Sound`). Both are
about sequences from which elements are evicted, pruned and popped anywhere:
`Part` says that one sequence is left of another, and all that the invariants
say of a bucket, a tally or two of them passes to a part (`SuffixPart`,
`RemovedPart`, `PartOfPart`, `PartMember`, `PartApart`). `PipelineTypes`
(`TypeOK` of `ClaimPipeline`) combines these with the invariants of the other
parts.

The proofs about `Connections` begin with one lemma for each part
(`PresenceMoves`, `RelayMoves` and `BroadcastMoves` in `ConnectionsProofs`,
`ConfigMoves` in `ConfigProofs`) that says by which of its actions a step of
`Connections` changes its variables, whatever the exercise; the proofs of a part
see no more of the whole than that. `RelayTruthful`
(`VerifyTruthful`): a call that waits has its user exactly when a script it
asked said so in time, and is settled without one only when nobody is left to
ask (`RelayInv`). `SentOncePerWindow` (`OncePerWindow`): every drop to a
licence or to all has, until its window is over, a mark under its key that is
no older than the drop (`Marked` in `BroadcastInv`).

`PresenceProofs`: `TimersCounted` (`OneTimer`), `ServedReadable` (`Readable`),
`LimitsKept` (`UserLimits`), `ReportedGone` (`OfflineMeansGone`). The limits hold
for any number of sessions, names and tabs, caps that are switched off and the
operator's own licences included. The last is
about a step; it follows from `PendingGone`, that somebody pending has no
session.

`ConfigProofs`: `RowNeverForgotten` (`RowKept`), `OnlineExactly`
(`ClaimerOnline`), `SyncedMeansIt` (`SyncedIsRunning`). `OneWriter` says who may
be writing the row. `JoinSids`, `LeaveSids` and `StepSids` say how the sessions
of a claimer change, and `ConfigSound` that settings and messages belong to them
(`Peers`) only; `SyncInv` says that of the messages on their way from each tab
the last that tells its setting tells what it runs (`LastTells`), and that what
the `teller` told is observed once it has nothing more to tell. No bound on the
number of tabs is assumed.

`RegistryProofs`: `NewestReachesAll` (`NewestSent`), `WholeTyped` (`TypeOK` of
`Connections`). A script that was not sent the newest list is owed it
(`InHand`): by a handler that has yet to read the list or holds the newest
(`OwesPush`), or by its own connect handler, which does.

Only model-checked: the nine liveness properties (`TrackedPaymentSettles`,
`BackorderServed`, `KeysCleared`, `MissedWebhookRecovered`, `OverdrawnPaused`,
`CacheConverges`, `ClaimLeavesQueue`, `WindowCloses`, `StreamReaped`), since
temporal reasoning under fairness is outside the prover's reach. The six
violations are counterexamples found by TLC.

## Not modelled

* The reads for panels and bots, exchange rates, the wording of notices.
* The API-Claimer accounts themselves (`admin_accounts`, `account_token`) and the
  administration of balances, plans and limits of licences: single writes by an
  operator. `max_slots` and the like are constants.
* JWTs and their denylist, AES session keys, tokens and nonces of the stream
  page, Stake key encryption: what they decide is whether a connection or a key
  is accepted, which is a choice here.
* Rate limits and attack monitors: counters by address that only refuse. Where
  a refusal matters it is an event of the model (`OnLimited`).
* The value override, the `/_v` channel and its manager, the live-capacity poll
  and the browser and reload collectors: they report to the bot and change no
  state that another part reads.
* The user cache, the engine and migrations, Telegram, Cloudflare, templates,
  configuration: pure input and output, or planned (7).
