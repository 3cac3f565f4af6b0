----------------------------- MODULE ApiClaims -----------------------------
(***************************************************************************)
(* The claim ledger of the slot product (API_CLAIMER_MODE): several        *)
(* userscripts of one account report on the same slot and code. A reply    *)
(* that only says the script's own token queue was overloaded is held back *)
(* in the hope of a real one; a success wins over anything else reported;  *)
(* the buyer on a row is the one its first report named.                   *)
(*                                                                         *)
(* One account. record_api_claim is a write that passes two waits: the     *)
(* SELECT of the slot's owner, when the report names none, and the upsert  *)
(* with its COMMIT. Slots are sold to new buyers meanwhile, deleted by the *)
(* operator with the rows that refer to them, and pushed to the scripts,   *)
(* which name in a report the buyer they were last pushed.                 *)
(***************************************************************************)
EXTENDS ClaimParties, Integers

CONSTANTS
    Slots, Buyers,
    Entries,        \* (slot_id, code_norm) that scripts report on
    MaxReplies,     \* bound on replies of the scripts
    MaxSales        \* bound on sales of slots

ASSUME ApiConstants ==
    /\ IsFiniteSet(Slots) /\ IsFiniteSet(Buyers) /\ Entries \subseteq (Slots \X Codes)
    /\ {MaxReplies, MaxSales} \subseteq Nat
    /\ None \notin Buyers

VARIABLES
    claims,     \* the table api_claims
    pendingQo,  \* _pending_qo: the generation held, or 0
    holds,      \* the timers of _flush: entry, generation, the buyer named
    writes,     \* record_api_claim calls under way
    slots,      \* the rows of api_slots
    owner,      \* api_slots.slot_telegram_id, None while nobody's
    pushed,     \* slot_telegram_id as the scripts have it
    replies, sales,
    answered,   \* generations during whose hold a real reply came
    due,        \* entries a success of which was reported and not lost since
    owners      \* everything slot_telegram_id has held

apiVars == <<claims, pendingQo, holds, writes, slots, owner, pushed, replies, sales, answered,
             due, owners>>

Result == {"claimed", "failed", "queue_overload"}
Row == [result: Result, owner: Buyers \cup {None}]
ASSUME NoRow == None \notin Row

(* gen: the hold the write ends, 0 for a real reply. seq: tells writes apart. *)
Write == [entry: Entries, result: Result, owner: Buyers \cup {None},
          pc: {"select", "upsert"}, gen: 0..MaxReplies, seq: 1..MaxReplies]

ApiTypeOK ==
    /\ claims \in [Entries -> Row \cup {None}]
    /\ pendingQo \in [Entries -> 0..MaxReplies]
    /\ holds \subseteq (Entries \X (1..MaxReplies) \X (Buyers \cup {None}))
    /\ writes \subseteq Write
    /\ slots \subseteq Slots
    /\ owner \in [Slots -> Buyers \cup {None}] /\ pushed \in [Slots -> Buyers \cup {None}]
    /\ replies \in 0..MaxReplies /\ sales \in 0..MaxSales
    /\ answered \subseteq 1..MaxReplies
    /\ due \subseteq Entries
    /\ owners \in [Slots -> SUBSET (Buyers \cup {None})]

ApiInit ==
    /\ claims = [e \in Entries |-> None]
    /\ pendingQo = [e \in Entries |-> 0]
    /\ holds = {} /\ writes = {}
    /\ slots = Slots /\ owner \in [Slots -> Buyers \cup {None}] /\ pushed = owner
    /\ replies = 0 /\ sales = 0 /\ answered = {}
    /\ due = {} /\ owners = [s \in Slots |-> {owner[s]}]

-----------------------------------------------------------------------------
(* userClaim *)

Begin(e, result, named, gen, seq) ==
    writes' = writes \cup {[entry |-> e, result |-> result, owner |-> named,
                            pc |-> IF named = None THEN "select" ELSE "upsert",
                            gen |-> gen, seq |-> seq]}

(* The buyer a report names: the one last pushed, or none. *)
Named(e) == {None, pushed[e[1]]}

(* _record_claim_qo_aware, an overloaded queue: the newest hold counts. *)
ReplyOverloaded(e) ==
    /\ replies < MaxReplies
    /\ replies' = replies + 1
    /\ pendingQo' = [pendingQo EXCEPT ![e] = replies + 1]
    /\ \E named \in Named(e) : holds' = holds \cup {<<e, replies + 1, named>>}
    /\ UNCHANGED <<claims, writes, slots, owner, pushed, sales, answered, due, owners>>

(* Mutant: the hold stays. *)
ReplyRealKeepsHold(e, result) ==
    /\ replies < MaxReplies
    /\ replies' = replies + 1
    /\ answered' = answered \cup {h[2] : h \in {g \in holds : g[1] = e}}
    /\ \E named \in Named(e) : Begin(e, result, named, 0, replies + 1)
    /\ due' = IF result = "claimed" THEN due \cup {e} ELSE due
    /\ UNCHANGED <<claims, pendingQo, holds, slots, owner, pushed, sales, owners>>

(* A real reply takes the hold away and is recorded at once. *)
ReplyReal(e, result) ==
    /\ replies < MaxReplies
    /\ replies' = replies + 1
    /\ answered' = answered \cup {h[2] : h \in {g \in holds : g[1] = e}}
    /\ pendingQo' = [pendingQo EXCEPT ![e] = 0]
    /\ \E named \in Named(e) : Begin(e, result, named, 0, replies + 1)
    /\ due' = IF result = "claimed" THEN due \cup {e} ELSE due
    /\ UNCHANGED <<claims, holds, slots, owner, pushed, sales, owners>>

(* _flush after QO_DEFER_S: only the generation that is still held is recorded. *)
FlushHeld(h) ==
    /\ h \in holds
    /\ holds' = holds \ {h}
    /\ IF pendingQo[h[1]] = h[2]
       THEN /\ pendingQo' = [pendingQo EXCEPT ![h[1]] = 0]
            /\ Begin(h[1], "queue_overload", h[3], h[2], h[2])
       ELSE UNCHANGED <<pendingQo, writes>>
    /\ UNCHANGED <<claims, slots, owner, pushed, replies, sales, answered, due, owners>>

-----------------------------------------------------------------------------
(* record_api_claim *)

(* Of a slot that is gone the SELECT finds nothing. *)
SelectOwner(w) ==
    LET s == w.entry[1]
    IN  /\ w \in writes /\ w.pc = "select"
        /\ writes' = (writes \ {w}) \cup
                       {[w EXCEPT !.pc = "upsert", !.owner = IF s \in slots THEN owner[s] ELSE None]}
        /\ UNCHANGED <<claims, pendingQo, holds, slots, owner, pushed, replies, sales, answered,
                       due, owners>>

(* Mutant: the first report wins (DO NOTHING). *)
UpsertedFirst(row, w) ==
    IF row = None THEN [result |-> w.result, owner |-> w.owner] ELSE row

(* ON CONFLICT DO UPDATE ... WHERE the row is not claimed and the new one is;
   the owner is not among the columns that are set. *)
Upserted(row, w) ==
    IF row = None THEN [result |-> w.result, owner |-> w.owner]
    ELSE IF row.result # "claimed" /\ w.result = "claimed" THEN [row EXCEPT !.result = "claimed"]
    ELSE row

Upsert(w) ==
    /\ w \in writes /\ w.pc = "upsert" /\ w.entry[1] \in slots
    /\ writes' = writes \ {w}
    /\ claims' = [claims EXCEPT ![w.entry] = Upserted(@, w)]
    /\ UNCHANGED <<pendingQo, holds, slots, owner, pushed, replies, sales, answered, due, owners>>

(* Any exception is logged and swallowed, and the reply is lost: that of the foreign
   key when the slot is gone, or of the database at any point. *)
WriteFails(w) ==
    /\ w \in writes
    /\ writes' = writes \ {w}
    /\ due' = IF w.result = "claimed" THEN due \ {w.entry} ELSE due
    /\ UNCHANGED <<claims, pendingQo, holds, slots, owner, pushed, replies, sales, answered, owners>>

-----------------------------------------------------------------------------
(* Around it: the slot is freed and sold to someone else; the operator deletes it;
   the scripts are pushed what there is. *)

(* _place_paid_order, or upsert_slot, by which the operator may also clear the owner. *)
Sell(s, b) ==
    /\ sales < MaxSales /\ s \in slots /\ owner[s] # b
    /\ sales' = sales + 1
    /\ owner' = [owner EXCEPT ![s] = b]
    /\ owners' = [owners EXCEPT ![s] = @ \cup {b}]
    /\ UNCHANGED <<claims, pendingQo, holds, writes, slots, pushed, replies, answered, due>>

(* delete_slot: the slot's claims go with it (ON DELETE CASCADE). No later slot gets
   its id. *)
DeleteSlot(s) ==
    /\ s \in slots
    /\ slots' = slots \ {s}
    /\ claims' = [e \in Entries |-> IF e[1] = s THEN None ELSE claims[e]]
    /\ due' = {e \in due : e[1] # s}
    /\ UNCHANGED <<pendingQo, holds, writes, owner, pushed, replies, sales, answered, owners>>

(* What a push says of the slot; scripts drop one that is not in it, but what they
   have begun for it is still reported. *)
Shown(s) == IF s \in slots THEN owner[s] ELSE None

Push(s) ==
    /\ pushed[s] # Shown(s)
    /\ pushed' = [pushed EXCEPT ![s] = Shown(s)]
    /\ UNCHANGED <<claims, pendingQo, holds, writes, slots, owner, replies, sales, answered,
                   due, owners>>

(* The process is replaced: what it held or was writing is lost. *)
ForgetApi ==
    /\ holds # {} \/ writes # {}
    /\ holds' = {} /\ writes' = {}
    /\ pendingQo' = [e \in Entries |-> 0]
    /\ due' = due \ {w.entry : w \in {v \in writes : v.result = "claimed"}}
    /\ UNCHANGED <<claims, slots, owner, pushed, replies, sales, answered, owners>>

Recording ==
    \/ \E w \in writes : SelectOwner(w) \/ Upsert(w)
    \/ \E h \in holds : FlushHeld(h)

ApiWork ==
    \/ \E e \in Entries :
         ReplyOverloaded(e) \/ \E result \in {"claimed", "failed"} : ReplyReal(e, result)
    \/ Recording \/ ForgetApi
    \/ \E w \in writes : WriteFails(w)
    \/ \E s \in Slots : Push(s) \/ DeleteSlot(s) \/ \E b \in Buyers \cup {None} : Sell(s, b)

-----------------------------------------------------------------------------
(* Properties *)

(* A success is never lost to the other scripts of the account: whatever they report
   of the same slot and code, early, late, held back or again, and whoever buys the
   slot meanwhile, a success that was reported is on the row or about to be written
   to it, unless its own write failed, or ended with the process, or the slot was
   deleted. *)
SuccessKept ==
    \A e \in due :
        \/ claims[e] # None /\ claims[e].result = "claimed"
        \/ \E w \in writes : w.entry = e /\ w.result = "claimed"

(* A row stands only while its slot does, however late a write for a deleted slot
   comes, and is credited to somebody who has owned the slot (to nobody only if the
   slot has been without an owner): stats are shown by that column. *)
RowsOwned ==
    \A e \in Entries : claims[e] # None => e[1] \in slots /\ claims[e].owner \in owners[e[1]]

ClaimedWins == SuccessKept /\ RowsOwned

(* A reply that was held back because the script's own queue was overloaded is not
   recorded when a real one came while it was held. *)
RealReplyWins == \A w \in writes : w.gen \notin answered

(* The buyer on a claim is resolved from the slot's row: when the write knows its
   buyer, that is who owns the slot. *)
OwnerResolved ==
    [][\A w \in writes' \ writes :
          w.pc = "upsert" /\ w.entry[1] \in slots => w.owner = owner[w.entry[1]]]_apiVars
=============================================================================
