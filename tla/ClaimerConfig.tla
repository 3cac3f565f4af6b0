---------------------------- MODULE ClaimerConfig ----------------------------
(***************************************************************************)
(* Remote management of one claimer: the setting the administrator wants   *)
(* (desired, authoritative), the one the script last reported (observed),  *)
(* the cache entry that holds both, its row in claimer_apis, and the       *)
(* script itself. A change is written through at once; everything else     *)
(* marks the entry dirty for a flush. A write reads the entry first and    *)
(* commits later, so two writes of the row may land in either order.       *)
(* Several tabs may run the claimer's script: each keeps its own setting,  *)
(* all are pushed to, and each is heard.                                   *)
(*                                                                         *)
(* One setting stands for the three (API token, currency, filters): each   *)
(* is compared and pushed by itself in the same way; None is "unmanaged".  *)
(***************************************************************************)
EXTENDS Presence, Sequences

CONSTANTS
    Claimer,        \* the claimer this module is about
    Settings,       \* values of the setting
    Admins,         \* requests of the administrator
    MaxUpsets       \* bound on, together: writes the database refuses, restarts,
                    \* changes made in the script, events the rate limit refuses

ASSUME ConfigAssumption ==
    /\ Claimer \in Claimers /\ None \notin Settings
    /\ MaxUpsets \in Nat

VARIABLES
    cache,      \* the entry of _claimer_cache
    row,        \* the row of claimer_apis
    dirty,      \* the entry's key is in _dirty
    flush,      \* values flush_dirty is writing
    changes,    \* the administrator's requests under way
    runs,       \* per connection of the claimer: the setting its script runs with
    down, up,   \* messages to and from that script
    teller,     \* the connection that told what is observed, until it leaves
                \* or an event of it is refused
    overlap,    \* a write of the row began while another was under way
    upsets      \* how many upsets may still come

configVars == <<cache, row, dirty, flush, changes, runs, down, up, teller, overlap, upsets>>

(* sids_for_claimer *)
Peers == SidsOf(Claimer)

Value == Settings \cup {None}
States == {"synced", "needs_sync", "push_failed"}
Entry == [desired: Value, observed: Value, state: States]
ASSUME NoEntry == None \notin Entry

(* entry: what _persist_row writes. *)
Change == [pc: {"idle", "persist", "push", "done"}, value: Value, entry: Entry]
Message == {m \in [kind: {"status", "ack"}, ok: BOOLEAN, value: Value] : m.kind = "status" => m.ok}

NewEntry == [desired |-> None, observed |-> None, state |-> "synced"]
Ended(pc) == [pc |-> pc, value |-> None, entry |-> NewEntry]

ConfigTypeOK ==
    /\ cache \in Entry \cup {None} /\ row \in Entry \cup {None} /\ flush \in Entry \cup {None}
    /\ dirty \in BOOLEAN
    /\ changes \in [Admins -> Change]
    /\ runs \in [Sids -> Value]
    /\ down \in [Sids -> Seq(Value)] /\ up \in [Sids -> Seq(Message)]
    /\ teller \in Sids \cup {None} /\ overlap \in BOOLEAN
    /\ upsets \in 0..MaxUpsets

ConfigInit(most) ==
    /\ cache = None /\ row = None /\ dirty = FALSE /\ flush = None
    /\ changes = [a \in Admins |-> Ended("idle")]
    /\ runs = [s \in Sids |-> None]
    /\ down = [s \in Sids |-> <<>>] /\ up = [s \in Sids |-> <<>>]
    /\ teller = None /\ overlap = FALSE
    /\ upsets = most

Status(v) == [kind |-> "status", ok |-> TRUE, value |-> v]
Ack(v, ok) == [kind |-> "ack", ok |-> ok, value |-> v]
Upset == upsets > 0 /\ upsets' = upsets - 1

(* Requests that are writing the row. *)
Persisting == {a \in Admins : changes[a].pc = "persist"}
WriteUnderWay == flush # None \/ Persisting # {}

-----------------------------------------------------------------------------
(* The entry when a script of the claimer connects (ensure_claimer,        *)
(* set_online TRUE), which will say that it runs v; when one leaves.       *)
ClaimerConnects(s, v) ==
    /\ cache' = IF cache = None THEN NewEntry ELSE cache
    /\ dirty' = TRUE
    /\ runs' = [runs EXCEPT ![s] = v] /\ up' = [up EXCEPT ![s] = <<Status(v)>>]
    /\ UNCHANGED <<row, flush, changes, down, teller, overlap, upsets>>

ClaimerLeaves(s) ==
    /\ dirty' = TRUE
    /\ runs' = [runs EXCEPT ![s] = None]
    /\ down' = [down EXCEPT ![s] = <<>>] /\ up' = [up EXCEPT ![s] = <<>>]
    /\ teller' = IF teller = s THEN None ELSE teller
    /\ UNCHANGED <<cache, row, flush, changes, overlap, upsets>>

(* _reconcile_claimer; emit_task_to_claimer sends to all its connections.  *)
Differs(e) == e.desired # None /\ e.desired # e.observed
Reconciled(e) == [e EXCEPT !.state = IF Differs(e) THEN "needs_sync" ELSE "synced"]
Emitted(v) == [s \in Sids |-> IF s \in Peers THEN Append(down[s], v) ELSE down[s]]

(* on_claimer_status, from any of them *)
OnStatus(s) ==
    LET e == [cache EXCEPT !.observed = Head(up[s]).value]
    IN  /\ up[s] # <<>> /\ Head(up[s]).kind = "status" /\ up' = [up EXCEPT ![s] = Tail(@)]
        /\ cache' = Reconciled(e)
        /\ down' = IF Differs(e) THEN Emitted(e.desired) ELSE down
        /\ dirty' = TRUE /\ teller' = s
        /\ UNCHANGED <<row, flush, changes, runs, overlap, upsets>>

(* Bug: an acknowledgement is taken to be of the newest push. *)
OnAckNewest(s) ==
    LET m == Head(up[s])
    IN  /\ up[s] # <<>> /\ m.kind = "ack" /\ up' = [up EXCEPT ![s] = Tail(@)]
        /\ IF m.ok
           THEN cache' = Reconciled([cache EXCEPT !.observed = cache.desired]) /\ teller' = s
           ELSE cache' = [cache EXCEPT !.state = "push_failed"] /\ UNCHANGED teller
        /\ dirty' = TRUE
        /\ UNCHANGED <<row, flush, changes, runs, down, overlap, upsets>>

(* on_api_result, from any of them: it records what was applied and        *)
(* compares, but pushes nothing.                                           *)
OnAck(s) ==
    LET m == Head(up[s])
    IN  /\ up[s] # <<>> /\ m.kind = "ack" /\ up' = [up EXCEPT ![s] = Tail(@)]
        /\ IF m.ok
           THEN cache' = Reconciled([cache EXCEPT !.observed = m.value]) /\ teller' = s
           ELSE cache' = [cache EXCEPT !.state = "push_failed"] /\ UNCHANGED teller
        /\ dirty' = TRUE
        /\ UNCHANGED <<row, flush, changes, runs, down, overlap, upsets>>

(* Either event over the rate limit of the licence: answered and dropped.  *)
OnLimited(s) ==
    /\ up[s] # <<>> /\ up' = [up EXCEPT ![s] = Tail(@)] /\ Upset
    /\ teller' = IF teller = s THEN None ELSE teller
    /\ UNCHANGED <<cache, row, dirty, flush, changes, runs, down, overlap>>

-----------------------------------------------------------------------------
(* set_desired and the start of _persist_row: the entry is read for the    *)
(* row and no longer dirty. v None is remove_api.                          *)
SetDesired(a, v) ==
    /\ changes[a].pc = "idle" /\ cache # None
    /\ cache' = [cache EXCEPT !.desired = v]
    /\ changes' = [changes EXCEPT ![a] = [pc |-> "persist", value |-> v, entry |-> cache']]
    /\ dirty' = FALSE /\ overlap' = WriteUnderWay
    /\ UNCHANGED <<row, flush, runs, down, up, teller, upsets>>

PersistCommits(a) ==
    /\ a \in Persisting
    /\ row' = changes[a].entry
    /\ changes' = [changes EXCEPT ![a].pc = "push"]
    /\ UNCHANGED <<cache, dirty, flush, runs, down, up, teller, overlap, upsets>>

(* Bug: a write-through that fails is only logged. *)
PersistForgotten(a) ==
    /\ a \in Persisting /\ Upset
    /\ changes' = [changes EXCEPT ![a].pc = "push"]
    /\ UNCHANGED <<cache, row, dirty, flush, runs, down, up, teller, overlap>>

PersistFails(a) ==
    /\ a \in Persisting /\ Upset
    /\ dirty' = TRUE
    /\ changes' = [changes EXCEPT ![a].pc = "push"]
    /\ UNCHANGED <<cache, row, flush, runs, down, up, teller, overlap>>

(* _push_and_result: the task goes to every live connection of the claimer;*)
(* what is awaited and reported to the bot changes no state modelled here. *)
PushChange(a) ==
    /\ changes[a].pc = "push"
    /\ changes' = [changes EXCEPT ![a] = Ended("done")]
    /\ down' = Emitted(changes[a].value)
    /\ UNCHANGED <<cache, row, dirty, flush, runs, up, teller, overlap, upsets>>

(* flush_dirty: the entry is read and its mark cleared, then written.      *)
FlushStarts ==
    /\ flush = None /\ dirty /\ cache # None
    /\ flush' = cache /\ dirty' = FALSE /\ overlap' = WriteUnderWay
    /\ UNCHANGED <<cache, row, changes, runs, down, up, teller, upsets>>

FlushCommits ==
    /\ flush # None /\ flush' = None /\ row' = flush
    /\ UNCHANGED <<cache, dirty, changes, runs, down, up, teller, overlap, upsets>>

FlushFails ==
    /\ flush # None /\ flush' = None /\ dirty' = TRUE /\ Upset
    /\ UNCHANGED <<cache, row, changes, runs, down, up, teller, overlap>>

(* A new process: rebuild_claimer_cache_from_db. *)
ConfigRestart ==
    /\ Upset
    /\ cache' = row /\ dirty' = FALSE /\ flush' = None
    /\ changes' = [a \in Admins |-> Ended(IF changes[a].pc = "idle" THEN "idle" ELSE "done")]
    /\ runs' = [s \in Sids |-> None]
    /\ down' = [s \in Sids |-> <<>>] /\ up' = [s \in Sids |-> <<>>]
    /\ teller' = None /\ overlap' = FALSE
    /\ UNCHANGED row

-----------------------------------------------------------------------------
(* A script: it applies a push or fails to, and says so; its own user may  *)
(* change the setting, which it reports.                                   *)
ScriptApplies(s, ok) ==
    LET v == Head(down[s])
    IN  /\ down[s] # <<>> /\ down' = [down EXCEPT ![s] = Tail(@)]
        /\ runs' = IF ok THEN [runs EXCEPT ![s] = v] ELSE runs
        /\ up' = [up EXCEPT ![s] = Append(@, Ack(v, ok))]
        /\ UNCHANGED <<cache, row, dirty, flush, changes, teller, overlap, upsets>>

ScriptChanges(s, v) ==
    /\ s \in Peers /\ v # runs[s] /\ Upset
    /\ runs' = [runs EXCEPT ![s] = v] /\ up' = [up EXCEPT ![s] = Append(@, Status(v))]
    /\ UNCHANGED <<cache, row, dirty, flush, changes, down, teller, overlap>>

-----------------------------------------------------------------------------
(* What the cache holds is in the row, or will be written, or is being     *)
(* written: no change is lost to a write that fails or to one made while a *)
(* flush is at the database. Except when two writes of the row ran         *)
(* together, when the older may land last (set_desired under a flush).     *)
RowKept ==
    cache # None /\ row # cache => dirty \/ WriteUnderWay \/ overlap

(* The operator is shown "synced" only if the script runs what is desired, *)
(* in whatever order pushes, acknowledgements, reports and reconnections of*)
(* all the claimer's tabs were handled: the script, that is, whose word it *)
(* is, while that tab is connected, has nothing left to say or to hear and *)
(* no event of it was refused by the rate limit since. Of another tab      *)
(* "synced" says nothing: the cache keeps one observed setting for all.    *)
SyncedIsRunning ==
    /\ teller # None /\ up[teller] = <<>> /\ down[teller] = <<>>
    /\ \A a \in Admins : changes[a].pc \in {"idle", "done"}
    /\ cache.state = "synced"
    => cache.desired \in {None, runs[teller]}
=============================================================================
