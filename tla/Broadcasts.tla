----------------------------- MODULE Broadcasts -----------------------------
(***************************************************************************)
(* Codes on their way out. The operator's page sends a code to everyone,   *)
(* to one licence or to one user; the first two share a table of recent    *)
(* codes that suppresses a repetition within its window. Owners of an      *)
(* account send to their own licence past that table. Everyone includes    *)
(* the legacy SSE streams, each with a bounded queue that its generator    *)
(* empties; a stream whose client has gone is dropped by its generator, or *)
(* swept once it has been silent for too long.                             *)
(***************************************************************************)
EXTENDS Presence, Sequences

CONSTANTS
    Codes,
    Lower,          \* casefold of a code
    Window,         \* deduplication_window_seconds
    MaxClock,       \* bound on time
    MaxDrops,       \* bound on codes sent
    Streams,        \* ids of SSE connections
    QueueMax        \* max_queue_size

ASSUME BroadcastAssumption ==
    /\ IsFiniteSet(Codes) /\ IsFiniteSet(Streams) /\ Streams \cap Sids = {}
    /\ Lower \in [Codes -> Codes] /\ None \notin Codes \cup (0..MaxClock)
    /\ {Window, MaxClock, MaxDrops} \subseteq Nat /\ QueueMax \in Nat \ {0}

VARIABLES
    clock,
    everyCodeSame,  \* the setting of /everycodesame
    recent,         \* _recent_codes: the time a code was last let through
    drops,          \* what was sent: way, code, time, receivers
    streams         \* SSEManager and the generators of /events

broadcastVars == <<clock, everyCodeSame, recent, drops, streams>>

Ways == {"everyone", "license", "user", "owner"}
Drop == [way: Ways, code: Codes, at: 0..MaxClock, to: SUBSET (Sids \cup Streams)]
(* gen: the generator of the response. entry, queue, health: what the      *)
(* manager keeps of the connection. client: it still listens.              *)
Stream == [gen: {"absent", "unstarted", "running", "ended"}, entry: BOOLEAN,
           queue: Seq(Codes), health: {"none", "fresh", "stale"}, client: BOOLEAN]

BroadcastTypeOK ==
    /\ clock \in 0..MaxClock /\ everyCodeSame \in BOOLEAN
    /\ recent \in [Codes -> 0..MaxClock \cup {None}]
    /\ drops \in Seq(Drop) /\ Len(drops) <= MaxDrops
    /\ streams \in [Streams -> Stream]
    /\ \A k \in Streams : Len(streams[k].queue) <= QueueMax

NoStream == [gen |-> "absent", entry |-> FALSE, queue |-> <<>>, health |-> "none", client |-> FALSE]

BroadcastInit(same) ==
    /\ clock = 0 /\ everyCodeSame = same
    /\ recent = [c \in Codes |-> None]
    /\ drops = <<>>
    /\ streams = [k \in Streams |-> NoStream]

Tick ==
    /\ clock < MaxClock /\ clock' = clock + 1
    /\ UNCHANGED <<everyCodeSame, recent, drops, streams>>

-----------------------------------------------------------------------------
Key(c) == IF everyCodeSame THEN Lower[c] ELSE c

(* is_code_duplicate drops the expired entries, then looks, then marks.    *)
Expired(k) == recent[k] # None /\ recent[k] < clock - Window
Duplicate(c) ==
    recent[Key(c)] # None /\ ~Expired(Key(c)) /\ clock - recent[Key(c)] < Window

(* Bug: the code is looked up folded and stored as it came. *)
MarkRaw(c) ==
    recent' = [k \in Codes |->
        IF k = c /\ ~Duplicate(c) THEN clock ELSE IF Expired(k) THEN None ELSE recent[k]]

Mark(c) ==
    recent' = [k \in Codes |->
        IF k = Key(c) /\ ~Duplicate(c) THEN clock ELSE IF Expired(k) THEN None ELSE recent[k]]

Send(way, c, to) ==
    drops' = Append(drops, [way |-> way, code |-> c, at |-> clock, to |-> to])

(* Bug: the queue has no limit. *)
QueuedUnbounded(k, c) ==
    IF streams[k].entry THEN [streams[k] EXCEPT !.queue = Append(@, c)] ELSE streams[k]

(* SSEManager.broadcast_code: a full queue loses the code. *)
Queued(k, c) ==
    IF streams[k].entry /\ Len(streams[k].queue) < QueueMax
    THEN [streams[k] EXCEPT !.queue = Append(@, c)] ELSE streams[k]

Registered == {k \in Streams : streams[k].entry}

(* The ingest page, targets in this order: a user, past the table; a       *)
(* licence that is active; everyone.                                       *)
DropToUser(c, u) ==
    /\ Len(drops) < MaxDrops
    /\ Send("user", c, SessionsOf(u))
    /\ UNCHANGED <<clock, everyCodeSame, recent, streams>>

DropToLicense(c) ==
    /\ Len(drops) < MaxDrops /\ open
    /\ Mark(c)
    /\ IF Duplicate(c) THEN UNCHANGED drops ELSE Send("license", c, Live)
    /\ UNCHANGED <<clock, everyCodeSame, streams>>

DropToEveryone(c) ==
    /\ Len(drops) < MaxDrops
    /\ Mark(c)
    /\ IF Duplicate(c) THEN UNCHANGED <<drops, streams>>
       ELSE /\ Send("everyone", c, Live \cup Registered)
            /\ streams' = [k \in Streams |-> Queued(k, c)]
    /\ UNCHANGED <<clock, everyCodeSame>>

(* The bot's /lic/drop and the account holder's /broadcast. *)
DropByOwner(c) ==
    /\ Len(drops) < MaxDrops /\ open
    /\ Send("owner", c, Live)
    /\ UNCHANGED <<clock, everyCodeSame, recent, streams>>

-----------------------------------------------------------------------------
(* Bug: health is tracked from the first pong on. *)
AddedUntracked(k) ==
    [gen |-> "unstarted", entry |-> TRUE, queue |-> <<>>, health |-> "none", client |-> TRUE]

(* add_connection, called twice in a row: once with the key of the stream. *)
Added(k) ==
    [gen |-> "unstarted", entry |-> TRUE, queue |-> <<>>, health |-> "fresh", client |-> TRUE]

Removed(r) == [r EXCEPT !.entry = FALSE, !.queue = <<>>, !.health = "none"]
Becomes(k, r) == streams' = [streams EXCEPT ![k] = r]
OnlyStreams == UNCHANGED <<clock, everyCodeSame, recent, drops>>

OpenStream(k) ==
    /\ streams[k].gen = "absent"
    /\ Becomes(k, Added(k)) /\ OnlyStreams

(* The server asks the generator for its first piece, unless the client    *)
(* has gone by then: a generator that never ran has no finally.            *)
StartStream(k) ==
    /\ streams[k].gen = "unstarted"
    /\ \/ Becomes(k, [streams[k] EXCEPT !.gen = "running"])
       \/ /\ ~streams[k].client
          /\ Becomes(k, [streams[k] EXCEPT !.gen = "ended"])
    /\ OnlyStreams

(* A piece of the generator's loop: a code, or, with none, a keepalive,    *)
(* which counts as a sign of life by itself.                               *)
ReadCode(k) ==
    /\ streams[k].gen = "running" /\ streams[k].queue # <<>>
    /\ Becomes(k, [streams[k] EXCEPT !.queue = Tail(@)]) /\ OnlyStreams

Keepalive(k) ==
    /\ streams[k].gen = "running" /\ streams[k].queue = <<>> /\ streams[k].entry
    /\ Becomes(k, [streams[k] EXCEPT !.health = "fresh"]) /\ OnlyStreams

(* sse-pong *)
Pong(k) ==
    /\ streams[k].client /\ streams[k].entry
    /\ Becomes(k, [streams[k] EXCEPT !.health = "fresh"]) /\ OnlyStreams

ClientGone(k) ==
    /\ streams[k].client
    /\ Becomes(k, [streams[k] EXCEPT !.client = FALSE]) /\ OnlyStreams

(* The loop ends, and the connection is removed: its queue is gone, the    *)
(* user is unknown at two checks, or a write fails.                        *)
GeneratorEnds(k) ==
    /\ streams[k].gen = "running"
    /\ Becomes(k, [Removed(streams[k]) EXCEPT !.gen = "ended"]) /\ OnlyStreams

(* 300 s without a pong or keepalive: of a generator that is stuck writing *)
(* to a client that reads nothing, or one that does not run.               *)
GoesStale(k) ==
    /\ streams[k].health = "fresh"
    /\ Becomes(k, [streams[k] EXCEPT !.health = "stale"]) /\ OnlyStreams

(* cleanup_stale_connections, every minute. *)
CleanupStale ==
    /\ \E k \in Streams : streams[k].health = "stale"
    /\ streams' = [k \in Streams |->
          IF streams[k].health = "stale" THEN Removed(streams[k]) ELSE streams[k]]
    /\ OnlyStreams

StreamStep(k) ==
    \/ OpenStream(k) \/ StartStream(k) \/ ReadCode(k) \/ Keepalive(k) \/ Pong(k)
    \/ ClientGone(k) \/ GeneratorEnds(k) \/ GoesStale(k)

StreamFairness ==
    /\ \A k \in Streams :
          /\ WF_broadcastVars(StartStream(k))
          /\ WF_broadcastVars(GeneratorEnds(k) /\ ~streams[k].client)
          /\ WF_broadcastVars(GoesStale(k) /\ streams[k].gen # "running")
    /\ WF_broadcastVars(CleanupStale)

(* Nobody is sent one code twice within the window from the operator's     *)
(* page, whether to everyone or to a licence, and in whatever letter case  *)
(* it is typed when the setting says that cases are the same. (A code sent *)
(* to one user, and what owners send, is outside the table by design.)     *)
OncePerWindow ==
    \A i, j \in 1..Len(drops) :
        /\ i < j /\ {drops[i].way, drops[j].way} \subseteq {"everyone", "license"}
        /\ Key(drops[i].code) = Key(drops[j].code)
        /\ drops[i].to \cap drops[j].to # {}
        => drops[j].at - drops[i].at >= Window

(* The place a client held in the registry is freed once it has gone, also *)
(* when its generator never ran or never learns of it.                     *)
StreamReaped ==
    \A k \in Streams : (streams[k].entry /\ ~streams[k].client) ~> ~streams[k].entry
=============================================================================
