------------------------------ MODULE Presence ------------------------------
(***************************************************************************)
(* The userscripts of one licence on the namespace /_tmc: who is let in,   *)
(* under which Stake name (a tab may connect as 'unknown' and be relabelled*)
(* later), what the licence's owner is told of users coming and going, the *)
(* online flag of the operator's claimers, and the handshake by which a    *)
(* script comes to hold the shared broadcast key.                          *)
(*                                                                         *)
(* The handlers keep their state in memory, so each runs at once, but for  *)
(* the connect handler of the slot product: it reads the account's slots   *)
(* from the database between adding the session and announcing the user.   *)
(***************************************************************************)
EXTENDS Integers, FiniteSets

CONSTANTS
    Sids,           \* connections: a Socket.IO sid is never used twice
    Names,          \* Stake user names
    Unknown,        \* the user name 'unknown'
    Claimers,       \* claimer ids of the operator's own scripts
    MaxUsernames,   \* maximum_usernames of the licence
    TabCap,         \* _MAX_CONNS_PER_USERNAME, and for the operator's own licences
    AdminTabCap,    \* _MAX_CONNS_PER_USERNAME_ADMIN; 0 switches a cap off
    None

ASSUME PresenceAssumption ==
    /\ IsFiniteSet(Sids) /\ IsFiniteSet(Names) /\ IsFiniteSet(Claimers)
    /\ MaxUsernames \in Nat \ {0} /\ {TabCap, AdminTabCap} \subseteq Nat
    /\ Unknown \notin Names
    /\ None \notin Sids \cup Names \cup Claimers \cup {Unknown}

VARIABLES
    api,        \* API_CLAIMER_MODE
    admin,      \* the licence's owner is in _ADMIN_TELEGRAM_IDS
    open,       \* the licence is in active_license_cache
    fresh,      \* sids not handed out yet
    sessions,   \* active_sessions[licence]
    notif,      \* _notif_state: effective_state, pending_handle
    timers,     \* greenlets of _fire_delayed_disconnect_notify not yet run
    arriving,   \* connect handlers that read the account's slots
    online,     \* the online flag of the claimers' cache entries
    keyHeld,    \* per script: the broadcast key is unknown, on its way, held
    renamed     \* names given to a session since their user's timer was set

presenceVars == <<api, admin, open, fresh, sessions, notif, timers, arriving, online, keyHeld, renamed>>

Users == Names \cup {Unknown}
Session == [user: Users, claimer: Claimers \cup {None}, bk: BOOLEAN]

ASSUME NoSession == None \notin Session

Standing == {"none", "connected", "pending", "disconnected"}

Live == {s \in Sids : sessions[s] # None}
SessionsOf(u) == {s \in Live : sessions[s].user = u}
NamesOn(without) == {sessions[s].user : s \in Live \ without}
SidsOf(c) == {s \in Live : sessions[s].claimer = c}

PresenceTypeOK ==
    /\ {api, admin, open} \subseteq BOOLEAN /\ fresh \subseteq Sids
    /\ sessions \in [Sids -> Session \cup {None}]
    /\ notif \in [Users -> [state: Standing, handle: Sids \cup {None}]]
    /\ timers \subseteq Users \X Sids
    /\ arriving \subseteq Sids \X Users
    /\ online \in [Claimers -> BOOLEAN]
    /\ keyHeld \in [Sids -> {"no", "sent", "held"}]
    /\ renamed \subseteq Users

PresenceInit(sids, mode, operators) ==
    /\ api = mode /\ admin = operators /\ open = TRUE /\ fresh = sids
    /\ sessions = [s \in Sids |-> None]
    /\ notif = [u \in Users |-> [state |-> "none", handle |-> None]]
    /\ timers = {} /\ arriving = {}
    /\ online = [c \in Claimers |-> FALSE]
    /\ keyHeld = [s \in Sids |-> "no"]
    /\ renamed = {}

-----------------------------------------------------------------------------
(* The notices to the owner. n: the user's sessions, counted before        *)
(* _notif_state_lock is taken. A timer is named by its user and the sid    *)
(* whose leaving set it.                                                   *)

(* Bug: the first session is taken for another tab. *)
AnnounceEarlyTab(u, n) ==
    IF n >= 1 THEN UNCHANGED <<notif, timers>>
    ELSE /\ notif' = [notif EXCEPT ![u] = [state |-> "connected", handle |-> None]]
         /\ timers' = {t \in timers : t # <<u, notif[u].handle>>}

(* _handle_connect_notify: a second tab changes nothing, a return within   *)
(* the grace kills the timer in silence, anything else says "is online".   *)
Announce(u, n) ==
    IF n > 1 THEN UNCHANGED <<notif, timers>>
    ELSE /\ notif' = [notif EXCEPT ![u] = [state |-> "connected", handle |-> None]]
         /\ timers' = {t \in timers : t # <<u, notif[u].handle>>}

(* Bug: an earlier timer is left running. *)
FarewellKeepsTimer(u, n, s) ==
    IF n > 0 THEN UNCHANGED <<notif, timers, renamed>>
    ELSE /\ notif' = [notif EXCEPT ![u] = [state |-> "pending", handle |-> s]]
         /\ timers' = timers \cup {<<u, s>>}
         /\ renamed' = renamed \ {u}

(* _handle_disconnect_notify: the last session of u sets the timer.        *)
Farewell(u, n, s) ==
    IF n > 0 THEN UNCHANGED <<notif, timers, renamed>>
    ELSE /\ notif' = [notif EXCEPT ![u] = [state |-> "pending", handle |-> s]]
         /\ timers' = {t \in timers : t # <<u, notif[u].handle>>} \cup {<<u, s>>}
         /\ renamed' = renamed \ {u}

(* _fire_delayed_disconnect_notify: "went offline", unless the state says  *)
(* otherwise by now.                                                       *)
SaysOffline(t) == t \in timers /\ notif[t[1]].state = "pending"

TimerFires(t) ==
    /\ t \in timers
    /\ timers' = timers \ {t}
    /\ notif' = IF SaysOffline(t)
                THEN [notif EXCEPT ![t[1]] = [state |-> "disconnected", handle |-> None]]
                ELSE notif
    /\ UNCHANGED <<api, admin, open, fresh, sessions, arriving, online, keyHeld, renamed>>

-----------------------------------------------------------------------------
Cap == IF admin THEN AdminTabCap ELSE TabCap
UnderCap(n) == Cap = 0 \/ n < Cap

(* can_admit and the cap on the tabs of one name; 'unknown' passes both.   *)
CanAdmit(u) ==
    \/ u = Unknown
    \/ /\ SessionsOf(u) # {} \/ Cardinality(NamesOn({})) < MaxUsernames
       /\ UnderCap(Cardinality(SessionsOf(u)))

(* tmc_connect, up to the session it adds; a refused script is gone, its   *)
(* sid used. The slot product still has the account's slots to read.       *)
Connect(s, u, c) ==
    /\ s \in fresh /\ fresh' = fresh \ {s}
    /\ IF open /\ CanAdmit(u)
       THEN /\ sessions' = [sessions EXCEPT ![s] = [user |-> u, claimer |-> c, bk |-> FALSE]]
            /\ online' = IF c = None THEN online ELSE [online EXCEPT ![c] = TRUE]
            /\ IF api THEN arriving' = arriving \cup {<<s, u>>} /\ UNCHANGED <<notif, timers>>
                      ELSE Announce(u, Cardinality(SessionsOf(u)) + 1) /\ UNCHANGED arriving
       ELSE UNCHANGED <<sessions, online, arriving, notif, timers>>
    /\ UNCHANGED <<api, admin, open, keyHeld, renamed>>

(* The rest of tmc_connect in the slot product, after the read. *)
Arrive(a) ==
    /\ a \in arriving /\ arriving' = arriving \ {a}
    /\ Announce(a[2], Cardinality(SessionsOf(a[2])))
    /\ UNCHANGED <<api, admin, open, fresh, sessions, online, keyHeld, renamed>>

(* Bug: the flag goes down whatever other session the claimer has. *)
OnlineAfterAny(c, s) == FALSE

(* tmc_disconnect recomputes the flag from the sessions that remain. *)
OnlineAfter(c, s) == SidsOf(c) \ {s} # {}

Leave(s) ==
    LET u == sessions[s].user
        c == sessions[s].claimer
    IN  /\ s \in Live
        /\ sessions' = [sessions EXCEPT ![s] = None]
        /\ keyHeld' = [keyHeld EXCEPT ![s] = "no"]
        /\ online' = IF c = None THEN online ELSE [online EXCEPT ![c] = OnlineAfter(c, s)]
        /\ Farewell(u, Cardinality(SessionsOf(u) \ {s}), s)
        /\ UNCHANGED <<api, admin, open, fresh, arriving>>

(* Bug: the distinct names are counted with the session's old label. *)
MayTakeUnchecked(s, u) ==
    u # Unknown /\ (admin \/ UnderCap(Cardinality(SessionsOf(u) \ {s})))

(* try_update_session_username: the limits as they will be after the move, *)
(* 'unknown' not counted. An operator's licence is held to no tab cap here,*)
(* "admin-exempt like connect" (which does hold it to AdminTabCap).        *)
MayTake(s, u) ==
    /\ u # Unknown
    /\ admin \/ UnderCap(Cardinality(SessionsOf(u) \ {s}))
    /\ Cardinality((NamesOn({s}) \ {Unknown}) \cup {u}) <= MaxUsernames

(* tmc_update_identity. It tells neither notice of the change. *)
Relabel(s, u) ==
    /\ s \in Live /\ open
    /\ sessions[s].user # u /\ MayTake(s, u)
    /\ sessions' = [sessions EXCEPT ![s].user = u]
    /\ renamed' = IF notif[u].state = "pending" THEN renamed \cup {u} ELSE renamed
    /\ UNCHANGED <<api, admin, open, fresh, notif, timers, arriving, online, keyHeld>>

(* The licence leaves the cache: deactivated, deleted or its key changed.  *)
(* disconnect_license_room then takes its sessions down one by one.        *)
CloseLicense ==
    /\ open /\ open' = FALSE
    /\ UNCHANGED <<api, admin, fresh, sessions, notif, timers, arriving, online, keyHeld, renamed>>

Evict(s) == ~open /\ Leave(s)

-----------------------------------------------------------------------------
(* The broadcast key, ENABLE_RSA_AUTH (never with the slot product). A     *)
(* process has one key, version 1, for its life. A script asks, stores     *)
(* what it is sent, then acknowledges; an acknowledgement of another       *)
(* version gets the key sent again.                                        *)

(* Bug: asking is enough to be served with the shared key. *)
RequestKeyPromotes(s) ==
    /\ ~api /\ s \in Live /\ keyHeld[s] = "no"
    /\ keyHeld' = [keyHeld EXCEPT ![s] = "sent"]
    /\ sessions' = [sessions EXCEPT ![s].bk = TRUE]
    /\ UNCHANGED <<api, admin, open, fresh, notif, timers, arriving, online, renamed>>

RequestKey(s) ==
    /\ ~api /\ s \in Live /\ keyHeld[s] = "no"
    /\ keyHeld' = [keyHeld EXCEPT ![s] = "sent"]
    /\ UNCHANGED <<api, admin, open, fresh, sessions, notif, timers, arriving, online, renamed>>

StoreKey(s) ==
    /\ keyHeld[s] = "sent"
    /\ keyHeld' = [keyHeld EXCEPT ![s] = "held"]
    /\ UNCHANGED <<api, admin, open, fresh, sessions, notif, timers, arriving, online, renamed>>

AckKey(s, current) ==
    /\ ~api /\ s \in Live /\ (current => keyHeld[s] = "held")
    /\ IF current
       THEN sessions' = [sessions EXCEPT ![s].bk = TRUE] /\ UNCHANGED keyHeld
       ELSE /\ keyHeld' = [keyHeld EXCEPT ![s] = IF @ = "no" THEN "sent" ELSE @]
            /\ UNCHANGED sessions
    /\ UNCHANGED <<api, admin, open, fresh, notif, timers, arriving, online, renamed>>

-----------------------------------------------------------------------------
(* However scripts connect and are relabelled, the licence never carries   *)
(* more Stake names than it paid for, nor one name more tabs than the cap, *)
(* if there is one: can_admit and the tab cap of tmc_connect against what  *)
(* try_update_session_username counts. On the operator's own licences the  *)
(* two disagree (a connect is held to AdminTabCap, a relabelling to no     *)
(* cap), so that no bound on their tabs holds; their names are limited.    *)
UserLimits ==
    /\ Cardinality(NamesOn({}) \ {Unknown}) <= MaxUsernames
    /\ ~admin /\ TabCap > 0 => \A u \in Names : Cardinality(SessionsOf(u)) <= TabCap

(* Of a user who may be about to be reported offline exactly one timer     *)
(* runs, the one a return would kill; of any other user none: a timer that *)
(* escaped would report somebody offline before the grace is over.         *)
OneTimer ==
    \A u \in Users :
        {t \in timers : t[1] = u} =
            IF notif[u].state = "pending" THEN {<<u, notif[u].handle>>} ELSE {}

(* The owner is told that a user went offline only when no session of the  *)
(* user is left ("reconnect within grace, timer killed, no notify", the    *)
(* comment on the state machine). Two cases apart, in which it is told of  *)
(* a user who is there: the session came by relabelling, which kills no    *)
(* timer, and two tabs of the slot product that connect together and each  *)
(* take the other for the first.                                           *)
OfflineMeansGone ==
    [][\A t \in timers :
          (TimerFires(t) /\ SaysOffline(t) /\ ~api /\ t[1] \notin renamed)
              => SessionsOf(t[1]) = {}]_presenceVars

(* A claimer shows online exactly while it has a live session, in whatever *)
(* order an old session's leaving and a new one's arrival are handled.     *)
ClaimerOnline == \A c \in Claimers : online[c] = (SidsOf(c) # {})

(* A session is served with the shared broadcast key only if its script    *)
(* holds that key, so that each of its drops can be read: bk_ver is the    *)
(* only thing a fan-out looks at.                                          *)
Readable == \A s \in Live : sessions[s].bk => keyHeld[s] = "held"
=============================================================================
