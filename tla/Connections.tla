----------------------------- MODULE Connections -----------------------------
(***************************************************************************)
(* The namespace /_tmc and what hangs on its sessions: presence and its    *)
(* notices, the verify relay, the remote management of a claimer, the      *)
(* broadcasts and the slots pushed to scripts. A script that leaves ends   *)
(* its waits in the relay, its claimer's connection and its share in       *)
(* broadcasts in one handler.                                              *)
(*                                                                         *)
(* A behaviour exercises one of these: it says which events from outside   *)
(* may happen besides connecting, leaving and what follows from them.      *)
(***************************************************************************)
EXTENDS VerifyRelay, ClaimerConfig, Broadcasts, SlotRegistry

(* option: everyCodeSame in "broadcast", a row in the place in "slots".    *)
CONSTANT Exercises  \* [name, sids, users, claimers, values, admins, upsets, api, admin, option]

ASSUME ExercisesAssumption ==
    \A e \in Exercises :
        /\ e.name \in {"presence", "keys", "relay", "config", "storage", "broadcast",
                      "streams", "slots"}
        /\ e.sids \subseteq Sids /\ e.users \subseteq Users
        /\ e.claimers \subseteq Claimers \cup {None} /\ e.values \subseteq Value
        /\ e.admins \subseteq Admins /\ e.upsets \in 0..MaxUpsets
        /\ {e.api, e.admin, e.option} \subseteq BOOLEAN
        /\ e.name = "slots" => e.api

VARIABLE exercise

In(name) == exercise.name = name

vars == <<exercise, presenceVars, relayVars, configVars, broadcastVars, registryVars>>

TypeOK ==
    /\ exercise \in Exercises
    /\ PresenceTypeOK /\ RelayTypeOK /\ ConfigTypeOK /\ BroadcastTypeOK
    /\ RegistryTypeOK

Init ==
    /\ exercise \in Exercises
    /\ PresenceInit(exercise.sids, exercise.api, exercise.admin)
    /\ RelayInit /\ ConfigInit(exercise.upsets) /\ BroadcastInit(In("broadcast") /\ exercise.option)
    /\ RegistryInit(In("slots") /\ exercise.option)

-----------------------------------------------------------------------------
(* tmc_connect and tmc_disconnect, whole. *)
Join(s, u, c) ==
    /\ Connect(s, u, c)
    /\ IF c = Claimer /\ s \in Live'
       THEN \E v \in exercise.values : ClaimerConnects(s, v) ELSE UNCHANGED configVars
    /\ UNCHANGED <<exercise, relayVars, broadcastVars, registryVars>>

Parts(s) ==
    /\ FailWaitersFor(s)
    /\ IF sessions[s].claimer = Claimer THEN ClaimerLeaves(s) ELSE UNCHANGED configVars
    /\ Unlisted(s)
    /\ UNCHANGED <<exercise, broadcastVars>>

Disconnect(s) == Leave(s) /\ Parts(s)
PutOff(s) == Evict(s) /\ Parts(s)

PresenceStep ==
    /\ \/ \E t \in timers : TimerFires(t)
       \/ In("presence") /\ (CloseLicense \/ \E s \in Sids, u \in exercise.users : Relabel(s, u))
       \/ In("keys") /\ \E s \in Sids :
            RequestKey(s) \/ StoreKey(s) \/ AckKey(s, TRUE) \/ AckKey(s, FALSE)
    /\ UNCHANGED <<exercise, relayVars, configVars, broadcastVars, registryVars>>

(* The end of tmc_connect in the slot product. *)
ArriveListed(a) ==
    Arrive(a) /\ (SendToNew(a[1]) \/ (In("slots") /\ ListLost(a[1])))

SlotStep ==
    /\ \/ (\E s \in Sids : ListForNew(s)) /\ UNCHANGED presenceVars
       \/ \E a \in arriving : ArriveListed(a)
       \/ In("slots") /\ RegistryStep /\ UNCHANGED presenceVars
    /\ UNCHANGED <<exercise, relayVars, configVars, broadcastVars>>

RelayStep ==
    /\ In("relay")
    /\ \E q \in Calls :
          VerifyCall(q) \/ VerifyReturns(q)
          \/ \E s \in Sids, answer \in Answers : VerifyResult(s, q, answer)
    /\ UNCHANGED <<exercise, presenceVars, configVars, broadcastVars, registryVars>>

(* A status also sets the claimer's flag (record_observed). *)
HearStatus ==
    /\ In("config") \/ In("storage")
    /\ \E s \in Sids : OnStatus(s)
    /\ online' = [online EXCEPT ![Claimer] = TRUE]
    /\ UNCHANGED <<exercise, api, admin, open, fresh, sessions, notif, timers, arriving,
                   keyHeld, renamed, relayVars, broadcastVars, registryVars>>

(* "config" lets script and server talk, "storage" lets the flush run and  *)
(* writes fail.                                                            *)
ConfigStep ==
    /\ \/ /\ In("config") \/ In("storage")
          /\ \E a \in exercise.admins :
                PersistCommits(a) \/ PushChange(a) \/ \E v \in exercise.values : SetDesired(a, v)
       \/ /\ In("config")
          /\ \E s \in Sids :
                \/ OnAck(s) \/ OnLimited(s)
                \/ \E ok \in BOOLEAN : ScriptApplies(s, ok)
                \/ \E v \in exercise.values \ {None} : ScriptChanges(s, v)
       \/ /\ In("storage")
          /\ FlushStarts \/ FlushCommits \/ FlushFails \/ \E a \in exercise.admins : PersistFails(a)
    /\ UNCHANGED <<exercise, presenceVars, relayVars, broadcastVars, registryVars>>

(* A new process, in the exercise of the storage: sessions, the claimer's  *)
(* state and pushes are lost (the relay and the broadcasts hold nothing    *)
(* then).                                                                  *)
Restart ==
    /\ In("storage") /\ ConfigRestart
    /\ sessions' = [s \in Sids |-> None]
    /\ notif' = [u \in Users |-> [state |-> "none", handle |-> None]]
    /\ timers' = {} /\ arriving' = {} /\ renamed' = {}
    /\ online' = [c \in Claimers |-> FALSE]
    /\ keyHeld' = [s \in Sids |-> "no"]
    /\ lists' = {} /\ heard' = [s \in Sids |-> 0] /\ edit' = [e \in Editors |-> NoEdit]
    /\ UNCHANGED <<exercise, api, admin, open, fresh, relayVars, broadcastVars, register, version, lost>>

BroadcastStep ==
    /\ \/ In("broadcast") /\ Tick
       \/ \E c \in Codes :
             \/ In("broadcast") /\ (DropToLicense(c) \/ DropByOwner(c))
             \/ In("broadcast") /\ \E u \in exercise.users : DropToUser(c, u)
             \/ (In("broadcast") \/ In("streams")) /\ DropToEveryone(c)
       \/ In("streams") /\ (CleanupStale \/ \E k \in Streams : StreamStep(k))
    /\ UNCHANGED <<exercise, presenceVars, relayVars, configVars, registryVars>>

Next ==
    \/ \E s \in Sids, u \in exercise.users, c \in exercise.claimers : Join(s, u, c)
    \/ \E s \in Sids : Disconnect(s) \/ PutOff(s)
    \/ PresenceStep \/ SlotStep \/ RelayStep \/ HearStatus \/ ConfigStep \/ Restart \/ BroadcastStep

Spec == Init /\ [][Next]_vars /\ StreamFairness
=============================================================================
