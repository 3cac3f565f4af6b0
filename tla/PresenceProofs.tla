---------------------------- MODULE PresenceProofs ----------------------------
(***************************************************************************)
(* Proofs about who is on the licence: its limits, the notices' timers, the*)
(* broadcast key and the claimers' online flag, in Connections.            *)
(***************************************************************************)
EXTENDS ConnectionsProofs

-----------------------------------------------------------------------------
(* What a step of presence leaves: types, and that no sid is used twice.   *)
PresenceSound == PresenceTypeOK /\ \A s \in fresh : sessions[s] = None

LEMMA SoundInit == Init => PresenceSound
  <1> SUFFICES ASSUME Init PROVE PresenceSound
    OBVIOUS
  <1>1. /\ PresenceInit(exercise.sids, exercise.api, exercise.admin)
        /\ exercise.sids \subseteq Sids /\ {exercise.api, exercise.admin} \subseteq BOOLEAN
    BY ExercisesAssumption DEF Init
  <1> QED BY <1>1, PresenceAssumption
       DEF PresenceInit, PresenceSound, PresenceTypeOK, Users, Standing

LEMMA AnnounceTyped ==
    ASSUME PresenceTypeOK, NEW u \in Users, NEW n, Announce(u, n)
    PROVE  /\ notif' \in [Users -> [state: Standing, handle: Sids \cup {None}]]
           /\ timers' \subseteq Users \X Sids
  BY DEF PresenceTypeOK, Announce, Standing

LEMMA FarewellTyped ==
    ASSUME PresenceTypeOK, NEW u \in Users, NEW s \in Sids, NEW n, Farewell(u, n, s)
    PROVE  /\ notif' \in [Users -> [state: Standing, handle: Sids \cup {None}]]
           /\ timers' \subseteq Users \X Sids
           /\ renamed' \subseteq Users
  BY DEF PresenceTypeOK, Farewell, Standing

LEMMA SoundStep == PresenceSound /\ Chosen /\ [Next]_vars => PresenceSound'
  <1> SUFFICES ASSUME PresenceSound, Chosen, [Next]_vars PROVE PresenceSound'
    OBVIOUS
  <1> USE DEF PresenceSound
  <1>1. ASSUME NEW s \in Sids, NEW u \in Users, NEW c \in Claimers \cup {None}, Connect(s, u, c)
        PROVE  PresenceSound'
    <2>1. [user |-> u, claimer |-> c, bk |-> FALSE] \in Session
      BY <1>1 DEF Session
    <2>2. sessions' \in [Sids -> Session \cup {None}] /\ \A x \in fresh' : sessions'[x] = None
      BY <1>1, <2>1 DEF Connect, PresenceTypeOK
    <2>3. online' \in [Claimers -> BOOLEAN] /\ arriving' \subseteq Sids \X Users
      <3>1. online' = online \/ (c \in Claimers /\ online' = [online EXCEPT ![c] = TRUE])
        BY <1>1 DEF Connect
      <3>2. arriving' = arriving \/ arriving' = arriving \cup {<<s, u>>}
        <4>1. CASE open /\ CanAdmit(u)
          <5>1. CASE api
            BY <1>1, <4>1, <5>1 DEF Connect
          <5>2. CASE ~api
            BY <1>1, <4>1, <5>2 DEF Connect
          <5> QED BY <5>1, <5>2
        <4>2. CASE ~(open /\ CanAdmit(u))
          BY <1>1, <4>2 DEF Connect
        <4> QED BY <4>1, <4>2
      <3>3. online' \in [Claimers -> BOOLEAN]
        <4>1. TRUE \in BOOLEAN /\ online \in [Claimers -> BOOLEAN]
          BY DEF PresenceTypeOK
        <4> QED BY <3>1, <4>1, Zenon
      <3>4. arriving' \subseteq Sids \X Users
        BY <3>2 DEF PresenceTypeOK
      <3> QED BY <3>3, <3>4
    <2>4. /\ notif' \in [Users -> [state: Standing, handle: Sids \cup {None}]]
          /\ timers' \subseteq Users \X Sids
      <3>1. CASE Announce(u, Cardinality(SessionsOf(u)) + 1)
        BY <1>1, <3>1, AnnounceTyped
      <3>2. CASE UNCHANGED <<notif, timers>>
        BY <3>2 DEF PresenceTypeOK
      <3> QED BY <1>1, <3>1, <3>2 DEF Connect
    <2>5. fresh' \subseteq Sids /\ UNCHANGED <<api, admin, open, keyHeld, renamed>>
      BY <1>1 DEF Connect, PresenceTypeOK
    <2> QED BY <2>2, <2>3, <2>4, <2>5 DEF PresenceTypeOK
  <1>2. ASSUME NEW s \in Sids, Leave(s) PROVE PresenceSound'
    <2>1. sessions[s] \in Session /\ sessions[s].user \in Users
      BY <1>2 DEF Leave, Live, PresenceTypeOK, Session
    <2>2. /\ notif' \in [Users -> [state: Standing, handle: Sids \cup {None}]]
          /\ timers' \subseteq Users \X Sids
          /\ renamed' \subseteq Users
      BY <1>2, <2>1, FarewellTyped DEF Leave
    <2>3. /\ sessions' \in [Sids -> Session \cup {None}] /\ keyHeld' \in [Sids -> {"no", "sent", "held"}]
          /\ \A x \in fresh' : sessions'[x] = None
      BY <1>2 DEF Leave, PresenceTypeOK
    <2>4. online' \in [Claimers -> BOOLEAN]
      BY <1>2 DEF Leave, PresenceTypeOK, OnlineAfter
    <2> QED BY <1>2, <2>2, <2>3, <2>4 DEF Leave, PresenceTypeOK
  <1>3. ASSUME NEW t \in timers, TimerFires(t) PROVE PresenceSound'
    BY <1>3 DEF TimerFires, PresenceTypeOK, Standing
  <1>4. ASSUME NEW a \in arriving, Arrive(a) PROVE PresenceSound'
    <2>1. a[2] \in Users
      BY DEF PresenceTypeOK
    <2>2. /\ notif' \in [Users -> [state: Standing, handle: Sids \cup {None}]]
          /\ timers' \subseteq Users \X Sids
      BY <1>4, <2>1, AnnounceTyped DEF Arrive
    <2> QED BY <1>4, <2>2 DEF Arrive, PresenceTypeOK
  <1>5. CASE CloseLicense
    BY <1>5 DEF CloseLicense, PresenceTypeOK
  <1>6. ASSUME NEW s \in Sids, NEW u \in Users, Relabel(s, u) PROVE PresenceSound'
    <2>1. sessions[s] \in Session /\ [sessions[s] EXCEPT !.user = u] \in Session
      BY <1>6 DEF Relabel, Live, PresenceTypeOK, Session
    <2>2. sessions' \in [Sids -> Session \cup {None}] /\ \A x \in fresh' : sessions'[x] = None
      BY <1>6, <2>1 DEF Relabel, Live, PresenceTypeOK
    <2> QED BY <1>6, <2>2 DEF Relabel, PresenceTypeOK
  <1>7. ASSUME NEW s \in Sids, KeyMove(s) PROVE PresenceSound'
    <2>1. sessions' \in [Sids -> Session \cup {None}] /\ \A x \in fresh : sessions'[x] = None
      <3>1. CASE AckKey(s, TRUE)
        <4>1. sessions[s] \in Session /\ [sessions[s] EXCEPT !.bk = TRUE] \in Session
          BY <3>1 DEF AckKey, Live, PresenceTypeOK, Session
        <4> QED BY <3>1, <4>1 DEF AckKey, Live, PresenceTypeOK
      <3>2. CASE RequestKey(s) \/ StoreKey(s) \/ AckKey(s, FALSE)
        BY <3>2 DEF RequestKey, StoreKey, AckKey, PresenceTypeOK
      <3> QED BY <1>7, <3>1, <3>2 DEF KeyMove
    <2>2. keyHeld' \in [Sids -> {"no", "sent", "held"}]
      BY <1>7 DEF KeyMove, RequestKey, StoreKey, AckKey, PresenceTypeOK
    <2> QED BY <1>7, <2>1, <2>2 DEF KeyMove, RequestKey, StoreKey, AckKey, PresenceTypeOK
  <1>8. CASE StatusHeard
    BY <1>8 DEF StatusHeard, PresenceTypeOK
  <1>9. CASE PresenceForgotten
    BY <1>9, PresenceAssumption DEF PresenceForgotten, PresenceTypeOK, Standing
  <1>10. CASE UNCHANGED presenceVars
    BY <1>10 DEF presenceVars, PresenceTypeOK
  <1> QED
    BY <1>1, <1>2, <1>3, <1>4, <1>5, <1>6, <1>7, <1>8, <1>9, <1>10, PresenceMoves DEF Chosen

LEMMA AlwaysSound == Spec => []PresenceSound
  BY SoundInit, SoundStep, ChosenOnce, PTL DEF Spec

-----------------------------------------------------------------------------
(* Of a user who may be about to be reported offline exactly one timer     *)
(* runs, and of any other none, whatever tabs come, go and are relabelled. *)
THEOREM TimersCounted == Spec => []OneTimer
  <1>1. Init => OneTimer
    BY DEF Init, PresenceInit, OneTimer
  <1>2. ASSUME OneTimer, PresenceSound, Chosen, [Next]_vars PROVE OneTimer'
    <2>1. \A v \in Users : {t \in timers : t[1] = v} =
                 IF notif[v].state = "pending" THEN {<<v, notif[v].handle>>} ELSE {}
      BY <1>2 DEF OneTimer
    <2>2. /\ notif \in [Users -> [state: Standing, handle: Sids \cup {None}]]
          /\ timers \subseteq Users \X Sids
      BY <1>2 DEF PresenceSound, PresenceTypeOK
    <2>3. ASSUME UNCHANGED <<notif, timers>> PROVE OneTimer'
      BY <2>1, <2>3 DEF OneTimer
    <2>4. ASSUME NEW u \in Users, NEW n, Announce(u, n) PROVE OneTimer'
      <3>1. CASE n > 1
        BY <2>3, <2>4, <3>1 DEF Announce
      <3>2. CASE ~(n > 1)
        <4>1. /\ notif' = [notif EXCEPT ![u] = [state |-> "connected", handle |-> None]]
              /\ timers' = {t \in timers : t # <<u, notif[u].handle>>}
          BY <2>4, <3>2 DEF Announce
        <4>2. ASSUME NEW v \in Users
              PROVE  {t \in timers' : t[1] = v} =
                         IF notif'[v].state = "pending" THEN {<<v, notif'[v].handle>>} ELSE {}
          <5>1. CASE v = u
            BY <2>1, <2>2, <4>1, <5>1
          <5>2. CASE v # u
            <6>1. {t \in timers' : t[1] = v} = {t \in timers : t[1] = v}
              BY <4>1, <5>2
            <6> QED BY <2>1, <2>2, <4>1, <5>2, <6>1
          <5> QED BY <5>1, <5>2
        <4> QED BY <4>2 DEF OneTimer
      <3> QED BY <3>1, <3>2
    <2>5. ASSUME NEW u \in Users, NEW s \in Sids, NEW n, Farewell(u, n, s) PROVE OneTimer'
      <3>1. CASE n > 0
        BY <2>3, <2>5, <3>1 DEF Farewell
      <3>2. CASE ~(n > 0)
        <4>1. /\ notif' = [notif EXCEPT ![u] = [state |-> "pending", handle |-> s]]
              /\ timers' = {t \in timers : t # <<u, notif[u].handle>>} \cup {<<u, s>>}
          BY <2>5, <3>2 DEF Farewell
        <4>2. ASSUME NEW v \in Users
              PROVE  {t \in timers' : t[1] = v} =
                         IF notif'[v].state = "pending" THEN {<<v, notif'[v].handle>>} ELSE {}
          <5>1. CASE v = u
            <6>1. {t \in timers' : t[1] = v} = {<<u, s>>}
              BY <2>1, <2>2, <4>1, <5>1
            <6> QED BY <2>2, <4>1, <5>1, <6>1
          <5>2. CASE v # u
            <6>1. {t \in timers' : t[1] = v} = {t \in timers : t[1] = v}
              BY <4>1, <5>2
            <6> QED BY <2>1, <2>2, <4>1, <5>2, <6>1
          <5> QED BY <5>1, <5>2
        <4> QED BY <4>2 DEF OneTimer
      <3> QED BY <3>1, <3>2
    <2>6. ASSUME NEW t \in timers, TimerFires(t) PROVE OneTimer'
      <3>1. t[1] \in Users /\ t \in {x \in timers : x[1] = t[1]}
        BY <2>2
      <3>2. notif[t[1]].state = "pending" /\ {x \in timers : x[1] = t[1]} = {t}
        BY <2>1, <3>1
      <3>3. /\ timers' = timers \ {t}
            /\ notif' = [notif EXCEPT ![t[1]] = [state |-> "disconnected", handle |-> None]]
        BY <2>6, <3>2 DEF TimerFires, SaysOffline
      <3>4. ASSUME NEW v \in Users
            PROVE  {x \in timers' : x[1] = v} =
                       IF notif'[v].state = "pending" THEN {<<v, notif'[v].handle>>} ELSE {}
        <4>1. CASE v = t[1]
          BY <2>2, <3>2, <3>3, <4>1
        <4>2. CASE v # t[1]
          <5>1. {x \in timers' : x[1] = v} = {x \in timers : x[1] = v}
            BY <3>3, <4>2
          <5> QED BY <2>1, <2>2, <3>3, <4>2, <5>1
        <4> QED BY <4>1, <4>2
      <3> QED BY <3>4 DEF OneTimer
    <2>7. ASSUME NEW s \in Sids, NEW u \in Users, NEW c \in Claimers \cup {None}, Connect(s, u, c)
          PROVE  OneTimer'
      BY <2>3, <2>4, <2>7 DEF Connect
    <2>8. ASSUME NEW s \in Sids, Leave(s) PROVE OneTimer'
      <3>1. sessions[s].user \in Users
        BY <1>2, <2>8 DEF Leave, Live, PresenceSound, PresenceTypeOK, Session
      <3> QED BY <2>5, <2>8, <3>1 DEF Leave
    <2>9. ASSUME NEW a \in arriving, Arrive(a) PROVE OneTimer'
      <3>1. a[2] \in Users
        BY <1>2 DEF PresenceSound, PresenceTypeOK
      <3> QED BY <2>4, <2>9, <3>1 DEF Arrive
    <2>10. CASE PresenceForgotten
      BY <2>10 DEF PresenceForgotten, OneTimer
    <2>11. CASE CloseLicense \/ (\E s \in Sids, u \in Users : Relabel(s, u))
                \/ (\E s \in Sids : KeyMove(s)) \/ StatusHeard \/ UNCHANGED presenceVars
      BY <2>3, <2>11 DEF CloseLicense, Relabel, KeyMove, RequestKey, StoreKey, AckKey, StatusHeard,
                         presenceVars
    <2> QED BY <1>2, <2>6, <2>7, <2>8, <2>9, <2>10, <2>11, PresenceMoves DEF Chosen
  <1> QED BY <1>1, <1>2, AlwaysSound, ChosenOnce, PTL DEF Spec

-----------------------------------------------------------------------------
(* A session is served with the shared key only if its script holds it, in *)
(* whatever order requests, deliveries and acknowledgements are handled.   *)
THEOREM ServedReadable == Spec => []Readable
  <1>1. Init => Readable
    BY DEF Init, PresenceInit, Readable, Live
  <1>2. ASSUME Readable, PresenceSound, Chosen, [Next]_vars PROVE Readable'
    <2>1. /\ \A x \in Sids : sessions[x] # None /\ sessions[x].bk => keyHeld[x] = "held"
          /\ sessions \in [Sids -> Session \cup {None}] /\ keyHeld \in [Sids -> {"no", "sent", "held"}]
      BY <1>2 DEF Readable, Live, PresenceSound, PresenceTypeOK
    <2>2. ASSUME NEW s \in Sids, NEW u \in Users, NEW c \in Claimers \cup {None}, Connect(s, u, c)
          PROVE  Readable'
      BY <2>1, <2>2 DEF Connect, Readable, Live
    <2>3. ASSUME NEW s \in Sids, Leave(s) PROVE Readable'
      BY <2>1, <2>3 DEF Leave, Readable, Live
    <2>4. ASSUME NEW s \in Sids, NEW u \in Users, Relabel(s, u) PROVE Readable'
      <3>1. sessions[s] \in Session
        BY <2>1, <2>4 DEF Relabel, Live
      <3> QED BY <2>1, <2>4, <3>1 DEF Relabel, Readable, Live, Session
    <2>5. ASSUME NEW s \in Sids, KeyMove(s) PROVE Readable'
      BY <2>1, <2>5 DEF KeyMove, RequestKey, StoreKey, AckKey, Readable, Live
    <2>6. CASE PresenceForgotten
      BY <2>6 DEF PresenceForgotten, Readable, Live
    <2>7. CASE (\E t \in timers : TimerFires(t)) \/ (\E a \in arriving : Arrive(a)) \/ CloseLicense
               \/ StatusHeard \/ UNCHANGED presenceVars
      BY <2>1, <2>7 DEF TimerFires, Arrive, CloseLicense, StatusHeard, presenceVars, Readable, Live
    <2> QED BY <1>2, <2>2, <2>3, <2>4, <2>5, <2>6, <2>7, PresenceMoves DEF Chosen
  <1> QED BY <1>1, <1>2, AlwaysSound, ChosenOnce, PTL DEF Spec
-----------------------------------------------------------------------------
(* A set of one more element at most. *)
LEMMA OneMore ==
    ASSUME NEW S, IsFiniteSet(S), NEW x, NEW T \in SUBSET (S \cup {x})
    PROVE  IsFiniteSet(T) /\ Cardinality(T) \in Nat /\ Cardinality(T) <= Cardinality(S) + 1
  <1>1. /\ IsFiniteSet(S \cup {x}) /\ Cardinality(S) \in Nat
        /\ Cardinality(S \cup {x}) = IF x \in S THEN Cardinality(S) ELSE Cardinality(S) + 1
    BY FS_AddElement, FS_CardinalityType
  <1>2. IsFiniteSet(T) /\ Cardinality(T) <= Cardinality(S \cup {x})
    BY <1>1, FS_Subset
  <1>3. Cardinality(T) \in Nat
    BY <1>2, FS_CardinalityType
  <1> QED BY <1>1, <1>2, <1>3

LEMMA Counted ==
    ASSUME PresenceSound
    PROVE  /\ \A u : IsFiniteSet(SessionsOf(u)) /\ Cardinality(SessionsOf(u)) \in Nat
           /\ \A D : IsFiniteSet(NamesOn(D)) /\ Cardinality(NamesOn(D)) \in Nat
           /\ \A D : NamesOn(D) \subseteq Users
  <1>1. IsFiniteSet(Users)
    BY PresenceAssumption, FS_AddElement DEF Users
  <1>2. \A u : SessionsOf(u) \subseteq Sids
    BY DEF SessionsOf, Live
  <1>3. \A D : NamesOn(D) \subseteq Users
    BY DEF NamesOn, Live, PresenceSound, PresenceTypeOK, Session
  <1> QED BY <1>1, <1>2, <1>3, PresenceAssumption, FS_Subset, FS_CardinalityType

(* What a step must keep of who is on for the limits to hold after it. *)
LEMMA Fewer ==
    ASSUME UserLimits, PresenceSound, admin' = admin,
           NamesOn({})' \ {Unknown} \subseteq NamesOn({}) \ {Unknown},
           \A u \in Names : SessionsOf(u)' \subseteq SessionsOf(u)
    PROVE  UserLimits'
  <1>1. IsFiniteSet(NamesOn({}) \ {Unknown}) /\ Cardinality(NamesOn({}) \ {Unknown}) \in Nat
    BY Counted, FS_Subset, FS_CardinalityType
  <1>2. /\ Cardinality(NamesOn({})' \ {Unknown}) \in Nat
        /\ Cardinality(NamesOn({})' \ {Unknown}) <= Cardinality(NamesOn({}) \ {Unknown})
    BY <1>1, FS_Subset, FS_CardinalityType
  <1>3. ASSUME ~admin, TabCap > 0, NEW u \in Names PROVE Cardinality(SessionsOf(u)') <= TabCap
    <2>1. /\ Cardinality(SessionsOf(u)') \in Nat
          /\ Cardinality(SessionsOf(u)') <= Cardinality(SessionsOf(u))
      BY Counted, FS_Subset, FS_CardinalityType
    <2> QED BY <1>3, <2>1, Counted, PresenceAssumption DEF UserLimits
  <1> QED BY <1>1, <1>2, <1>3, PresenceAssumption DEF UserLimits

(* However scripts connect and are relabelled, the licence carries no more *)
(* Stake names than it paid for, and, unless it is the operator's own, no  *)
(* name more tabs than the cap.                                            *)
THEOREM LimitsKept == Spec => []UserLimits
  <1>1. Init => UserLimits
    <2> SUFFICES ASSUME Init PROVE UserLimits
      OBVIOUS
    <2>1. NamesOn({}) = {} /\ \A u : SessionsOf(u) = {}
      BY DEF Init, PresenceInit, NamesOn, SessionsOf, Live
    <2>2. NamesOn({}) \ {Unknown} = {}
      BY <2>1
    <2>3. Cardinality({}) = 0
      BY FS_EmptySet
    <2> QED BY <2>1, <2>2, <2>3, PresenceAssumption DEF UserLimits
  <1>2. ASSUME UserLimits, PresenceSound, Chosen, [Next]_vars PROVE UserLimits'
    <2>1. sessions \in [Sids -> Session \cup {None}]
      BY <1>2 DEF PresenceSound, PresenceTypeOK
    <2>0. admin' = admin
      BY <1>2, PresenceMoves DEF Chosen, Connect, Leave, TimerFires, Arrive, CloseLicense, Relabel, KeyMove,
         RequestKey, StoreKey, AckKey, StatusHeard, PresenceForgotten, presenceVars
    <2>2. CASE UNCHANGED sessions
      <3>1. NamesOn({})' = NamesOn({}) /\ \A u \in Names : SessionsOf(u)' = SessionsOf(u)
        BY <2>2 DEF NamesOn, SessionsOf, Live
      <3> QED BY <1>2, <3>1, <2>0, Fewer
    <2>3. ASSUME NEW s \in Sids, NEW u \in Users, NEW c \in Claimers \cup {None}, Connect(s, u, c)
          PROVE  UserLimits'
      <3>1. CASE ~(open /\ CanAdmit(u))
        BY <2>2, <2>3, <3>1 DEF Connect
      <3>2. CASE open /\ CanAdmit(u)
        <4>1. /\ sessions' = [sessions EXCEPT ![s] = [user |-> u, claimer |-> c, bk |-> FALSE]]
              /\ [user |-> u, claimer |-> c, bk |-> FALSE] # None
          <5>1. [user |-> u, claimer |-> c, bk |-> FALSE] \in Session
            BY DEF Session
          <5>2. sessions' = [sessions EXCEPT ![s] = [user |-> u, claimer |-> c, bk |-> FALSE]]
            BY <2>3, <3>2 DEF Connect
          <5> QED BY <5>1, <5>2, NoSession
        <4>2. \A v \in Names : SessionsOf(v)' \subseteq IF v = u THEN SessionsOf(v) \cup {s} ELSE SessionsOf(v)
          BY <2>1, <4>1 DEF SessionsOf, Live
        <4>3. NamesOn({})' \subseteq NamesOn({}) \cup {u}
          BY <2>1, <4>1 DEF NamesOn, Live
        <4>4. CASE u = Unknown
          BY <1>2, <4>2, <4>3, <4>4, <2>0, Fewer, PresenceAssumption
        <4>5. CASE u # Unknown
          <5>1. /\ SessionsOf(u) # {} \/ Cardinality(NamesOn({})) < MaxUsernames
                /\ ~admin /\ TabCap > 0 => Cardinality(SessionsOf(u)) < TabCap
            BY <3>2, <4>5 DEF CanAdmit, UnderCap, Cap
          <5>2. Cardinality(NamesOn({})' \ {Unknown}) <= MaxUsernames
            <6>1. CASE SessionsOf(u) # {}
              <7>1. u \in NamesOn({})
                BY <6>1 DEF SessionsOf, NamesOn
              <7>2. NamesOn({})' \ {Unknown} \subseteq NamesOn({}) \ {Unknown}
                BY <4>3, <7>1
              <7>3. IsFiniteSet(NamesOn({}) \ {Unknown})
                BY <1>2, Counted, FS_Subset
              <7>4. Cardinality(NamesOn({})' \ {Unknown}) <= Cardinality(NamesOn({}) \ {Unknown})
                BY <7>2, <7>3, FS_Subset
              <7>5. Cardinality(NamesOn({})' \ {Unknown}) \in Nat /\ Cardinality(NamesOn({}) \ {Unknown}) \in Nat
                BY <7>2, <7>3, FS_Subset, FS_CardinalityType
              <7> QED BY <1>2, <7>4, <7>5, PresenceAssumption DEF UserLimits
            <6>2. CASE Cardinality(NamesOn({})) < MaxUsernames
              <7>1. NamesOn({})' \ {Unknown} \in SUBSET (NamesOn({}) \cup {u})
                BY <4>3
              <7>2. IsFiniteSet(NamesOn({})) /\ Cardinality(NamesOn({})) \in Nat
                BY <1>2, Counted
              <7>3. /\ Cardinality(NamesOn({})' \ {Unknown}) \in Nat
                    /\ Cardinality(NamesOn({})' \ {Unknown}) <= Cardinality(NamesOn({})) + 1
                BY <7>1, <7>2, OneMore
              <7> QED BY <6>2, <7>2, <7>3, PresenceAssumption
            <6> QED BY <5>1, <6>1, <6>2
          <5>3. ASSUME ~admin, TabCap > 0, NEW v \in Names PROVE Cardinality(SessionsOf(v)') <= TabCap
            <6>1. IsFiniteSet(SessionsOf(v)) /\ Cardinality(SessionsOf(v)) \in Nat
              BY <1>2, Counted
            <6>2. CASE v = u
              <7>1. SessionsOf(v)' \in SUBSET (SessionsOf(v) \cup {s})
                BY <4>2, <6>2
              <7>2. /\ Cardinality(SessionsOf(v)') \in Nat
                    /\ Cardinality(SessionsOf(v)') <= Cardinality(SessionsOf(v)) + 1
                BY <6>1, <7>1, OneMore
              <7> QED BY <5>1, <5>3, <6>1, <6>2, <7>2, PresenceAssumption
            <6>3. CASE v # u
              <7>1. SessionsOf(v)' \subseteq SessionsOf(v)
                BY <4>2, <6>3
              <7>2. /\ Cardinality(SessionsOf(v)') \in Nat
                    /\ Cardinality(SessionsOf(v)') <= Cardinality(SessionsOf(v))
                BY <6>1, <7>1, FS_Subset, FS_CardinalityType
              <7> QED BY <1>2, <5>3, <6>1, <7>2, PresenceAssumption DEF UserLimits
            <6> QED BY <6>2, <6>3
          <5> QED BY <2>0, <5>2, <5>3 DEF UserLimits
        <4> QED BY <4>4, <4>5
      <3> QED BY <3>1, <3>2
    <2>4. ASSUME NEW s \in Sids, Leave(s) PROVE UserLimits'
      <3>1. sessions' = [sessions EXCEPT ![s] = None]
        BY <2>4 DEF Leave
      <3>2. NamesOn({})' \subseteq NamesOn({}) /\ \A u \in Names : SessionsOf(u)' \subseteq SessionsOf(u)
        BY <2>1, <3>1 DEF NamesOn, SessionsOf, Live
      <3> QED BY <1>2, <3>2, <2>0, Fewer
    <2>5. ASSUME NEW s \in Sids, NEW u \in Users, Relabel(s, u) PROVE UserLimits'
      <3>1. /\ sessions' = [sessions EXCEPT ![s].user = u] /\ sessions[s] \in Session
            /\ ~admin /\ TabCap > 0 => Cardinality(SessionsOf(u) \ {s}) < TabCap
            /\ Cardinality((NamesOn({s}) \ {Unknown}) \cup {u}) <= MaxUsernames
        BY <2>1, <2>5 DEF Relabel, MayTake, UnderCap, Cap, Live
      <3>2. \A x \in Sids : x # s => sessions'[x] = sessions[x]
        BY <2>1, <3>1
      <3>3. sessions'[s].user = u
        BY <2>1, <3>1 DEF Session
      <3>4. NamesOn({})' \ {Unknown} \subseteq (NamesOn({s}) \ {Unknown}) \cup {u}
        BY <3>2, <3>3 DEF NamesOn, Live
      <3>5. Cardinality(NamesOn({})' \ {Unknown}) <= MaxUsernames
        <4>1. IsFiniteSet(NamesOn({s}) \ {Unknown})
          BY <1>2, Counted, FS_Subset
        <4>2. IsFiniteSet((NamesOn({s}) \ {Unknown}) \cup {u})
          BY <4>1, FS_AddElement
        <4>3. /\ IsFiniteSet(NamesOn({})' \ {Unknown})
              /\ Cardinality(NamesOn({})' \ {Unknown}) <= Cardinality((NamesOn({s}) \ {Unknown}) \cup {u})
          BY <3>4, <4>2, FS_Subset
        <4> QED BY <3>1, <4>2, <4>3, FS_CardinalityType, PresenceAssumption
      <3>6. ASSUME ~admin, TabCap > 0, NEW v \in Names PROVE Cardinality(SessionsOf(v)') <= TabCap
        <4>1. IsFiniteSet(SessionsOf(v)) /\ Cardinality(SessionsOf(v)) \in Nat
          BY <1>2, Counted
        <4>2. CASE v = u
          <5>1. SessionsOf(v)' \in SUBSET ((SessionsOf(v) \ {s}) \cup {s})
            BY <3>2, <4>2 DEF SessionsOf, Live
          <5>2. IsFiniteSet(SessionsOf(v) \ {s}) /\ Cardinality(SessionsOf(v) \ {s}) \in Nat
            BY <4>1, FS_Subset, FS_CardinalityType
          <5>3. /\ Cardinality(SessionsOf(v)') \in Nat
                /\ Cardinality(SessionsOf(v)') <= Cardinality(SessionsOf(v) \ {s}) + 1
            BY <5>1, <5>2, OneMore
          <5> QED BY <3>1, <3>6, <4>2, <5>2, <5>3, PresenceAssumption
        <4>3. CASE v # u
          <5>1. SessionsOf(v)' \subseteq SessionsOf(v)
            BY <3>2, <3>3, <4>3 DEF SessionsOf, Live
          <5>2. /\ Cardinality(SessionsOf(v)') \in Nat
                /\ Cardinality(SessionsOf(v)') <= Cardinality(SessionsOf(v))
            BY <4>1, <5>1, FS_Subset, FS_CardinalityType
          <5> QED BY <1>2, <3>6, <4>1, <5>2, PresenceAssumption DEF UserLimits
        <4> QED BY <4>2, <4>3
      <3> QED BY <2>0, <3>5, <3>6 DEF UserLimits
    <2>6. ASSUME NEW s \in Sids, KeyMove(s) PROVE UserLimits'
      <3>1. \A x \in Sids : /\ sessions'[x] # None => sessions[x] # None
                            /\ sessions'[x] # None => sessions'[x].user = sessions[x].user
        <4>1. CASE AckKey(s, TRUE)
          <5>1. sessions' = [sessions EXCEPT ![s].bk = TRUE] /\ sessions[s] \in Session
            BY <2>1, <4>1 DEF AckKey, Live
          <5> QED BY <2>1, <5>1, NoSession DEF Session
        <4>2. CASE UNCHANGED sessions
          BY <4>2
        <4> QED BY <2>6, <4>1, <4>2 DEF KeyMove, RequestKey, StoreKey, AckKey
      <3>2. NamesOn({})' \subseteq NamesOn({}) /\ \A u \in Names : SessionsOf(u)' \subseteq SessionsOf(u)
        BY <3>1 DEF NamesOn, SessionsOf, Live
      <3> QED BY <1>2, <3>2, <2>0, Fewer
    <2>7. CASE PresenceForgotten
      <3>1. NamesOn({})' \subseteq NamesOn({}) /\ \A u \in Names : SessionsOf(u)' \subseteq SessionsOf(u)
        BY <2>7 DEF PresenceForgotten, NamesOn, SessionsOf, Live
      <3> QED BY <1>2, <3>1, <2>0, Fewer
    <2>8. CASE (\E t \in timers : TimerFires(t)) \/ (\E a \in arriving : Arrive(a)) \/ CloseLicense
               \/ StatusHeard \/ UNCHANGED presenceVars
      BY <2>2, <2>8 DEF TimerFires, Arrive, CloseLicense, StatusHeard, presenceVars
    <2> QED BY <1>2, <2>3, <2>4, <2>5, <2>6, <2>7, <2>8, PresenceMoves DEF Chosen
  <1> QED BY <1>1, <1>2, AlwaysSound, ChosenOnce, PTL DEF Spec

-----------------------------------------------------------------------------
(* A user reported offline has gone. *)

(* Of whom the owner may be told that they went, nobody is left, but for   *)
(* the two cases OfflineMeansGone sets apart.                              *)
PendingGone ==
    ~api => \A u \in Users \ renamed : notif[u].state = "pending" => SessionsOf(u) = {}

LEMMA PendingKept ==
    ASSUME PendingGone, UNCHANGED <<api, notif>>, renamed \subseteq renamed',
           \A u \in Users \ renamed' : SessionsOf(u)' \subseteq SessionsOf(u)
    PROVE  PendingGone'
  BY DEF PendingGone

LEMMA PendingStep == PendingGone /\ PresenceSound /\ Chosen /\ [Next]_vars => PendingGone'
  <1> SUFFICES ASSUME PendingGone, PresenceSound, Chosen, [Next]_vars PROVE PendingGone'
    OBVIOUS
  <1>1. /\ sessions \in [Sids -> Session \cup {None}]
        /\ notif \in [Users -> [state: Standing, handle: Sids \cup {None}]]
    BY DEF PresenceSound, PresenceTypeOK
  <1>2. Cardinality({}) = 0
    BY FS_EmptySet
  <1>3. ASSUME NEW s \in Sids, NEW u \in Users, NEW c \in Claimers \cup {None}, Connect(s, u, c), ~api
        PROVE  PendingGone'
    <2>1. CASE ~(open /\ CanAdmit(u))
      BY <1>3, <2>1, PendingKept DEF Connect, SessionsOf, Live
    <2>2. CASE open /\ CanAdmit(u)
      <3>1. /\ sessions' = [sessions EXCEPT ![s] = [user |-> u, claimer |-> c, bk |-> FALSE]]
            /\ Announce(u, Cardinality(SessionsOf(u)) + 1) /\ UNCHANGED <<api, renamed>>
        BY <1>3, <2>2 DEF Connect
      <3>2. \A v \in Users : v # u => SessionsOf(v)' \subseteq SessionsOf(v)
        BY <1>1, <3>1 DEF SessionsOf, Live
      <3>3. CASE SessionsOf(u) = {}
        <4>1. notif' = [notif EXCEPT ![u] = [state |-> "connected", handle |-> None]]
          BY <1>2, <3>1, <3>3 DEF Announce
        <4>2. notif'[u].state = "connected" /\ \A v \in Users : v # u => notif'[v] = notif[v]
          BY <1>1, <4>1
        <4> QED BY <1>3, <3>1, <3>2, <4>2 DEF PendingGone
      <3>4. CASE SessionsOf(u) # {}
        <4>1. IsFiniteSet(SessionsOf(u)) /\ Cardinality(SessionsOf(u)) \in Nat
          BY Counted
        <4>2. Cardinality(SessionsOf(u)) # 0
          BY <3>4, <4>1, FS_EmptySet
        <4>3. notif' = notif
          BY <3>1, <4>1, <4>2 DEF Announce
        <4> QED BY <1>3, <3>1, <3>2, <3>4, <4>3 DEF PendingGone
      <3> QED BY <3>3, <3>4
    <2> QED BY <2>1, <2>2
  <1>4. ASSUME NEW s \in Sids, Leave(s), ~api PROVE PendingGone'
    <2> DEFINE u == sessions[s].user
    <2>1. /\ u \in Users /\ sessions' = [sessions EXCEPT ![s] = None] /\ s \in SessionsOf(u) /\ api' = api
          /\ Farewell(u, Cardinality(SessionsOf(u) \ {s}), s)
      BY <1>1, <1>4 DEF Leave, Live, Session, SessionsOf
    <2> HIDE DEF u
    <2>2. \A v \in Users : SessionsOf(v)' \subseteq SessionsOf(v) \ {s}
      BY <1>1, <2>1 DEF SessionsOf, Live
    <2>3. CASE Cardinality(SessionsOf(u) \ {s}) > 0
      <3>1. UNCHANGED <<notif, renamed>>
        BY <2>1, <2>3 DEF Farewell
      <3> QED BY <2>1, <2>2, <3>1, PendingKept
    <2>4. CASE ~(Cardinality(SessionsOf(u) \ {s}) > 0)
      <3>1. IsFiniteSet(SessionsOf(u) \ {s}) /\ Cardinality(SessionsOf(u) \ {s}) \in Nat
        BY Counted, FS_Subset, FS_CardinalityType
      <3>2. SessionsOf(u) \ {s} = {}
        BY <2>4, <3>1, FS_EmptySet
      <3>3. /\ notif' = [notif EXCEPT ![u] = [state |-> "pending", handle |-> s]]
            /\ renamed' = renamed \ {u}
        BY <2>1, <2>4 DEF Farewell
      <3>4. \A v \in Users : v # u => notif'[v] = notif[v]
        BY <1>1, <3>3
      <3> QED BY <1>4, <2>1, <2>2, <3>2, <3>3, <3>4 DEF PendingGone
    <2> QED BY <2>3, <2>4
  <1>5. ASSUME NEW t \in timers, TimerFires(t) PROVE PendingGone'
    <2>1. UNCHANGED <<api, sessions, renamed>>
          /\ (notif' = notif \/ notif' = [notif EXCEPT ![t[1]] = [state |-> "disconnected", handle |-> None]])
      BY <1>5 DEF TimerFires
    <2>2. \A v \in Users : notif'[v].state = "pending" => notif[v].state = "pending"
      BY <1>1, <2>1
    <2> QED BY <2>1, <2>2 DEF PendingGone, SessionsOf, Live
  <1>6. ASSUME NEW a \in arriving, Arrive(a) PROVE PendingGone'
    <2>1. UNCHANGED <<api, sessions, renamed>>
          /\ (notif' = notif \/ notif' = [notif EXCEPT ![a[2]] = [state |-> "connected", handle |-> None]])
      BY <1>6 DEF Arrive, Announce
    <2>2. \A v \in Users : notif'[v].state = "pending" => notif[v].state = "pending"
      BY <1>1, <2>1
    <2> QED BY <2>1, <2>2 DEF PendingGone, SessionsOf, Live
  <1>7. ASSUME NEW s \in Sids, NEW u \in Users, Relabel(s, u) PROVE PendingGone'
    <2>1. /\ sessions' = [sessions EXCEPT ![s].user = u] /\ sessions[s] \in Session
          /\ UNCHANGED <<api, notif>>
          /\ renamed' = IF notif[u].state = "pending" THEN renamed \cup {u} ELSE renamed
      BY <1>1, <1>7 DEF Relabel, Live
    <2>2. \A v \in Users : v # u => SessionsOf(v)' \subseteq SessionsOf(v)
      BY <1>1, <2>1 DEF SessionsOf, Live, Session
    <2> QED BY <2>1, <2>2 DEF PendingGone
  <1>8. ASSUME NEW s \in Sids, KeyMove(s) PROVE PendingGone'
    <2>1. UNCHANGED <<api, notif, renamed>>
      BY <1>8 DEF KeyMove, RequestKey, StoreKey, AckKey
    <2>2. \A v \in Users : SessionsOf(v)' \subseteq SessionsOf(v)
      <3>1. CASE AckKey(s, TRUE)
        <4>1. sessions' = [sessions EXCEPT ![s].bk = TRUE] /\ sessions[s] \in Session
          BY <1>1, <3>1 DEF AckKey, Live
        <4> QED BY <1>1, <4>1, NoSession DEF SessionsOf, Live, Session
      <3>2. CASE UNCHANGED sessions
        BY <3>2 DEF SessionsOf, Live
      <3> QED BY <1>8, <3>1, <3>2 DEF KeyMove, RequestKey, StoreKey, AckKey
    <2> QED BY <2>1, <2>2, PendingKept
  <1>9. CASE PresenceForgotten
    BY <1>9 DEF PresenceForgotten, PendingGone
  <1>10. CASE CloseLicense \/ StatusHeard \/ UNCHANGED presenceVars
    <2>1. UNCHANGED <<api, notif, renamed, sessions>>
      BY <1>10 DEF CloseLicense, StatusHeard, presenceVars
    <2> QED BY <2>1, PendingKept DEF SessionsOf, Live
  <1>11. CASE api
    <2>1. api' = api
      BY PresenceMoves DEF Chosen, Connect, Leave, TimerFires, Arrive, CloseLicense, Relabel, KeyMove,
         RequestKey, StoreKey, AckKey, StatusHeard, PresenceForgotten, presenceVars
    <2> QED BY <1>11, <2>1 DEF PendingGone
  <1> QED
    BY <1>3, <1>4, <1>5, <1>6, <1>7, <1>8, <1>9, <1>10, <1>11, PresenceMoves DEF Chosen

(* The owner is told that a user went offline only when no session of the  *)
(* user is left, but for the two cases the property sets apart.            *)
THEOREM ReportedGone == Spec => OfflineMeansGone
  <1>1. Init => PendingGone
    BY DEF Init, PresenceInit, PendingGone
  <1>2. PendingGone /\ PresenceSound =>
          [\A t \in timers :
              (TimerFires(t) /\ SaysOffline(t) /\ ~api /\ t[1] \notin renamed)
                  => SessionsOf(t[1]) = {}]_presenceVars
    BY DEF PendingGone, PresenceSound, PresenceTypeOK, SaysOffline
  <1> QED BY <1>1, <1>2, PendingStep, AlwaysSound, ChosenOnce, PTL DEF Spec, OfflineMeansGone
=============================================================================
