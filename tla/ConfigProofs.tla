----------------------------- MODULE ConfigProofs -----------------------------
(***************************************************************************)
(* Proofs about the remote management of a claimer, in Connections: what   *)
(* is kept of the cache in the row, what "synced" means, and the claimers' *)
(* online flag, which the claimer's reports and its sessions both move.    *)
(***************************************************************************)
EXTENDS PresenceProofs

-----------------------------------------------------------------------------
(* The sessions of the claimers. *)

LEMMA JoinSids ==
    ASSUME PresenceSound, NEW s \in Sids, NEW u \in Users, NEW c \in Claimers \cup {None},
           Connect(s, u, c)
    PROVE  /\ \A d \in Claimers : s \notin SidsOf(d)
           /\ \/ /\ s \notin Live' /\ online' = online
                 /\ \A d \in Claimers : SidsOf(d)' = SidsOf(d)
              \/ /\ s \in Live'
                 /\ online' = IF c = None THEN online ELSE [online EXCEPT ![c] = TRUE]
                 /\ \A d \in Claimers : SidsOf(d)' = IF d = c THEN SidsOf(d) \cup {s} ELSE SidsOf(d)
  <1>1. sessions[s] = None /\ sessions \in [Sids -> Session \cup {None}]
    BY DEF Connect, PresenceSound, PresenceTypeOK
  <1>2. \A d \in Claimers : s \notin SidsOf(d)
    BY <1>1 DEF SidsOf, Live
  <1>3. CASE ~(open /\ CanAdmit(u))
    BY <1>1, <1>2, <1>3 DEF Connect, SidsOf, Live
  <1>4. CASE open /\ CanAdmit(u)
    <2>1. sessions' = [sessions EXCEPT ![s] = [user |-> u, claimer |-> c, bk |-> FALSE]]
      BY <1>4 DEF Connect
    <2>2. [user |-> u, claimer |-> c, bk |-> FALSE] # None
      <3>1. [user |-> u, claimer |-> c, bk |-> FALSE] \in Session
        BY DEF Session
      <3> QED BY <3>1, NoSession
    <2>3. \A d \in Claimers : SidsOf(d)' = IF d = c THEN SidsOf(d) \cup {s} ELSE SidsOf(d)
      BY <1>1, <2>1, <2>2 DEF SidsOf, Live
    <2>4. s \in Live'
      BY <1>1, <2>1, <2>2 DEF Live
    <2>5. online' = IF c = None THEN online ELSE [online EXCEPT ![c] = TRUE]
      BY <1>4 DEF Connect
    <2> QED BY <1>2, <2>3, <2>4, <2>5
  <1> QED BY <1>3, <1>4

LEMMA LeaveSids ==
    ASSUME PresenceSound, NEW s \in Sids, Leave(s)
    PROVE  \A d \in Claimers : SidsOf(d)' = SidsOf(d) \ {s}
  <1>1. sessions \in [Sids -> Session \cup {None}] /\ sessions' = [sessions EXCEPT ![s] = None]
    BY DEF Leave, PresenceSound, PresenceTypeOK
  <1> QED BY <1>1 DEF SidsOf, Live

(* Relabelling and the key change no session's claimer. *)
LEMMA StepSids ==
    ASSUME PresenceSound, exercise.users \subseteq Users, PresenceStep
    PROVE  online' = online /\ \A c \in Claimers : SidsOf(c)' = SidsOf(c)
  <1>1. sessions \in [Sids -> Session \cup {None}]
    BY DEF PresenceSound, PresenceTypeOK
  <1>2. online' = online
    BY DEF PresenceStep, TimerFires, CloseLicense, Relabel, RequestKey, StoreKey, AckKey
  <1>3. ASSUME NEW s \in Sids, NEW u \in Users, Relabel(s, u)
        PROVE  \A c \in Claimers : SidsOf(c)' = SidsOf(c)
    <2>1. sessions[s] \in Session /\ sessions' = [sessions EXCEPT ![s].user = u]
      BY <1>1, <1>3 DEF Relabel, Live
    <2>2. [sessions[s] EXCEPT !.user = u] \in Session
          /\ [sessions[s] EXCEPT !.user = u].claimer = sessions[s].claimer
      BY <2>1 DEF Session
    <2> QED BY <1>1, <2>1, <2>2, NoSession DEF SidsOf, Live
  <1>4. ASSUME NEW s \in Sids, AckKey(s, TRUE)
        PROVE  \A c \in Claimers : SidsOf(c)' = SidsOf(c)
    <2>1. sessions[s] \in Session /\ sessions' = [sessions EXCEPT ![s].bk = TRUE]
      BY <1>1, <1>4 DEF AckKey, Live
    <2>2. [sessions[s] EXCEPT !.bk = TRUE] \in Session
          /\ [sessions[s] EXCEPT !.bk = TRUE].claimer = sessions[s].claimer
      BY <2>1 DEF Session
    <2> QED BY <1>1, <2>1, <2>2, NoSession DEF SidsOf, Live
  <1>5. CASE UNCHANGED sessions
    BY <1>2, <1>5 DEF SidsOf, Live
  <1> QED BY <1>2, <1>3, <1>4, <1>5
       DEF PresenceStep, TimerFires, CloseLicense, RequestKey, StoreKey, AckKey

-----------------------------------------------------------------------------
(* A step of the whole, as the claimer's management sees it. *)
ConfigMove ==
    \/ \E s \in Sids \ Peers, v \in Value : ClaimerConnects(s, v) /\ Peers' = Peers \cup {s}
    \/ \E s \in Sids : ClaimerLeaves(s) /\ Peers' = Peers \ {s}
    \/ ConfigRestart /\ Peers' = {}
    \/ /\ Peers' = Peers
       /\ \/ \E a \in Admins :
                \/ PersistCommits(a) \/ PersistFails(a) \/ PushChange(a)
                \/ \E v \in Value : SetDesired(a, v)
          \/ \E s \in Sids :
                \/ OnStatus(s) \/ OnAck(s) \/ OnLimited(s)
                \/ \E ok \in BOOLEAN : ScriptApplies(s, ok)
                \/ \E v \in Value : ScriptChanges(s, v)
          \/ FlushStarts \/ FlushCommits \/ FlushFails
          \/ UNCHANGED configVars

LEMMA ConfigMoves == PresenceSound /\ Chosen /\ [Next]_vars => ConfigMove
  <1> SUFFICES ASSUME PresenceSound, Chosen, [Next]_vars PROVE ConfigMove
    OBVIOUS
  <1>1. /\ exercise.users \subseteq Users /\ exercise.claimers \subseteq Claimers \cup {None}
        /\ exercise.values \subseteq Value /\ exercise.admins \subseteq Admins
    BY ExercisesAssumption DEF Chosen
  <1>2. Claimer \in Claimers
    BY ConfigAssumption
  <1>3. ASSUME NEW s \in Sids, NEW u \in exercise.users, NEW c \in exercise.claimers, Join(s, u, c)
        PROVE  ConfigMove
    <2>1. Connect(s, u, c) /\ u \in Users /\ c \in Claimers \cup {None}
      BY <1>1, <1>3 DEF Join
    <2>2. s \notin Peers
      BY <1>2, <2>1, JoinSids DEF Peers
    <2>3. CASE c = Claimer /\ s \in Live'
      <3>1. PICK v \in Value : ClaimerConnects(s, v)
        BY <1>1, <1>3, <2>3 DEF Join
      <3>2. Peers' = Peers \cup {s}
        BY <1>2, <2>1, <2>3, JoinSids DEF Peers
      <3> QED BY <2>2, <3>1, <3>2 DEF ConfigMove
    <2>4. CASE ~(c = Claimer /\ s \in Live')
      <3>1. UNCHANGED configVars
        BY <1>3, <2>4 DEF Join
      <3>2. Peers' = Peers
        BY <1>2, <2>1, <2>4, JoinSids DEF Peers
      <3> QED BY <3>1, <3>2 DEF ConfigMove
    <2> QED BY <2>3, <2>4
  <1>4. ASSUME NEW s \in Sids, Leave(s), Parts(s) PROVE ConfigMove
    <2>1. Peers' = Peers \ {s}
      BY <1>2, <1>4, LeaveSids DEF Peers
    <2>2. CASE sessions[s].claimer = Claimer
      BY <1>4, <2>1, <2>2 DEF Parts, ConfigMove
    <2>3. CASE sessions[s].claimer # Claimer
      <3>1. UNCHANGED configVars
        BY <1>4, <2>3 DEF Parts
      <3>2. s \notin Peers
        BY <2>3 DEF Peers, SidsOf
      <3>3. Peers' = Peers
        BY <2>1, <3>2
      <3> QED BY <3>1, <3>3 DEF ConfigMove
    <2> QED BY <2>2, <2>3
  <1>5. CASE PresenceStep
    <2>1. Peers' = Peers
      BY <1>1, <1>2, <1>5, StepSids DEF Peers
    <2> QED BY <1>5, <2>1 DEF PresenceStep, ConfigMove
  <1>6. CASE Restart
    <2>1. Peers' = {}
      BY <1>6 DEF Restart, Peers, SidsOf, Live
    <2> QED BY <1>6, <2>1 DEF Restart, ConfigMove
  <1>7. CASE ConfigStep
    <2>1. Peers' = Peers
      BY <1>7 DEF ConfigStep, presenceVars, Peers, SidsOf, Live
    <2> QED BY <1>1, <1>7, <2>1 DEF ConfigStep, ConfigMove
  <1>8. CASE HearStatus
    <2>1. Peers' = Peers
      BY <1>8 DEF HearStatus, Peers, SidsOf, Live
    <2> QED BY <1>8, <2>1 DEF HearStatus, ConfigMove
  <1>9. CASE SlotStep \/ RelayStep \/ BroadcastStep \/ UNCHANGED vars
    <2>1. UNCHANGED <<sessions, configVars>>
      BY <1>9 DEF SlotStep, ArriveListed, Arrive, RelayStep, BroadcastStep, vars, presenceVars
    <2>2. Peers' = Peers
      BY <2>1 DEF Peers, SidsOf, Live
    <2> QED BY <2>1, <2>2 DEF ConfigMove
  <1> QED BY <1>3, <1>4, <1>5, <1>6, <1>7, <1>8, <1>9 DEF Next, Disconnect, PutOff, Evict

-----------------------------------------------------------------------------
(* Types, and that only a connected script has messages under way.         *)
ConfigSound ==
    /\ ConfigTypeOK
    /\ \A s \in Sids \ Peers : down[s] = <<>> /\ up[s] = <<>>
    /\ Peers # {} => cache # None
    /\ teller # None => teller \in Peers

(* While no two writes of the row ran together there is one writer at most,*)
(* and it writes what the cache holds unless the entry is dirty again.     *)
OneWriter ==
    ~overlap =>
        /\ flush = None \/ Persisting = {}
        /\ \A a, b \in Persisting : a = b
        /\ ~dirty => /\ flush # None => flush = cache
                     /\ \A a \in Persisting : changes[a].entry = cache

RowInv == ConfigSound /\ OneWriter /\ RowKept

LEMMA RowInitSafe == Init => RowInv
  <1> SUFFICES ASSUME Init PROVE RowInv
    OBVIOUS
  <1>1. ConfigInit(exercise.upsets) /\ exercise.upsets \in 0..MaxUpsets
    BY ExercisesAssumption DEF Init
  <1>2. NewEntry \in Entry /\ Ended("idle") \in Change
    BY DEF NewEntry, Entry, Value, States, Ended, Change
  <1>3. ConfigSound
    <2>1. changes \in [Admins -> Change] /\ <<>> \in Seq(Value) /\ <<>> \in Seq(Message)
      BY <1>1, <1>2 DEF ConfigInit
    <2>2. /\ runs \in [Sids -> Value] /\ down \in [Sids -> Seq(Value)] /\ up \in [Sids -> Seq(Message)]
          /\ \A s \in Sids : down[s] = <<>> /\ up[s] = <<>>
      BY <1>1, <2>1 DEF ConfigInit, Value
    <2>3. Peers = {}
      BY DEF Init, PresenceInit, Peers, SidsOf, Live
    <2> QED BY <1>1, <2>1, <2>2, <2>3 DEF ConfigInit, ConfigSound, ConfigTypeOK
  <1>4. Persisting = {} /\ flush = None /\ cache = None
    BY <1>1 DEF ConfigInit, Persisting, Ended
  <1> QED BY <1>3, <1>4 DEF RowInv, OneWriter, RowKept

(* The pieces a step may put together. *)
LEMMA Pieces ==
    /\ NewEntry \in Entry
    /\ \A e \in Entry : /\ Reconciled(e) \in Entry
                        /\ [e EXCEPT !.state = "push_failed"] \in Entry
                        /\ \A v \in Value : /\ [e EXCEPT !.observed = v] \in Entry
                                            /\ [e EXCEPT !.desired = v] \in Entry
    /\ \A v \in Value : Status(v) \in Message /\ \A ok \in BOOLEAN : Ack(v, ok) \in Message
    /\ \A pc \in {"idle", "persist", "push", "done"} : Ended(pc) \in Change
  <1>1. NewEntry \in Entry
    BY DEF NewEntry, Entry, Value, States
  <1>2. ASSUME NEW e \in Entry
        PROVE /\ Reconciled(e) \in Entry
              /\ [e EXCEPT !.state = "push_failed"] \in Entry
              /\ \A v \in Value : /\ [e EXCEPT !.observed = v] \in Entry
                                  /\ [e EXCEPT !.desired = v] \in Entry
    BY DEF Reconciled, Entry, States
  <1>3. ASSUME NEW v \in Value PROVE Status(v) \in Message
    BY DEF Status, Message
  <1>4. ASSUME NEW v \in Value, NEW ok \in BOOLEAN PROVE Ack(v, ok) \in Message
    BY DEF Ack, Message
  <1>5. ASSUME NEW pc \in {"idle", "persist", "push", "done"} PROVE Ended(pc) \in Change
    BY <1>1 DEF Ended, Change, Value
  <1> QED BY <1>1, <1>2, <1>3, <1>4, <1>5

(* The entry is dirty after the step: types and link are all there is to   *)
(* show, as long as the writers are the same or fewer.                     *)
LEMMA DirtyKeeps ==
    ASSUME RowInv, ConfigSound', dirty', overlap' = overlap,
           flush' \in {flush, None}, Persisting' \subseteq Persisting
    PROVE  RowInv'
  <1>1. OneWriter'
    BY DEF RowInv, OneWriter
  <1>2. RowKept'
    BY DEF RowKept
  <1> QED BY <1>1, <1>2 DEF RowInv

(* Nothing that the row or its writers hold changes.                       *)
LEMMA RowSame ==
    ASSUME RowInv, ConfigSound', UNCHANGED <<cache, row, dirty, flush, overlap>>,
           Persisting' = Persisting, \A a \in Persisting : changes'[a].entry = changes[a].entry
    PROVE  RowInv'
  <1>1. OneWriter'
    BY DEF RowInv, OneWriter
  <1>2. RowKept'
    BY DEF RowInv, RowKept, WriteUnderWay
  <1> QED BY <1>1, <1>2 DEF RowInv

(* What a message or a push finds. *)
LEMMA Queues ==
    ASSUME ConfigSound, NEW s \in Sids
    PROVE  /\ up[s] # <<>> => /\ s \in Peers /\ cache \in Entry
                              /\ Head(up[s]) \in Message /\ Tail(up[s]) \in Seq(Message)
                              /\ Head(up[s]).value \in Value
           /\ down[s] # <<>> => /\ s \in Peers /\ cache \in Entry
                                /\ Head(down[s]) \in Value /\ Tail(down[s]) \in Seq(Value)
  <1>1. up[s] \in Seq(Message) /\ down[s] \in Seq(Value) /\ cache \in Entry \cup {None}
    BY DEF ConfigSound, ConfigTypeOK
  <1>2. up[s] # <<>> \/ down[s] # <<>> => s \in Peers /\ cache \in Entry
    BY <1>1 DEF ConfigSound
  <1>3. up[s] # <<>> => Head(up[s]) \in Message /\ Tail(up[s]) \in Seq(Message)
    BY <1>1
  <1>4. down[s] # <<>> => Head(down[s]) \in Value /\ Tail(down[s]) \in Seq(Value)
    BY <1>1
  <1>5. \A m \in Message : m.value \in Value
    BY DEF Message
  <1> QED BY <1>2, <1>3, <1>4, <1>5

LEMMA EmittedTyped ==
    ASSUME ConfigSound, NEW v \in Value
    PROVE  /\ Emitted(v) \in [Sids -> Seq(Value)]
           /\ \A s \in Sids \ Peers : Emitted(v)[s] = <<>>
           /\ \A s \in Peers : Emitted(v)[s] # <<>>
  <1>1. down \in [Sids -> Seq(Value)] /\ Peers \subseteq Sids
    BY DEF ConfigSound, ConfigTypeOK, Peers, SidsOf, Live
  <1>2. ASSUME NEW q \in Seq(Value) PROVE Append(q, v) \in Seq(Value) /\ Append(q, v) # <<>>
    <2>1. Append(q, v) \in Seq(Value) /\ Len(Append(q, v)) = Len(q) + 1 /\ Len(q) \in Nat
      OBVIOUS
    <2> QED BY <2>1
  <1>3. \A s \in Sids : Emitted(v)[s] = IF s \in Peers THEN Append(down[s], v) ELSE down[s]
    BY DEF Emitted
  <1>4. Emitted(v) \in [Sids -> Seq(Value)]
    BY <1>1, <1>2 DEF Emitted
  <1> QED BY <1>1, <1>2, <1>3, <1>4 DEF ConfigSound

LEMMA RowStep == RowInv /\ PresenceSound /\ Chosen /\ [Next]_vars => RowInv'
  <1> SUFFICES ASSUME RowInv, PresenceSound, Chosen, [Next]_vars PROVE RowInv'
    OBVIOUS
  <1>1. ConfigSound /\ OneWriter /\ RowKept
    BY DEF RowInv
  <1>2. /\ cache \in Entry \cup {None} /\ row \in Entry \cup {None} /\ flush \in Entry \cup {None}
        /\ dirty \in BOOLEAN /\ changes \in [Admins -> Change]
        /\ runs \in [Sids -> Value]
        /\ down \in [Sids -> Seq(Value)] /\ up \in [Sids -> Seq(Message)]
        /\ teller \in Sids \cup {None} /\ overlap \in BOOLEAN /\ upsets \in 0..MaxUpsets
    BY <1>1 DEF ConfigSound, ConfigTypeOK
  <1>3. /\ \A s \in Sids \ Peers : down[s] = <<>> /\ up[s] = <<>>
        /\ Peers # {} => cache # None
        /\ teller # None => teller \in Peers
    BY <1>1 DEF ConfigSound
  <1>4. Upset => upsets' \in 0..MaxUpsets
    BY <1>2, ConfigAssumption DEF Upset
  <1>5. ASSUME Peers' = Peers, ConfigTypeOK', UNCHANGED <<down, up>>,
               teller' \in {teller, None}, cache' = None => cache = None
        PROVE  ConfigSound'
    BY <1>3, <1>5 DEF ConfigSound
  <1>6. ASSUME NEW s \in Sids \ Peers, NEW v \in Value, ClaimerConnects(s, v), Peers' = Peers \cup {s}
        PROVE  RowInv'
    <2>1. /\ runs' = [runs EXCEPT ![s] = v] /\ up' = [up EXCEPT ![s] = <<Status(v)>>] /\ dirty' = TRUE
          /\ UNCHANGED <<row, flush, changes, down, teller, overlap, upsets>>
          /\ cache' = IF cache = None THEN NewEntry ELSE cache
      BY <1>6 DEF ClaimerConnects
    <2>2. cache' \in Entry /\ cache' # None
      BY <1>2, <2>1, Pieces, NoEntry
    <2>3. <<Status(v)>> \in Seq(Message)
      BY Pieces
    <2>4. runs' \in [Sids -> Value] /\ up' \in [Sids -> Seq(Message)]
      BY <1>2, <2>1, <2>3
    <2>5. ConfigTypeOK'
      BY <1>2, <2>1, <2>2, <2>4 DEF ConfigTypeOK
    <2>6. \A x \in Sids \ Peers' : down'[x] = <<>> /\ up'[x] = <<>>
      BY <1>2, <1>3, <1>6, <2>1
    <2>7. ConfigSound'
      BY <1>3, <1>6, <2>1, <2>2, <2>5, <2>6 DEF ConfigSound
    <2> QED BY <2>1, <2>7, DirtyKeeps DEF Persisting
  <1>7. ASSUME NEW s \in Sids, ClaimerLeaves(s), Peers' = Peers \ {s} PROVE RowInv'
    <2>1. /\ runs' = [runs EXCEPT ![s] = None] /\ down' = [down EXCEPT ![s] = <<>>]
          /\ up' = [up EXCEPT ![s] = <<>>] /\ teller' = (IF teller = s THEN None ELSE teller)
          /\ dirty' = TRUE /\ UNCHANGED <<cache, row, flush, changes, overlap, upsets>>
      BY <1>7 DEF ClaimerLeaves
    <2>2. <<>> \in Seq(Value) /\ <<>> \in Seq(Message) /\ None \in Value
      BY DEF Value
    <2>3. /\ runs' \in [Sids -> Value] /\ down' \in [Sids -> Seq(Value)]
          /\ up' \in [Sids -> Seq(Message)] /\ teller' \in Sids \cup {None}
      BY <1>2, <2>1, <2>2
    <2>4. ConfigTypeOK'
      BY <1>2, <2>1, <2>3 DEF ConfigTypeOK
    <2>5. \A x \in Sids \ Peers' : down'[x] = <<>> /\ up'[x] = <<>>
      BY <1>2, <1>3, <1>7, <2>1
    <2>6. teller' # None => teller' \in Peers'
      BY <1>3, <1>7, <2>1
    <2>7. ConfigSound'
      BY <1>3, <1>7, <2>1, <2>4, <2>5, <2>6 DEF ConfigSound
    <2> QED BY <2>1, <2>7, DirtyKeeps DEF Persisting
  <1>8. ASSUME NEW s \in Sids, OnStatus(s), Peers' = Peers PROVE RowInv'
    <2> DEFINE e == [cache EXCEPT !.observed = Head(up[s]).value]
    <2>1. /\ up[s] # <<>> /\ up' = [up EXCEPT ![s] = Tail(@)] /\ cache' = Reconciled(e)
          /\ down' = (IF Differs(e) THEN Emitted(e.desired) ELSE down)
          /\ dirty' = TRUE /\ teller' = s /\ UNCHANGED <<row, flush, changes, runs, overlap, upsets>>
      BY <1>8 DEF OnStatus
    <2>2. /\ s \in Peers /\ e \in Entry /\ Tail(up[s]) \in Seq(Message)
      BY <1>1, <2>1, Queues, Pieces
    <2> HIDE DEF e
    <2>3. cache' \in Entry /\ cache' # None
      BY <2>1, <2>2, Pieces, NoEntry
    <2>4. e.desired \in Value
      BY <2>2 DEF Entry
    <2>5. down' \in [Sids -> Seq(Value)] /\ \A x \in Sids \ Peers : down'[x] = <<>>
      BY <1>1, <1>2, <1>3, <2>1, <2>4, EmittedTyped
    <2>6. up' \in [Sids -> Seq(Message)] /\ \A x \in Sids \ Peers : up'[x] = <<>>
      BY <1>2, <1>3, <2>1, <2>2
    <2>7. ConfigTypeOK'
      BY <1>2, <2>1, <2>3, <2>5, <2>6 DEF ConfigTypeOK
    <2>8. ConfigSound'
      BY <1>8, <2>1, <2>2, <2>3, <2>5, <2>6, <2>7 DEF ConfigSound
    <2> QED BY <2>1, <2>8, DirtyKeeps DEF Persisting
  <1>9. ASSUME NEW s \in Sids, OnAck(s), Peers' = Peers PROVE RowInv'
    <2>1. /\ up[s] # <<>> /\ up' = [up EXCEPT ![s] = Tail(@)]
          /\ dirty' = TRUE /\ UNCHANGED <<row, flush, changes, runs, down, overlap, upsets>>
          /\ \/ cache' = Reconciled([cache EXCEPT !.observed = Head(up[s]).value]) /\ teller' = s
             \/ cache' = [cache EXCEPT !.state = "push_failed"] /\ teller' = teller
      BY <1>9 DEF OnAck
    <2>2. /\ s \in Peers /\ cache \in Entry /\ Tail(up[s]) \in Seq(Message)
          /\ [cache EXCEPT !.observed = Head(up[s]).value] \in Entry
      BY <1>1, <2>1, Queues, Pieces
    <2>3. cache' \in Entry /\ cache' # None
      BY <2>1, <2>2, Pieces, NoEntry
    <2>4. teller' \in Sids \cup {None} /\ (teller' # None => teller' \in Peers)
      BY <1>2, <1>3, <2>1, <2>2
    <2>5. up' \in [Sids -> Seq(Message)] /\ \A x \in Sids \ Peers : up'[x] = <<>>
      BY <1>2, <1>3, <2>1, <2>2
    <2>6. ConfigTypeOK'
      BY <1>2, <2>1, <2>3, <2>4, <2>5 DEF ConfigTypeOK
    <2>7. ConfigSound'
      BY <1>3, <1>9, <2>1, <2>3, <2>4, <2>5, <2>6 DEF ConfigSound
    <2> QED BY <2>1, <2>7, DirtyKeeps DEF Persisting
  <1>10. ASSUME NEW s \in Sids, OnLimited(s), Peers' = Peers PROVE RowInv'
    <2>1. /\ up[s] # <<>> /\ up' = [up EXCEPT ![s] = Tail(@)] /\ upsets' \in 0..MaxUpsets
          /\ teller' = (IF teller = s THEN None ELSE teller)
          /\ UNCHANGED <<cache, row, dirty, flush, changes, runs, down, overlap>>
      BY <1>4, <1>10 DEF OnLimited
    <2>2. up' \in [Sids -> Seq(Message)] /\ \A x \in Sids \ Peers : up'[x] = <<>>
      BY <1>1, <1>2, <1>3, <2>1, Queues
    <2>3. ConfigTypeOK'
      BY <1>2, <2>1, <2>2 DEF ConfigTypeOK
    <2>4. ConfigSound'
      BY <1>3, <1>10, <2>1, <2>2, <2>3 DEF ConfigSound
    <2> QED BY <2>1, <2>4, RowSame DEF Persisting
  <1>11. ASSUME NEW a \in Admins, NEW v \in Value, SetDesired(a, v), Peers' = Peers PROVE RowInv'
    <2>1. cache \in Entry /\ cache' \in Entry /\ cache' # None
      BY <1>2, <1>11, Pieces, NoEntry DEF SetDesired
    <2>2. [pc |-> "persist", value |-> v, entry |-> cache'] \in Change
      BY <2>1 DEF Change
    <2>3. changes' = [changes EXCEPT ![a] = [pc |-> "persist", value |-> v, entry |-> cache']]
      BY <1>11 DEF SetDesired
    <2>4. ConfigSound'
      <3>1. changes' \in [Admins -> Change] /\ overlap' \in BOOLEAN /\ dirty' \in BOOLEAN
        BY <1>2, <1>11, <2>2, <2>3 DEF SetDesired, WriteUnderWay
      <3> QED BY <1>2, <1>3, <1>11, <2>1, <3>1 DEF SetDesired, ConfigSound, ConfigTypeOK
    <2>5. Persisting' = Persisting \cup {a} /\ changes'[a].entry = cache'
      BY <1>2, <2>3 DEF Persisting
    <2>6. RowKept'
      BY <2>5 DEF RowKept, WriteUnderWay
    <2>7. OneWriter'
      <3>1. ~overlap' => flush = None /\ Persisting = {}
        BY <1>11 DEF SetDesired, WriteUnderWay
      <3>2. flush' = flush
        BY <1>11 DEF SetDesired
      <3> QED BY <2>5, <3>1, <3>2 DEF OneWriter
    <2> QED BY <2>4, <2>6, <2>7 DEF RowInv
  <1>12. ASSUME NEW a \in Admins, PersistCommits(a), Peers' = Peers PROVE RowInv'
    <2>1. /\ a \in Persisting /\ row' = changes[a].entry
          /\ changes' = [changes EXCEPT ![a].pc = "push"]
          /\ UNCHANGED <<cache, dirty, flush, runs, down, up, teller, overlap, upsets>>
      BY <1>12 DEF PersistCommits
    <2>2. changes[a] \in Change /\ row' \in Entry /\ changes' \in [Admins -> Change]
      BY <1>2, <2>1 DEF Change
    <2>3. ConfigSound'
      BY <1>2, <1>3, <1>12, <2>1, <2>2 DEF ConfigSound, ConfigTypeOK
    <2>4. /\ Persisting' = Persisting \ {a}
          /\ \A b \in Persisting' : changes'[b] = changes[b]
      BY <1>2, <2>1 DEF Persisting, Change
    <2>5. OneWriter'
      BY <1>1, <2>1, <2>4 DEF OneWriter
    <2>6. RowKept'
      BY <1>1, <2>1 DEF OneWriter, RowKept
    <2> QED BY <2>3, <2>5, <2>6 DEF RowInv
  <1>13. ASSUME NEW a \in Admins, PersistFails(a), Peers' = Peers PROVE RowInv'
    <2>1. /\ changes' = [changes EXCEPT ![a].pc = "push"] /\ dirty' = TRUE
          /\ UNCHANGED <<cache, row, flush, runs, down, up, teller, overlap>>
      BY <1>13 DEF PersistFails
    <2>2. changes' \in [Admins -> Change] /\ Persisting' \subseteq Persisting
      BY <1>2, <2>1 DEF Change, Persisting
    <2>3. ConfigSound'
      BY <1>2, <1>3, <1>4, <1>13, <2>1, <2>2 DEF PersistFails, ConfigSound, ConfigTypeOK
    <2> QED BY <2>1, <2>2, <2>3, DirtyKeeps
  <1>14. ASSUME NEW a \in Admins, PushChange(a), Peers' = Peers PROVE RowInv'
    <2>1. /\ changes[a].pc = "push" /\ changes' = [changes EXCEPT ![a] = Ended("done")]
          /\ down' = Emitted(changes[a].value)
          /\ UNCHANGED <<cache, row, dirty, flush, runs, up, teller, overlap, upsets>>
      BY <1>14 DEF PushChange
    <2>2. Ended("done") \in Change /\ Ended("done").pc = "done" /\ changes[a].value \in Value
      BY <1>2, Pieces DEF Ended, Change
    <2>3. /\ changes' \in [Admins -> Change] /\ Persisting' = Persisting
          /\ \A b \in Persisting : changes'[b].entry = changes[b].entry
      BY <1>2, <2>1, <2>2 DEF Persisting
    <2>4. down' \in [Sids -> Seq(Value)] /\ \A x \in Sids \ Peers : down'[x] = <<>>
      BY <1>1, <2>1, <2>2, EmittedTyped
    <2>5. ConfigSound'
      BY <1>2, <1>3, <1>14, <2>1, <2>3, <2>4 DEF ConfigSound, ConfigTypeOK
    <2> QED BY <2>1, <2>3, <2>5, RowSame
  <1>15. CASE FlushStarts /\ Peers' = Peers
    <2>1. /\ flush = None /\ cache # None /\ flush' = cache /\ dirty' = FALSE
          /\ overlap' = WriteUnderWay
          /\ UNCHANGED <<cache, row, changes, runs, down, up, teller, upsets>>
      BY <1>15 DEF FlushStarts
    <2>2. ConfigSound'
      <3>1. overlap' \in BOOLEAN /\ dirty' \in BOOLEAN
        BY <2>1 DEF WriteUnderWay
      <3> QED BY <1>2, <1>3, <1>15, <2>1, <3>1 DEF ConfigSound, ConfigTypeOK
    <2>3. OneWriter'
      <3>1. ~overlap' => Persisting = {}
        BY <2>1 DEF WriteUnderWay
      <3>2. Persisting' = Persisting
        BY <2>1 DEF Persisting
      <3> QED BY <2>1, <3>1, <3>2 DEF OneWriter
    <2>4. RowKept'
      BY <2>1 DEF RowKept, WriteUnderWay
    <2> QED BY <2>2, <2>3, <2>4 DEF RowInv
  <1>16. CASE FlushCommits /\ Peers' = Peers
    <2>1. /\ flush # None /\ flush' = None /\ row' = flush
          /\ UNCHANGED <<cache, dirty, changes, runs, down, up, teller, overlap, upsets>>
      BY <1>16 DEF FlushCommits
    <2>2. ConfigSound'
      BY <1>2, <1>3, <1>16, <2>1 DEF ConfigSound, ConfigTypeOK
    <2>3. OneWriter' /\ RowKept'
      BY <1>1, <2>1 DEF OneWriter, RowKept, Persisting
    <2> QED BY <2>2, <2>3 DEF RowInv
  <1>17. CASE FlushFails /\ Peers' = Peers
    <2>1. ConfigSound'
      BY <1>2, <1>3, <1>4, <1>17 DEF FlushFails, ConfigSound, ConfigTypeOK
    <2> QED BY <1>17, <2>1, DirtyKeeps DEF FlushFails, Persisting
  <1>18. ASSUME NEW s \in Sids, NEW ok \in BOOLEAN, ScriptApplies(s, ok), Peers' = Peers PROVE RowInv'
    <2> DEFINE v == Head(down[s])
               m == Ack(v, ok)
    <2>1. /\ down[s] # <<>> /\ down' = [down EXCEPT ![s] = Tail(@)]
          /\ runs' = (IF ok THEN [runs EXCEPT ![s] = v] ELSE runs)
          /\ up' = [up EXCEPT ![s] = Append(@, m)]
          /\ UNCHANGED <<cache, row, dirty, flush, changes, teller, overlap, upsets>>
      BY <1>18 DEF ScriptApplies
    <2>2. s \in Peers /\ v \in Value /\ Tail(down[s]) \in Seq(Value) /\ m \in Message
      BY <1>1, <2>1, Queues, Pieces
    <2> HIDE DEF v, m
    <2>3. Append(up[s], m) \in Seq(Message)
      BY <1>2, <2>2
    <2>4. /\ runs' \in [Sids -> Value] /\ down' \in [Sids -> Seq(Value)] /\ up' \in [Sids -> Seq(Message)]
          /\ \A x \in Sids \ Peers : down'[x] = <<>> /\ up'[x] = <<>>
      BY <1>2, <1>3, <2>1, <2>2, <2>3
    <2>5. ConfigTypeOK'
      BY <1>2, <2>1, <2>4 DEF ConfigTypeOK
    <2>6. ConfigSound'
      BY <1>3, <1>18, <2>1, <2>4, <2>5 DEF ConfigSound
    <2> QED BY <2>1, <2>6, RowSame DEF Persisting
  <1>19. ASSUME NEW s \in Sids, NEW v \in Value, ScriptChanges(s, v), Peers' = Peers PROVE RowInv'
    <2>1. /\ s \in Peers /\ upsets' \in 0..MaxUpsets
          /\ runs' = [runs EXCEPT ![s] = v] /\ up' = [up EXCEPT ![s] = Append(@, Status(v))]
          /\ UNCHANGED <<cache, row, dirty, flush, changes, down, teller, overlap>>
      BY <1>4, <1>19 DEF ScriptChanges
    <2>2. Append(up[s], Status(v)) \in Seq(Message)
      BY <1>2, Pieces
    <2>3. /\ runs' \in [Sids -> Value] /\ up' \in [Sids -> Seq(Message)]
          /\ \A x \in Sids \ Peers : up'[x] = <<>>
      BY <1>2, <1>3, <2>1, <2>2
    <2>4. ConfigTypeOK'
      BY <1>2, <2>1, <2>3 DEF ConfigTypeOK
    <2>5. ConfigSound'
      BY <1>3, <1>19, <2>1, <2>3, <2>4 DEF ConfigSound
    <2> QED BY <2>1, <2>5, RowSame DEF Persisting
  <1>20. CASE ConfigRestart /\ Peers' = {}
    <2>1. /\ cache' = row /\ dirty' = FALSE /\ flush' = None /\ row' = row
          /\ changes' = [a \in Admins |-> Ended(IF changes[a].pc = "idle" THEN "idle" ELSE "done")]
          /\ runs' = [s \in Sids |-> None]
          /\ down' = [s \in Sids |-> <<>>] /\ up' = [s \in Sids |-> <<>>]
          /\ teller' = None /\ overlap' = FALSE /\ upsets' \in 0..MaxUpsets
      BY <1>4, <1>20 DEF ConfigRestart
    <2>2. changes' \in [Admins -> Change] /\ Persisting' = {}
      <3>1. ASSUME NEW a \in Admins PROVE changes'[a] \in Change /\ changes'[a].pc # "persist"
        <4>1. changes'[a] \in {Ended("idle"), Ended("done")}
          BY <2>1
        <4>2. Ended("idle").pc = "idle" /\ Ended("done").pc = "done"
          BY DEF Ended
        <4> QED BY <4>1, <4>2, Pieces
      <3>2. changes' = [a \in Admins |-> changes'[a]]
        BY <2>1
      <3> QED BY <3>1, <3>2 DEF Persisting
    <2>3. ConfigSound'
      <3>1. <<>> \in Seq(Value) /\ <<>> \in Seq(Message) /\ None \in Value
        BY DEF Value
      <3>2. runs' \in [Sids -> Value] /\ down' \in [Sids -> Seq(Value)] /\ up' \in [Sids -> Seq(Message)]
        BY <2>1, <3>1
      <3>3. ConfigTypeOK'
        BY <1>2, <2>1, <2>2, <3>2 DEF ConfigTypeOK
      <3> QED BY <1>20, <2>1, <3>3 DEF ConfigSound
    <2>4. OneWriter' /\ RowKept'
      BY <2>1, <2>2 DEF OneWriter, RowKept
    <2> QED BY <2>3, <2>4 DEF RowInv
  <1>21. CASE UNCHANGED configVars /\ Peers' = Peers
    <2>1. ConfigSound'
      BY <1>2, <1>3, <1>21 DEF configVars, ConfigSound, ConfigTypeOK
    <2> QED BY <1>21, <2>1, RowSame DEF configVars, Persisting
  <1> QED
    BY <1>6, <1>7, <1>8, <1>9, <1>10, <1>11, <1>12, <1>13, <1>14, <1>15, <1>16, <1>17, <1>18, <1>19,
       <1>20, <1>21, ConfigMoves DEF ConfigMove

LEMMA RowAlways == Spec => []RowInv
  BY RowInitSafe, RowStep, AlwaysSound, ChosenOnce, PTL DEF Spec

(* What the cache holds is in the row, or will be written, or is being     *)
(* written, whatever writes of the row fail or run beside a change.        *)
THEOREM RowNeverForgotten == Spec => []RowKept
  <1>1. RowInv => RowKept
    BY DEF RowInv
  <1> QED BY <1>1, RowAlways, PTL

-----------------------------------------------------------------------------
(* A claimer shows online exactly while it has a live session, though old  *)
(* sessions end late and its reports set the flag too.                     *)
THEOREM OnlineExactly == Spec => []ClaimerOnline
  <1>1. Init => ClaimerOnline
    BY DEF Init, PresenceInit, ClaimerOnline, SidsOf, Live
  <1>2. ASSUME ClaimerOnline, PresenceSound, RowInv, Chosen, [Next]_vars PROVE ClaimerOnline'
    <2>1. exercise.users \subseteq Users /\ exercise.claimers \subseteq Claimers \cup {None}
      BY <1>2, ExercisesAssumption DEF Chosen
    <2>2. online \in [Claimers -> BOOLEAN] /\ \A c \in Claimers : online[c] = (SidsOf(c) # {})
      BY <1>2 DEF PresenceSound, PresenceTypeOK, ClaimerOnline
    <2>3. ASSUME NEW s \in Sids, NEW u \in exercise.users, NEW c \in exercise.claimers, Join(s, u, c)
          PROVE  ClaimerOnline'
      <3>1. Connect(s, u, c) /\ u \in Users /\ c \in Claimers \cup {None}
        BY <2>1, <2>3 DEF Join
      <3>2. CASE online' = online /\ \A d \in Claimers : SidsOf(d)' = SidsOf(d)
        BY <2>2, <3>2 DEF ClaimerOnline
      <3>3. CASE /\ online' = IF c = None THEN online ELSE [online EXCEPT ![c] = TRUE]
                 /\ \A d \in Claimers : SidsOf(d)' = IF d = c THEN SidsOf(d) \cup {s} ELSE SidsOf(d)
        <4>1. ASSUME NEW d \in Claimers PROVE online'[d] = (SidsOf(d)' # {})
          <5>1. CASE d = c
            <6>1. c # None /\ SidsOf(d)' # {} /\ online'[d] = TRUE
              BY <2>2, <3>3, <5>1, PresenceAssumption
            <6> QED BY <6>1
          <5>2. CASE d # c
            <6>1. online'[d] = online[d] /\ SidsOf(d)' = SidsOf(d)
              BY <2>2, <3>3, <5>2
            <6> QED BY <2>2, <6>1
          <5> QED BY <5>1, <5>2
        <4> QED BY <4>1 DEF ClaimerOnline
      <3> QED BY <1>2, <3>1, <3>2, <3>3, JoinSids
    <2>4. ASSUME NEW s \in Sids, Leave(s) PROVE ClaimerOnline'
      <3>1. \A d \in Claimers : SidsOf(d)' = SidsOf(d) \ {s}
        BY <1>2, <2>4, LeaveSids
      <3>2. ASSUME NEW d \in Claimers PROVE online'[d] = (SidsOf(d)' # {})
        <4>1. CASE d = sessions[s].claimer
          <5>1. online' = [online EXCEPT ![d] = OnlineAfter(d, s)]
            BY <2>4, <4>1, PresenceAssumption DEF Leave
          <5>2. online'[d] = OnlineAfter(d, s)
            BY <2>2, <5>1
          <5> QED BY <3>1, <5>2 DEF OnlineAfter
        <4>2. CASE d # sessions[s].claimer
          <5>1. s \notin SidsOf(d)
            BY <4>2 DEF SidsOf
          <5>2. SidsOf(d)' = SidsOf(d)
            BY <3>1, <5>1
          <5>3. online'[d] = online[d]
            BY <2>2, <2>4, <4>2 DEF Leave
          <5> QED BY <2>2, <5>2, <5>3
        <4> QED BY <4>1, <4>2
      <3> QED BY <3>2 DEF ClaimerOnline
    <2>5. CASE PresenceStep
      BY <1>2, <2>1, <2>2, <2>5, StepSids DEF ClaimerOnline
    <2>6. CASE HearStatus
      <3>1. PICK s \in Sids : OnStatus(s)
        BY <2>6 DEF HearStatus
      <3>2. sessions' = sessions /\ online' = [online EXCEPT ![Claimer] = TRUE]
        BY <2>6 DEF HearStatus
      <3>3. s \in SidsOf(Claimer)
        BY <1>2, <3>1, Queues DEF OnStatus, RowInv, Peers
      <3>4. online[Claimer] = TRUE
        BY <2>2, <3>3, ConfigAssumption
      <3>5. online' = online
        BY <2>2, <3>2, <3>4, ConfigAssumption
      <3> QED BY <2>2, <3>2, <3>5 DEF ClaimerOnline, SidsOf, Live
    <2>7. CASE Restart
      BY <2>7 DEF Restart, ClaimerOnline, SidsOf, Live
    <2>8. CASE ConfigStep \/ SlotStep \/ RelayStep \/ BroadcastStep \/ UNCHANGED vars
      <3>1. UNCHANGED <<sessions, online>>
        BY <2>8 DEF ConfigStep, SlotStep, ArriveListed, Arrive, RelayStep, BroadcastStep, vars, presenceVars
      <3> QED BY <2>2, <3>1 DEF ClaimerOnline, SidsOf, Live
    <2> QED BY <1>2, <2>3, <2>4, <2>5, <2>6, <2>7, <2>8 DEF Next, Disconnect, PutOff, Evict
  <1> QED BY <1>1, <1>2, AlwaysSound, RowAlways, ChosenOnce, PTL DEF Spec

-----------------------------------------------------------------------------
(* What "synced" means. *)

(* A message of the script that tells what it runs: a report, or an        *)
(* acknowledgement of a push that was applied. The last one tells the truth*)
LastTells(q, v) ==
    \A i \in 1..Len(q) : q[i].ok /\ (\A k \in (i + 1)..Len(q) : ~q[k].ok) => q[i].value = v
TellsNothing(q) == \A k \in 1..Len(q) : ~q[k].ok

Unhurried == \A a \in Admins : changes[a].pc \in {"idle", "done"}

(* The last word of every script is the truth, and once the session that   *)
(* told what is observed has nothing more to tell, it is observed; when    *)
(* nothing is under way to it either, "synced" means that nothing differs. *)
Told ==
    teller # None =>
        /\ TellsNothing(up[teller]) => cache.observed = runs[teller]
        /\ up[teller] = <<>> /\ down[teller] = <<>> /\ Unhurried /\ cache.state = "synced"
              => ~Differs(cache)

SyncInv == (\A s \in Peers : LastTells(up[s], runs[s])) /\ Told

LEMMA TailTells ==
    ASSUME NEW q \in Seq(Message), q # <<>>, NEW v, LastTells(q, v)
    PROVE  /\ LastTells(Tail(q), v)
           /\ TellsNothing(Tail(q)) /\ Head(q).ok => Head(q).value = v
           /\ TellsNothing(Tail(q)) /\ ~Head(q).ok => TellsNothing(q)
  <1>1. /\ Len(q) \in Nat /\ Len(q) > 0 /\ Len(Tail(q)) = Len(q) - 1 /\ Head(q) = q[1]
        /\ \A i \in 1..Len(Tail(q)) : Tail(q)[i] = q[i + 1]
    OBVIOUS
  <1>2. LastTells(Tail(q), v)
    <2> SUFFICES ASSUME NEW i \in 1..Len(Tail(q)), Tail(q)[i].ok,
                        \A k \in (i + 1)..Len(Tail(q)) : ~Tail(q)[k].ok
                 PROVE  Tail(q)[i].value = v
      BY DEF LastTells
    <2>1. i + 1 \in 1..Len(q) /\ q[i + 1].ok
      BY <1>1
    <2>2. ASSUME NEW k \in ((i + 1) + 1)..Len(q) PROVE ~q[k].ok
      <3>1. k - 1 \in (i + 1)..Len(Tail(q)) /\ Tail(q)[k - 1] = q[k]
        BY <1>1
      <3> QED BY <3>1
    <2>3. q[i + 1].value = v
      BY <2>1, <2>2 DEF LastTells
    <2> QED BY <1>1, <2>3
  <1>3. ASSUME TellsNothing(Tail(q)), NEW k \in 2..Len(q) PROVE ~q[k].ok
    <2>1. k - 1 \in 1..Len(Tail(q)) /\ Tail(q)[k - 1] = q[k]
      BY <1>1
    <2> QED BY <1>3, <2>1 DEF TellsNothing
  <1>4. TellsNothing(Tail(q)) /\ Head(q).ok => Head(q).value = v
    BY <1>1, <1>3 DEF LastTells
  <1>5. TellsNothing(Tail(q)) /\ ~Head(q).ok => TellsNothing(q)
    <2>1. \A k \in 1..Len(q) : k = 1 \/ k \in 2..Len(q)
      BY <1>1
    <2> QED BY <1>1, <1>3, <2>1 DEF TellsNothing
  <1> QED BY <1>2, <1>4, <1>5

LEMMA AppendTells ==
    ASSUME NEW q \in Seq(Message), NEW m \in Message, NEW v
    PROVE  /\ m.ok => LastTells(Append(q, m), m.value) /\ ~TellsNothing(Append(q, m))
           /\ ~m.ok /\ LastTells(q, v) => LastTells(Append(q, m), v)
           /\ TellsNothing(Append(q, m)) => TellsNothing(q)
  <1> DEFINE r == Append(q, m)
  <1>1. /\ Len(q) \in Nat /\ Len(r) = Len(q) + 1 /\ r[Len(r)] = m
        /\ \A i \in 1..Len(q) : r[i] = q[i]
    OBVIOUS
  <1> HIDE DEF r
  <1>2. ASSUME m.ok PROVE LastTells(r, m.value) /\ ~TellsNothing(r)
    <2>1. Len(r) \in 1..Len(r) /\ r[Len(r)].ok
      BY <1>1, <1>2
    <2>2. ASSUME NEW i \in 1..Len(r), \A k \in (i + 1)..Len(r) : ~r[k].ok PROVE i = Len(r)
      BY <1>1, <2>1, <2>2
    <2> QED BY <1>1, <2>1, <2>2 DEF LastTells, TellsNothing
  <1>3. ASSUME ~m.ok, LastTells(q, v) PROVE LastTells(r, v)
    <2> SUFFICES ASSUME NEW i \in 1..Len(r), r[i].ok, \A k \in (i + 1)..Len(r) : ~r[k].ok
                 PROVE  r[i].value = v
      BY DEF LastTells
    <2>1. i # Len(r)
      BY <1>1, <1>3
    <2>2. i \in 1..Len(q) /\ \A k \in (i + 1)..Len(q) : k \in (i + 1)..Len(r) /\ r[k] = q[k]
      BY <1>1, <2>1
    <2>3. q[i].ok /\ \A k \in (i + 1)..Len(q) : ~q[k].ok
      BY <1>1, <2>2
    <2> QED BY <1>1, <1>3, <2>2, <2>3 DEF LastTells
  <1>4. TellsNothing(r) => TellsNothing(q)
    BY <1>1 DEF TellsNothing
  <1> QED BY <1>2, <1>3, <1>4 DEF r

(* Reconciling makes "synced" mean it. *)
LEMMA ReconciledMeans ==
    ASSUME NEW e \in Entry
    PROVE  /\ Reconciled(e).state = "synced" => ~Differs(Reconciled(e))
           /\ Reconciled(e).observed = e.observed
  BY DEF Reconciled, Differs, Entry, States

LEMMA SyncStep == SyncInv /\ RowInv /\ PresenceSound /\ Chosen /\ [Next]_vars => SyncInv'
  <1> SUFFICES ASSUME SyncInv, RowInv, PresenceSound, Chosen, [Next]_vars PROVE SyncInv'
    OBVIOUS
  <1>1. /\ changes \in [Admins -> Change] /\ runs \in [Sids -> Value]
        /\ down \in [Sids -> Seq(Value)] /\ up \in [Sids -> Seq(Message)] /\ cache \in Entry \cup {None}
        /\ teller \in Sids \cup {None} /\ Peers \subseteq Sids /\ ConfigSound
        /\ teller # None => teller \in Peers /\ cache \in Entry
    BY DEF RowInv, ConfigSound, ConfigTypeOK, Peers, SidsOf, Live
  <1>2. Told /\ \A s \in Peers : LastTells(up[s], runs[s])
    BY DEF SyncInv
  <1>3. ASSUME Peers' = Peers, UNCHANGED <<cache, runs, down, up, teller>>, Unhurried' => Unhurried
        PROVE  SyncInv'
    <2>1. Told'
      BY <1>2, <1>3 DEF Told
    <2> QED BY <1>2, <1>3, <2>1 DEF SyncInv
  <1>4. ASSUME NEW s \in Sids \ Peers, NEW v \in Value, ClaimerConnects(s, v), Peers' = Peers \cup {s}
        PROVE  SyncInv'
    <2>1. /\ runs' = [runs EXCEPT ![s] = v] /\ up' = [up EXCEPT ![s] = <<Status(v)>>]
          /\ UNCHANGED <<changes, down, teller>> /\ (cache # None => cache' = cache)
      BY <1>4 DEF ClaimerConnects
    <2>2. Status(v).ok /\ Status(v).value = v
      BY DEF Status
    <2>3. LastTells(<<Status(v)>>, v)
      BY <2>2 DEF LastTells
    <2>4. \A x \in Sids : x # s => up'[x] = up[x] /\ runs'[x] = runs[x]
      BY <1>1, <2>1
    <2>5. up'[s] = <<Status(v)>> /\ runs'[s] = v
      BY <1>1, <2>1
    <2>6. \A x \in Peers' : LastTells(up'[x], runs'[x])
      BY <1>1, <1>2, <1>4, <2>3, <2>4, <2>5
    <2>7. Told'
      <3>1. teller # None => teller # s /\ teller \in Sids /\ cache' = cache
        BY <1>1, <1>4, <2>1, NoEntry
      <3> QED BY <1>2, <2>1, <2>4, <3>1 DEF Told, Unhurried
    <2> QED BY <2>6, <2>7 DEF SyncInv
  <1>5. ASSUME NEW s \in Sids, ClaimerLeaves(s), Peers' = Peers \ {s} PROVE SyncInv'
    <2>1. /\ teller' = (IF teller = s THEN None ELSE teller) /\ UNCHANGED <<cache, changes>>
          /\ \A x \in Sids : x # s => up'[x] = up[x] /\ runs'[x] = runs[x] /\ down'[x] = down[x]
      BY <1>1, <1>5 DEF ClaimerLeaves
    <2>2. \A x \in Peers' : LastTells(up'[x], runs'[x])
      BY <1>1, <1>2, <1>5, <2>1
    <2>3. Told'
      BY <1>1, <1>2, <2>1 DEF Told, Unhurried
    <2> QED BY <2>2, <2>3 DEF SyncInv
  <1>6. ASSUME NEW s \in Sids, up[s] # <<>>
        PROVE  /\ s \in Peers /\ cache \in Entry /\ Head(up[s]) \in Message /\ Head(up[s]).value \in Value
               /\ LastTells(Tail(up[s]), runs[s])
               /\ TellsNothing(Tail(up[s])) /\ Head(up[s]).ok => Head(up[s]).value = runs[s]
               /\ TellsNothing(Tail(up[s])) /\ ~Head(up[s]).ok => TellsNothing(up[s])
    <2>1. /\ s \in Peers /\ cache \in Entry /\ Head(up[s]) \in Message /\ Head(up[s]).value \in Value
      BY <1>1, <1>6, Queues
    <2>2. up[s] \in Seq(Message) /\ LastTells(up[s], runs[s])
      BY <1>1, <1>2, <2>1
    <2> QED BY <1>6, <2>1, <2>2, TailTells
  <1>7. ASSUME NEW s \in Sids, up[s] # <<>>, up' = [up EXCEPT ![s] = Tail(@)], runs' = runs, Peers' = Peers
        PROVE  /\ \A x \in Peers' : LastTells(up'[x], runs'[x])
               /\ up'[s] = Tail(up[s]) /\ \A x \in Sids : x # s => up'[x] = up[x]
    <2>1. up'[s] = Tail(up[s]) /\ \A x \in Sids : x # s => up'[x] = up[x]
      BY <1>1, <1>7
    <2> QED BY <1>1, <1>2, <1>6, <1>7, <2>1
  <1>8. ASSUME NEW s \in Sids, OnStatus(s), Peers' = Peers PROVE SyncInv'
    <2> DEFINE e == [cache EXCEPT !.observed = Head(up[s]).value]
    <2>1. /\ up[s] # <<>> /\ Head(up[s]).kind = "status" /\ up' = [up EXCEPT ![s] = Tail(@)]
          /\ cache' = Reconciled(e) /\ teller' = s /\ runs' = runs
      BY <1>8 DEF OnStatus
    <2>2. e \in Entry /\ e.observed = Head(up[s]).value
      BY <1>6, <2>1 DEF Entry
    <2>3. Head(up[s]).ok
      BY <1>6, <2>1 DEF Message
    <2> HIDE DEF e
    <2>4. cache'.observed = Head(up[s]).value /\ (cache'.state = "synced" => ~Differs(cache'))
      BY <2>1, <2>2, ReconciledMeans
    <2>5. up'[s] = Tail(up[s]) /\ \A x \in Peers' : LastTells(up'[x], runs'[x])
      BY <1>7, <1>8, <2>1
    <2>6. Told'
      BY <1>6, <2>1, <2>3, <2>4, <2>5 DEF Told, Differs
    <2> QED BY <2>5, <2>6 DEF SyncInv
  <1>9. ASSUME NEW s \in Sids, OnAck(s), Peers' = Peers PROVE SyncInv'
    <2>1. /\ up[s] # <<>> /\ up' = [up EXCEPT ![s] = Tail(@)] /\ UNCHANGED <<changes, runs, down>>
      BY <1>9 DEF OnAck
    <2>2. /\ up'[s] = Tail(up[s]) /\ \A x \in Sids : x # s => up'[x] = up[x]
          /\ \A x \in Peers' : LastTells(up'[x], runs'[x])
      BY <1>7, <1>9, <2>1
    <2>3. CASE Head(up[s]).ok
      <3> DEFINE e == [cache EXCEPT !.observed = Head(up[s]).value]
      <3>1. cache' = Reconciled(e) /\ teller' = s
        BY <1>9, <2>3 DEF OnAck
      <3>2. e \in Entry /\ e.observed = Head(up[s]).value
        BY <1>6, <2>1 DEF Entry
      <3> HIDE DEF e
      <3>3. cache'.observed = Head(up[s]).value /\ (cache'.state = "synced" => ~Differs(cache'))
        BY <3>1, <3>2, ReconciledMeans
      <3>4. Told'
        BY <1>6, <2>1, <2>2, <2>3, <3>1, <3>3 DEF Told, Differs
      <3> QED BY <2>2, <3>4 DEF SyncInv
    <2>4. CASE ~Head(up[s]).ok
      <3>1. cache' = [cache EXCEPT !.state = "push_failed"] /\ teller' = teller
        BY <1>9, <2>4 DEF OnAck
      <3>2. cache'.state # "synced" /\ cache'.observed = cache.observed
        BY <1>6, <2>1, <3>1 DEF Entry
      <3>3. teller # None /\ TellsNothing(up'[teller]) => TellsNothing(up[teller])
        BY <1>1, <1>6, <2>1, <2>2, <2>4
      <3>4. Told'
        BY <1>2, <2>1, <3>1, <3>2, <3>3 DEF Told
      <3> QED BY <2>2, <3>4 DEF SyncInv
    <2> QED BY <2>3, <2>4
  <1>10. ASSUME NEW s \in Sids, OnLimited(s), Peers' = Peers PROVE SyncInv'
    <2>1. /\ up[s] # <<>> /\ up' = [up EXCEPT ![s] = Tail(@)] /\ UNCHANGED <<cache, changes, runs, down>>
          /\ teller' = IF teller = s THEN None ELSE teller
      BY <1>10 DEF OnLimited
    <2>2. /\ \A x \in Sids : x # s => up'[x] = up[x]
          /\ \A x \in Peers' : LastTells(up'[x], runs'[x])
      BY <1>7, <1>10, <2>1
    <2>3. Told'
      BY <1>1, <1>2, <2>1, <2>2 DEF Told, Unhurried
    <2> QED BY <2>2, <2>3 DEF SyncInv
  <1>11. ASSUME NEW a \in Admins, NEW v \in Value, SetDesired(a, v), Peers' = Peers PROVE SyncInv'
    <2>1. /\ changes' = [changes EXCEPT ![a] = [pc |-> "persist", value |-> v, entry |-> cache']]
          /\ cache' = [cache EXCEPT !.desired = v] /\ cache \in Entry
          /\ UNCHANGED <<runs, down, up, teller>>
      BY <1>1, <1>11 DEF SetDesired
    <2>2. ~Unhurried'
      <3>1. changes'[a].pc = "persist"
        BY <1>1, <2>1
      <3> QED BY <3>1 DEF Unhurried
    <2>3. cache'.observed = cache.observed
      BY <2>1 DEF Entry
    <2>4. Told'
      BY <1>2, <2>1, <2>2, <2>3 DEF Told
    <2> QED BY <1>2, <1>11, <2>1, <2>4 DEF SyncInv
  <1>12. ASSUME NEW a \in Admins, PersistCommits(a) \/ PersistFails(a), Peers' = Peers PROVE SyncInv'
    <2>1. /\ changes' = [changes EXCEPT ![a].pc = "push"]
          /\ UNCHANGED <<cache, runs, down, up, teller>>
      BY <1>12 DEF PersistCommits, PersistFails
    <2>2. ~Unhurried'
      <3>1. changes'[a].pc = "push"
        BY <1>1, <2>1 DEF Change
      <3> QED BY <3>1 DEF Unhurried
    <2> QED BY <1>3, <1>12, <2>1, <2>2
  <1>13. ASSUME NEW a \in Admins, PushChange(a), Peers' = Peers PROVE SyncInv'
    <2>1. UNCHANGED <<cache, runs, up, teller>> /\ down' = Emitted(changes[a].value)
      BY <1>13 DEF PushChange
    <2>2. changes[a].value \in Value
      BY <1>1 DEF Change
    <2>3. \A s \in Peers : down'[s] # <<>>
      BY <1>1, <2>1, <2>2, EmittedTyped
    <2>4. Told'
      BY <1>1, <1>2, <2>1, <2>3 DEF Told
    <2> QED BY <1>2, <1>13, <2>1, <2>4 DEF SyncInv
  <1>14. CASE (FlushStarts \/ FlushCommits \/ FlushFails \/ UNCHANGED configVars) /\ Peers' = Peers
    BY <1>3, <1>14 DEF FlushStarts, FlushCommits, FlushFails, configVars, Unhurried
  <1>15. ASSUME NEW s \in Peers, NEW m \in Message, up' = [up EXCEPT ![s] = Append(@, m)], Peers' = Peers,
                m.ok \/ runs' = runs, runs'[s] = IF m.ok THEN m.value ELSE runs[s],
                \A x \in Sids : x # s => runs'[x] = runs[x] /\ down'[x] = down[x],
                UNCHANGED <<cache, changes, teller>>
         PROVE  SyncInv'
    <2>1. s \in Sids /\ up[s] \in Seq(Message) /\ LastTells(up[s], runs[s])
      BY <1>1, <1>2
    <2>2. up'[s] = Append(up[s], m) /\ \A x \in Sids : x # s => up'[x] = up[x]
      BY <1>1, <1>15
    <2>3. LastTells(up'[s], runs'[s]) /\ (TellsNothing(up'[s]) => TellsNothing(up[s]) /\ ~m.ok)
      <3>1. CASE m.ok
        BY <1>15, <2>1, <2>2, <3>1, AppendTells
      <3>2. CASE ~m.ok
        BY <1>15, <2>1, <2>2, <3>2, AppendTells
      <3> QED BY <3>1, <3>2
    <2>4. up'[s] # <<>>
      <3>1. Append(up[s], m) \in Seq(Message) /\ Len(Append(up[s], m)) = Len(up[s]) + 1 /\ Len(up[s]) \in Nat
        BY <2>1
      <3>2. Append(up[s], m) # <<>>
        BY <3>1
      <3> QED BY <2>2, <3>2
    <2>5. \A x \in Peers' : LastTells(up'[x], runs'[x])
      BY <1>1, <1>2, <1>15, <2>2, <2>3
    <2>6. Told'
      <3>1. CASE teller = s
        BY <1>2, <1>15, <2>3, <2>4, <3>1 DEF Told
      <3>2. CASE teller # s
        BY <1>1, <1>2, <1>15, <2>2, <3>2 DEF Told, Unhurried
      <3> QED BY <3>1, <3>2
    <2> QED BY <2>5, <2>6 DEF SyncInv
  <1>16. ASSUME NEW s \in Sids, NEW ok \in BOOLEAN, ScriptApplies(s, ok), Peers' = Peers PROVE SyncInv'
    <2> DEFINE v == Head(down[s])
               m == Ack(v, ok)
    <2>1. /\ down[s] # <<>> /\ down' = [down EXCEPT ![s] = Tail(@)]
          /\ runs' = (IF ok THEN [runs EXCEPT ![s] = v] ELSE runs)
          /\ up' = [up EXCEPT ![s] = Append(@, m)] /\ UNCHANGED <<cache, changes, teller>>
      BY <1>16 DEF ScriptApplies
    <2>2. s \in Peers /\ v \in Value /\ m \in Message /\ m.ok = ok /\ m.value = v
      BY <1>1, <2>1, Queues, Pieces DEF Ack
    <2> HIDE DEF v, m
    <2>3. /\ runs'[s] = IF m.ok THEN m.value ELSE runs[s]
          /\ \A x \in Sids : x # s => runs'[x] = runs[x] /\ down'[x] = down[x]
          /\ m.ok \/ runs' = runs
      BY <1>1, <2>1, <2>2
    <2> QED BY <1>15, <1>16, <2>1, <2>2, <2>3
  <1>17. ASSUME NEW s \in Sids, NEW v \in Value, ScriptChanges(s, v), Peers' = Peers PROVE SyncInv'
    <2> DEFINE m == Status(v)
    <2>1. /\ s \in Peers /\ runs' = [runs EXCEPT ![s] = v] /\ up' = [up EXCEPT ![s] = Append(@, m)]
          /\ UNCHANGED <<cache, changes, teller, down>>
      BY <1>17 DEF ScriptChanges
    <2>2. m \in Message /\ m.ok /\ m.value = v
      BY Pieces DEF Status
    <2> HIDE DEF m
    <2>3. /\ runs'[s] = v /\ \A x \in Sids : x # s => runs'[x] = runs[x] /\ down'[x] = down[x]
      BY <1>1, <2>1
    <2> QED BY <1>15, <1>17, <2>1, <2>2, <2>3
  <1>18. CASE ConfigRestart /\ Peers' = {}
    BY <1>18 DEF ConfigRestart, SyncInv, Told
  <1> QED
    BY <1>4, <1>5, <1>8, <1>9, <1>10, <1>11, <1>12, <1>13, <1>14, <1>16, <1>17, <1>18, ConfigMoves
    DEF ConfigMove

(* The operator is shown "synced" only if the script whose word it is runs *)
(* what is desired, in whatever order pushes, acknowledgements, reports and*)
(* reconnections of any number of tabs were handled.                       *)
THEOREM SyncedMeansIt == Spec => []SyncedIsRunning
  <1>1. Init => SyncInv
    <2> SUFFICES ASSUME Init PROVE SyncInv
      OBVIOUS
    <2>1. Peers = {} /\ teller = None
      BY DEF Init, PresenceInit, ConfigInit, Peers, SidsOf, Live
    <2> QED BY <2>1 DEF SyncInv, Told
  <1>2. SyncInv /\ RowInv => SyncedIsRunning
    <2> SUFFICES ASSUME SyncInv, RowInv, teller # None, up[teller] = <<>>, down[teller] = <<>>,
                        Unhurried, cache.state = "synced"
                 PROVE  cache.desired \in {None, runs[teller]}
      BY DEF SyncedIsRunning, Unhurried
    <2>1. TellsNothing(up[teller])
      BY DEF TellsNothing
    <2> QED BY <2>1 DEF SyncInv, Told, Differs
  <1> QED BY <1>1, <1>2, SyncStep, RowAlways, AlwaysSound, ChosenOnce, PTL DEF Spec
=============================================================================
