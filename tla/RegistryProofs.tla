---------------------------- MODULE RegistryProofs ----------------------------
(***************************************************************************)
(* Proofs about the slots pushed to scripts, in Connections, and that the  *)
(* whole keeps its types.                                                  *)
(***************************************************************************)
EXTENDS ConfigProofs

-----------------------------------------------------------------------------
(* Types, versions that run behind the table's, one list at most for a sid,*)
(* none for a sid not handed out; nothing is edited but in its exercise.   *)
SlotsSound ==
    /\ RegistryTypeOK
    /\ api = exercise.api
    /\ In("slots") \/ version = 0
    /\ \A s \in Sids : heard[s] <= version
    /\ \A e \in Editors : edit[e].list <= version
    /\ \A l, m \in lists : l[1] = m[1] => l = m
    /\ \A l \in lists : l[1] \notin fresh /\ l[2] <= version
    /\ \A a \in arriving : a[1] \notin fresh

(* Somebody is about to push the table as it is now. *)
OwesPush ==
    \E e \in Editors : edit[e].pc = "list" \/ (edit[e].pc = "send" /\ edit[e].list = version)

(* Why a script has the newest list or will have it: it was sent, or is    *)
(* owed by an editor, or its own connect handler still has it to send.     *)
InHand(s) ==
    \/ heard[s] = version
    \/ OwesPush
    \/ /\ \E a \in arriving : a[1] = s
       /\ \A l \in lists : l[1] = s => l[2] = version

NewestInv == SlotsSound /\ (~lost => \A s \in Live : InHand(s))

LEMMA NewestInit == Init => NewestInv
  <1> SUFFICES ASSUME Init PROVE NewestInv
    OBVIOUS
  <1>1. /\ PresenceInit(exercise.sids, exercise.api, exercise.admin)
        /\ RegistryInit(In("slots") /\ exercise.option)
    BY DEF Init
  <1>2. NoEdit \in Edit /\ NoEdit.list = 0 /\ 0 \in 0..MaxChanges
    BY RegistryAssumption DEF NoEdit, Edit, Kind, Owners
  <1>3. register \in Row \cup {None}
    BY <1>1, <1>2 DEF RegistryInit, Row, Owners, SlotStatus
  <1>4. RegistryTypeOK
    BY <1>1, <1>2, <1>3 DEF RegistryInit, RegistryTypeOK
  <1>5. SlotsSound
    BY <1>1, <1>2, <1>4 DEF RegistryInit, PresenceInit, SlotsSound
  <1>6. Live = {}
    BY <1>1 DEF PresenceInit, Live
  <1> QED BY <1>5, <1>6 DEF NewestInv

(* A step that changes no list, nor who is here. *)
LEMMA NewestSame ==
    ASSUME NewestInv, UNCHANGED <<exercise, api, fresh, arriving, registryVars>>, Live' \subseteq Live
    PROVE  NewestInv'
  <1>1. SlotsSound'
    BY DEF NewestInv, SlotsSound, RegistryTypeOK, registryVars, In
  <1>2. \A s \in Sids : InHand(s)' = InHand(s)
    BY DEF InHand, OwesPush, registryVars
  <1>3. Live \subseteq Sids
    BY DEF Live
  <1> QED BY <1>1, <1>2, <1>3 DEF NewestInv, registryVars

LEMMA NewestJoin ==
    ASSUME NewestInv, PresenceSound, NEW s \in Sids, NEW u \in Users, NEW c \in Claimers \cup {None},
           Join(s, u, c), Chosen
    PROVE  NewestInv'
  <1>1. /\ Connect(s, u, c) /\ UNCHANGED <<exercise, register, version, edit, lists, heard, lost>>
        /\ s \in fresh /\ fresh' = fresh \ {s} /\ api' = api
    BY DEF Join, Connect, registryVars
  <1>2. arriving' \subseteq arriving \cup {<<s, u>>}
    <2>1. CASE open /\ CanAdmit(u)
      <3>1. CASE api
        BY <1>1, <2>1, <3>1 DEF Connect
      <3>2. CASE ~api
        BY <1>1, <2>1, <3>2 DEF Connect
      <3> QED BY <3>1, <3>2
    <2>2. CASE ~(open /\ CanAdmit(u))
      BY <1>1, <2>2 DEF Connect
    <2> QED BY <2>1, <2>2
  <1>3. SlotsSound'
    BY <1>1, <1>2 DEF NewestInv, SlotsSound, RegistryTypeOK, In
  <1>4. ASSUME NEW x \in Live', ~lost PROVE InHand(x)'
    <2>1. CASE x \in Live
      <3>1. InHand(x) /\ arriving \subseteq arriving'
        <4>1. CASE open /\ CanAdmit(u)
          <5>1. CASE api
            BY <1>1, <1>4, <2>1, <4>1, <5>1 DEF Connect, NewestInv
          <5>2. CASE ~api
            BY <1>1, <1>4, <2>1, <4>1, <5>2 DEF Connect, NewestInv
          <5> QED BY <5>1, <5>2
        <4>2. CASE ~(open /\ CanAdmit(u))
          BY <1>1, <1>4, <2>1, <4>2 DEF Connect, NewestInv
        <4> QED BY <4>1, <4>2
      <3> QED BY <1>1, <3>1 DEF InHand, OwesPush
    <2>2. CASE x \notin Live
      <3>1. x = s /\ open /\ CanAdmit(u)
        <4>1. CASE open /\ CanAdmit(u)
          <5>1. sessions' = [sessions EXCEPT ![s] = [user |-> u, claimer |-> c, bk |-> FALSE]]
            BY <1>1, <4>1 DEF Connect
          <5> QED BY <1>4, <2>2, <4>1, <5>1 DEF Live, PresenceSound, PresenceTypeOK
        <4>2. CASE ~(open /\ CanAdmit(u))
          BY <1>1, <1>4, <2>2, <4>2 DEF Connect, Live
        <4> QED BY <4>1, <4>2
      <3>2. CASE api
        <4>1. arriving' = arriving \cup {<<s, u>>}
          BY <1>1, <3>1, <3>2 DEF Connect
        <4>2. \A l \in lists : l[1] # s
          BY <1>1 DEF NewestInv, SlotsSound
        <4>3. <<s, u>>[1] = x
          BY <3>1
        <4> QED BY <1>1, <3>1, <4>1, <4>2, <4>3 DEF InHand
      <3>3. CASE ~api
        <4>1. version = 0 /\ heard \in [Sids -> 0..MaxChanges] /\ heard[s] <= version
          BY <3>3, ExercisesAssumption DEF NewestInv, SlotsSound, RegistryTypeOK, In, Chosen
        <4>2. heard[s] = version
          BY <4>1, RegistryAssumption
        <4> QED BY <1>1, <3>1, <4>2 DEF InHand
      <3> QED BY <3>2, <3>3
    <2> QED BY <2>1, <2>2
  <1> QED BY <1>1, <1>3, <1>4 DEF NewestInv

LEMMA NewestLeave ==
    ASSUME NewestInv, PresenceSound, NEW s \in Sids, Leave(s), Parts(s)
    PROVE  NewestInv'
  <1>1. /\ heard' = [heard EXCEPT ![s] = 0] /\ UNCHANGED <<exercise, register, version, edit, lists, lost>>
        /\ UNCHANGED <<api, fresh, arriving>> /\ sessions' = [sessions EXCEPT ![s] = None]
    BY DEF Leave, Parts, Unlisted
  <1>2. /\ heard \in [Sids -> 0..MaxChanges] /\ version \in 0..MaxChanges
        /\ sessions \in [Sids -> Session \cup {None}]
    BY DEF NewestInv, SlotsSound, RegistryTypeOK, PresenceSound, PresenceTypeOK
  <1>3. /\ heard' \in [Sids -> 0..MaxChanges]
        /\ \A x \in Sids : heard'[x] <= version /\ (x # s => heard'[x] = heard[x])
    BY <1>1, <1>2, RegistryAssumption DEF NewestInv, SlotsSound
  <1>4. SlotsSound'
    BY <1>1, <1>3 DEF NewestInv, SlotsSound, RegistryTypeOK, In
  <1>5. ASSUME NEW x \in Live', ~lost PROVE InHand(x)'
    <2>1. x # s /\ x \in Live
      BY <1>1, <1>2 DEF Live
    <2> QED BY <1>1, <1>3, <1>5, <2>1 DEF NewestInv, InHand, OwesPush, Live
  <1> QED BY <1>1, <1>4, <1>5 DEF NewestInv

-----------------------------------------------------------------------------
(* What the row may become is a row, or none. *)
LEMMA WrittenTyped ==
    ASSUME NEW j \in Edit, RegistryTypeOK, version < MaxChanges
    PROVE  Written(j) \subseteq Row \cup {None}
  <1>1. version + 1 \in 0..MaxChanges /\ register \in Row \cup {None}
    BY RegistryAssumption DEF RegistryTypeOK
  <1>2. Inserted(j) \subseteq Row
    BY <1>1 DEF Inserted, Row, Edit, SlotStatus
  <1>3. ASSUME register \in Row, j.saw \in Row PROVE Updated(j) \subseteq Row \cup {None}
    <2>1. CASE j.kind = "upsert"
      <3>1. Updated(j) = {[register EXCEPT !.owner = Merge(@, j.saw.owner, as[1]),
                                           !.status = Merge(@, j.saw.status, as[2])] : as \in Owners \X SlotStatus}
        BY <2>1 DEF Updated
      <3>2. ASSUME NEW as \in Owners \X SlotStatus
            PROVE  [register EXCEPT !.owner = Merge(@, j.saw.owner, as[1]),
                                    !.status = Merge(@, j.saw.status, as[2])] \in Row
        BY <1>3 DEF Merge, Row
      <3> QED BY <3>1, <3>2
    <2>2. CASE j.kind = "sale"
      <3>1. Updated(j) = {[register EXCEPT !.owner = Merge(@, j.saw.owner, j.buyer),
                                           !.status = Merge(@, j.saw.status, "active"), !.term = "running"]}
        BY <2>2 DEF Updated
      <3>2. [register EXCEPT !.owner = Merge(@, j.saw.owner, j.buyer),
                             !.status = Merge(@, j.saw.status, "active"), !.term = "running"] \in Row
        BY <1>3 DEF Merge, Row, Edit, SlotStatus
      <3> QED BY <3>1, <3>2
    <2>3. CASE j.kind = "expire"
      <3>1. [register EXCEPT !.status = "expired"] \in Row
        BY <1>3 DEF Row, SlotStatus
      <3> QED BY <2>3, <3>1 DEF Updated
    <2>4. CASE j.kind = "delete"
      BY <2>4 DEF Updated
    <2>5. CASE j.kind \in {"config", "reload"}
      <3>1. /\ j.kind # "upsert" /\ j.kind # "sale" /\ j.kind # "expire" /\ j.kind # "delete"
        BY <2>5
      <3>2. Updated(j) = {register}
        BY <3>1 DEF Updated
      <3> QED BY <1>3, <3>2
    <2> QED BY <2>1, <2>2, <2>3, <2>4, <2>5 DEF Edit, Kind
  <1>4. SameRow(j.saw) => register \in Row /\ j.saw \in Row
    BY <1>1 DEF SameRow, Edit
  <1> QED BY <1>1, <1>2, <1>3, <1>4 DEF Written

(* Editors: while nothing is lost, nobody here is forgotten.               *)
LEMMA NewestEdit ==
    ASSUME NewestInv, PresenceSound, Chosen, In("slots"), RegistryStep, UNCHANGED <<exercise, presenceVars>>
    PROVE  NewestInv'
  <1>1. /\ register \in Row \cup {None} /\ version \in 0..MaxChanges
        /\ edit \in [Editors -> Edit]
        /\ lists \subseteq Sids \X (0..MaxChanges)
        /\ heard \in [Sids -> 0..MaxChanges] /\ lost \in BOOLEAN
    BY DEF NewestInv, SlotsSound, RegistryTypeOK
  <1>2. /\ api = exercise.api
        /\ \A s \in Sids : heard[s] <= version
        /\ \A e \in Editors : edit[e].list <= version
        /\ \A l, m \in lists : l[1] = m[1] => l = m
        /\ \A l \in lists : l[1] \notin fresh /\ l[2] \in 0..MaxChanges /\ l[2] <= version
        /\ \A a \in arriving : a[1] \notin fresh
    BY <1>1 DEF NewestInv, SlotsSound
  <1>3. In("slots")' /\ UNCHANGED <<exercise, api, fresh, sessions, arriving>> /\ Live' = Live /\ Live \subseteq Sids
    BY DEF In, presenceVars, Live
  <1>4. ~lost => \A s \in Live : InHand(s)
    BY DEF NewestInv
  <1>5. NoEdit \in Edit /\ NoEdit.list = 0 /\ NoEdit.pc = "idle"
    BY RegistryAssumption DEF NoEdit, Edit, Kind, Owners
  <1>6. CASE Lapse
    <2>1. register' \in Row \cup {None} /\ UNCHANGED <<version, edit, lists, heard, lost>>
      BY <1>1, <1>6 DEF Lapse, Row
    <2>2. SlotsSound'
      BY <1>1, <1>2, <1>3, <2>1 DEF SlotsSound, RegistryTypeOK
    <2> QED BY <1>3, <1>4, <2>1, <2>2 DEF NewestInv, InHand, OwesPush
  <1>7. ASSUME NEW e \in Editors, NEW kind \in Kind, NEW b \in Owners, EditStarts(e, kind, b)
        PROVE  NewestInv'
    <2> DEFINE j == [NoEdit EXCEPT !.pc = "write", !.kind = kind, !.buyer = b, !.saw = register]
    <2>1. j \in Edit /\ j.list = 0 /\ edit[e].pc = "idle"
      <3>1. edit[e].pc = "idle"
        BY <1>7 DEF EditStarts
      <3>2. j \in Edit
        BY <1>1, <1>5 DEF Edit
      <3>3. j.list = 0
        BY <1>5 DEF Edit
      <3> QED BY <3>1, <3>2, <3>3
    <2>2. edit' = [edit EXCEPT ![e] = j] /\ UNCHANGED <<register, version, lists, heard, lost>>
      BY <1>7 DEF EditStarts
    <2> HIDE DEF j
    <2>3. \A d \in Editors : edit'[d] \in Edit /\ edit'[d].list <= version /\ (d # e => edit'[d] = edit[d])
      BY <1>1, <1>2, <2>1, <2>2, RegistryAssumption
    <2>4. edit' \in [Editors -> Edit]
      BY <1>1, <2>1, <2>2
    <2>5. SlotsSound'
      BY <1>1, <1>2, <1>3, <2>2, <2>3, <2>4 DEF SlotsSound, RegistryTypeOK
    <2>6. OwesPush => OwesPush'
      BY <2>1, <2>2, <2>3 DEF OwesPush
    <2> QED BY <1>3, <1>4, <2>2, <2>5, <2>6 DEF NewestInv, InHand
  <1>8. ASSUME NEW e \in Editors, EditCommits(e) PROVE NewestInv'
    <2> DEFINE j == [NoEdit EXCEPT !.pc = "list"]
    <2>1. j \in Edit /\ j.pc = "list" /\ j.list = 0
      BY <1>5 DEF NoEdit, Edit
    <2>2. /\ edit' = [edit EXCEPT ![e] = j] /\ version' = version + 1 /\ version < MaxChanges
          /\ register' \in Written(edit[e]) /\ UNCHANGED <<lists, heard, lost>>
      BY <1>8 DEF EditCommits, AfterCommit
    <2> HIDE DEF j
    <2>3. register' \in Row \cup {None}
      BY <1>1, <2>2, WrittenTyped DEF NewestInv, SlotsSound
    <2>4. /\ version' \in 0..MaxChanges /\ \A s \in Sids : heard[s] <= version'
          /\ \A l \in lists : l[2] <= version'
      BY <1>1, <1>2, <2>2, RegistryAssumption
    <2>5. edit' \in [Editors -> Edit] /\ edit'[e] = j
      BY <1>1, <2>1, <2>2
    <2>6. \A d \in Editors : edit'[d].list <= version'
      <3>1. ASSUME NEW d \in Editors PROVE edit'[d].list <= version'
        <4>1. CASE d = e
          BY <1>1, <2>1, <2>2, <2>5, <4>1, RegistryAssumption
        <4>2. CASE d # e
          <5>1. edit'[d] = edit[d] /\ edit[d].list \in 0..MaxChanges /\ edit[d].list <= version
            BY <1>1, <1>2, <2>2, <4>2 DEF Edit
          <5> QED BY <1>1, <2>2, <5>1, RegistryAssumption
        <4> QED BY <4>1, <4>2
      <3> QED BY <3>1
    <2>7. SlotsSound'
      BY <1>1, <1>2, <1>3, <2>2, <2>3, <2>4, <2>5, <2>6 DEF SlotsSound, RegistryTypeOK
    <2>8. OwesPush'
      BY <2>1, <2>5 DEF OwesPush
    <2> QED BY <2>7, <2>8 DEF NewestInv, InHand
  <1>9. ASSUME NEW e \in Editors, EditFails(e) PROVE NewestInv'
    <2>1. /\ edit' = [edit EXCEPT ![e] = NoEdit] /\ edit[e].pc = "write"
          /\ UNCHANGED <<register, version, lists, heard, lost>>
      BY <1>9 DEF EditFails
    <2>2. /\ edit' \in [Editors -> Edit]
          /\ \A d \in Editors : edit'[d].list <= version /\ (d # e => edit'[d] = edit[d])
      BY <1>1, <1>2, <1>5, <2>1, RegistryAssumption
    <2>3. SlotsSound'
      BY <1>1, <1>2, <1>3, <2>1, <2>2 DEF SlotsSound, RegistryTypeOK
    <2>4. OwesPush => OwesPush'
      BY <2>1, <2>2 DEF OwesPush
    <2> QED BY <1>3, <1>4, <2>1, <2>3, <2>4 DEF NewestInv, InHand
  <1>10. ASSUME NEW e \in Editors, PushLists(e) PROVE NewestInv'
    <2> DEFINE j == IF Live = {} THEN NoEdit ELSE [edit[e] EXCEPT !.pc = "send", !.list = version]
    <2>1. /\ edit' = [edit EXCEPT ![e] = j] /\ UNCHANGED <<register, version, lists, heard, lost>>
      BY <1>1, <1>10 DEF PushLists
    <2>2. j \in Edit /\ j.list <= version /\ (Live # {} => j.pc = "send" /\ j.list = version)
      <3>1. CASE Live = {}
        BY <1>1, <1>5, <3>1, RegistryAssumption
      <3>2. CASE Live # {}
        <4>1. j = [edit[e] EXCEPT !.pc = "send", !.list = version]
          BY <3>2
        <4>2. edit[e] \in Edit
          BY <1>1
        <4> HIDE DEF j
        <4>3. j \in Edit
          BY <1>1, <4>1, <4>2 DEF Edit
        <4>4. j.pc = "send" /\ j.list = version
          BY <4>1, <4>2 DEF Edit
        <4> QED BY <1>1, <4>3, <4>4, RegistryAssumption
      <3> QED BY <3>1, <3>2
    <2> HIDE DEF j
    <2>3. /\ edit' \in [Editors -> Edit] /\ edit'[e] = j
          /\ \A d \in Editors : edit'[d].list <= version
      BY <1>1, <1>2, <2>1, <2>2
    <2>4. SlotsSound'
      BY <1>1, <1>2, <1>3, <2>1, <2>3 DEF SlotsSound, RegistryTypeOK
    <2>5. Live # {} => OwesPush'
      BY <2>1, <2>2, <2>3 DEF OwesPush
    <2> QED BY <1>3, <2>4, <2>5 DEF NewestInv, InHand
  <1>11. ASSUME NEW e \in Editors, PushSends(e) PROVE NewestInv'
    <2>1. /\ edit[e].pc = "send" /\ edit' = [edit EXCEPT ![e] = NoEdit]
          /\ heard' = [s \in Sids |-> IF s \in Live THEN Newer(heard[s], edit[e].list) ELSE heard[s]]
          /\ UNCHANGED <<register, version, lists, lost>>
      BY <1>11 DEF PushSends, Receivers
    <2>2. edit[e].list \in 0..MaxChanges /\ edit[e].list <= version
      BY <1>1, <1>2 DEF Edit
    <2>3. /\ edit' \in [Editors -> Edit]
          /\ \A d \in Editors : edit'[d].list <= version /\ (d # e => edit'[d] = edit[d])
      BY <1>1, <1>2, <1>5, <2>1, RegistryAssumption
    <2>4. \A s \in Sids : /\ heard'[s] \in 0..MaxChanges /\ heard'[s] <= version
                          /\ heard[s] = version => heard'[s] = version
      BY <1>1, <1>2, <2>1, <2>2, RegistryAssumption DEF Newer
    <2>5. heard' \in [Sids -> 0..MaxChanges]
      BY <2>1, <2>4
    <2>6. SlotsSound'
      BY <1>1, <1>2, <1>3, <2>1, <2>3, <2>4, <2>5 DEF SlotsSound, RegistryTypeOK
    <2>7. ASSUME NEW s \in Live, ~lost PROVE InHand(s)'
      <3>1. CASE edit[e].list = version
        <4>1. heard'[s] = version
          BY <1>1, <1>2, <1>3, <2>1, <2>2, <3>1, RegistryAssumption DEF Newer
        <4> QED BY <2>1, <4>1 DEF InHand
      <3>2. CASE edit[e].list # version
        <4>1. OwesPush => OwesPush'
          BY <2>1, <2>3, <3>2 DEF OwesPush
        <4> QED BY <1>3, <1>4, <2>1, <2>4, <2>7, <4>1 DEF InHand
      <3> QED BY <3>1, <3>2
    <2> QED BY <1>3, <2>1, <2>6, <2>7 DEF NewestInv
  <1>12. ASSUME NEW e \in Editors, PushFails(e) PROVE NewestInv'
    <2>1. /\ edit' = [edit EXCEPT ![e] = NoEdit] /\ lost' = TRUE
          /\ UNCHANGED <<register, version, lists, heard>>
      BY <1>12 DEF PushFails
    <2>2. edit' \in [Editors -> Edit] /\ \A d \in Editors : edit'[d].list <= version
      BY <1>1, <1>2, <1>5, <2>1, RegistryAssumption
    <2>3. SlotsSound'
      BY <1>1, <1>2, <1>3, <2>1, <2>2 DEF SlotsSound, RegistryTypeOK
    <2> QED BY <2>1, <2>3 DEF NewestInv
  <1> QED BY <1>6, <1>7, <1>8, <1>9, <1>10, <1>11, <1>12 DEF RegistryStep

(* A connect handler reads its own script's list. *)
LEMMA NewestList ==
    ASSUME NewestInv, NEW s \in Sids, ListForNew(s), UNCHANGED <<exercise, presenceVars>>
    PROVE  NewestInv'
  <1>1. /\ UNCHANGED <<exercise, api, fresh, arriving, register, version, edit, heard, lost>> /\ Live' = Live
        /\ lists' = lists \cup {<<s, version>>} /\ (\E a \in arriving : a[1] = s)
        /\ \A l \in lists : l[1] # s
    BY DEF ListForNew, presenceVars, Live
  <1>2. version \in 0..MaxChanges /\ s \notin fresh
    BY <1>1 DEF NewestInv, SlotsSound, RegistryTypeOK
  <1>3. \A l \in lists' : l \in lists \/ (l = <<s, version>> /\ l[1] = s /\ l[2] = version)
    BY <1>1
  <1>4. SlotsSound'
    <2>1. RegistryTypeOK'
      BY <1>1, <1>2 DEF NewestInv, SlotsSound, RegistryTypeOK
    <2>2. \A l, m \in lists' : l[1] = m[1] => l = m
      BY <1>1, <1>3 DEF NewestInv, SlotsSound
    <2>3. \A l \in lists' : l[1] \notin fresh /\ l[2] <= version
      BY <1>2, <1>3, RegistryAssumption DEF NewestInv, SlotsSound
    <2> QED BY <1>1, <2>1, <2>2, <2>3 DEF NewestInv, SlotsSound, In
  <1>5. \A x \in Live : InHand(x) => InHand(x)'
    BY <1>1, <1>3 DEF InHand, OwesPush
  <1> QED BY <1>1, <1>4, <1>5 DEF NewestInv

(* A connect handler ends: its list is sent or lost. *)
LEMMA NewestArrive ==
    ASSUME NewestInv, NEW a \in arriving, ArriveListed(a), UNCHANGED exercise
    PROVE  NewestInv'
  <1>1. /\ UNCHANGED <<exercise, api, fresh, sessions, register, version, edit>> /\ Live' = Live
        /\ Live \subseteq Sids /\ arriving' = arriving \ {a}
    BY DEF ArriveListed, Arrive, SendToNew, ListLost, Live
  <1>2. /\ version \in 0..MaxChanges /\ lists \subseteq Sids \X (0..MaxChanges)
        /\ heard \in [Sids -> 0..MaxChanges] /\ \A s \in Sids : heard[s] <= version
        /\ \A l, m \in lists : l[1] = m[1] => l = m
    BY DEF NewestInv, SlotsSound, RegistryTypeOK
  <1>3. CASE ListLost(a[1])
    <2>1. lists' \subseteq lists /\ lost' = TRUE /\ heard' = heard
      BY <1>3 DEF ListLost
    <2>2. SlotsSound'
      BY <1>1, <2>1 DEF NewestInv, SlotsSound, RegistryTypeOK, In
    <2> QED BY <2>1, <2>2 DEF NewestInv
  <1>4. CASE SendToNew(a[1])
    <2>1. PICK l \in lists :
            /\ l[1] = a[1] /\ lists' = lists \ {l} /\ lost' = lost
            /\ heard' = IF a[1] \in Live THEN [heard EXCEPT ![a[1]] = Newer(@, l[2])] ELSE heard
      BY <1>4 DEF SendToNew
    <2>2. a[1] \in Sids /\ l[2] \in 0..MaxChanges
      BY <1>2, <2>1
    <2>3. l[2] <= version
      BY <2>1 DEF NewestInv, SlotsSound
    <2>4. \A x \in Sids : /\ heard'[x] \in 0..MaxChanges /\ heard'[x] <= version
                          /\ heard[x] = version => heard'[x] = version
                          /\ x = a[1] /\ x \in Live /\ l[2] = version => heard'[x] = version
      BY <1>2, <2>1, <2>2, <2>3, RegistryAssumption DEF Newer
    <2>5. heard' \in [Sids -> 0..MaxChanges]
      <3>1. heard' = [x \in Sids |-> heard'[x]]
        BY <1>2, <2>1
      <3> QED BY <2>4, <3>1
    <2>6. SlotsSound'
      BY <1>1, <2>1, <2>4, <2>5 DEF NewestInv, SlotsSound, RegistryTypeOK, In
    <2>7. ASSUME NEW x \in Live, ~lost PROVE InHand(x)'
      <3>1. InHand(x) /\ x \in Sids
        BY <1>1, <2>7 DEF NewestInv
      <3>2. CASE OwesPush
        BY <1>1, <3>2 DEF InHand, OwesPush
      <3>3. CASE heard[x] = version
        BY <1>1, <2>4, <3>1, <3>3 DEF InHand
      <3>4. CASE (\E b \in arriving : b[1] = x) /\ \A m \in lists : m[1] = x => m[2] = version
        <4>1. CASE x = a[1]
          BY <1>1, <2>1, <2>4, <3>1, <3>4, <4>1 DEF InHand
        <4>2. CASE x # a[1]
          BY <1>1, <2>1, <3>4, <4>2 DEF InHand
        <4> QED BY <4>1, <4>2
      <3> QED BY <3>1, <3>2, <3>3, <3>4 DEF InHand
    <2> QED BY <1>1, <2>1, <2>6, <2>7 DEF NewestInv
  <1> QED BY <1>3, <1>4 DEF ArriveListed

LEMMA NewestRestart ==
    ASSUME NewestInv, Restart
    PROVE  NewestInv'
  <1>1. /\ UNCHANGED <<exercise, api, fresh, register, version, lost>>
        /\ sessions' = [s \in Sids |-> None] /\ arriving' = {} /\ lists' = {}
        /\ heard' = [s \in Sids |-> 0] /\ edit' = [e \in Editors |-> NoEdit]
    BY DEF Restart
  <1>2. NoEdit \in Edit /\ NoEdit.list = 0 /\ 0 \in 0..MaxChanges
    BY RegistryAssumption DEF NoEdit, Edit, Kind, Owners
  <1>3. version \in 0..MaxChanges
    BY DEF NewestInv, SlotsSound, RegistryTypeOK
  <1>4. RegistryTypeOK'
    BY <1>1, <1>2 DEF NewestInv, SlotsSound, RegistryTypeOK
  <1>5. /\ \A s \in Sids : heard'[s] <= version
        /\ \A e \in Editors : edit'[e].list <= version
    BY <1>1, <1>2, <1>3, RegistryAssumption
  <1>6. SlotsSound'
    BY <1>1, <1>4, <1>5 DEF NewestInv, SlotsSound, In
  <1>7. Live' = {}
    BY <1>1 DEF Live
  <1> QED BY <1>6, <1>7 DEF NewestInv

LEMMA NewestAlways == Spec => []NewestInv
  <1>1. ASSUME NewestInv, PresenceSound, Chosen, [Next]_vars PROVE NewestInv'
    <2>1. exercise.users \subseteq Users /\ exercise.claimers \subseteq Claimers \cup {None}
      BY <1>1, ExercisesAssumption DEF Chosen
    <2>2. sessions \in [Sids -> Session \cup {None}]
      BY <1>1 DEF PresenceSound, PresenceTypeOK
    <2>3. CASE \E s \in Sids, u \in exercise.users, c \in exercise.claimers : Join(s, u, c)
      BY <1>1, <2>1, <2>3, NewestJoin
    <2>4. CASE \E s \in Sids : Disconnect(s) \/ PutOff(s)
      BY <1>1, <2>4, NewestLeave DEF Disconnect, PutOff, Evict
    <2>5. CASE PresenceStep
      <3>1. UNCHANGED <<exercise, api, fresh, arriving, registryVars>>
        BY <2>5 DEF PresenceStep, TimerFires, CloseLicense, Relabel, RequestKey, StoreKey, AckKey
      <3>2. Live' \subseteq Live
        BY <2>2, <2>5
        DEF PresenceStep, TimerFires, CloseLicense, Relabel, RequestKey, StoreKey, AckKey, Live
      <3> QED BY <1>1, <3>1, <3>2, NewestSame
    <2>6. CASE SlotStep
      <3>1. UNCHANGED exercise
        BY <2>6 DEF SlotStep
      <3> QED BY <1>1, <2>6, <3>1, NewestList, NewestArrive, NewestEdit DEF SlotStep
    <2>7. CASE RelayStep \/ HearStatus \/ ConfigStep \/ BroadcastStep \/ UNCHANGED vars
      <3>1. UNCHANGED <<exercise, api, fresh, arriving, sessions, registryVars>>
        BY <2>7 DEF RelayStep, HearStatus, ConfigStep, BroadcastStep, vars, presenceVars
      <3>2. Live' \subseteq Live
        BY <3>1 DEF Live
      <3> QED BY <1>1, <3>1, <3>2, NewestSame
    <2>8. CASE Restart
      BY <1>1, <2>8, NewestRestart
    <2> QED BY <1>1, <2>3, <2>4, <2>5, <2>6, <2>7, <2>8 DEF Next
  <1> QED BY <1>1, NewestInit, AlwaysSound, ChosenOnce, PTL DEF Spec

(* When no push is under way every script that has finished connecting has *)
(* been sent the newest list, however edits, pushes, connects and restarts *)
(* interleave, unless a push was given up.                                 *)
THEOREM NewestReachesAll == Spec => []NewestSent
  <1>1. NewestInv => NewestSent
    <2> SUFFICES ASSUME NewestInv, ~lost, Editing({"list", "send"}) = {},
                        NEW s \in Live, s \notin {a[1] : a \in arriving}
                 PROVE  heard[s] = version
      BY DEF NewestSent
    <2>1. ~OwesPush
      BY DEF OwesPush, Editing
    <2> QED BY <2>1 DEF NewestInv, InHand
  <1> QED BY <1>1, NewestAlways, PTL

-----------------------------------------------------------------------------
(* Every variable of the whole keeps its type, in any interleaving of the  *)
(* components.                                                             *)
THEOREM WholeTyped == Spec => []TypeOK
  <1>1. Chosen /\ PresenceSound /\ RelayInv /\ RowInv /\ BroadcastInv /\ NewestInv => TypeOK
    BY DEF Chosen, PresenceSound, RelayInv, RowInv, ConfigSound, BroadcastInv, NewestInv, SlotsSound, TypeOK
  <1> QED BY <1>1, ChosenOnce, AlwaysSound, RelayAlways, RowAlways, BroadcastAlways, NewestAlways, PTL
=============================================================================
