-------------------------- MODULE ConnectionsProofs --------------------------
(***************************************************************************)
(* Proofs about Connections, for any number of connections, names, calls,  *)
(* administrators, codes, streams and editors, and any set of exercises.   *)
(***************************************************************************)
EXTENDS Connections, FiniteSetTheorems, TLAPS

-----------------------------------------------------------------------------
(* Who moves what: a step of the whole, seen by each component. *)

(* A status heard, and the memory lost, as presence sees them. *)
StatusHeard ==
    /\ \E s \in Sids : OnStatus(s)
    /\ online' = [online EXCEPT ![Claimer] = TRUE]
    /\ UNCHANGED <<api, admin, open, fresh, sessions, notif, timers, arriving, keyHeld, renamed>>

PresenceForgotten ==
    /\ sessions' = [s \in Sids |-> None]
    /\ notif' = [u \in Users |-> [state |-> "none", handle |-> None]]
    /\ timers' = {} /\ arriving' = {} /\ renamed' = {}
    /\ online' = [c \in Claimers |-> FALSE]
    /\ keyHeld' = [s \in Sids |-> "no"]
    /\ UNCHANGED <<api, admin, open, fresh>>

KeyMove(s) == RequestKey(s) \/ StoreKey(s) \/ AckKey(s, TRUE) \/ AckKey(s, FALSE)

(* The exercise is chosen once. *)
Chosen == exercise \in Exercises

LEMMA ExerciseKept == [Next]_vars => exercise' = exercise
  <1>1. CASE \E s \in Sids, u \in exercise.users, c \in exercise.claimers : Join(s, u, c)
    BY <1>1 DEF Join
  <1>2. CASE \E s \in Sids : Disconnect(s) \/ PutOff(s)
    BY <1>2 DEF Disconnect, PutOff, Parts
  <1>3. CASE PresenceStep \/ SlotStep \/ RelayStep \/ HearStatus \/ ConfigStep
             \/ Restart \/ BroadcastStep
    BY <1>3 DEF PresenceStep, SlotStep, RelayStep, HearStatus, ConfigStep, Restart, BroadcastStep
  <1> QED BY <1>1, <1>2, <1>3 DEF Next, vars

LEMMA ChosenOnce == Spec => []Chosen
  <1>1. Init => Chosen
    BY DEF Init, Chosen
  <1>2. Chosen /\ [Next]_vars => Chosen'
    BY ExerciseKept DEF Chosen
  <1> QED BY <1>1, <1>2, PTL DEF Spec

LEMMA PresenceMoves ==
    ASSUME exercise \in Exercises, [Next]_vars
    PROVE  \/ \E s \in Sids, u \in Users, c \in Claimers \cup {None} : Connect(s, u, c)
           \/ \E s \in Sids : Leave(s)
           \/ \E t \in timers : TimerFires(t)
           \/ \E a \in arriving : Arrive(a)
           \/ CloseLicense
           \/ \E s \in Sids, u \in Users : Relabel(s, u)
           \/ \E s \in Sids : KeyMove(s)
           \/ StatusHeard
           \/ PresenceForgotten
           \/ UNCHANGED presenceVars
  <1>1. exercise.users \subseteq Users /\ exercise.claimers \subseteq Claimers \cup {None}
    BY ExercisesAssumption
  <1>2. CASE \E s \in Sids, u \in exercise.users, c \in exercise.claimers : Join(s, u, c)
    BY <1>1, <1>2 DEF Join
  <1>3. CASE \E s \in Sids : Disconnect(s) \/ PutOff(s)
    BY <1>3 DEF Disconnect, PutOff, Evict
  <1>4. CASE PresenceStep
    BY <1>1, <1>4 DEF PresenceStep, KeyMove
  <1>5. CASE SlotStep
    BY <1>5 DEF SlotStep, ArriveListed
  <1>6. CASE HearStatus
    BY <1>6 DEF HearStatus, StatusHeard
  <1>7. CASE Restart
    BY <1>7 DEF Restart, PresenceForgotten
  <1>8. CASE RelayStep \/ ConfigStep \/ BroadcastStep \/ UNCHANGED vars
    BY <1>8 DEF RelayStep, ConfigStep, BroadcastStep, vars
  <1> QED BY <1>2, <1>3, <1>4, <1>5, <1>6, <1>7, <1>8 DEF Next

(* What other components see of presence: a session begins in Join, and    *)
(* ends in a departure or a restart.                                       *)
RelayMove ==
    \/ \E s \in Sids : FailWaitersFor(s)
    \/ \E q \in Calls :
          \/ VerifyCall(q) \/ VerifyReturns(q)
          \/ \E s \in Sids, answer \in Answers : VerifyResult(s, q, answer)
    \/ UNCHANGED relayVars

LEMMA RelayMoves == [Next]_vars => RelayMove
  <1> SUFFICES ASSUME [Next]_vars PROVE RelayMove
    OBVIOUS
  <1>1. CASE \E s \in Sids, u \in exercise.users, c \in exercise.claimers : Join(s, u, c)
    BY <1>1 DEF Join, RelayMove
  <1>2. CASE \E s \in Sids : Disconnect(s) \/ PutOff(s)
    BY <1>2 DEF Disconnect, PutOff, Parts, RelayMove
  <1>3. CASE RelayStep
    BY <1>3 DEF RelayStep, RelayMove
  <1>4. CASE PresenceStep \/ SlotStep \/ HearStatus \/ ConfigStep \/ Restart \/ BroadcastStep
    BY <1>4 DEF PresenceStep, SlotStep, HearStatus, ConfigStep, Restart, BroadcastStep, RelayMove
  <1> QED BY <1>1, <1>2, <1>3, <1>4 DEF Next, vars, RelayMove

BroadcastMove ==
    \/ Tick \/ CleanupStale
    \/ \E c \in Codes : DropToLicense(c) \/ DropByOwner(c) \/ DropToEveryone(c)
    \/ \E c \in Codes, u \in Users : DropToUser(c, u)
    \/ \E k \in Streams : StreamStep(k)
    \/ UNCHANGED broadcastVars

LEMMA BroadcastMoves == exercise \in Exercises /\ [Next]_vars => BroadcastMove
  <1> SUFFICES ASSUME exercise \in Exercises, [Next]_vars PROVE BroadcastMove
    OBVIOUS
  <1>1. exercise.users \subseteq Users
    BY ExercisesAssumption
  <1>2. CASE \E s \in Sids, u \in exercise.users, c \in exercise.claimers : Join(s, u, c)
    BY <1>2 DEF Join, BroadcastMove
  <1>3. CASE \E s \in Sids : Disconnect(s) \/ PutOff(s)
    BY <1>3 DEF Disconnect, PutOff, Parts, BroadcastMove
  <1>4. CASE BroadcastStep
    BY <1>1, <1>4 DEF BroadcastStep, BroadcastMove
  <1>5. CASE PresenceStep \/ SlotStep \/ RelayStep \/ HearStatus \/ ConfigStep \/ Restart
    BY <1>5 DEF PresenceStep, SlotStep, RelayStep, HearStatus, ConfigStep, Restart, BroadcastMove
  <1> QED BY <1>2, <1>3, <1>4, <1>5 DEF Next, vars, BroadcastMove

-----------------------------------------------------------------------------
(* The verify relay *)

(* What a call has heard while it waits: a user was named exactly if it    *)
(* has one, and then it is settled; without one it is settled only when    *)
(* nobody is left to ask; only scripts it still waits for may answer.      *)
WaiterKnows(q) ==
    /\ waiters[q].got <=> "user" \in said[q]
    /\ waiters[q].anyReply <=> said[q] # {}
    /\ waiters[q].got => waiters[q].done
    /\ waiters[q].done /\ ~waiters[q].got => waiters[q].pending = {}
    /\ ~waiters[q].got => \A s \in Sids : <<s, q>> \in asked => s \in waiters[q].pending

(* A call that has not begun has asked nobody and heard nothing. *)
NotBegun(q) == said[q] = {} /\ \A s \in Sids : <<s, q>> \notin asked

LEMMA HeardType ==
    ASSUME NEW w \in Waiter, NEW s, NEW answer
    PROVE  Heard(w, s, answer) \in Waiter
  <1>1. CASE answer = "user"
    BY <1>1 DEF Heard, Waiter
  <1>2. CASE answer # "user" /\ w.pending \ {s} = {}
    <2>1. Heard(w, s, answer) = [w EXCEPT !.anyReply = TRUE, !.pending = w.pending \ {s}, !.done = TRUE]
      BY <1>2 DEF Heard
    <2> QED BY <2>1 DEF Waiter
  <1>3. CASE answer # "user" /\ w.pending \ {s} # {}
    <2>1. Heard(w, s, answer) = [w EXCEPT !.anyReply = TRUE, !.pending = w.pending \ {s}, !.done = FALSE]
      BY <1>3 DEF Heard
    <2> QED BY <2>1 DEF Waiter
  <1> QED BY <1>1, <1>2, <1>3

LEMMA DroppedType ==
    ASSUME NEW w \in Waiter, NEW s
    PROVE  Dropped(w, s) \in Waiter
  <1> DEFINE over == w.pending = {s} /\ ~w.got
  <1>1. CASE w = None \/ s \notin w.pending \/ w.done
    BY <1>1 DEF Dropped
  <1>2. CASE ~(w = None \/ s \notin w.pending \/ w.done) /\ over
    <2>1. Dropped(w, s) = [w EXCEPT !.pending = @ \ {s}, !.done = TRUE]
      BY <1>2 DEF Dropped
    <2> QED BY <2>1 DEF Waiter
  <1>3. CASE ~(w = None \/ s \notin w.pending \/ w.done) /\ ~over
    <2>1. Dropped(w, s) = [w EXCEPT !.pending = @ \ {s}, !.done = FALSE]
      BY <1>3 DEF Dropped
    <2> QED BY <2>1 DEF Waiter
  <1> QED BY <1>1, <1>2, <1>3

Truthful(q) ==
    /\ verdict[q] = "valid" => "user" \in said[q]
    /\ verdict[q] = "invalid" => said[q] = {"nobody"}
    /\ verdict[q] = "unavailable" => said[q] = {}

CallSafe(q) ==
    /\ waiters[q] # None => WaiterKnows(q) /\ verdict[q] = None
    /\ waiters[q] = None /\ verdict[q] = None => NotBegun(q)
    /\ Truthful(q)

RelayInv == RelayTypeOK /\ \A q \in Calls : CallSafe(q)

LEMMA RelayInitSafe == Init => RelayInv
  <1> SUFFICES ASSUME Init PROVE RelayInv
    OBVIOUS
  <1>1. RelayTypeOK
    BY DEF Init, RelayInit, RelayTypeOK
  <1>2. ASSUME NEW q \in Calls PROVE CallSafe(q)
    BY NoWaiter DEF Init, RelayInit, CallSafe, NotBegun, Truthful, Verdict
  <1> QED BY <1>1, <1>2 DEF RelayInv

(* A step about one call leaves the others as they are. *)
LEMMA OneCallSafe ==
    ASSUME RelayInv, RelayTypeOK', NEW q \in Calls, CallSafe(q)',
           \A r \in Calls \ {q} :
               /\ waiters'[r] = waiters[r] /\ verdict'[r] = verdict[r] /\ said'[r] = said[r]
               /\ \A s \in Sids : <<s, r>> \in asked' <=> <<s, r>> \in asked
    PROVE  RelayInv'
  <1>1. ASSUME NEW r \in Calls \ {q} PROVE CallSafe(r)'
    <2>1. CallSafe(r)
      BY DEF RelayInv
    <2> QED BY <2>1 DEF CallSafe, WaiterKnows, NotBegun, Truthful
  <1> QED BY <1>1 DEF RelayInv

LEMMA VerifyCallSafe ==
    ASSUME RelayInv, NEW q \in Calls, VerifyCall(q)
    PROVE  RelayInv'
  <1>1. /\ waiters[q] = None /\ verdict[q] = None /\ NotBegun(q) /\ said' = said
        /\ RelayTypeOK
    BY DEF VerifyCall, RelayInv, CallSafe
  <1>2. CASE verdict' = [verdict EXCEPT ![q] = "unavailable"] /\ UNCHANGED <<waiters, asked>>
    <2>1. RelayTypeOK'
      BY <1>1, <1>2 DEF RelayTypeOK, Verdict
    <2>2. CallSafe(q)'
      BY <1>1, <1>2 DEF RelayTypeOK, CallSafe, NotBegun, Truthful
    <2> QED BY <1>1, <1>2, <2>1, <2>2, OneCallSafe DEF RelayTypeOK
  <1>3. ASSUME NEW targets \in SUBSET Live,
               waiters' = [waiters EXCEPT ![q] =
                    [pending |-> targets, got |-> FALSE, anyReply |-> FALSE, done |-> FALSE]],
               asked' = asked \cup (targets \X {q}), verdict' = verdict
        PROVE  RelayInv'
    <2> DEFINE w == [pending |-> targets, got |-> FALSE, anyReply |-> FALSE, done |-> FALSE]
    <2>1. w \in Waiter /\ targets \subseteq Sids
      BY DEF Waiter, Live
    <2>2. RelayTypeOK'
      BY <1>1, <1>3, <2>1 DEF RelayTypeOK
    <2>3. waiters'[q] = w /\ said'[q] = {} /\ verdict'[q] = None
      BY <1>1, <1>3 DEF RelayTypeOK, NotBegun
    <2>4. \A s \in Sids : <<s, q>> \in asked' => s \in w.pending
      BY <1>1, <1>3 DEF NotBegun
    <2>5. CallSafe(q)'
      <3>1. WaiterKnows(q)'
        BY <2>3, <2>4 DEF WaiterKnows
      <3>2. Truthful(q)'
        BY <2>3, NoWaiter DEF Truthful, Verdict
      <3>3. waiters'[q] # None
        BY <2>1, <2>3, NoWaiter
      <3> QED BY <2>3, <3>1, <3>2, <3>3 DEF CallSafe
    <2>6. \A r \in Calls \ {q} : /\ waiters'[r] = waiters[r]
                                 /\ \A s \in Sids : <<s, r>> \in asked' <=> <<s, r>> \in asked
      BY <1>1, <1>3 DEF RelayTypeOK
    <2> QED BY <1>1, <1>3, <2>2, <2>5, <2>6, OneCallSafe
  <1> QED BY <1>1, <1>2, <1>3 DEF VerifyCall

LEMMA VerifyReturnsSafe ==
    ASSUME RelayInv, NEW q \in Calls, VerifyReturns(q)
    PROVE  RelayInv'
  <1> DEFINE v == IF waiters[q].got THEN "valid"
                  ELSE IF waiters[q].anyReply THEN "invalid" ELSE "unavailable"
  <1>1. waiters[q] # None /\ WaiterKnows(q) /\ v \in Verdict /\ RelayTypeOK
    BY DEF VerifyReturns, Waiting, Verdict, RelayInv, CallSafe
  <1>2. /\ verdict' = [verdict EXCEPT ![q] = v] /\ waiters' = [waiters EXCEPT ![q] = None]
        /\ asked' = asked /\ said' = said
    BY DEF VerifyReturns
  <1>3. RelayTypeOK'
    BY <1>1, <1>2 DEF RelayTypeOK
  <1>4. waiters'[q] = None /\ verdict'[q] = v /\ v # None
    BY <1>1, <1>2, NoWaiter DEF RelayTypeOK
  <1>5. Truthful(q)'
    <2>1. said[q] \subseteq {"user", "nobody"}
      BY <1>1 DEF RelayTypeOK, Answers
    <2> QED BY <1>1, <1>2, <1>4, <2>1 DEF WaiterKnows, Truthful
  <1>6. CallSafe(q)'
    BY <1>4, <1>5 DEF CallSafe
  <1> QED BY <1>1, <1>2, <1>3, <1>6, OneCallSafe DEF RelayTypeOK

LEMMA VerifyResultSafe ==
    ASSUME RelayInv, NEW q \in Calls, NEW s \in Sids, NEW answer \in Answers,
           VerifyResult(s, q, answer)
    PROVE  RelayInv'
  <1>1. /\ <<s, q>> \in asked /\ asked' = asked \ {<<s, q>>} /\ verdict' = verdict
        /\ RelayTypeOK /\ CallSafe(q)
    BY DEF VerifyResult, RelayInv
  <1>2. \A r \in Calls \ {q}, t \in Sids : <<t, r>> \in asked' <=> <<t, r>> \in asked
    BY <1>1
  <1>3. CASE q \notin Waiting
    <2>1. UNCHANGED <<waiters, said>> /\ waiters[q] = None
      BY <1>3 DEF VerifyResult, Waiting
    <2>2. RelayTypeOK'
      BY <1>1, <2>1 DEF RelayTypeOK
    <2>3. CallSafe(q)'
      BY <1>1, <2>1 DEF CallSafe, NotBegun, Truthful
    <2> QED BY <1>1, <1>2, <2>1, <2>2, <2>3, OneCallSafe
  <1>4. CASE q \in Waiting
    <2> DEFINE w == waiters[q]
               new == IF w.done THEN w ELSE Heard(w, s, answer)
    <2>1. w \in Waiter /\ WaiterKnows(q) /\ verdict[q] = None
      BY <1>1, <1>4 DEF Waiting, RelayTypeOK, CallSafe
    <2>2. waiters' = [waiters EXCEPT ![q] = new] /\ said' = [said EXCEPT ![q] = @ \cup {answer}]
      BY <1>4, <1>1 DEF VerifyResult, RelayTypeOK
    <2>3. new \in Waiter
      BY <2>1, HeardType
    <2>4. RelayTypeOK'
      BY <1>1, <2>2, <2>3 DEF RelayTypeOK
    <2>5. waiters'[q] = new /\ said'[q] = said[q] \cup {answer} /\ verdict'[q] = None
      BY <1>1, <2>1, <2>2 DEF RelayTypeOK
    <2>6. WaiterKnows(q)'
      <3>1. ~w.got => s \in w.pending
        BY <1>1, <2>1 DEF WaiterKnows
      <3>2. CASE w.done
        <4>1. w.got /\ "user" \in said[q]
          BY <2>1, <3>1, <3>2 DEF WaiterKnows
        <4> QED BY <2>1, <2>5, <3>2, <4>1 DEF WaiterKnows
      <3>3. CASE ~w.done
        <4>1. new = Heard(w, s, answer) /\ ~w.got /\ "user" \notin said[q]
          BY <2>1, <3>3 DEF WaiterKnows
        <4>2. CASE answer = "user"
          <5>1. new.got /\ new.anyReply /\ new.done
            BY <2>1, <4>1, <4>2 DEF Heard, Waiter
          <5> QED BY <2>5, <4>2, <5>1 DEF WaiterKnows
        <4>3. CASE answer # "user"
          <5>1. /\ ~new.got /\ new.anyReply /\ new.pending = w.pending \ {s}
                /\ new.done <=> w.pending \ {s} = {}
            BY <2>1, <4>1, <4>3 DEF Heard, Waiter
          <5>2. \A t \in Sids : <<t, q>> \in asked' => t \in w.pending \ {s}
            BY <1>1, <2>1, <4>1 DEF WaiterKnows
          <5> QED BY <2>5, <4>1, <4>3, <5>1, <5>2 DEF WaiterKnows
        <4> QED BY <4>2, <4>3
      <3> QED BY <3>2, <3>3
    <2>7. CallSafe(q)'
      <3>1. Truthful(q)'
        BY <2>5, NoWaiter DEF Truthful, Verdict
      <3>2. waiters'[q] # None
        BY <2>3, <2>5, NoWaiter
      <3> QED BY <2>5, <2>6, <3>1, <3>2 DEF CallSafe
    <2> QED BY <1>1, <1>2, <2>2, <2>4, <2>7, OneCallSafe DEF RelayTypeOK
  <1> QED BY <1>3, <1>4

LEMMA FailWaitersSafe ==
    ASSUME RelayInv, NEW s \in Sids, FailWaitersFor(s)
    PROVE  RelayInv'
  <1>1. /\ waiters' = [q \in Calls |-> IF waiters[q] = None THEN None ELSE Dropped(waiters[q], s)]
        /\ asked' = {a \in asked : a[1] # s}
        /\ verdict' = verdict /\ said' = said /\ RelayTypeOK
    BY DEF FailWaitersFor, RelayInv
  <1>2. ASSUME NEW q \in Calls, waiters[q] # None
        PROVE  waiters'[q] \in Waiter /\ WaiterKnows(q)'
    <2>1. waiters[q] \in Waiter /\ WaiterKnows(q) /\ waiters'[q] = Dropped(waiters[q], s)
      BY <1>1, <1>2 DEF RelayInv, RelayTypeOK, CallSafe
    <2>2. waiters'[q] \in Waiter
      BY <2>1, DroppedType
    <2>3. \A t \in Sids : <<t, q>> \in asked' <=> t # s /\ <<t, q>> \in asked
      BY <1>1
    <2>4. CASE s \notin waiters[q].pending \/ waiters[q].done
      <3>1. waiters'[q] = waiters[q]
        BY <1>2, <2>1, <2>4 DEF Dropped
      <3> QED BY <1>1, <2>1, <2>2, <2>3, <3>1 DEF WaiterKnows
    <2>5. CASE s \in waiters[q].pending /\ ~waiters[q].done
      <3>1. /\ ~waiters[q].got
            /\ waiters'[q].got = waiters[q].got /\ waiters'[q].anyReply = waiters[q].anyReply
            /\ waiters'[q].pending = waiters[q].pending \ {s}
            /\ waiters'[q].done => waiters[q].pending = {s}
        BY <1>2, <2>1, <2>5 DEF Dropped, Waiter, WaiterKnows
      <3> QED BY <1>1, <2>1, <2>2, <2>3, <3>1 DEF WaiterKnows
    <2> QED BY <2>4, <2>5
  <1>3. ASSUME NEW q \in Calls, waiters[q] = None
        PROVE  waiters'[q] = None
    BY <1>1, <1>3
  <1>4. RelayTypeOK'
    <2>1. waiters' \in [Calls -> Waiter \cup {None}]
      BY <1>1, <1>2, <1>3
    <2> QED BY <1>1, <2>1 DEF RelayTypeOK
  <1>5. ASSUME NEW q \in Calls PROVE CallSafe(q)'
    <2>1. CallSafe(q)
      BY DEF RelayInv
    <2>2. NotBegun(q) => NotBegun(q)'
      BY <1>1 DEF NotBegun
    <2>3. Truthful(q)'
      BY <1>1, <2>1 DEF CallSafe, Truthful
    <2> QED BY <1>1, <1>2, <1>3, <2>1, <2>2, <2>3, NoWaiter DEF CallSafe
  <1> QED BY <1>4, <1>5 DEF RelayInv

LEMMA RelayAlways == Spec => []RelayInv
  <1>1. ASSUME RelayInv, [Next]_vars PROVE RelayInv'
    <2>1. CASE UNCHANGED relayVars
      BY <1>1, <2>1 DEF relayVars, RelayInv, RelayTypeOK, CallSafe, Truthful, WaiterKnows, NotBegun
    <2> QED BY <1>1, <2>1, RelayMoves, VerifyCallSafe, VerifyReturnsSafe, VerifyResultSafe,
               FailWaitersSafe DEF RelayMove
  <1> QED BY <1>1, RelayInitSafe, PTL DEF Spec

(* A verdict is what scripts said in time, however answers, departures and *)
(* the time limit of tmc_verify race.                                      *)
THEOREM RelayTruthful == Spec => []VerifyTruthful
  <1>1. RelayInv => VerifyTruthful
    BY DEF RelayInv, CallSafe, Truthful, VerifyTruthful
  <1> QED BY <1>1, RelayAlways, PTL

-----------------------------------------------------------------------------
(* The broadcasts *)

(* A code the table let through is still in it, at least as late, or its   *)
(* window is over.                                                         *)
Marked(i) ==
    drops[i].way \in {"everyone", "license"} =>
        \/ recent[Key(drops[i].code)] # None /\ recent[Key(drops[i].code)] >= drops[i].at
        \/ clock - drops[i].at >= Window

BroadcastInv ==
    /\ BroadcastTypeOK
    /\ \A i \in 1..Len(drops) : drops[i].at <= clock /\ Marked(i)
    /\ OncePerWindow

LEMMA KeyType ==
    ASSUME NEW c \in Codes
    PROVE  Key(c) \in Codes
  BY BroadcastAssumption DEF Key

LEMMA BroadcastInitSafe == Init => BroadcastInv
  <1> SUFFICES ASSUME Init PROVE BroadcastInv
    OBVIOUS
  <1>1. BroadcastInit(In("broadcast") /\ exercise.option)
    BY DEF Init
  <1>2. (In("broadcast") /\ exercise.option) \in BOOLEAN
    OBVIOUS
  <1>3. NoStream \in Stream /\ NoStream.queue = <<>>
    BY DEF NoStream, Stream
  <1>4. BroadcastTypeOK
    BY <1>1, <1>2, <1>3, BroadcastAssumption DEF BroadcastInit, BroadcastTypeOK
  <1>5. Len(drops) = 0
    BY <1>1 DEF BroadcastInit
  <1> QED BY <1>4, <1>5 DEF BroadcastInv, OncePerWindow

(* Marking a code leaves what Marked says of the drops so far.             *)
LEMMA MarkKeeps ==
    ASSUME BroadcastInv, NEW c \in Codes, Mark(c),
           clock' = clock, everyCodeSame' = everyCodeSame
    PROVE  /\ recent' \in [Codes -> 0..MaxClock \cup {None}]
           /\ ~Duplicate(c) => recent'[Key(c)] = clock
           /\ \A i \in 1..Len(drops) :
                 drops[i].way \in {"everyone", "license"} =>
                     \/ /\ recent'[Key(drops[i].code)] # None
                        /\ recent'[Key(drops[i].code)] >= drops[i].at
                     \/ clock - drops[i].at >= Window
  <1>1. recent \in [Codes -> 0..MaxClock \cup {None}] /\ clock \in 0..MaxClock /\ drops \in Seq(Drop)
    BY DEF BroadcastInv, BroadcastTypeOK
  <1>2. recent' = [k \in Codes |->
            IF k = Key(c) /\ ~Duplicate(c) THEN clock ELSE IF Expired(k) THEN None ELSE recent[k]]
    BY DEF Mark
  <1>3. recent' \in [Codes -> 0..MaxClock \cup {None}]
    BY <1>1, <1>2
  <1>4. ~Duplicate(c) => recent'[Key(c)] = clock
    BY <1>2, KeyType
  <1>5. ASSUME NEW i \in 1..Len(drops), drops[i].way \in {"everyone", "license"}
        PROVE  \/ /\ recent'[Key(drops[i].code)] # None
                  /\ recent'[Key(drops[i].code)] >= drops[i].at
               \/ clock - drops[i].at >= Window
    <2> DEFINE k == Key(drops[i].code)
    <2>1. drops[i] \in Drop /\ drops[i].at <= clock /\ Marked(i)
      BY <1>1 DEF BroadcastInv
    <2>2. drops[i].code \in Codes /\ drops[i].at \in 0..MaxClock
      BY <2>1 DEF Drop
    <2>3. k \in Codes
      BY <2>2, KeyType
    <2>4. \/ recent[k] # None /\ recent[k] >= drops[i].at
          \/ clock - drops[i].at >= Window
      BY <2>1, <1>5 DEF Marked
    <2>5. CASE clock - drops[i].at >= Window
      BY <2>5
    <2>6. CASE recent[k] # None /\ recent[k] >= drops[i].at
      <3>1. recent[k] \in 0..MaxClock
        BY <1>1, <2>3, <2>6
      <3>2. recent'[k] = IF k = Key(c) /\ ~Duplicate(c) THEN clock
                         ELSE IF Expired(k) THEN None ELSE recent[k]
        BY <1>2, <2>3
      <3>3. CASE k = Key(c) /\ ~Duplicate(c)
        BY <3>2, <3>3, <2>1, <1>1, BroadcastAssumption
      <3>4. CASE ~(k = Key(c) /\ ~Duplicate(c)) /\ Expired(k)
        <4>1. recent[k] < clock - Window
          BY <3>4 DEF Expired
        <4> HIDE DEF k
        <4> QED BY <4>1, <3>1, <2>6, <2>2, <1>1, BroadcastAssumption
      <3>5. CASE ~(k = Key(c) /\ ~Duplicate(c)) /\ ~Expired(k)
        BY <3>2, <3>5, <2>6
      <3> QED BY <3>3, <3>4, <3>5
    <2> QED BY <2>4, <2>5, <2>6
  <1> QED BY <1>3, <1>4, <1>5

(* A code that is not a duplicate is not in its window.                    *)
LEMMA NotInWindow ==
    ASSUME BroadcastInv, NEW c \in Codes, ~Duplicate(c),
           NEW i \in 1..Len(drops), drops[i].way \in {"everyone", "license"},
           Key(drops[i].code) = Key(c)
    PROVE  clock - drops[i].at >= Window
  <1> DEFINE k == Key(c)
  <1>1. recent \in [Codes -> 0..MaxClock \cup {None}] /\ clock \in 0..MaxClock /\ drops \in Seq(Drop)
    BY DEF BroadcastInv, BroadcastTypeOK
  <1>2. drops[i] \in Drop /\ drops[i].at <= clock /\ Marked(i)
    BY <1>1 DEF BroadcastInv
  <1>3. drops[i].at \in 0..MaxClock /\ k \in Codes
    BY <1>2, KeyType DEF Drop
  <1>4. CASE recent[k] # None /\ recent[k] >= drops[i].at
    <2>1. recent[k] \in 0..MaxClock
      BY <1>1, <1>3, <1>4
    <2>2. Expired(k) \/ clock - recent[k] >= Window
      <3>1. ~(clock - recent[k] < Window) \/ Expired(k)
        BY <1>4 DEF Duplicate
      <3> QED BY <3>1, <2>1, <1>1, BroadcastAssumption
    <2>3. clock - recent[k] >= Window
      BY <2>1, <2>2, <1>1, BroadcastAssumption DEF Expired
    <2> HIDE DEF k
    <2> QED BY <1>1, <1>3, <1>4, <2>1, <2>3, BroadcastAssumption
  <1> QED BY <1>2, <1>4 DEF Marked

(* One drop more: those before it stand, and it is apart from each that    *)
(* passed the table as it did.                                             *)
LEMMA SendSafe ==
    ASSUME BroadcastInv, NEW way \in Ways, NEW c \in Codes, NEW to \in SUBSET (Sids \cup Streams),
           Len(drops) < MaxDrops, Send(way, c, to),
           clock' = clock, everyCodeSame' = everyCodeSame,
           recent' \in [Codes -> 0..MaxClock \cup {None}],
           streams' \in [Streams -> Stream], \A x \in Streams : Len(streams'[x].queue) <= QueueMax,
           \A i \in 1..Len(drops) :
                 drops[i].way \in {"everyone", "license"} =>
                     \/ /\ recent'[Key(drops[i].code)] # None
                        /\ recent'[Key(drops[i].code)] >= drops[i].at
                     \/ clock - drops[i].at >= Window,
           way \in {"everyone", "license"} => ~Duplicate(c) /\ recent'[Key(c)] = clock
    PROVE  BroadcastInv'
  <1> DEFINE d == [way |-> way, code |-> c, at |-> clock, to |-> to]
             n == Len(drops)
  <1>1. /\ recent \in [Codes -> 0..MaxClock \cup {None}] /\ clock \in 0..MaxClock
        /\ drops \in Seq(Drop) /\ n \in Nat /\ MaxDrops \in Nat
    BY BroadcastAssumption DEF BroadcastInv, BroadcastTypeOK
  <1>2. d \in Drop
    BY <1>1 DEF Drop
  <1>3. drops' = Append(drops, d)
    BY DEF Send
  <1>4. /\ drops' \in Seq(Drop) /\ Len(drops') = n + 1 /\ drops'[n + 1] = d
        /\ \A i \in 1..n : drops'[i] = drops[i]
    <2> HIDE DEF d
    <2> QED BY <1>1, <1>2, <1>3
  <1>5. BroadcastTypeOK'
    <2>1. n + 1 <= MaxDrops
      BY <1>1
    <2> QED BY <1>1, <1>4, <2>1 DEF BroadcastInv, BroadcastTypeOK
  <1>6. \A x : Key(x)' = Key(x)
    BY DEF Key
  <1>7. ASSUME NEW i \in 1..Len(drops') PROVE drops'[i].at <= clock' /\ Marked(i)'
    <2>1. CASE i \in 1..n
      <3>1. drops'[i] = drops[i] /\ drops[i].at <= clock
        BY <1>4, <2>1 DEF BroadcastInv
      <3> QED BY <1>6, <2>1, <3>1 DEF Marked
    <2>2. CASE i = n + 1
      <3>1. drops'[i].at = clock /\ drops'[i].way = way /\ drops'[i].code = c
        BY <1>4, <2>2
      <3>2. way \in {"everyone", "license"} => recent'[Key(c)] # None /\ recent'[Key(c)] >= clock
        BY <1>1, BroadcastAssumption
      <3> QED BY <1>1, <1>6, <3>1, <3>2 DEF Marked
    <2> QED BY <1>1, <1>4, <2>1, <2>2
  <1>8. ASSUME NEW i \in 1..Len(drops'), NEW j \in 1..Len(drops'),
               i < j, {drops'[i].way, drops'[j].way} \subseteq {"everyone", "license"},
               Key(drops'[i].code) = Key(drops'[j].code),
               drops'[i].to \cap drops'[j].to # {}
        PROVE  drops'[j].at - drops'[i].at >= Window
    <2>1. i \in 1..n /\ drops'[i] = drops[i]
      BY <1>1, <1>4, <1>8
    <2>2. CASE j \in 1..n
      <3>1. drops'[j] = drops[j]
        BY <1>4, <2>2
      <3> QED BY <1>8, <2>1, <2>2, <3>1 DEF BroadcastInv, OncePerWindow
    <2>3. CASE j = n + 1
      <3>1. drops'[j].at = clock /\ drops'[j].way = way /\ drops'[j].code = c
        BY <1>4, <2>3
      <3>2. ~Duplicate(c)
        BY <1>8, <3>1
      <3>3. drops[i].way \in {"everyone", "license"} /\ Key(drops[i].code) = Key(c)
        BY <1>8, <2>1, <3>1
      <3>4. clock - drops[i].at >= Window
        BY <2>1, <3>2, <3>3, NotInWindow
      <3> QED BY <2>1, <3>1, <3>4
    <2> QED BY <1>1, <1>4, <2>2, <2>3
  <1>9. OncePerWindow'
    BY <1>8 DEF OncePerWindow, Key
  <1> QED BY <1>5, <1>7, <1>9 DEF BroadcastInv

(* A step that sends nothing.                                              *)
LEMMA SilentSafe ==
    ASSUME BroadcastInv, drops' = drops, everyCodeSame' = everyCodeSame,
           clock' \in 0..MaxClock, clock' >= clock,
           recent' \in [Codes -> 0..MaxClock \cup {None}],
           streams' \in [Streams -> Stream], \A x \in Streams : Len(streams'[x].queue) <= QueueMax,
           \A i \in 1..Len(drops) :
                 drops[i].way \in {"everyone", "license"} =>
                     \/ /\ recent'[Key(drops[i].code)] # None
                        /\ recent'[Key(drops[i].code)] >= drops[i].at
                     \/ clock - drops[i].at >= Window
    PROVE  BroadcastInv'
  <1>1. clock \in 0..MaxClock /\ drops \in Seq(Drop)
    BY DEF BroadcastInv, BroadcastTypeOK
  <1>2. BroadcastTypeOK'
    BY DEF BroadcastInv, BroadcastTypeOK
  <1>3. \A x : Key(x)' = Key(x)
    BY DEF Key
  <1>4. ASSUME NEW i \in 1..Len(drops) PROVE drops[i].at <= clock' /\ Marked(i)'
    <2>1. drops[i] \in Drop /\ drops[i].at <= clock
      BY <1>1 DEF BroadcastInv
    <2>2. drops[i].at \in 0..MaxClock
      BY <2>1 DEF Drop
    <2>3. clock - drops[i].at >= Window => clock' - drops[i].at >= Window
      BY <1>1, <2>2, BroadcastAssumption
    <2>4. drops[i].at <= clock'
      BY <1>1, <2>1, <2>2, BroadcastAssumption
    <2> QED BY <1>3, <2>3, <2>4 DEF Marked
  <1>5. OncePerWindow'
    BY <1>3 DEF BroadcastInv, OncePerWindow
  <1> QED BY <1>2, <1>4, <1>5 DEF BroadcastInv

LEMMA QueuedType ==
    ASSUME BroadcastTypeOK, NEW k \in Streams, NEW c \in Codes
    PROVE  Queued(k, c) \in Stream /\ Len(Queued(k, c).queue) <= QueueMax
  <1> DEFINE r == streams[k]
  <1>1. r \in Stream /\ Len(r.queue) <= QueueMax /\ r.queue \in Seq(Codes) /\ QueueMax \in Nat
    BY BroadcastAssumption DEF BroadcastTypeOK, Stream
  <1>2. CASE r.entry /\ Len(r.queue) < QueueMax
    <2>1. Queued(k, c) = [r EXCEPT !.queue = Append(r.queue, c)]
      BY <1>2 DEF Queued
    <2>2. Append(r.queue, c) \in Seq(Codes) /\ Len(Append(r.queue, c)) = Len(r.queue) + 1
          /\ Len(r.queue) \in Nat
      BY <1>1
    <2>3. Len(r.queue) + 1 <= QueueMax
      BY <1>1, <1>2, <2>2
    <2> QED BY <1>1, <2>1, <2>2, <2>3 DEF Stream
  <1>3. CASE ~(r.entry /\ Len(r.queue) < QueueMax)
    BY <1>1, <1>3 DEF Queued
  <1> QED BY <1>2, <1>3

LEMMA RemovedType ==
    ASSUME NEW r \in Stream
    PROVE  Removed(r) \in Stream /\ Removed(r).queue = <<>>
  <1>1. <<>> \in Seq(Codes)
    OBVIOUS
  <1> DEFINE e == <<>>
  <1> HIDE DEF e
  <1>2. Removed(r) = [r EXCEPT !.entry = FALSE, !.queue = e, !.health = "none"]
    BY DEF Removed, e
  <1>3. [r EXCEPT !.entry = FALSE, !.queue = e, !.health = "none"] \in Stream
    <2>1. e \in Seq(Codes)
      BY <1>1 DEF e
    <2> QED BY <2>1 DEF Stream
  <1>4. [r EXCEPT !.entry = FALSE, !.queue = e, !.health = "none"].queue = e
    BY DEF Stream
  <1> QED BY <1>2, <1>3, <1>4 DEF e

LEMMA StreamType ==
    ASSUME BroadcastInv, CleanupStale \/ \E k \in Streams : StreamStep(k)
    PROVE  /\ streams' \in [Streams -> Stream] /\ \A x \in Streams : Len(streams'[x].queue) <= QueueMax
           /\ OnlyStreams
  <1>1. /\ streams \in [Streams -> Stream] /\ \A x \in Streams : Len(streams[x].queue) <= QueueMax
        /\ QueueMax \in Nat
    BY BroadcastAssumption DEF BroadcastInv, BroadcastTypeOK
  <1>2. \A r \in Stream : Removed(r) \in Stream /\ Len(Removed(r).queue) = 0
    BY RemovedType
  <1>3. CASE CleanupStale
    <2>1. OnlyStreams /\ streams' = [k \in Streams |->
             IF streams[k].health = "stale" THEN Removed(streams[k]) ELSE streams[k]]
      BY <1>3 DEF CleanupStale
    <2> QED BY <1>1, <1>2, <2>1
  <1>4. ASSUME NEW k \in Streams, StreamStep(k)
        PROVE  OnlyStreams /\ \E r \in Stream : Len(r.queue) <= QueueMax /\ Becomes(k, r)
    <2> DEFINE r == streams[k]
    <2>1. r \in Stream /\ Len(r.queue) <= QueueMax /\ r.queue \in Seq(Codes) /\ Len(r.queue) \in Nat
      BY <1>1 DEF Stream
    <2>2. CASE OpenStream(k)
      <3>1. Added(k) \in Stream /\ Len(Added(k).queue) = 0
        BY DEF Added, Stream
      <3> QED BY <1>1, <2>2, <3>1 DEF OpenStream
    <2>3. CASE StartStream(k)
      <3>1. /\ [r EXCEPT !.gen = "running"] \in Stream /\ [r EXCEPT !.gen = "ended"] \in Stream
            /\ [r EXCEPT !.gen = "running"].queue = r.queue
            /\ [r EXCEPT !.gen = "ended"].queue = r.queue
        BY <2>1 DEF Stream
      <3> QED BY <2>1, <2>3, <3>1 DEF StartStream
    <2>4. CASE ReadCode(k)
      <3>1. r.queue # <<>>
        BY <2>4 DEF ReadCode
      <3>2. Tail(r.queue) \in Seq(Codes) /\ Len(Tail(r.queue)) = Len(r.queue) - 1
        BY <2>1, <3>1
      <3>3. /\ [r EXCEPT !.queue = Tail(r.queue)] \in Stream
            /\ [r EXCEPT !.queue = Tail(r.queue)].queue = Tail(r.queue)
        BY <2>1, <3>2 DEF Stream
      <3>4. Len(Tail(r.queue)) <= QueueMax
        BY <1>1, <2>1, <3>2
      <3> QED BY <2>4, <3>3, <3>4 DEF ReadCode
    <2>5. CASE Keepalive(k) \/ Pong(k)
      <3>1. /\ [r EXCEPT !.health = "fresh"] \in Stream
            /\ [r EXCEPT !.health = "fresh"].queue = r.queue
        BY <2>1 DEF Stream
      <3> QED BY <2>1, <2>5, <3>1 DEF Keepalive, Pong
    <2>6. CASE ClientGone(k)
      <3>1. /\ [r EXCEPT !.client = FALSE] \in Stream
            /\ [r EXCEPT !.client = FALSE].queue = r.queue
        BY <2>1 DEF Stream
      <3> QED BY <2>1, <2>6, <3>1 DEF ClientGone
    <2>7. CASE GeneratorEnds(k)
      <3> DEFINE gone == Removed(r)
      <3>1. gone \in Stream /\ gone.queue = <<>>
        BY <2>1, RemovedType
      <3> HIDE DEF gone
      <3>2. /\ [gone EXCEPT !.gen = "ended"] \in Stream
            /\ [gone EXCEPT !.gen = "ended"].queue = <<>>
        BY <3>1 DEF Stream
      <3>3. Len([gone EXCEPT !.gen = "ended"].queue) <= QueueMax
        BY <1>1, <3>2
      <3>4. OnlyStreams /\ Becomes(k, [gone EXCEPT !.gen = "ended"])
        BY <2>7 DEF GeneratorEnds, gone
      <3> QED BY <3>2, <3>3, <3>4
    <2>8. CASE GoesStale(k)
      <3>1. /\ [r EXCEPT !.health = "stale"] \in Stream
            /\ [r EXCEPT !.health = "stale"].queue = r.queue
        BY <2>1 DEF Stream
      <3> QED BY <2>1, <2>8, <3>1 DEF GoesStale
    <2> QED BY <1>4, <2>2, <2>3, <2>4, <2>5, <2>6, <2>7, <2>8 DEF StreamStep
  <1> QED BY <1>1, <1>3, <1>4 DEF Becomes

LEMMA BroadcastAlways == Spec => []BroadcastInv
  <1>1. ASSUME BroadcastInv, Chosen, [Next]_vars PROVE BroadcastInv'
    <2>1. /\ BroadcastTypeOK
          /\ \A i \in 1..Len(drops) : drops[i].at <= clock /\ Marked(i)
      BY <1>1 DEF BroadcastInv
    <2>2. /\ clock \in 0..MaxClock /\ recent \in [Codes -> 0..MaxClock \cup {None}]
          /\ streams \in [Streams -> Stream] /\ \A x \in Streams : Len(streams[x].queue) <= QueueMax
      BY <2>1 DEF BroadcastTypeOK
    <2>3. \A i \in 1..Len(drops) :
             drops[i].way \in {"everyone", "license"} =>
                 \/ recent[Key(drops[i].code)] # None /\ recent[Key(drops[i].code)] >= drops[i].at
                 \/ clock - drops[i].at >= Window
      BY <2>1 DEF Marked
    <2>4. Live \subseteq Sids \cup Streams /\ Registered \subseteq Sids \cup Streams
      BY DEF Live, Registered
    <2>5. CASE Tick
      BY <1>1, <2>2, <2>3, <2>5, SilentSafe, BroadcastAssumption DEF Tick
    <2>6. CASE CleanupStale \/ \E k \in Streams : StreamStep(k)
      BY <1>1, <2>2, <2>3, <2>6, SilentSafe, StreamType, BroadcastAssumption DEF OnlyStreams
    <2>7. ASSUME NEW c \in Codes, DropToLicense(c) PROVE BroadcastInv'
      <3>1. Mark(c) /\ clock' = clock /\ everyCodeSame' = everyCodeSame /\ streams' = streams
            /\ Len(drops) < MaxDrops
        BY <2>7 DEF DropToLicense
      <3>2. CASE Duplicate(c)
        BY <1>1, <2>2, <2>7, <3>1, <3>2, MarkKeeps, SilentSafe DEF DropToLicense
      <3>3. CASE ~Duplicate(c)
        <4>1. Send("license", c, Live) /\ "license" \in Ways
          BY <2>7, <3>3 DEF DropToLicense, Ways
        <4> QED BY <1>1, <2>2, <2>4, <3>1, <3>3, <4>1, MarkKeeps, SendSafe
      <3> QED BY <3>2, <3>3
    <2>8. ASSUME NEW c \in Codes, DropToEveryone(c) PROVE BroadcastInv'
      <3>1. Mark(c) /\ clock' = clock /\ everyCodeSame' = everyCodeSame /\ Len(drops) < MaxDrops
        BY <2>8 DEF DropToEveryone
      <3>2. CASE Duplicate(c)
        BY <1>1, <2>2, <2>8, <3>1, <3>2, MarkKeeps, SilentSafe DEF DropToEveryone
      <3>3. CASE ~Duplicate(c)
        <4>1. Send("everyone", c, Live \cup Registered) /\ "everyone" \in Ways
              /\ streams' = [k \in Streams |-> Queued(k, c)]
          BY <2>8, <3>3 DEF DropToEveryone, Ways
        <4>2. streams' \in [Streams -> Stream] /\ \A x \in Streams : Len(streams'[x].queue) <= QueueMax
          BY <2>1, <4>1, QueuedType
        <4>3. Live \cup Registered \in SUBSET (Sids \cup Streams)
          BY <2>4
        <4> QED BY <1>1, <3>1, <3>3, <4>1, <4>2, <4>3, MarkKeeps, SendSafe
      <3> QED BY <3>2, <3>3
    <2>9. ASSUME NEW c \in Codes, DropByOwner(c) PROVE BroadcastInv'
      BY <1>1, <2>2, <2>3, <2>4, <2>9, SendSafe DEF DropByOwner, Ways
    <2>10. ASSUME NEW c \in Codes, NEW u \in Users, DropToUser(c, u) PROVE BroadcastInv'
      <3>1. SessionsOf(u) \in SUBSET (Sids \cup Streams)
        BY DEF SessionsOf, Live
      <3> QED BY <1>1, <2>2, <2>3, <2>10, <3>1, SendSafe DEF DropToUser, Ways
    <2>11. CASE UNCHANGED broadcastVars
      BY <1>1, <2>11, <2>2, <2>3, SilentSafe, BroadcastAssumption DEF broadcastVars
    <2> QED BY <1>1, <2>5, <2>6, <2>7, <2>8, <2>9, <2>10, <2>11, BroadcastMoves DEF BroadcastMove, Chosen
  <1> QED BY <1>1, BroadcastInitSafe, ChosenOnce, PTL DEF Spec

(* Within the window nobody gets a code twice from the operator's page,    *)
(* however streams, codes to users and codes of owners come in between.    *)
THEOREM SentOncePerWindow == Spec => []OncePerWindow
  <1>1. BroadcastInv => OncePerWindow
    BY DEF BroadcastInv
  <1> QED BY <1>1, BroadcastAlways, PTL
=============================================================================
