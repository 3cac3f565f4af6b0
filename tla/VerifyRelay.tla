----------------------------- MODULE VerifyRelay -----------------------------
(***************************************************************************)
(* The token-verify relay: a request of the Mini App asks up to            *)
(* VERIFY_FANOUT_MAX connected scripts whose Stake account a pasted API    *)
(* token is. The first script to name a user wins; "invalid" wants every   *)
(* script asked to have answered or left; a time limit ends the wait.      *)
(* Answers, departures and the limit race each other and the caller, which *)
(* wakes some time after its event was sent.                               *)
(***************************************************************************)
EXTENDS Presence

CONSTANTS
    Calls,          \* calls of verify_token_via_worker; a call is a req_id
    FanoutMax,      \* VERIFY_FANOUT_MAX
    ConcurrentMax   \* VERIFY_MAX_CONCURRENT

ASSUME RelayAssumption ==
    IsFiniteSet(Calls) /\ None \notin Calls /\ {FanoutMax, ConcurrentMax} \subseteq Nat \ {0}

VARIABLES
    waiters,    \* _verify_waiters
    verdict,    \* what each call returned
    asked,      \* verifyToken messages a script has not answered
    said        \* per call, the answers scripts gave while it waited

relayVars == <<waiters, verdict, asked, said>>

Answers == {"user", "nobody"}
Waiter == [pending: SUBSET Sids, got: BOOLEAN, anyReply: BOOLEAN, done: BOOLEAN]
Verdict == {"valid", "invalid", "unavailable"}

ASSUME NoWaiter == None \notin Waiter /\ None \notin Verdict

Waiting == {q \in Calls : waiters[q] # None}

RelayTypeOK ==
    /\ waiters \in [Calls -> Waiter \cup {None}]
    /\ verdict \in [Calls -> Verdict \cup {None}]
    /\ asked \subseteq Sids \X Calls
    /\ said \in [Calls -> SUBSET Answers]

RelayInit ==
    /\ waiters = [q \in Calls |-> None]
    /\ verdict = [q \in Calls |-> None]
    /\ asked = {}
    /\ said = [q \in Calls |-> {}]

(* verify_token_via_worker until it waits. *)
VerifyCall(q) ==
    /\ waiters[q] = None /\ verdict[q] = None
    /\ IF Live = {} \/ Cardinality(Waiting) >= ConcurrentMax
       THEN verdict' = [verdict EXCEPT ![q] = "unavailable"] /\ UNCHANGED <<waiters, asked>>
       ELSE \E targets \in SUBSET Live :
              /\ Cardinality(targets) =
                    (IF Cardinality(Live) < FanoutMax THEN Cardinality(Live) ELSE FanoutMax)
              /\ waiters' = [waiters EXCEPT ![q] =
                    [pending |-> targets, got |-> FALSE, anyReply |-> FALSE, done |-> FALSE]]
              /\ asked' = asked \cup (targets \X {q})
              /\ UNCHANGED verdict
    /\ UNCHANGED said

(* Bug: the first script to find nobody settles the matter. *)
HeardFirst(w, s, answer) ==
    [w EXCEPT !.anyReply = TRUE, !.got = answer = "user",
              !.pending = IF answer = "user" THEN @ ELSE @ \ {s}, !.done = TRUE]

(* A waiter after the answer of s. *)
Heard(w, s, answer) ==
    LET left == w.pending \ {s}
    IN  IF answer = "user" THEN [w EXCEPT !.anyReply = TRUE, !.got = TRUE, !.done = TRUE]
        ELSE [w EXCEPT !.anyReply = TRUE, !.pending = left, !.done = left = {}]

(* tmc_verify_token_result: a result for no waiter, or a settled one, is   *)
(* ignored.                                                                *)
VerifyResult(s, q, answer) ==
    /\ <<s, q>> \in asked /\ s \in Live
    /\ asked' = asked \ {<<s, q>>}
    /\ IF q \in Waiting
       THEN /\ waiters' = IF waiters[q].done THEN waiters
                          ELSE [waiters EXCEPT ![q] = Heard(waiters[q], s, answer)]
            /\ said' = [said EXCEPT ![q] = @ \cup {answer}]
       ELSE UNCHANGED <<waiters, said>>
    /\ UNCHANGED verdict

(* _fail_verify_waiters_for_sid, the first thing tmc_disconnect does. *)
Dropped(w, s) ==
    IF w = None \/ s \notin w.pending \/ w.done THEN w
    ELSE [w EXCEPT !.pending = @ \ {s}, !.done = w.pending = {s} /\ ~w.got]

FailWaitersFor(s) ==
    /\ waiters' = [q \in Calls |-> IF waiters[q] = None THEN None ELSE Dropped(waiters[q], s)]
    /\ asked' = {a \in asked : a[1] # s}
    /\ UNCHANGED <<verdict, said>>

(* The caller wakes, by its event or by VERIFY_TIMEOUT_S, and always takes *)
(* its waiter away.                                                        *)
VerifyReturns(q) ==
    /\ q \in Waiting
    /\ verdict' = [verdict EXCEPT ![q] =
          IF waiters[q].got THEN "valid"
          ELSE IF waiters[q].anyReply THEN "invalid" ELSE "unavailable"]
    /\ waiters' = [waiters EXCEPT ![q] = None]
    /\ UNCHANGED <<asked, said>>

(* A token is called valid only if a script named its user, invalid only   *)
(* if some script looked and none that answered in time found a user (a    *)
(* buyer with a good token is not turned away because one script could not *)
(* see it), and unavailable only if no script answered.                    *)
VerifyTruthful ==
    \A q \in Calls :
        /\ verdict[q] = "valid" => "user" \in said[q]
        /\ verdict[q] = "invalid" => said[q] = {"nobody"}
        /\ verdict[q] = "unavailable" => said[q] = {}
=============================================================================
