--------------------------- MODULE ClaimPipeline ---------------------------
(***************************************************************************)
(* on_user_claim, the broadcast of codes it answers and what follows: in   *)
(* the main product the results told to people (DropResults) and the money *)
(* (Conversions); in the slot product, which another process runs with     *)
(* API_CLAIMER_MODE, the ledger of ApiClaims. The product is chosen at the *)
(* start.                                                                  *)
(***************************************************************************)
EXTENDS Conversions, DropResults, ApiClaims

CONSTANTS
    BonusMax,       \* _BONUS_CODES_MAX
    Exercises       \* what is played: the product (Config.API_CLAIMER_MODE), who owns
                    \* its slots, the currencies scripts report in, and a bound on claims,
                    \* windows of the report, losses and errors together

ASSUME PipelineConstants ==
    /\ BonusMax \in Nat \ {0}
    /\ Exercises \subseteq [mode: {"main", "api"}, owner: Buyers \cup {None},
                        currencies: SUBSET Currencies, events: Nat]

VARIABLES
    exercise,
    bonus,      \* _bonus_codes, oldest first
    reported    \* claims reported so far

pipelineVars == <<exercise, bonus, reported>>
vars == <<conversionVars, dropVars, apiVars, pipelineVars>>

TypeOK ==
    /\ ConversionTypeOK /\ DropTypeOK /\ ApiTypeOK
    /\ exercise \in Exercises
    /\ bonus \in Seq(Codes) /\ Len(bonus) <= BonusMax
    /\ reported \in 0..exercise.events

Init ==
    /\ ConversionInit /\ DropInit /\ ApiInit
    /\ exercise \in Exercises
    /\ owner = [s \in Slots |-> exercise.owner]
    /\ bonus = <<>> /\ reported = 0

-----------------------------------------------------------------------------
IsBonus(c) == \E i \in DOMAIN bonus : bonus[i] = c

(* _mark_bonus_code *)
Remembered(c) ==
    LET s == Append(RemoveFirst(bonus, c), c)
    IN IF Len(s) > BonusMax THEN Tail(s) ELSE s

(* The code is announced to the admins' report, and, if it is a bonus, remembered as
   one, before it is fanned out. *)
Broadcast(c, isBonus) ==
    /\ ScheduleOrExtend(c)
    /\ bonus' = IF isBonus THEN Remembered(c) ELSE bonus
    /\ UNCHANGED <<conversionVars, exercise, reported>>

(* BONUS_CODE_TTL_S *)
ExpireBonus ==
    /\ bonus # <<>>
    /\ bonus' = Tail(bonus)
    /\ UNCHANGED <<conversionVars, dropVars, exercise, reported>>

(* userClaim of a drop. The money does not depend on the dedup of the results; a
   script may say that the coupon is a bonus, and old ones do not. *)
UserClaim(l, u, c, currency, outcome, paid, saysBonus) ==
    /\ reported' = reported + 1
    /\ DropResult(l, u, c, currency, outcome)
    /\ IF outcome = "claimed" /\ ~IsBonus(c) /\ ~saysBonus
       THEN RecordClaimAmount(<<u, c>>, l, paid)
       ELSE UNCHANGED conversionVars
    /\ UNCHANGED <<exercise, bonus>>

(* A user of the legacy stream posts to /convert-to-usd. *)
Convert(c) ==
    /\ reported' = reported + 1
    /\ ConvertToUsd(c)
    /\ UNCHANGED <<dropVars, exercise, bonus>>

Restart ==
    /\ ForgetConversions /\ ForgetDrops
    /\ bonus' = <<>>
    /\ UNCHANGED <<exercise, reported>>

MainProduct ==
    /\ exercise.mode = "main"
    /\ \/ \E l \in Licenses, u \in Users, c \in Codes, currency \in exercise.currencies,
            outcome \in Category, paid \in BOOLEAN, saysBonus \in BOOLEAN :
            /\ (paid \/ saysBonus) => outcome = "claimed"
            /\ UserClaim(l, u, c, currency, outcome, paid, saysBonus)
       \/ \E c \in Claims : Convert(c)
       \/ \E c \in Codes, isBonus \in BOOLEAN : Broadcast(c, isBonus)
       \/ ExpireBonus
       \/ ConversionWork /\ UNCHANGED <<dropVars, pipelineVars>>
       \/ DropTimers /\ UNCHANGED <<conversionVars, pipelineVars>>
       \/ Restart
    /\ (reported + broadcasts + forgets + errors)' <= exercise.events
    /\ UNCHANGED apiVars

SlotProduct ==
    /\ exercise.mode = "api"
    /\ ApiWork
    /\ UNCHANGED <<conversionVars, dropVars, pipelineVars>>

Next == MainProduct \/ SlotProduct

Fairness == ConversionFairness /\ DropFairness

Spec == Init /\ [][Next]_vars /\ Fairness
=============================================================================
