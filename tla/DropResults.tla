---------------------------- MODULE DropResults ----------------------------
(***************************************************************************)
(* What people are told about a drop: the summary of a licence's results,  *)
(* five seconds after the first of them, and the admins' report of all the *)
(* responses to a code, ten seconds after its broadcast. Both are fed by   *)
(* the results that the 90-second dedup of userClaim lets through.         *)
(*                                                                         *)
(* The two stores share one lock, and no holder of it waits: a call is one *)
(* step, a timer is another. Time is abstracted: a timer may fire at any   *)
(* moment; a window knows only whether its deadline has moved away from    *)
(* the timer that is set for it.                                           *)
(***************************************************************************)
EXTENDS ClaimParties, Integers, SequencesExt

CONSTANTS
    Currencies,     \* what results are in; one that names none is in usdt
    CollectorsMax,  \* _CLAIM_COLLECTORS_MAX
    ReportMax,      \* _REPORT_MAX_CODES
    MaxMoves,       \* times a window's timer is set again in _REPORT_HARD_MAX
    MaxBroadcasts   \* bound on windows of the report

ASSUME DropConstants ==
    /\ {CollectorsMax, ReportMax} \subseteq Nat \ {0}
    /\ {MaxMoves, MaxBroadcasts} \subseteq Nat

VARIABLES
    dedup,      \* _claim_dedup
    buckets,    \* _claim_collectors, in order of insertion
    summaries,  \* the timers of _fire_consolidated_drop_summary
    tallies,    \* _response_tallies, least recently touched first
    reports,    \* the timers of _fire_response_report
    genSeq,     \* _report_gen_seq, one for each timer ever armed
    broadcasts, \* those that opened a window
    shown,      \* key -> what the owner was last told of its user when it was told of
    sent        \* code -> totals told to the admins since its entry exists

dropVars == <<dedup, buckets, summaries, tallies, reports, genSeq, broadcasts, shown, sent>>

Keys == Licenses \X Users \X Codes \X Currencies   \* the task_type is drop
Outcome == {"none", "failed", "claimed"}
Category == {"claimed", "failed"}       \* the labels of failures are one category
Bucket == [license: Licenses, code: Codes, results: SUBSET (Users \X Currencies \X Category)]
Counts == [Category -> Nat]
NoCounts == [x \in Category |-> 0]
Tally == [code: Codes, gen: 1..MaxBroadcasts, counts: Counts, reported: Counts,
          users: SUBSET (Licenses \X Users), pending: BOOLEAN, moved: BOOLEAN,
          moves: 0..MaxMoves]

DropTypeOK ==
    /\ dedup \in [Keys -> Outcome] /\ shown \in [Keys -> Outcome]
    /\ buckets \in Seq(Bucket) /\ Len(buckets) <= CollectorsMax
    /\ summaries \in [Licenses \X Codes -> Nat]
    /\ tallies \in Seq(Tally) /\ Len(tallies) <= ReportMax
    /\ reports \subseteq [code: Codes, gen: 1..MaxBroadcasts]
    /\ genSeq \in 0..MaxBroadcasts /\ broadcasts \in 0..MaxBroadcasts
    /\ sent \in [Codes -> Counts]

DropInit ==
    /\ dedup = [k \in Keys |-> "none"] /\ shown = dedup
    /\ buckets = <<>> /\ summaries = [b \in Licenses \X Codes |-> 0]
    /\ tallies = <<>> /\ reports = {}
    /\ genSeq = 0 /\ broadcasts = 0
    /\ sent = [c \in Codes |-> NoCounts]

-----------------------------------------------------------------------------
(* userClaim *)

DuplicateSame(k, outcome) == dedup[k] = outcome        \* mutant

(* _claim_already_recorded: a duplicate, unless a success follows a failure. *)
Duplicate(k, outcome) ==
    \/ dedup[k] = outcome
    \/ dedup[k] = "claimed"

(* _claim_collectors[(l, c)], which has one bucket of a key. *)
BucketAt(l, c) == SelectInSeq(buckets, LAMBDA b : b.license = l /\ b.code = c)

AppendResult(l, u, c, currency, outcome) ==
    LET open == BucketAt(l, c)
        result == <<u, currency, outcome>>
        room == IF Len(buckets) >= CollectorsMax THEN Tail(buckets) ELSE buckets
    IN IF open # 0
       THEN /\ buckets' = [buckets EXCEPT ![open].results = @ \cup {result}]
            /\ UNCHANGED summaries
       ELSE /\ buckets' = Append(room, [license |-> l, code |-> c, results |-> {result}])
            /\ summaries' = [summaries EXCEPT ![<<l, c>>] = @ + 1]

(* _fold_response_tally: a success counts once per user and window. *)
Folded(t, l, u, outcome) ==
    IF outcome = "claimed" /\ <<l, u>> \in t.users
    THEN t
    ELSE [t EXCEPT !.counts[outcome] = @ + 1,
                   !.users = IF outcome = "claimed" THEN @ \cup {<<l, u>>} ELSE @]

FoldResponse(l, u, c, outcome) ==
    tallies' = [i \in DOMAIN tallies |->
                  IF tallies[i].code = c THEN Folded(tallies[i], l, u, outcome) ELSE tallies[i]]

(* _add_drop_result, behind the dedup. *)
DropResult(l, u, c, currency, outcome) ==
    IF Duplicate(<<l, u, c, currency>>, outcome)
    THEN UNCHANGED dropVars
    ELSE /\ dedup' = [dedup EXCEPT ![<<l, u, c, currency>>] = outcome]
         /\ AppendResult(l, u, c, currency, outcome)
         /\ FoldResponse(l, u, c, outcome)
         /\ UNCHANGED <<reports, genSeq, broadcasts, shown, sent>>

-----------------------------------------------------------------------------
(* The summary of a licence and a code. It has one line of a user, whatever the
   currencies: of a user's results the success wins. *)

Told(b, u) == IF \E currency \in Currencies : <<u, currency, "claimed">> \in b.results
              THEN "claimed" ELSE "failed"

(* The bucket holds a result of the key. *)
TellsOf(b, k) == \E outcome \in Category : <<k[2], k[4], outcome>> \in b.results

FireSummary(l, c) ==
    /\ summaries[<<l, c>>] > 0
    /\ summaries' = [summaries EXCEPT ![<<l, c>>] = @ - 1]
    /\ LET i == BucketAt(l, c)
       IN IF i = 0
          THEN UNCHANGED <<buckets, shown>>
          ELSE /\ buckets' = RemoveAt(buckets, i)
               /\ shown' = [k \in Keys |->
                      IF k[1] = l /\ k[3] = c /\ TellsOf(buckets[i], k)
                      THEN Told(buckets[i], k[2]) ELSE shown[k]]
    /\ UNCHANGED <<dedup, tallies, reports, genSeq, broadcasts, sent>>

(* Ninety seconds later, when what the entry let through has long been told. *)
ForgetDedup(k) ==
    /\ dedup[k] # "none"
    /\ \A i \in DOMAIN buckets :
         (buckets[i].license = k[1] /\ buckets[i].code = k[3]) => ~TellsOf(buckets[i], k)
    /\ dedup' = [dedup EXCEPT ![k] = "none"]
    /\ shown' = [shown EXCEPT ![k] = "none"]
    /\ UNCHANGED <<buckets, summaries, tallies, reports, genSeq, broadcasts, sent>>

-----------------------------------------------------------------------------
(* The response report *)

Entry(s, c) == SelectInSeq(s, LAMBDA t : t.code = c)

(* _report_prune: entries untouched for two minutes, from the front. *)
Pruned == {tallies} \cup {SubSeq(tallies, n + 1, Len(tallies)) :
                 n \in {m \in DOMAIN tallies : \A i \in 1..m : ~tallies[i].pending}}

Evict(s) == IF Len(s) > ReportMax THEN Tail(s) ELSE s

(* popped and pushed again: move_to_end *)
Touched(s, i, t) == Append(RemoveAt(s, i), t)

Arm(c) ==
    /\ genSeq' = genSeq + 1
    /\ reports' = reports \cup {[code |-> c, gen |-> genSeq + 1]}

OpenWindow(s, c) ==
    /\ Entry(s, c) = 0
    /\ Arm(c)
    /\ tallies' = Evict(Append(s, [code |-> c, gen |-> genSeq + 1, counts |-> NoCounts,
                                   reported |-> NoCounts, users |-> {},
                                   pending |-> TRUE, moved |-> FALSE, moves |-> 0]))
    /\ sent' = [sent EXCEPT ![c] = NoCounts]

(* Mutants: a window that opens again without a timer, or with its counts reset. *)
ReopenUnarmed(s, c) ==
    LET i == Entry(s, c)
    IN /\ i # 0 /\ ~s[i].pending
       /\ tallies' = Touched(s, i, [s[i] EXCEPT !.users = {}, !.pending = TRUE, !.moved = FALSE,
                                                !.moves = 0])
       /\ UNCHANGED <<genSeq, reports, sent>>

ReopenReset(s, c) ==
    LET i == Entry(s, c)
    IN /\ i # 0 /\ ~s[i].pending
       /\ Arm(c)
       /\ tallies' = Touched(s, i, [s[i] EXCEPT !.gen = genSeq + 1, !.users = {},
                         !.counts = NoCounts, !.pending = TRUE, !.moved = FALSE, !.moves = 0])
       /\ UNCHANGED sent

ReopenWindow(s, c) ==
    LET i == Entry(s, c)
    IN /\ i # 0 /\ ~s[i].pending
       /\ Arm(c)
       /\ tallies' = Touched(s, i, [s[i] EXCEPT !.gen = genSeq + 1, !.users = {}, !.pending = TRUE,
                                                !.moved = FALSE, !.moves = 0])
       /\ UNCHANGED sent

(* Mutant: the window grows without end. *)
ExtendUncapped(s, c) ==
    LET i == Entry(s, c)
    IN /\ i # 0 /\ s[i].pending
       /\ tallies' = Touched(s, i, [s[i] EXCEPT !.moved = TRUE, !.moves = 0])
       /\ UNCHANGED <<genSeq, reports, sent>>

(* The deadline moves away from the timer, but never beyond the window's thirty
   seconds: there is an end to how often the timer finds it moved. *)
ExtendWindow(s, c) ==
    LET i == Entry(s, c)
    IN /\ i # 0 /\ s[i].pending
       /\ \E moved \in {s[i].moved, s[i].moved \/ s[i].moves < MaxMoves} :
             tallies' = Touched(s, i, [s[i] EXCEPT !.moved = moved])
       /\ UNCHANGED <<genSeq, reports, sent>>

(* _schedule_or_extend, called before the code is fanned out. Extending is free:
   a code may be dropped over and over while its window is open. *)
ScheduleOrExtend(c) ==
    /\ \E s \in Pruned :
         \/ /\ broadcasts < MaxBroadcasts
            /\ broadcasts' = broadcasts + 1
            /\ OpenWindow(s, c) \/ ReopenWindow(s, c)
         \/ ExtendWindow(s, c) /\ UNCHANGED broadcasts
    /\ UNCHANGED <<dedup, buckets, summaries, shown>>

FireReport(r) ==
    LET i == Entry(tallies, r.code)
        mine == i # 0 /\ tallies[i].gen = r.gen
    IN /\ r \in reports
       /\ IF mine /\ tallies[i].moved
          THEN /\ tallies' = [tallies EXCEPT ![i].moved = FALSE, ![i].moves = @ + 1]  \* set again
               /\ UNCHANGED <<reports, sent>>
          ELSE /\ reports' = reports \ {r}
               /\ IF mine
                  THEN /\ tallies' = [tallies EXCEPT ![i].pending = FALSE, ![i].reported = tallies[i].counts]
                       /\ sent' = [sent EXCEPT ![r.code] = [x \in Category |->
                                     @[x] + tallies[i].counts[x] - tallies[i].reported[x]]]
                  ELSE UNCHANGED <<tallies, sent>>
       /\ UNCHANGED <<dedup, buckets, summaries, genSeq, broadcasts, shown>>

DropTimers ==
    \/ \E l \in Licenses, c \in Codes : FireSummary(l, c)
    \/ \E k \in Keys : ForgetDedup(k)
    \/ \E r \in reports : FireReport(r)

(* The process is replaced. *)
ForgetDrops ==
    /\ dedup' = [k \in Keys |-> "none"] /\ shown' = dedup'
    /\ buckets' = <<>> /\ summaries' = [b \in Licenses \X Codes |-> 0]
    /\ tallies' = <<>> /\ reports' = {}
    /\ sent' = [c \in Codes |-> NoCounts]
    /\ UNCHANGED <<genSeq, broadcasts>>

DropFairness ==
    \A c \in Codes, g \in 1..MaxBroadcasts : WF_dropVars(FireReport([code |-> c, gen |-> g]))

-----------------------------------------------------------------------------
(* Properties *)

(* Results that are collected have a timer that will tell them, also after their
   collector took the place of one that was evicted; and an open window of the
   report has the timer that was armed for it. *)
TimersArmed ==
    /\ \A i \in DOMAIN buckets : summaries[<<buckets[i].license, buckets[i].code>>] > 0
    /\ \A i \in DOMAIN tallies :
          tallies[i].pending <=> [code |-> tallies[i].code, gen |-> tallies[i].gen] \in reports

(* The reports of a code add up: each response is told in one of them, and those
   that came since the last are what is counted beyond it. *)
ReportsAddUp ==
    \A i \in DOMAIN tallies :
        LET t == tallies[i]
        IN /\ sent[t.code] = t.reported
           /\ \A x \in Category : t.reported[x] <= t.counts[x]
           /\ t.users # {} => t.counts["claimed"] > 0

(* An owner who was told that a user's claim succeeded, in a summary of results in
   some currency among others, is not told on account of later ones in the same
   currency that it failed: late and repeated results are held off by the dedup
   across summaries that are already out. *)
NeverTakenBack ==
    [][\A k \in Keys : shown[k] = "claimed" /\ dedup'[k] # "none" => shown'[k] = "claimed"]_dropVars

(* A window that opened is reported, however often and for however long its code is
   dropped again meanwhile. *)
WindowCloses ==
    \A c \in Codes :
        (\E i \in DOMAIN tallies : tallies[i].code = c /\ tallies[i].pending)
            ~> ~(\E i \in DOMAIN tallies : tallies[i].code = c /\ tallies[i].pending)
=============================================================================
