---------------------------- MODULE MCConnections ----------------------------
(***************************************************************************)
(* Connections for TLC. One user name to the licence and two tabs to a     *)
(* name, so that three sessions meet both limits, of a customer's licence  *)
(* and of the operator's own; three scripts and two calls in the relay, of *)
(* which one may wait; a claimer that reconnects, or runs in two tabs; two *)
(* editors of a place, with and without a row in it at first.              *)
(***************************************************************************)
EXTENDS Connections, TLC

CONSTANTS s1, s2, s3, ann, bob, cl, a1, v1, v2, upper, lower

Fold == [c \in Codes |-> lower]

Plain(name, sids, users) ==
    [name |-> name, sids |-> sids, users |-> users, claimers |-> {None},
     values |-> {}, admins |-> {}, upsets |-> 0,
     api |-> FALSE, admin |-> FALSE, option |-> FALSE]

Managed(name, sids, values, admins, n) ==
    [Plain(name, sids, {ann}) EXCEPT !.claimers = {cl}, !.values = values,
                                     !.admins = admins, !.upsets = n]

AllExercises ==
    {Plain("presence", Sids, Users),
     [Plain("presence", Sids, Users) EXCEPT !.admin = TRUE],
     [Plain("presence", Sids, {ann, Unknown}) EXCEPT !.api = TRUE],
     [Plain("presence", Sids, {ann}) EXCEPT !.claimers = {None, cl}, !.values = {None}],
     Plain("keys", {s1, s2}, {ann}),
     Plain("relay", Sids, {Unknown}),
     Managed("config", {s1}, Value, Admins, 1),
     Managed("config", {s1, s2}, {v1, v2}, {a1}, 1),
     Managed("storage", {s1}, Value, Admins, 2),
     Managed("storage", {s1, s2}, {v1}, Admins, 1),
     Plain("broadcast", {s1}, {ann}),
     [Plain("broadcast", {s1}, {ann}) EXCEPT !.option = TRUE],
     [Plain("slots", {s1}, {ann}) EXCEPT !.api = TRUE],
     [Plain("slots", {s1}, {ann}) EXCEPT !.api = TRUE, !.option = TRUE],
     Plain("streams", {s1}, {ann})}
=============================================================================
