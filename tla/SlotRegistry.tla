---------------------------- MODULE SlotRegistry ----------------------------
(***************************************************************************)
(* One place of an account in api_slots, as everybody writes it, and the   *)
(* lists of slots pushed to the account's scripts (slot product). Operator,*)
(* buyer, shop, sweep and the scripts' own reload reports change the row,  *)
(* each in a transaction that reads it without a lock, and each pushes the *)
(* new list after its commit: a SELECT, then one message to the room. A    *)
(* script that connects is in the room before its own list is read.        *)
(*                                                                         *)
(* Key and settings are abstracted: a list is known by the version of the  *)
(* table it was read from.                                                 *)
(***************************************************************************)
EXTENDS Presence

CONSTANTS
    Buyers,
    Editors,        \* greenlets that change the row
    MaxChanges      \* bound on changes

ASSUME RegistryAssumption ==
    /\ IsFiniteSet(Editors) /\ MaxChanges \in Nat
    /\ None \notin Buyers

VARIABLES
    register,   \* the row of the place
    version,    \* committed changes
    edit,       \* what each editor is doing
    lists,      \* lists read by connect handlers and not yet sent
    heard,      \* per connection: the newest version it was sent
    lost        \* a push was given up

registryVars == <<register, version, edit, lists, heard, lost>>

Kind == {"upsert", "delete", "config", "sale", "expire", "reload"}
Owners == Buyers \cup {None}
(* term: no end, running, or over by the clock. *)
SlotStatus == {"active", "expired"}
Row == [id: 0..MaxChanges, owner: Owners, status: SlotStatus, term: {"none", "running", "over"}]
Edit == [pc: {"idle", "write", "list", "send"}, kind: Kind, buyer: Owners,
         saw: Row \cup {None}, list: 0..MaxChanges]
NoEdit == [pc |-> "idle", kind |-> "upsert", buyer |-> None, saw |-> None, list |-> 0]

RegistryTypeOK ==
    /\ register \in Row \cup {None} /\ version \in 0..MaxChanges
    /\ edit \in [Editors -> Edit]
    /\ lists \subseteq Sids \X (0..MaxChanges)
    /\ heard \in [Sids -> 0..MaxChanges] /\ lost \in BOOLEAN

RegistryInit(taken) ==
    /\ register = IF taken THEN [id |-> 0, owner |-> None, status |-> "active", term |-> "none"] ELSE None
    /\ version = 0
    /\ edit = [e \in Editors |-> NoEdit]
    /\ lists = {} /\ heard = [s \in Sids |-> 0] /\ lost = FALSE

Editing(pcs) == {e \in Editors : edit[e].pc \in pcs}

-----------------------------------------------------------------------------
(* The head of each handler, up to what it decides from the row it reads.  *)
(* slot_config takes the time before it has the new key verified, so a     *)
(* term that ends meanwhile does not stop it.                              *)
Proceeds(kind, b, row) ==
    \/ kind = "upsert"
    \/ kind = "sale" /\ (row # None => row.status = "expired" \/ row.term = "over")
    \/ kind = "delete" /\ row # None
    \/ kind = "reload" /\ row # None /\ Live # {}
    \/ kind = "config" /\ row # None /\ row.owner = b /\ row.status = "active"
    \/ kind = "expire" /\ row # None /\ row.status = "active" /\ row.term = "over"

EditStarts(e, kind, b) ==
    /\ edit[e].pc = "idle" /\ version < MaxChanges
    /\ kind \in {"config", "sale"} <=> b # None
    /\ Proceeds(kind, b, register)
    /\ edit' = [edit EXCEPT ![e] =
                  [NoEdit EXCEPT !.pc = "write", !.kind = kind, !.buyer = b, !.saw = register]]
    /\ UNCHANGED <<register, version, lists, heard, lost>>

-----------------------------------------------------------------------------
(* Its writes. An UPDATE is by primary key and sets the columns that differ*)
(* from what was read.                                                     *)
Merge(current, read, new) == IF new = read THEN current ELSE new

SameRow(saw) == saw # None /\ register # None /\ saw.id = register.id

(* upsert_slot may set owner and status as it likes. *)
Inserted(j) ==
    IF j.kind = "sale"
    THEN {[id |-> version + 1, owner |-> j.buyer, status |-> "active", term |-> "running"]}
    ELSE [id: {version + 1}, owner: Owners, status: SlotStatus, term: {"none"}]

Updated(j) ==
    CASE j.kind = "upsert" ->
            {[register EXCEPT !.owner = Merge(@, j.saw.owner, as[1]),
                              !.status = Merge(@, j.saw.status, as[2])] : as \in Owners \X SlotStatus}
      [] j.kind = "sale" ->
            {[register EXCEPT !.owner = Merge(@, j.saw.owner, j.buyer),
                              !.status = Merge(@, j.saw.status, "active"), !.term = "running"]}
      [] j.kind = "expire" -> {[register EXCEPT !.status = "expired"]}
      [] j.kind = "delete" -> {None}
      [] OTHER -> {register}

(* What the row may be after j, and nothing when the statement fails: the  *)
(* INSERT of a row that has appeared, the UPDATE of one that has gone. A   *)
(* DELETE that finds no row passes, and so does an upsert or a             *)
(* configuration that changes no column.                                   *)
Written(j) ==
    IF SameRow(j.saw) THEN Updated(j)
    ELSE IF j.saw = None THEN IF register = None THEN Inserted(j) ELSE {}
    ELSE IF j.kind \in {"delete", "upsert", "config"} THEN {register} ELSE {}

(* Bug: the deletion is not pushed. *)
AfterCommitQuiet(kind) == IF kind = "delete" THEN "idle" ELSE "list"

AfterCommit(kind) == "list"

EditCommits(e) ==
    LET j == edit[e]
    IN  /\ j.pc = "write" /\ version < MaxChanges
        /\ register' \in Written(j)
        /\ version' = version + 1
        /\ edit' = [edit EXCEPT ![e] = [NoEdit EXCEPT !.pc = AfterCommit(j.kind)]]
        /\ UNCHANGED <<lists, heard, lost>>

(* Rolled back: nothing is pushed. *)
EditFails(e) ==
    /\ edit[e].pc = "write"
    /\ edit' = [edit EXCEPT ![e] = NoEdit]
    /\ UNCHANGED <<register, version, lists, heard, lost>>

(* A term ends. *)
Lapse ==
    /\ register # None /\ register.term = "running"
    /\ register' = [register EXCEPT !.term = "over"]
    /\ UNCHANGED <<version, edit, lists, heard, lost>>

-----------------------------------------------------------------------------
(* push_slots_to_account: with nobody connected the next connect carries   *)
(* the change.                                                             *)
PushLists(e) ==
    /\ edit[e].pc = "list"
    /\ edit' = [edit EXCEPT ![e] =
                  IF Live = {} THEN NoEdit ELSE [@ EXCEPT !.pc = "send", !.list = version]]
    /\ UNCHANGED <<register, version, lists, heard, lost>>

(* Bug: a script joins the room after its list was read and sent. *)
ReceiversArrived == Live \ {a[1] : a \in arriving}

Receivers == Live

Newer(v, w) == IF v < w THEN w ELSE v

PushSends(e) ==
    /\ edit[e].pc = "send"
    /\ heard' = [s \in Sids |-> IF s \in Receivers THEN Newer(heard[s], edit[e].list) ELSE heard[s]]
    /\ edit' = [edit EXCEPT ![e] = NoEdit]
    /\ UNCHANGED <<register, version, lists, lost>>

(* An exception is logged and the push given up. *)
PushFails(e) ==
    /\ edit[e].pc \in {"list", "send"}
    /\ edit' = [edit EXCEPT ![e] = NoEdit]
    /\ lost' = TRUE
    /\ UNCHANGED <<register, version, lists, heard>>

(* The list of a script that connects: read, then sent if it is still there*)
(* or lost to an exception, which does not stop the connect handler.       *)
ListForNew(s) ==
    /\ \E a \in arriving : a[1] = s
    /\ \A l \in lists : l[1] # s
    /\ lists' = lists \cup {<<s, version>>}
    /\ UNCHANGED <<register, version, edit, heard, lost>>

SendToNew(s) ==
    \E l \in lists :
        /\ l[1] = s /\ lists' = lists \ {l}
        /\ heard' = IF s \in Live THEN [heard EXCEPT ![s] = Newer(@, l[2])] ELSE heard
        /\ UNCHANGED <<register, version, edit, lost>>

ListLost(s) ==
    /\ lists' = {l \in lists : l[1] # s} /\ lost' = TRUE
    /\ UNCHANGED <<register, version, edit, heard>>

Unlisted(s) ==
    /\ heard' = [heard EXCEPT ![s] = 0]
    /\ UNCHANGED <<register, version, edit, lists, lost>>

RegistryStep ==
    \/ Lapse
    \/ \E e \in Editors :
          \/ \E kind \in Kind, b \in Owners : EditStarts(e, kind, b)
          \/ EditCommits(e) \/ EditFails(e)
          \/ PushLists(e) \/ PushSends(e) \/ PushFails(e)

-----------------------------------------------------------------------------
(* When no push is under way, every script that has finished connecting has*)
(* been sent the newest list, whether it connected before, during or after *)
(* the change (unless a push was given up). That an older list may be sent *)
(* after it, when two pushes cross, is what the code does.                 *)
NewestSent ==
    ~lost /\ Editing({"list", "send"}) = {} =>
        \A s \in Live : s \notin {a[1] : a \in arriving} => heard[s] = version
=============================================================================
