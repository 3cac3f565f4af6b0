------------------------------ MODULE ClaimProofs ------------------------------
(***************************************************************************)
(* Proofs about ClaimPipeline, for any number of users, codes, licences,   *)
(* slots and buyers: the ledger of the slot product, and how often a claim *)
(* becomes money, is announced and alerted in the main product.            *)
(***************************************************************************)
EXTENDS ConversionProofs, ClaimPipeline, SequenceTheorems, TLAPS

-----------------------------------------------------------------------------
(* The ledger of the slot product. *)

LEMMA ApiMoves == [Next]_vars => ApiWork \/ UNCHANGED apiVars
  BY DEF Next, MainProduct, SlotProduct, vars

(* A generation is held for one entry; what is written of a hold, or is    *)
(* still the newest of its entry, had no real reply beside it.             *)
HoldsApart ==
    /\ \A h \in holds : h[2] <= replies
    /\ \A g, h \in holds : g[2] = h[2] => g = h
    /\ \A n \in answered : n <= replies
    /\ \A w \in writes : w.gen <= replies /\ (w.gen # 0 => \A h \in holds : h[2] # w.gen)
    /\ \A e \in Entries : pendingQo[e] <= replies
    /\ \A e \in Entries :
          pendingQo[e] # 0 => /\ pendingQo[e] \notin answered
                              /\ \A h \in holds : h[2] = pendingQo[e] => h[1] = e

ApiInv == ApiTypeOK /\ HoldsApart /\ RealReplyWins

LEMMA ApiInitSafe == Init => ApiInv
  <1> SUFFICES ASSUME Init PROVE ApiInv
    OBVIOUS
  <1>1. ApiInit
    BY DEF Init
  <1>2. ApiTypeOK
    BY <1>1, ApiConstants DEF ApiInit, ApiTypeOK
  <1>3. HoldsApart /\ RealReplyWins
    BY <1>1 DEF ApiInit, HoldsApart, RealReplyWins
  <1> QED BY <1>2, <1>3 DEF ApiInv

LEMMA ReplyOverloadedSafe ==
    ASSUME ApiInv, NEW e \in Entries, ReplyOverloaded(e)
    PROVE  ApiInv'
  <1>1. /\ pendingQo \in [Entries -> 0..MaxReplies] /\ replies \in 0..MaxReplies
        /\ holds \subseteq (Entries \X (1..MaxReplies) \X (Buyers \cup {None}))
        /\ answered \subseteq 1..MaxReplies /\ writes \subseteq Write /\ MaxReplies \in Nat
    BY ApiConstants DEF ApiInv, ApiTypeOK
  <1>2. PICK named \in Buyers \cup {None} : holds' = holds \cup {<<e, replies + 1, named>>}
    BY ApiConstants DEF ReplyOverloaded, Named, ApiInv, ApiTypeOK
  <1>3. /\ replies' = replies + 1 /\ replies < MaxReplies
        /\ pendingQo' = [pendingQo EXCEPT ![e] = replies + 1]
        /\ UNCHANGED <<claims, writes, slots, owner, pushed, sales, answered, due, owners>>
    BY DEF ReplyOverloaded
  <1>4. replies + 1 \in 1..MaxReplies
    BY <1>1, <1>3
  <1>5. ApiTypeOK'
    BY <1>1, <1>2, <1>3, <1>4 DEF ApiInv, ApiTypeOK
  <1>6. \A h \in holds' : h \in holds \/ (h[1] = e /\ h[2] = replies + 1 /\ h = <<e, replies + 1, named>>)
    BY <1>2
  <1>7. \A h \in holds : h[2] \in 1..MaxReplies /\ h[2] <= replies /\ h[2] # replies + 1
    BY <1>1 DEF ApiInv, HoldsApart
  <1>8. \A w \in writes : w.gen \in 0..MaxReplies /\ w.gen <= replies /\ w.gen # replies + 1
    BY <1>1 DEF ApiInv, HoldsApart, Write
  <1>9. \A n \in answered : n \in 1..MaxReplies /\ n <= replies /\ n # replies + 1
    BY <1>1 DEF ApiInv, HoldsApart
  <1>10. HoldsApart'
    <2>1. /\ \A h \in holds' : h[2] <= replies'
          /\ \A g, h \in holds' : g[2] = h[2] => g = h
      BY <1>1, <1>3, <1>6, <1>7 DEF ApiInv, HoldsApart
    <2>2. \A w \in writes' : w.gen <= replies' /\ (w.gen # 0 => \A h \in holds' : h[2] # w.gen)
      BY <1>1, <1>3, <1>6, <1>8 DEF ApiInv, HoldsApart
    <2>3. \A n \in answered' : n <= replies'
      BY <1>1, <1>3, <1>9
    <2>4. ASSUME NEW x \in Entries
          PROVE  /\ pendingQo'[x] <= replies'
                 /\ pendingQo'[x] # 0 => /\ pendingQo'[x] \notin answered'
                                         /\ \A h \in holds' : h[2] = pendingQo'[x] => h[1] = x
      <3>1. CASE x = e
        BY <1>1, <1>3, <1>4, <1>6, <1>7, <1>9, <3>1
      <3>2. CASE x # e
        <4>1. pendingQo'[x] = pendingQo[x] /\ pendingQo[x] \in 0..MaxReplies /\ pendingQo[x] <= replies
          BY <1>1, <1>3, <3>2 DEF ApiInv, HoldsApart
        <4> QED BY <1>1, <1>3, <1>6, <4>1 DEF ApiInv, HoldsApart
      <3> QED BY <3>1, <3>2
    <2> QED BY <2>1, <2>2, <2>3, <2>4 DEF HoldsApart
  <1>11. RealReplyWins'
    BY <1>3 DEF ApiInv, RealReplyWins
  <1> QED BY <1>5, <1>10, <1>11 DEF ApiInv

LEMMA ReplyRealSafe ==
    ASSUME ApiInv, NEW e \in Entries, NEW result \in {"claimed", "failed"}, ReplyReal(e, result)
    PROVE  ApiInv'
  <1>1. /\ pendingQo \in [Entries -> 0..MaxReplies] /\ replies \in 0..MaxReplies
        /\ holds \subseteq (Entries \X (1..MaxReplies) \X (Buyers \cup {None}))
        /\ answered \subseteq 1..MaxReplies /\ writes \subseteq Write /\ MaxReplies \in Nat
    BY ApiConstants DEF ApiInv, ApiTypeOK
  <1>2. PICK named \in Buyers \cup {None} : Begin(e, result, named, 0, replies + 1)
    BY ApiConstants DEF ReplyReal, Named, ApiInv, ApiTypeOK
  <1>3. /\ replies' = replies + 1 /\ replies < MaxReplies
        /\ pendingQo' = [pendingQo EXCEPT ![e] = 0]
        /\ answered' = answered \cup {h[2] : h \in {g \in holds : g[1] = e}}
        /\ due' \in {due, due \cup {e}}
        /\ UNCHANGED <<claims, holds, slots, owner, pushed, sales, owners>>
    BY DEF ReplyReal
  <1> DEFINE w0 == [entry |-> e, result |-> result, owner |-> named,
                    pc |-> IF named = None THEN "select" ELSE "upsert",
                    gen |-> 0, seq |-> replies + 1]
  <1>4. writes' = writes \cup {w0}
    BY <1>2 DEF Begin
  <1>5. w0 \in Write /\ w0.gen = 0
    <2>1. /\ result \in Result /\ named \in Buyers \cup {None}
          /\ 0 \in 0..MaxReplies /\ replies + 1 \in 1..MaxReplies
      BY <1>1, <1>2, <1>3 DEF Result
    <2>2. (IF named = None THEN "select" ELSE "upsert") \in {"select", "upsert"}
      OBVIOUS
    <2>3. w0 \in Write
      BY <2>1, <2>2 DEF Write
    <2> QED BY <2>3
  <1> HIDE DEF w0
  <1>6. ASSUME NEW n \in answered' PROVE n \in 1..MaxReplies /\ n <= replies
    <2>1. CASE n \in answered
      BY <1>1, <2>1 DEF ApiInv, HoldsApart
    <2>2. CASE n \notin answered
      <3>1. PICK h \in holds : n = h[2]
        BY <1>3, <2>2
      <3>2. h[2] \in 1..MaxReplies /\ h[2] <= replies
        BY <1>1, <3>1 DEF ApiInv, HoldsApart
      <3> QED BY <3>1, <3>2
    <2> QED BY <2>1, <2>2
  <1>7. ApiTypeOK'
    <2>1. answered' \subseteq 1..MaxReplies
      BY <1>6
    <2>2. /\ replies' \in 0..MaxReplies /\ writes' \subseteq Write
          /\ pendingQo' \in [Entries -> 0..MaxReplies]
      BY <1>1, <1>3, <1>4, <1>5
    <2>3. UNCHANGED <<claims, holds, slots, owner, pushed, sales, owners>>
      BY <1>3
    <2>4. due' \subseteq Entries
      BY <1>3 DEF ApiInv, ApiTypeOK
    <2> QED BY <2>1, <2>2, <2>3, <2>4 DEF ApiInv, ApiTypeOK
  <1>8. HoldsApart'
    <2>1. /\ \A h \in holds' : h[2] <= replies'
          /\ \A g, h \in holds' : g[2] = h[2] => g = h
      BY <1>1, <1>3 DEF ApiInv, HoldsApart
    <2>2. \A w \in writes' : w.gen <= replies' /\ (w.gen # 0 => \A h \in holds' : h[2] # w.gen)
      BY <1>1, <1>3, <1>4, <1>5 DEF ApiInv, HoldsApart, Write
    <2>3. \A n \in answered' : n <= replies'
      BY <1>1, <1>3, <1>6
    <2>4. ASSUME NEW x \in Entries
          PROVE  /\ pendingQo'[x] <= replies'
                 /\ pendingQo'[x] # 0 => /\ pendingQo'[x] \notin answered'
                                         /\ \A h \in holds' : h[2] = pendingQo'[x] => h[1] = x
      <3>1. CASE x = e
        BY <1>1, <1>3, <3>1
      <3>2. CASE x # e
        <4>1. pendingQo'[x] = pendingQo[x] /\ pendingQo[x] \in 0..MaxReplies /\ pendingQo[x] <= replies
          BY <1>1, <1>3, <3>2 DEF ApiInv, HoldsApart
        <4> QED BY <1>1, <1>3, <3>2, <4>1 DEF ApiInv, HoldsApart
      <3> QED BY <3>1, <3>2
    <2> QED BY <2>1, <2>2, <2>3, <2>4 DEF HoldsApart
  <1>9. RealReplyWins'
    <2>1. ASSUME NEW w \in writes PROVE w.gen \notin answered'
      <3>1. w.gen \notin answered /\ (w.gen # 0 => \A h \in holds : h[2] # w.gen)
        BY DEF ApiInv, HoldsApart, RealReplyWins
      <3> QED BY <1>3, <1>6, <3>1, <1>1
    <2>2. w0.gen \notin answered'
      BY <1>5, <1>6, <1>1
    <2> QED BY <1>4, <2>1, <2>2 DEF RealReplyWins
  <1> QED BY <1>7, <1>8, <1>9 DEF ApiInv

LEMMA FlushHeldSafe ==
    ASSUME ApiInv, NEW h \in holds, FlushHeld(h)
    PROVE  ApiInv'
  <1>1. /\ pendingQo \in [Entries -> 0..MaxReplies] /\ replies \in 0..MaxReplies
        /\ holds \subseteq (Entries \X (1..MaxReplies) \X (Buyers \cup {None}))
        /\ answered \subseteq 1..MaxReplies /\ writes \subseteq Write /\ MaxReplies \in Nat
    BY ApiConstants DEF ApiInv, ApiTypeOK
  <1>2. h[1] \in Entries /\ h[2] \in 1..MaxReplies /\ h[3] \in Buyers \cup {None} /\ h[2] <= replies
    BY <1>1 DEF ApiInv, HoldsApart
  <1>3. holds' = holds \ {h} /\ UNCHANGED <<claims, slots, owner, pushed, replies, sales, answered, due, owners>>
    BY DEF FlushHeld
  <1>4. CASE pendingQo[h[1]] # h[2]
    <2>1. UNCHANGED <<pendingQo, writes>>
      BY <1>4 DEF FlushHeld
    <2>2. ApiTypeOK'
      BY <1>3, <2>1 DEF ApiInv, ApiTypeOK
    <2> QED BY <1>3, <2>1, <2>2 DEF ApiInv, HoldsApart, RealReplyWins
  <1>5. CASE pendingQo[h[1]] = h[2]
    <2> DEFINE w0 == [entry |-> h[1], result |-> "queue_overload", owner |-> h[3],
                      pc |-> IF h[3] = None THEN "select" ELSE "upsert",
                      gen |-> h[2], seq |-> h[2]]
    <2>1. writes' = writes \cup {w0} /\ pendingQo' = [pendingQo EXCEPT ![h[1]] = 0]
      BY <1>5 DEF FlushHeld, Begin
    <2>2. w0 \in Write /\ w0.gen = h[2]
      BY <1>2 DEF Write, Result
    <2> HIDE DEF w0
    <2>3. h[2] # 0 /\ h[2] \notin answered
      BY <1>2, <1>5 DEF ApiInv, HoldsApart
    <2>4. ApiTypeOK'
      BY <1>1, <1>3, <2>1, <2>2 DEF ApiInv, ApiTypeOK
    <2>5. HoldsApart'
      <3>1. \A w \in writes' : w.gen <= replies' /\ (w.gen # 0 => \A g \in holds' : g[2] # w.gen)
        BY <1>2, <1>3, <2>1, <2>2 DEF ApiInv, HoldsApart
      <3>2. ASSUME NEW x \in Entries
            PROVE  /\ pendingQo'[x] <= replies'
                   /\ pendingQo'[x] # 0 => /\ pendingQo'[x] \notin answered'
                                           /\ \A g \in holds' : g[2] = pendingQo'[x] => g[1] = x
        BY <1>1, <1>2, <1>3, <2>1 DEF ApiInv, HoldsApart
      <3> QED BY <1>3, <3>1, <3>2 DEF ApiInv, HoldsApart
    <2>6. RealReplyWins'
      BY <1>3, <2>1, <2>2, <2>3 DEF ApiInv, RealReplyWins
    <2> QED BY <2>4, <2>5, <2>6 DEF ApiInv
  <1> QED BY <1>4, <1>5

LEMMA ApiAlways == Spec => []ApiInv
  <1>1. ASSUME ApiInv, [Next]_vars PROVE ApiInv'
    <2>1. /\ writes \subseteq Write /\ claims \in [Entries -> Row \cup {None}]
          /\ owner \in [Slots -> Buyers \cup {None}] /\ pushed \in [Slots -> Buyers \cup {None}]
          /\ owners \in [Slots -> SUBSET (Buyers \cup {None})] /\ due \subseteq Entries
          /\ sales \in 0..MaxSales /\ MaxSales \in Nat
      BY <1>1, ApiConstants DEF ApiInv, ApiTypeOK
    <2>2. ASSUME NEW w \in writes, SelectOwner(w) PROVE ApiInv'
      <3> DEFINE found == IF w.entry[1] \in slots THEN owner[w.entry[1]] ELSE None
                 v == [w EXCEPT !.pc = "upsert", !.owner = found]
      <3>1. /\ writes' = (writes \ {w}) \cup {v}
            /\ UNCHANGED <<claims, pendingQo, holds, slots, owner, pushed, replies, sales, answered, due, owners>>
        BY <2>2 DEF SelectOwner
      <3>2. w \in Write /\ found \in Buyers \cup {None}
        BY <2>1, ApiConstants DEF Write
      <3> HIDE DEF found
      <3>3. v \in Write /\ v.gen = w.gen
        BY <3>2 DEF Write
      <3> HIDE DEF v
      <3>4. ApiTypeOK'
        BY <1>1, <2>1, <3>1, <3>3 DEF ApiInv, ApiTypeOK
      <3> QED BY <1>1, <3>1, <3>3, <3>4 DEF ApiInv, HoldsApart, RealReplyWins
    <2>3. ASSUME NEW w \in writes, Upsert(w) PROVE ApiInv'
      <3>1. w \in Write /\ [result |-> w.result, owner |-> w.owner] \in Row
        BY <2>1 DEF Write, Row
      <3>2. \A row \in Row \cup {None} : Upserted(row, w) \in Row \cup {None}
        BY <3>1 DEF Upserted, Row, Result
      <3>3. claims' \in [Entries -> Row \cup {None}]
        BY <2>1, <2>3, <3>2 DEF Upsert
      <3>4. /\ writes' = writes \ {w}
            /\ UNCHANGED <<pendingQo, holds, slots, owner, pushed, replies, sales, answered, due, owners>>
        BY <2>3 DEF Upsert
      <3> QED BY <1>1, <3>3, <3>4 DEF ApiInv, ApiTypeOK, HoldsApart, RealReplyWins
    <2>4. ASSUME NEW w \in writes, WriteFails(w) PROVE ApiInv'
      <3>1. /\ writes' = writes \ {w} /\ due' \subseteq due
            /\ UNCHANGED <<claims, pendingQo, holds, slots, owner, pushed, replies, sales, answered, owners>>
        BY <2>4 DEF WriteFails
      <3> QED BY <1>1, <3>1 DEF ApiInv, ApiTypeOK, HoldsApart, RealReplyWins
    <2>5. ASSUME NEW s \in Slots, NEW b \in Buyers \cup {None}, Sell(s, b) PROVE ApiInv'
      BY <1>1, <2>1, <2>5 DEF Sell, ApiInv, ApiTypeOK, HoldsApart, RealReplyWins
    <2>6. ASSUME NEW s \in Slots, Push(s) PROVE ApiInv'
      BY <1>1, <2>1, <2>6 DEF Push, Shown, ApiInv, ApiTypeOK, HoldsApart, RealReplyWins
    <2>7. ASSUME NEW s \in Slots, DeleteSlot(s) PROVE ApiInv'
      <3>1. claims' \in [Entries -> Row \cup {None}] /\ slots' \subseteq slots /\ due' \subseteq due
        BY <2>1, <2>7 DEF DeleteSlot
      <3>2. UNCHANGED <<pendingQo, holds, writes, owner, pushed, replies, sales, answered, owners>>
        BY <2>7 DEF DeleteSlot
      <3> QED BY <1>1, <3>1, <3>2 DEF ApiInv, ApiTypeOK, HoldsApart, RealReplyWins
    <2>8. CASE ForgetApi
      <3>1. pendingQo' \in [Entries -> 0..MaxReplies] /\ replies \in 0..MaxReplies /\ due' \subseteq due
        BY <1>1, <2>8, ApiConstants DEF ForgetApi, ApiInv, ApiTypeOK
      <3> QED BY <1>1, <2>8, <3>1 DEF ForgetApi, ApiInv, ApiTypeOK, HoldsApart, RealReplyWins
    <2>9. CASE UNCHANGED apiVars
      BY <1>1, <2>9 DEF apiVars, ApiInv, ApiTypeOK, HoldsApart, RealReplyWins
    <2> QED BY <1>1, <2>2, <2>3, <2>4, <2>5, <2>6, <2>7, <2>8, <2>9, ApiMoves, ReplyOverloadedSafe,
               ReplyRealSafe, FlushHeldSafe DEF ApiWork, Recording
  <1> QED BY <1>1, ApiInitSafe, PTL DEF Spec

(* A held "queue overloaded" is not recorded when a real reply came while  *)
(* it was held, however many scripts report, and however late.             *)
THEOREM RealReplyPrevails == Spec => []RealReplyWins
  <1>1. ApiInv => RealReplyWins
    BY DEF ApiInv
  <1> QED BY <1>1, ApiAlways, PTL

(* Whoever is named beside a slot has owned it.                            *)
Credited ==
    /\ \A s \in Slots : owner[s] \in owners[s] /\ pushed[s] \in owners[s] \cup {None}
    /\ \A h \in holds : h[3] \in owners[h[1][1]] \cup {None}
    /\ \A w \in writes : w.pc = "upsert" /\ w.entry[1] \in slots => w.owner \in owners[w.entry[1]]

LedgerInv == Credited /\ SuccessKept /\ RowsOwned

LEMMA LedgerStarts == Init => LedgerInv
  <1> SUFFICES ASSUME Init PROVE LedgerInv
    OBVIOUS
  <1>1. ApiInit
    BY DEF Init
  <1>2. Credited
    BY <1>1 DEF ApiInit, Credited
  <1> QED BY <1>1, <1>2 DEF ApiInit, LedgerInv, SuccessKept, RowsOwned

(* A write that begins names nobody and will look the owner up, or names   *)
(* somebody who has owned the slot.                                        *)
LEMMA BegunSafe ==
    ASSUME ApiInv, LedgerInv, NEW e \in Entries, NEW result, NEW gen, NEW seq,
           NEW named \in owners[e[1]] \cup {None}, Begin(e, result, named, gen, seq),
           UNCHANGED <<claims, slots, owner, pushed, owners>>, holds' \subseteq holds,
           due' \subseteq due \/ (result = "claimed" /\ due' = due \cup {e})
    PROVE  LedgerInv'
  <1> DEFINE w0 == [entry |-> e, result |-> result, owner |-> named,
                    pc |-> IF named = None THEN "select" ELSE "upsert", gen |-> gen, seq |-> seq]
  <1>1. writes' = writes \cup {w0}
    BY DEF Begin
  <1>2. w0.entry = e /\ w0.result = result /\ w0.owner = named /\ (w0.pc = "upsert" => named # None)
    OBVIOUS
  <1> HIDE DEF w0
  <1>3. Credited'
    BY <1>1, <1>2 DEF LedgerInv, Credited
  <1>4. SuccessKept'
    <2> SUFFICES ASSUME NEW x \in due'
                 PROVE  \/ claims'[x] # None /\ claims'[x].result = "claimed"
                        \/ \E w \in writes' : w.entry = x /\ w.result = "claimed"
      BY DEF SuccessKept
    <2>1. CASE x \in due
      BY <1>1, <2>1 DEF LedgerInv, SuccessKept
    <2>2. CASE x \notin due
      BY <1>1, <1>2, <2>2
    <2> QED BY <2>1, <2>2
  <1>5. RowsOwned'
    BY DEF LedgerInv, RowsOwned
  <1> QED BY <1>3, <1>4, <1>5 DEF LedgerInv

LEMMA LedgerAlways == Spec => []LedgerInv
  <1>1. ASSUME ApiInv, LedgerInv, [Next]_vars PROVE LedgerInv'
    <2>1. /\ writes \subseteq Write /\ claims \in [Entries -> Row \cup {None}]
          /\ owner \in [Slots -> Buyers \cup {None}] /\ pushed \in [Slots -> Buyers \cup {None}]
          /\ owners \in [Slots -> SUBSET (Buyers \cup {None})] /\ due \subseteq Entries
          /\ holds \subseteq (Entries \X (1..MaxReplies) \X (Buyers \cup {None}))
          /\ \A e \in Entries : e[1] \in Slots
      BY <1>1, ApiConstants DEF ApiInv, ApiTypeOK
    <2>2. \A e \in Entries : Named(e) \subseteq owners[e[1]] \cup {None}
      BY <1>1, <2>1 DEF Named, LedgerInv, Credited
    <2>3. ASSUME NEW e \in Entries, ReplyOverloaded(e) PROVE LedgerInv'
      <3>1. PICK named \in Named(e) : holds' = holds \cup {<<e, replies + 1, named>>}
        BY <2>3 DEF ReplyOverloaded
      <3>2. UNCHANGED <<claims, writes, slots, owner, pushed, due, owners>>
        BY <2>3 DEF ReplyOverloaded
      <3>3. Credited'
        BY <1>1, <2>2, <3>1, <3>2 DEF LedgerInv, Credited
      <3> QED BY <1>1, <3>2, <3>3 DEF LedgerInv, SuccessKept, RowsOwned
    <2>4. ASSUME NEW e \in Entries, NEW result \in {"claimed", "failed"}, ReplyReal(e, result) PROVE LedgerInv'
      <3>1. PICK named \in Named(e) : Begin(e, result, named, 0, replies + 1)
        BY <2>4 DEF ReplyReal
      <3>2. /\ UNCHANGED <<claims, holds, slots, owner, pushed, owners>>
            /\ due' = IF result = "claimed" THEN due \cup {e} ELSE due
        BY <2>4 DEF ReplyReal
      <3> QED BY <1>1, <2>2, <3>1, <3>2, BegunSafe
    <2>5. ASSUME NEW h \in holds, FlushHeld(h) PROVE LedgerInv'
      <3>1. /\ UNCHANGED <<claims, slots, owner, pushed, due, owners>> /\ holds' \subseteq holds
            /\ h[1] \in Entries /\ h[3] \in owners[h[1][1]] \cup {None}
        BY <1>1, <2>1, <2>5 DEF FlushHeld, LedgerInv, Credited
      <3>2. CASE UNCHANGED writes
        BY <1>1, <3>1, <3>2 DEF LedgerInv, Credited, SuccessKept, RowsOwned
      <3>3. CASE Begin(h[1], "queue_overload", h[3], h[2], h[2])
        BY <1>1, <3>1, <3>3, BegunSafe
      <3> QED BY <2>5, <3>2, <3>3 DEF FlushHeld
    <2>6. ASSUME NEW w \in writes, SelectOwner(w) PROVE LedgerInv'
      <3> DEFINE found == IF w.entry[1] \in slots THEN owner[w.entry[1]] ELSE None
                 v == [w EXCEPT !.pc = "upsert", !.owner = found]
      <3>1. /\ writes' = (writes \ {w}) \cup {v}
            /\ UNCHANGED <<claims, holds, slots, owner, pushed, due, owners>>
        BY <2>6 DEF SelectOwner
      <3>2. w \in Write /\ w.entry[1] \in Slots
        BY <2>1 DEF Write
      <3>3. w.entry[1] \in slots => found \in owners[w.entry[1]]
        BY <1>1, <3>2 DEF LedgerInv, Credited
      <3> HIDE DEF found
      <3>4. v.entry = w.entry /\ v.result = w.result /\ v.owner = found
        BY <3>2 DEF Write
      <3> HIDE DEF v
      <3>5. Credited'
        BY <1>1, <3>1, <3>3, <3>4 DEF LedgerInv, Credited
      <3>6. SuccessKept'
        BY <1>1, <3>1, <3>4 DEF LedgerInv, SuccessKept
      <3> QED BY <1>1, <3>1, <3>5, <3>6 DEF LedgerInv, RowsOwned
    <2>7. ASSUME NEW w \in writes, Upsert(w) PROVE LedgerInv'
      <3>1. /\ writes' = writes \ {w} /\ claims' = [claims EXCEPT ![w.entry] = Upserted(@, w)]
            /\ UNCHANGED <<holds, slots, owner, pushed, due, owners>>
            /\ w.entry \in Entries /\ w.entry[1] \in slots /\ w.pc = "upsert"
        BY <2>1, <2>7 DEF Upsert, Write
      <3>2. w.owner \in owners[w.entry[1]]
        BY <1>1, <3>1 DEF LedgerInv, Credited
      <3> DEFINE old == claims[w.entry]
                 row == Upserted(old, w)
      <3>3. /\ \A e \in Entries : claims'[e] = IF e = w.entry THEN row ELSE claims[e]
            /\ old \in Row \cup {None}
        BY <2>1, <3>1
      <3>4. /\ row # None
            /\ row.owner = w.owner \/ (old # None /\ row.owner = old.owner)
            /\ w.result = "claimed" \/ (old # None /\ old.result = "claimed") => row.result = "claimed"
        <4> HIDE DEF old
        <4>1. CASE old = None
          <5>1. row = [result |-> w.result, owner |-> w.owner]
            BY <4>1 DEF Upserted
          <5>2. row \in Row
            BY <2>1, <5>1 DEF Write, Row
          <5> QED BY <4>1, <5>1, <5>2, NoRow
        <4>2. CASE old # None /\ old.result # "claimed" /\ w.result = "claimed"
          <5>1. old \in Row /\ row = [old EXCEPT !.result = "claimed"]
            BY <3>3, <4>2 DEF Upserted
          <5>2. row \in Row /\ row.result = "claimed" /\ row.owner = old.owner
            BY <5>1 DEF Row, Result
          <5> QED BY <4>2, <5>2, NoRow
        <4>3. CASE old # None /\ ~(old.result # "claimed" /\ w.result = "claimed")
          <5>1. row = old
            BY <4>3 DEF Upserted
          <5> QED BY <4>3, <5>1
        <4> QED BY <4>1, <4>2, <4>3
      <3> HIDE DEF row
      <3>5. RowsOwned'
        <4> SUFFICES ASSUME NEW e \in Entries, claims'[e] # None
                     PROVE  e[1] \in slots /\ claims'[e].owner \in owners[e[1]]
          BY <3>1 DEF RowsOwned
        <4>1. CASE e # w.entry
          BY <1>1, <3>3, <4>1 DEF LedgerInv, RowsOwned
        <4>2. CASE e = w.entry
          <5>1. old # None => old.owner \in owners[e[1]]
            BY <1>1, <4>2 DEF LedgerInv, RowsOwned
          <5> QED BY <3>1, <3>2, <3>3, <3>4, <4>2, <5>1
        <4> QED BY <4>1, <4>2
      <3>6. SuccessKept'
        <4> SUFFICES ASSUME NEW e \in due
                     PROVE  \/ claims'[e] # None /\ claims'[e].result = "claimed"
                            \/ \E u \in writes' : u.entry = e /\ u.result = "claimed"
          BY <3>1 DEF SuccessKept
        <4>0. e \in Entries
          BY <2>1
        <4>1. CASE claims[e] # None /\ claims[e].result = "claimed"
          BY <3>3, <3>4, <4>0, <4>1
        <4>2. CASE \E u \in writes : u.entry = e /\ u.result = "claimed"
          BY <3>1, <3>3, <3>4, <4>0, <4>2
        <4> QED BY <1>1, <4>1, <4>2 DEF LedgerInv, SuccessKept
      <3>7. Credited'
        BY <1>1, <3>1 DEF LedgerInv, Credited
      <3> QED BY <3>5, <3>6, <3>7 DEF LedgerInv
    <2>8. ASSUME NEW w \in writes, WriteFails(w) PROVE LedgerInv'
      <3>1. /\ writes' = writes \ {w} /\ due' = IF w.result = "claimed" THEN due \ {w.entry} ELSE due
            /\ UNCHANGED <<claims, holds, slots, owner, pushed, owners>>
        BY <2>8 DEF WriteFails
      <3>2. Credited' /\ RowsOwned'
        BY <1>1, <3>1 DEF LedgerInv, Credited, RowsOwned
      <3>3. SuccessKept'
        BY <1>1, <3>1 DEF LedgerInv, SuccessKept
      <3> QED BY <3>2, <3>3 DEF LedgerInv
    <2>9. ASSUME NEW s \in Slots, NEW b \in Buyers \cup {None}, Sell(s, b) PROVE LedgerInv'
      <3>1. /\ owner' = [owner EXCEPT ![s] = b] /\ owners' = [owners EXCEPT ![s] = @ \cup {b}]
            /\ UNCHANGED <<claims, holds, writes, slots, pushed, due>>
        BY <2>9 DEF Sell
      <3>2. \A x \in Slots : owners[x] \subseteq owners'[x] /\ (x = s => b \in owners'[x])
        BY <2>1, <3>1
      <3>3. \A w \in writes : w.entry[1] \in Slots
        BY <2>1 DEF Write
      <3>4. \A h \in holds : h[1][1] \in Slots
        BY <2>1
      <3>5. Credited'
        BY <1>1, <2>1, <3>1, <3>2, <3>3, <3>4 DEF LedgerInv, Credited
      <3>6. RowsOwned'
        BY <1>1, <2>1, <3>1, <3>2 DEF LedgerInv, RowsOwned
      <3> QED BY <1>1, <3>1, <3>5, <3>6 DEF LedgerInv, SuccessKept
    <2>10. ASSUME NEW s \in Slots, Push(s) PROVE LedgerInv'
      <3>1. /\ pushed' = [pushed EXCEPT ![s] = Shown(s)]
            /\ UNCHANGED <<claims, holds, writes, slots, owner, due, owners>>
        BY <2>10 DEF Push
      <3>2. Shown(s) \in owners[s] \cup {None}
        BY <1>1 DEF Shown, LedgerInv, Credited
      <3>3. Credited'
        BY <1>1, <2>1, <3>1, <3>2 DEF LedgerInv, Credited
      <3> QED BY <1>1, <3>1, <3>3 DEF LedgerInv, SuccessKept, RowsOwned
    <2>11. ASSUME NEW s \in Slots, DeleteSlot(s) PROVE LedgerInv'
      <3>1. /\ slots' = slots \ {s} /\ due' = {e \in due : e[1] # s}
            /\ \A e \in Entries : claims'[e] = IF e[1] = s THEN None ELSE claims[e]
            /\ UNCHANGED <<holds, writes, owner, pushed, owners>>
        BY <2>11 DEF DeleteSlot
      <3>2. Credited'
        BY <1>1, <3>1 DEF LedgerInv, Credited
      <3>3. RowsOwned'
        BY <1>1, <3>1 DEF LedgerInv, RowsOwned
      <3>4. SuccessKept'
        BY <1>1, <2>1, <3>1 DEF LedgerInv, SuccessKept
      <3> QED BY <3>2, <3>3, <3>4 DEF LedgerInv
    <2>12. CASE ForgetApi
      <3>1. /\ holds' = {} /\ writes' = {}
            /\ due' = due \ {w.entry : w \in {v \in writes : v.result = "claimed"}}
            /\ UNCHANGED <<claims, slots, owner, pushed, owners>>
        BY <2>12 DEF ForgetApi
      <3>2. Credited' /\ RowsOwned'
        BY <1>1, <3>1 DEF LedgerInv, Credited, RowsOwned
      <3>3. SuccessKept'
        BY <1>1, <3>1 DEF LedgerInv, SuccessKept
      <3> QED BY <3>2, <3>3 DEF LedgerInv
    <2>13. CASE UNCHANGED apiVars
      BY <1>1, <2>13 DEF apiVars, LedgerInv, Credited, SuccessKept, RowsOwned
    <2> QED BY <1>1, <2>3, <2>4, <2>5, <2>6, <2>7, <2>8, <2>9, <2>10, <2>11, <2>12, <2>13, ApiMoves
            DEF ApiWork, Recording
  <1> QED BY <1>1, LedgerStarts, ApiAlways, PTL DEF Spec

(* A success that was reported is on its row, or about to be, unless its   *)
(* own write was lost or the slot was deleted, in whatever order scripts   *)
(* report; and a row is its slot's and is credited to one of its owners.   *)
THEOREM SuccessesKept == Spec => []ClaimedWins
  <1>1. LedgerInv => ClaimedWins
    BY DEF LedgerInv, ClaimedWins
  <1> QED BY <1>1, LedgerAlways, PTL

-----------------------------------------------------------------------------
(* How a claim becomes money. *)

LEMMA MoneyMoves == [Next]_vars => MoneyStep
  <1>1. ASSUME NEW l \in Licenses, NEW u \in Users, NEW c \in Codes, NEW currency, NEW outcome,
               NEW paid, NEW saysBonus, UserClaim(l, u, c, currency, outcome, paid, saysBonus)
        PROVE  \/ \E x \in Claims, a \in Accounts : Enqueue(x, a) \/ Overflow(x, a)
               \/ UNCHANGED conversionVars
    <2>1. <<u, c>> \in Claims /\ l \in Accounts
      BY DEF Claims, Accounts
    <2> QED BY <1>1, <2>1 DEF UserClaim, RecordClaimAmount
  <1>2. Sse \in Accounts
    BY DEF Accounts
  <1> QED BY <1>1, <1>2 DEF Next, MainProduct, SlotProduct, vars, MoneyStep, Convert, ConvertToUsd, Broadcast,
                            ExpireBonus, Restart

LEMMA MoneyAlways == Spec => []ConversionInv
  <1>1. Init => ConversionInv
    BY ConversionStarts DEF Init
  <1>2. ConversionInv /\ [Next]_vars => ConversionInv'
    BY ConversionKept, MoneyMoves
  <1> QED BY <1>1, <1>2, PTL DEF Spec

(* One user's claim of one code is counted once for as long as its mark    *)
(* lives, whatever the queue, the worker and the database do to it.        *)
THEOREM ClaimsCountOnce == Spec => []CountedOnce
  BY MoneyAlways, ConversionMeans, PTL

(* Every deduction has been told, or is in a notice whose one timer is set. *)
THEOREM DeductionsTold == Spec => []Announced
  BY MoneyAlways, ConversionMeans, PTL

(* The first claim of a code is alerted, unless one nobody could be        *)
(* credited with was counted before it.                                    *)
THEOREM FirstAlertSent == Spec => []FirstClaimAlerted
  BY MoneyAlways, ConversionMeans, PTL

-----------------------------------------------------------------------------
(* What people are told about a drop. *)

(* What the dedup remembers of the results that wait in a collector.       *)
Waiting(b) ==
    \A u \in Users, currency \in Currencies, outcome \in Category :
        <<u, currency, outcome>> \in b.results =>
            /\ dedup[<<b.license, u, b.code, currency>>] # "none"
            /\ outcome = "claimed" => dedup[<<b.license, u, b.code, currency>>] = "claimed"

(* No failure of the key waits in the collector.                           *)
Settled(b, k) == b.license = k[1] /\ b.code = k[3] => <<k[2], k[4], "failed">> \notin b.results

(* A licence has one collector of a code, with a timer set for it. After   *)
(* a success was told under a key no failure of that key waits.            *)
CollectorsInv ==
    /\ dedup \in [Keys -> Outcome] /\ shown \in [Keys -> Outcome]
    /\ buckets \in Seq(Bucket) /\ Len(buckets) <= CollectorsMax
    /\ summaries \in [Licenses \X Codes -> Nat]
    /\ \A i, j \in 1..Len(buckets) :
          buckets[i].license = buckets[j].license /\ buckets[i].code = buckets[j].code => i = j
    /\ \A i \in 1..Len(buckets) : summaries[<<buckets[i].license, buckets[i].code>>] > 0
    /\ \A i \in 1..Len(buckets) : Waiting(buckets[i])
    /\ \A k \in Keys : shown[k] = "claimed" =>
          dedup[k] # "none" /\ \A i \in 1..Len(buckets) : Settled(buckets[i], k)

(* What is true of one tally: its window is open as long as its timer is   *)
(* set, and what was told of it is what it takes as told.                  *)
Sound(t) ==
    /\ t.gen <= genSeq
    /\ t.pending <=> [code |-> t.code, gen |-> t.gen] \in reports
    /\ sent[t.code] = t.reported
    /\ \A x \in Category : t.reported[x] <= t.counts[x]
    /\ t.users # {} => t.counts["claimed"] > 0
    /\ t.moved => t.moves < MaxMoves

(* A window's generation is drawn from a counter, once for each broadcast  *)
(* at most.                                                                *)
DrawnOnce ==
    /\ reports \subseteq [code: Codes, gen: 1..MaxBroadcasts]
    /\ genSeq \in 0..MaxBroadcasts /\ broadcasts \in 0..MaxBroadcasts
    /\ sent \in [Codes -> Counts]
    /\ genSeq <= broadcasts
    /\ \A r \in reports : r.gen <= genSeq

(* A code has one tally.                                                   *)
WindowsInv ==
    /\ DrawnOnce
    /\ tallies \in Seq(Tally) /\ Len(tallies) <= ReportMax
    /\ \A i, j \in 1..Len(tallies) : tallies[i].code = tallies[j].code => i = j
    /\ \A i \in 1..Len(tallies) : Sound(tallies[i])

LEMMA DropInvMeans == CollectorsInv /\ WindowsInv => DropTypeOK /\ TimersArmed /\ ReportsAddUp
  <1> SUFFICES ASSUME CollectorsInv, WindowsInv PROVE DropTypeOK /\ TimersArmed /\ ReportsAddUp
    OBVIOUS
  <1>1. DropTypeOK
    BY DEF CollectorsInv, WindowsInv, DrawnOnce, DropTypeOK
  <1>2. DOMAIN buckets = 1..Len(buckets) /\ DOMAIN tallies = 1..Len(tallies)
    BY LenProperties DEF CollectorsInv, WindowsInv
  <1>3. TimersArmed
    BY <1>2 DEF CollectorsInv, WindowsInv, Sound, TimersArmed
  <1>4. ReportsAddUp
    BY <1>2 DEF WindowsInv, Sound, ReportsAddUp
  <1> QED BY <1>1, <1>3, <1>4

LEMMA DropStarts == DropInit => CollectorsInv /\ WindowsInv
  <1> SUFFICES ASSUME DropInit PROVE CollectorsInv /\ WindowsInv
    OBVIOUS
  <1>1. CollectorsMax \in Nat /\ ReportMax \in Nat /\ MaxBroadcasts \in Nat
    BY DropConstants
  <1>2. /\ <<>> \in Seq(Bucket) /\ <<>> \in Seq(Tally) /\ Len(<<>>) = 0
    BY EmptySeq
  <1>3. CollectorsInv
    BY <1>1, <1>2 DEF DropInit, CollectorsInv, Outcome
  <1>4. NoCounts \in Counts
    BY DEF NoCounts, Counts
  <1>5. WindowsInv
    BY <1>1, <1>2, <1>4 DEF DropInit, WindowsInv, DrawnOnce
  <1> QED BY <1>3, <1>5

-----------------------------------------------------------------------------
(* Sequences: what is left of one after elements were taken out of it.     *)

Part(q, s) ==
    \E f \in [1..Len(q) -> 1..Len(s)] :
        /\ \A i \in 1..Len(q) : q[i] = s[f[i]]
        /\ \A i, j \in 1..Len(q) : f[i] = f[j] => i = j

LEMMA SuffixPart ==
    ASSUME NEW S, NEW s \in Seq(S), NEW n \in 0..Len(s)
    PROVE  /\ SubSeq(s, n + 1, Len(s)) \in Seq(S) /\ Part(SubSeq(s, n + 1, Len(s)), s)
           /\ Len(SubSeq(s, n + 1, Len(s))) = Len(s) - n
  <1> DEFINE q == SubSeq(s, n + 1, Len(s))
             f == [i \in 1..(Len(s) - n) |-> i + n]
  <1>1. Len(s) \in Nat /\ \A i \in 1..Len(s) : s[i] \in S
    BY LenProperties, ElementOfSeq
  <1>2. \A i \in (n + 1)..Len(s) : s[i] \in S
    BY <1>1
  <1>3. /\ q \in Seq(S)
        /\ Len(q) = IF n + 1 <= Len(s) THEN Len(s) - (n + 1) + 1 ELSE 0
        /\ \A i \in 1..(Len(s) - (n + 1) + 1) : q[i] = s[(n + 1) + i - 1]
    BY <1>1, <1>2, SubSeqProperties
  <1>4. Len(q) = Len(s) - n /\ \A i \in 1..(Len(s) - n) : q[i] = s[i + n]
    BY <1>1, <1>3
  <1> HIDE DEF q
  <1>5. /\ f \in [1..Len(q) -> 1..Len(s)]
        /\ \A i \in 1..Len(q) : q[i] = s[f[i]]
        /\ \A i, j \in 1..Len(q) : f[i] = f[j] => i = j
    BY <1>1, <1>4
  <1>6. Part(q, s)
    BY <1>5 DEF Part
  <1> QED BY <1>3, <1>4, <1>6 DEF q

Removal(q, s, n) == q = RemoveAt(s, n)

LEMMA RemovedPart ==
    ASSUME NEW S, NEW s \in Seq(S), NEW n \in 1..Len(s), NEW q, Removal(q, s, n)
    PROVE  /\ q \in Seq(S) /\ Len(q) = Len(s) - 1
           /\ Part(q, s)
           /\ \A i \in 1..Len(q) : \E j \in 1..Len(s) : j # n /\ q[i] = s[j]
  <1> DEFINE a == SubSeq(s, 1, n - 1)
             b == SubSeq(s, n + 1, Len(s))
             f == [i \in 1..(Len(s) - 1) |-> IF i < n THEN i ELSE i + 1]
  <1>1. Len(s) \in Nat /\ \A i \in 1..Len(s) : s[i] \in S
    BY LenProperties, ElementOfSeq
  <1>2. (\A i \in 1..(n - 1) : s[i] \in S) /\ (\A i \in (n + 1)..Len(s) : s[i] \in S)
    BY <1>1
  <1>3. a \in Seq(S) /\ Len(a) = n - 1 /\ \A i \in 1..(n - 1) : a[i] = s[i]
    <2>1. /\ a \in Seq(S) /\ Len(a) = IF 1 <= n - 1 THEN (n - 1) - 1 + 1 ELSE 0
          /\ \A i \in 1..((n - 1) - 1 + 1) : a[i] = s[1 + i - 1]
      BY <1>1, <1>2, SubSeqProperties
    <2> QED BY <1>1, <2>1
  <1>4. b \in Seq(S) /\ Len(b) = Len(s) - n /\ \A i \in 1..(Len(s) - n) : b[i] = s[n + i]
    <2>1. /\ b \in Seq(S) /\ Len(b) = IF n + 1 <= Len(s) THEN Len(s) - (n + 1) + 1 ELSE 0
          /\ \A i \in 1..(Len(s) - (n + 1) + 1) : b[i] = s[(n + 1) + i - 1]
      BY <1>1, <1>2, SubSeqProperties
    <2> QED BY <1>1, <2>1
  <1> HIDE DEF a, b
  <1>5. q = a \o b
    BY DEF Removal, RemoveAt, a, b
  <1>6. /\ q \in Seq(S) /\ Len(q) = Len(a) + Len(b)
        /\ \A i \in 1..(Len(a) + Len(b)) : q[i] = IF i <= Len(a) THEN a[i] ELSE b[i - Len(a)]
    <2>1. /\ a \o b \in Seq(S) /\ Len(a \o b) = Len(a) + Len(b)
          /\ \A i \in 1..(Len(a) + Len(b)) : (a \o b)[i] = IF i <= Len(a) THEN a[i] ELSE b[i - Len(a)]
      BY <1>3, <1>4, ConcatProperties
    <2> QED BY <1>5, <2>1
  <1>7. Len(q) = Len(s) - 1
    BY <1>1, <1>3, <1>4, <1>6
  <1>8. ASSUME NEW i \in 1..(Len(s) - 1)
        PROVE  f[i] \in 1..Len(s) /\ f[i] # n /\ q[i] = s[f[i]]
    <2>1. i \in 1..(Len(a) + Len(b))
      BY <1>1, <1>3, <1>4
    <2>2. CASE i < n
      BY <1>1, <1>3, <1>6, <2>1, <2>2
    <2>3. CASE ~(i < n)
      <3>1. q[i] = b[i - Len(a)] /\ i - (n - 1) \in 1..(Len(s) - n)
        BY <1>1, <1>3, <1>6, <2>1, <2>3
      <3>2. q[i] = s[n + (i - (n - 1))]
        BY <1>3, <1>4, <3>1
      <3>3. n + (i - (n - 1)) = i + 1
        BY <1>1
      <3> QED BY <1>1, <2>3, <3>2, <3>3
    <2> QED BY <2>2, <2>3
  <1>9. /\ f \in [1..Len(q) -> 1..Len(s)]
        /\ \A i, j \in 1..Len(q) : f[i] = f[j] => i = j
    BY <1>1, <1>7, <1>8
  <1>10. Part(q, s)
    <2> HIDE DEF f
    <2> QED BY <1>7, <1>8, <1>9 DEF Part
  <1>11. \A i \in 1..Len(q) : \E j \in 1..Len(s) : j # n /\ q[i] = s[j]
    <2> HIDE DEF f
    <2> QED BY <1>7, <1>8
  <1> QED BY <1>6, <1>7, <1>10, <1>11

LEMMA PartOfPart ==
    ASSUME NEW s, NEW q, NEW p, Part(q, s), Part(p, q)
    PROVE  Part(p, s)
  <1>1. PICK f \in [1..Len(q) -> 1..Len(s)] :
          /\ \A i \in 1..Len(q) : q[i] = s[f[i]]
          /\ \A i, j \in 1..Len(q) : f[i] = f[j] => i = j
    BY DEF Part
  <1>2. PICK g \in [1..Len(p) -> 1..Len(q)] :
          /\ \A i \in 1..Len(p) : p[i] = q[g[i]]
          /\ \A i, j \in 1..Len(p) : g[i] = g[j] => i = j
    BY DEF Part
  <1> DEFINE h == [i \in 1..Len(p) |-> f[g[i]]]
  <1>3. /\ h \in [1..Len(p) -> 1..Len(s)]
        /\ \A i \in 1..Len(p) : p[i] = s[h[i]]
        /\ \A i, j \in 1..Len(p) : h[i] = h[j] => i = j
    BY <1>1, <1>2
  <1> HIDE DEF h
  <1> QED BY <1>3 DEF Part

LEMMA WholePart == \A S : \A s \in Seq(S) : Part(s, s)
  <1> SUFFICES ASSUME NEW S, NEW s \in Seq(S) PROVE Part(s, s)
    OBVIOUS
  <1> DEFINE f == [i \in 1..Len(s) |-> i]
  <1>1. /\ f \in [1..Len(s) -> 1..Len(s)]
        /\ \A i \in 1..Len(s) : s[i] = s[f[i]]
        /\ \A i, j \in 1..Len(s) : f[i] = f[j] => i = j
    OBVIOUS
  <1> HIDE DEF f
  <1> QED BY <1>1 DEF Part

LEMMA PartMember ==
    ASSUME NEW s, NEW q, Part(q, s), NEW i \in 1..Len(q)
    PROVE  \E j \in 1..Len(s) : q[i] = s[j]
  BY DEF Part

LEMMA PartApart ==
    ASSUME NEW s, NEW q, Part(q, s),
           NEW i \in 1..Len(q), NEW j \in 1..Len(q), i # j
    PROVE  \E m, n \in 1..Len(s) : m # n /\ q[i] = s[m] /\ q[j] = s[n]
  BY DEF Part

(* The first position that passes a test, when there is one.               *)
LEMMA FirstOf ==
    ASSUME NEW n \in Nat, NEW I \in SUBSET (1..n), I # {}
    PROVE  Min(I) \in I
  <1> DEFINE R == {ss \in Nat \X Nat : ss[1] < ss[2]}
  <1>1. IsWellFoundedOn(R, Nat)
    BY NatLessThanWellFounded DEF OpToRel
  <1>2. I \subseteq Nat
    OBVIOUS
  <1>3. \A x, y \in Nat : <<y, x>> \in R <=> y < x
    OBVIOUS
  <1> HIDE DEF R
  <1>4. PICK x \in I : \A y \in I : ~(<<y, x>> \in R)
    BY <1>1, <1>2, WFMin
  <1>5. ASSUME NEW y \in I PROVE x <= y
    <2>1. x \in Nat /\ y \in Nat
      BY <1>2
    <2>2. ~(y < x)
      BY <1>3, <1>4, <2>1
    <2> QED BY <2>1, <2>2
  <1> QED BY <1>5 DEF Min

LEMMA BucketFound ==
    ASSUME buckets \in Seq(Bucket), NEW l, NEW c
    PROVE  /\ BucketAt(l, c) \in 0..Len(buckets)
           /\ BucketAt(l, c) # 0 =>
                 buckets[BucketAt(l, c)].license = l /\ buckets[BucketAt(l, c)].code = c
           /\ BucketAt(l, c) = 0 =>
                 \A i \in 1..Len(buckets) : ~(buckets[i].license = l /\ buckets[i].code = c)
  <1> DEFINE I == {i \in 1..Len(buckets) : buckets[i].license = l /\ buckets[i].code = c}
  <1>1. BucketAt(l, c) = IF I # {} THEN Min(I) ELSE 0
    BY DEF BucketAt, SelectInSeq
  <1>2. Len(buckets) \in Nat /\ I \in SUBSET (1..Len(buckets))
    BY LenProperties
  <1>3. \A i : i \in I <=> i \in 1..Len(buckets) /\ buckets[i].license = l /\ buckets[i].code = c
    OBVIOUS
  <1> HIDE DEF I
  <1>4. I # {} => Min(I) \in I
    BY <1>2, FirstOf
  <1> QED BY <1>1, <1>2, <1>3, <1>4

LEMMA TallyFound ==
    ASSUME NEW s \in Seq(Tally), NEW c
    PROVE  /\ Entry(s, c) \in 0..Len(s)
           /\ Entry(s, c) # 0 => s[Entry(s, c)].code = c
           /\ Entry(s, c) = 0 => \A i \in 1..Len(s) : s[i].code # c
  <1> DEFINE I == {i \in 1..Len(s) : s[i].code = c}
  <1>1. Entry(s, c) = IF I # {} THEN Min(I) ELSE 0
    BY DEF Entry, SelectInSeq
  <1>2. Len(s) \in Nat /\ I \in SUBSET (1..Len(s))
    BY LenProperties
  <1>3. \A i : i \in I <=> i \in 1..Len(s) /\ s[i].code = c
    OBVIOUS
  <1> HIDE DEF I
  <1>4. I # {} => Min(I) \in I
    BY <1>2, FirstOf
  <1> QED BY <1>1, <1>2, <1>3, <1>4

-----------------------------------------------------------------------------
(* The collectors of results. *)

LEMMA FireSummarySafe ==
    ASSUME CollectorsInv, NEW l \in Licenses, NEW c \in Codes, FireSummary(l, c)
    PROVE  CollectorsInv'
  <1> DEFINE i == BucketAt(l, c)
  <1>1. /\ dedup \in [Keys -> Outcome] /\ shown \in [Keys -> Outcome]
        /\ buckets \in Seq(Bucket) /\ Len(buckets) \in Nat /\ Len(buckets) <= CollectorsMax
        /\ summaries \in [Licenses \X Codes -> Nat] /\ CollectorsMax \in Nat
        /\ \A j \in 1..Len(buckets) : buckets[j] \in Bucket
    BY LenProperties, ElementOfSeq, DropConstants DEF CollectorsInv
  <1>2. /\ i \in 0..Len(buckets)
        /\ i # 0 => buckets[i].license = l /\ buckets[i].code = c
        /\ i = 0 => \A j \in 1..Len(buckets) : ~(buckets[j].license = l /\ buckets[j].code = c)
    BY <1>1, BucketFound
  <1>3. /\ summaries[<<l, c>>] > 0 /\ summaries' = [summaries EXCEPT ![<<l, c>>] = @ - 1]
        /\ dedup' = dedup
    BY DEF FireSummary
  <1>4. /\ summaries' \in [Licenses \X Codes -> Nat]
        /\ \A b \in Bucket : ~(b.license = l /\ b.code = c)
              => summaries'[<<b.license, b.code>>] = summaries[<<b.license, b.code>>]
    BY <1>1, <1>3 DEF Bucket
  <1>5. CASE i = 0
    <2>1. buckets' = buckets /\ shown' = shown
      BY <1>5 DEF FireSummary
    <2>2. \A j \in 1..Len(buckets') : summaries'[<<buckets'[j].license, buckets'[j].code>>] > 0
      BY <1>1, <1>2, <1>4, <1>5, <2>1 DEF CollectorsInv
    <2>3. \A j \in 1..Len(buckets') : Waiting(buckets[j])'
      BY <1>3, <2>1 DEF CollectorsInv, Waiting
    <2>4. \A k \in Keys : shown'[k] = "claimed" =>
             dedup'[k] # "none" /\ \A j \in 1..Len(buckets') : Settled(buckets'[j], k)
      BY <1>3, <2>1 DEF CollectorsInv
    <2> QED BY <1>3, <1>4, <2>1, <2>2, <2>3, <2>4 DEF CollectorsInv, Settled
  <1>6. CASE i # 0
    <2>1. /\ buckets' = RemoveAt(buckets, i)
          /\ shown' = [k \in Keys |->
                 IF k[1] = l /\ k[3] = c /\ TellsOf(buckets[i], k)
                 THEN Told(buckets[i], k[2]) ELSE shown[k]]
      BY <1>6 DEF FireSummary
    <2>2. i \in 1..Len(buckets)
      BY <1>1, <1>2, <1>6
    <2> HIDE DEF i
    <2>3. /\ buckets' \in Seq(Bucket) /\ Len(buckets') = Len(buckets) - 1
          /\ Part(buckets', buckets)
          /\ \A j \in 1..Len(buckets') : \E m \in 1..Len(buckets) : m # i /\ buckets'[j] = buckets[m]
      <3>1. buckets \in Seq(Bucket)
        BY <1>1
      <3> QED BY <2>1, <2>2, <3>1, RemovedPart DEF Removal
    <2>4. \A j \in 1..Len(buckets') :
             /\ \E m \in 1..Len(buckets) : buckets'[j] = buckets[m]
             /\ ~(buckets'[j].license = l /\ buckets'[j].code = c)
      BY <1>2, <1>6, <2>2, <2>3 DEF CollectorsInv
    <2>5. \A j, m \in 1..Len(buckets') :
             buckets'[j].license = buckets'[m].license /\ buckets'[j].code = buckets'[m].code => j = m
      <3> SUFFICES ASSUME NEW j \in 1..Len(buckets'), NEW m \in 1..Len(buckets'), j # m,
                          buckets'[j].license = buckets'[m].license, buckets'[j].code = buckets'[m].code
                   PROVE  FALSE
        OBVIOUS
      <3>1. Part(buckets', buckets)
        BY <2>3
      <3>2. PICK x, y \in 1..Len(buckets) : x # y /\ buckets'[j] = buckets[x] /\ buckets'[m] = buckets[y]
        BY <3>1, PartApart
      <3> QED BY <3>2 DEF CollectorsInv
    <2>6. ASSUME NEW j \in 1..Len(buckets')
          PROVE  summaries'[<<buckets'[j].license, buckets'[j].code>>] > 0
      <3>1. PICK m \in 1..Len(buckets) : buckets'[j] = buckets[m]
        BY <2>4
      <3>2. buckets[m] \in Bucket /\ ~(buckets[m].license = l /\ buckets[m].code = c)
        BY <1>1, <2>4, <3>1
      <3>3. summaries[<<buckets[m].license, buckets[m].code>>] > 0
        BY DEF CollectorsInv
      <3> QED BY <1>4, <3>1, <3>2, <3>3
    <2>7. ASSUME NEW j \in 1..Len(buckets') PROVE Waiting(buckets[j])'
      <3>1. PICK m \in 1..Len(buckets) : buckets'[j] = buckets[m]
        BY <2>4
      <3>2. Waiting(buckets[m])
        BY DEF CollectorsInv
      <3> QED BY <1>3, <3>1, <3>2 DEF Waiting
    <2>8. shown' \in [Keys -> Outcome]
      BY <1>1, <2>1 DEF Told, Outcome
    <2>9. ASSUME NEW k \in Keys, shown'[k] = "claimed"
          PROVE  dedup'[k] # "none" /\ \A j \in 1..Len(buckets') : Settled(buckets'[j], k)
      <3>1. /\ k[2] \in Users /\ k[4] \in Currencies /\ k = <<k[1], k[2], k[3], k[4]>>
        BY DEF Keys
      <3>2. CASE k[1] = l /\ k[3] = c /\ TellsOf(buckets[i], k)
        <4>1. PICK outcome \in Category : <<k[2], k[4], outcome>> \in buckets[i].results
          BY <3>2 DEF TellsOf
        <4>2. Waiting(buckets[i]) /\ buckets[i].license = l /\ buckets[i].code = c
          BY <1>2, <1>6, <2>2 DEF CollectorsInv
        <4>3. dedup[<<l, k[2], c, k[4]>>] # "none"
          BY <3>1, <4>1, <4>2 DEF Waiting
        <4>4. \A j \in 1..Len(buckets') : Settled(buckets'[j], k)
          BY <2>4, <3>2 DEF Settled
        <4> QED BY <1>3, <3>1, <3>2, <4>3, <4>4
      <3>3. CASE ~(k[1] = l /\ k[3] = c /\ TellsOf(buckets[i], k))
        <4>1. shown[k] = "claimed"
          BY <2>1, <2>9, <3>3
        <4>2. dedup[k] # "none" /\ \A m \in 1..Len(buckets) : Settled(buckets[m], k)
          BY <4>1 DEF CollectorsInv
        <4>3. ASSUME NEW j \in 1..Len(buckets') PROVE Settled(buckets'[j], k)
          <5>1. PICK m \in 1..Len(buckets) : buckets'[j] = buckets[m]
            BY <2>4
          <5> QED BY <4>2, <5>1
        <4> QED BY <1>3, <4>2, <4>3
      <3> QED BY <3>2, <3>3
    <2>10. Len(buckets') <= CollectorsMax
      BY <1>1, <2>3
    <2> QED BY <1>1, <1>3, <1>4, <2>3, <2>5, <2>6, <2>7, <2>8, <2>9, <2>10 DEF CollectorsInv, Settled
  <1> QED BY <1>5, <1>6

LEMMA ForgetDedupSafe ==
    ASSUME CollectorsInv, NEW k \in Keys, ForgetDedup(k)
    PROVE  CollectorsInv'
  <1>1. /\ dedup' = [dedup EXCEPT ![k] = "none"] /\ shown' = [shown EXCEPT ![k] = "none"]
        /\ UNCHANGED <<buckets, summaries>>
    BY DEF ForgetDedup
  <1>2. /\ dedup \in [Keys -> Outcome] /\ shown \in [Keys -> Outcome] /\ "none" \in Outcome
        /\ DOMAIN buckets = 1..Len(buckets)
    BY LenProperties DEF CollectorsInv, Outcome
  <1>3. \A i \in 1..Len(buckets) :
             buckets[i].license = k[1] /\ buckets[i].code = k[3] => ~TellsOf(buckets[i], k)
    BY <1>2 DEF ForgetDedup
  <1>4. dedup' \in [Keys -> Outcome] /\ shown' \in [Keys -> Outcome]
    BY <1>1, <1>2
  <1>5. ASSUME NEW i \in 1..Len(buckets) PROVE Waiting(buckets[i])'
    <2> SUFFICES ASSUME NEW u \in Users, NEW currency \in Currencies, NEW outcome \in Category,
                        <<u, currency, outcome>> \in buckets[i].results
                 PROVE  dedup'[<<buckets[i].license, u, buckets[i].code, currency>>]
                          = dedup[<<buckets[i].license, u, buckets[i].code, currency>>]
      BY <1>1 DEF CollectorsInv, Waiting
    <2>1. buckets[i].license \in Licenses /\ buckets[i].code \in Codes
      <3>1. buckets[i] \in Bucket
        BY ElementOfSeq DEF CollectorsInv
      <3> QED BY <3>1 DEF Bucket
    <2>2. PICK x \in Keys : x = <<buckets[i].license, u, buckets[i].code, currency>>
      BY <2>1 DEF Keys
    <2>3. x # k
      BY <1>3, <2>2 DEF TellsOf
    <2> QED BY <1>1, <1>2, <2>2, <2>3
  <1>6. ASSUME NEW x \in Keys, shown'[x] = "claimed"
        PROVE  dedup'[x] # "none" /\ \A i \in 1..Len(buckets) : Settled(buckets[i], x)
    <2>1. x # k /\ shown[x] = "claimed" /\ dedup'[x] = dedup[x]
      BY <1>1, <1>2, <1>6
    <2> QED BY <2>1 DEF CollectorsInv
  <1>7. \A i \in 1..Len(buckets') : Waiting(buckets[i])'
    BY <1>1, <1>5
  <1> QED BY <1>1, <1>4, <1>6, <1>7 DEF CollectorsInv, Settled

LEMMA CollectSafe ==
    ASSUME CollectorsInv, NEW l \in Licenses, NEW u \in Users, NEW c \in Codes,
           NEW currency \in Currencies, NEW outcome \in Category,
           ~Duplicate(<<l, u, c, currency>>, outcome),
           dedup' = [dedup EXCEPT ![<<l, u, c, currency>>] = outcome],
           AppendResult(l, u, c, currency, outcome), shown' = shown
    PROVE  CollectorsInv'
  <1> DEFINE k == <<l, u, c, currency>>
             result == <<u, currency, outcome>>
             open == BucketAt(l, c)
             room == IF Len(buckets) >= CollectorsMax THEN Tail(buckets) ELSE buckets
             new == [license |-> l, code |-> c, results |-> {result}]
  <1>1. /\ dedup \in [Keys -> Outcome] /\ shown \in [Keys -> Outcome] /\ outcome \in Outcome
        /\ buckets \in Seq(Bucket) /\ Len(buckets) \in Nat /\ Len(buckets) <= CollectorsMax
        /\ summaries \in [Licenses \X Codes -> Nat] /\ CollectorsMax \in Nat \ {0}
        /\ \A j \in 1..Len(buckets) : buckets[j] \in Bucket
    BY LenProperties, ElementOfSeq, DropConstants DEF CollectorsInv, Category, Outcome
  <1>2. k \in Keys /\ k[1] = l /\ k[2] = u /\ k[3] = c /\ k[4] = currency
    BY DEF Keys
  <1>3. /\ dedup[k] # "claimed" /\ outcome # "none"
        /\ dedup[k] # "none" => outcome = "claimed"
    <2>1. dedup[k] # outcome /\ dedup[k] # "claimed" /\ dedup[k] \in Outcome
      BY <1>1, <1>2 DEF Duplicate
    <2> QED BY <2>1 DEF Outcome, Category
  <1>4. /\ dedup' \in [Keys -> Outcome] /\ dedup'[k] = outcome
        /\ \A x \in Keys : x # k => dedup'[x] = dedup[x]
    BY <1>1, <1>2
  <1>11. \A x \in Keys : (dedup[x] # "none" => dedup'[x] # "none") /\ (dedup[x] = "claimed" => dedup'[x] = "claimed")
    BY <1>3, <1>4
  <1>12. ASSUME NEW b \in Bucket, Waiting(b) PROVE Waiting(b)'
    <2> SUFFICES ASSUME NEW v \in Users, NEW cur \in Currencies, NEW o \in Category,
                        <<v, cur, o>> \in b.results
                 PROVE  /\ dedup'[<<b.license, v, b.code, cur>>] # "none"
                        /\ o = "claimed" => dedup'[<<b.license, v, b.code, cur>>] = "claimed"
      BY DEF Waiting
    <2>1. PICK x \in Keys : x = <<b.license, v, b.code, cur>>
      BY DEF Bucket, Keys
    <2>2. dedup[x] # "none" /\ (o = "claimed" => dedup[x] = "claimed")
      BY <1>12, <2>1 DEF Waiting
    <2> QED BY <1>11, <2>1, <2>2
  <1>5. /\ open \in 0..Len(buckets)
        /\ open # 0 => buckets[open].license = l /\ buckets[open].code = c
        /\ open = 0 => \A j \in 1..Len(buckets) : ~(buckets[j].license = l /\ buckets[j].code = c)
    BY <1>1, BucketFound
  <1>6. CASE open # 0
    <2>1. /\ buckets' = [buckets EXCEPT ![open].results = @ \cup {result}]
          /\ summaries' = summaries
      BY <1>6 DEF AppendResult
    <2>2. open \in 1..Len(buckets)
      BY <1>1, <1>5, <1>6
    <2> DEFINE grown == [buckets[open] EXCEPT !.results = @ \cup {result}]
    <2>3. buckets' = [buckets EXCEPT ![open] = grown]
      BY <2>1
    <2>4. /\ grown \in Bucket /\ grown.license = l /\ grown.code = c
          /\ grown.results = buckets[open].results \cup {result}
      <3> DEFINE b == buckets[open]
      <3>1. b \in Bucket /\ b.license = l /\ b.code = c
        BY <1>1, <1>5, <1>6, <2>2
      <3> HIDE DEF b
      <3>2. result \in Users \X Currencies \X Category
        OBVIOUS
      <3>3. [b EXCEPT !.results = @ \cup {result}]
              = [license |-> b.license, code |-> b.code, results |-> b.results \cup {result}]
        BY <3>1 DEF Bucket
      <3> QED BY <3>1, <3>2, <3>3 DEF Bucket, b
    <2> HIDE DEF open, grown
    <2>5. /\ buckets' \in Seq(Bucket) /\ Len(buckets') = Len(buckets)
          /\ \A j \in 1..Len(buckets) : buckets'[j] = IF j = open THEN grown ELSE buckets[j]
      BY <1>1, <2>2, <2>3, <2>4, ExceptSeq
    <2>6. \A j \in 1..Len(buckets) :
             buckets'[j].license = buckets[j].license /\ buckets'[j].code = buckets[j].code
      BY <1>5, <1>6, <2>2, <2>4, <2>5
    <2>7. \A i, j \in 1..Len(buckets') :
             buckets'[i].license = buckets'[j].license /\ buckets'[i].code = buckets'[j].code => i = j
      BY <2>5, <2>6 DEF CollectorsInv
    <2>8. \A j \in 1..Len(buckets') : summaries'[<<buckets'[j].license, buckets'[j].code>>] > 0
      BY <2>1, <2>5, <2>6 DEF CollectorsInv
    <2>9. ASSUME NEW j \in 1..Len(buckets') PROVE Waiting(buckets[j])'
      <3>1. PICK b \in Bucket : b = buckets[j]
        BY <1>1, <2>5
      <3>2. Waiting(b) /\ Waiting(b)'
        BY <1>12, <2>5, <3>1 DEF CollectorsInv
      <3>3. CASE j # open
        <4>1. buckets'[j] = b
          BY <2>5, <3>1, <3>3
        <4> QED BY <3>2, <4>1 DEF Waiting
      <3>4. CASE j = open
        <4>1. buckets'[j] = grown /\ grown.results = b.results \cup {result}
          BY <2>4, <2>5, <3>1, <3>4
        <4>2. b.license = l /\ b.code = c
          BY <2>2, <2>5, <3>1, <3>4, <1>5, <1>6
        <4> SUFFICES ASSUME NEW v \in Users, NEW cur \in Currencies, NEW o \in Category,
                            <<v, cur, o>> \in grown.results
                     PROVE  /\ dedup'[<<l, v, c, cur>>] # "none"
                            /\ o = "claimed" => dedup'[<<l, v, c, cur>>] = "claimed"
          BY <2>4, <4>1 DEF Waiting
        <4>3. CASE <<v, cur, o>> \in b.results
          BY <3>2, <4>2, <4>3 DEF Waiting
        <4>4. CASE <<v, cur, o>> = result
          BY <1>3, <1>4, <4>4
        <4> QED BY <4>1, <4>3, <4>4
      <3> QED BY <3>3, <3>4
    <2>10. ASSUME NEW x \in Keys, shown'[x] = "claimed"
           PROVE  dedup'[x] # "none" /\ \A j \in 1..Len(buckets') : Settled(buckets'[j], x)
      <3>1. shown[x] = "claimed" /\ x = <<x[1], x[2], x[3], x[4]>>
        BY <2>10 DEF Keys
      <3>2. dedup[x] # "none" /\ \A j \in 1..Len(buckets) : Settled(buckets[j], x)
        BY <3>1 DEF CollectorsInv
      <3>3. ASSUME NEW j \in 1..Len(buckets') PROVE Settled(buckets'[j], x)
        <4>1. CASE j # open
          BY <2>5, <3>2, <4>1
        <4>2. CASE j = open
          <5>1. /\ buckets'[j].results = buckets[j].results \cup {result}
                /\ buckets'[j].license = buckets[j].license /\ buckets'[j].code = buckets[j].code
                /\ buckets'[j].license = l /\ buckets'[j].code = c
            BY <2>4, <2>5, <2>6, <4>2
          <5>2. x[1] = l /\ x[3] = c /\ result = <<x[2], x[4], "failed">> => x = k /\ outcome = "failed"
            BY <3>1
          <5>3. x = k => outcome # "failed"
            BY <1>3, <3>2
          <5>4. Settled(buckets[j], x)
            BY <2>5, <3>2
          <5> HIDE DEF result
          <5> QED BY <5>1, <5>2, <5>3, <5>4 DEF Settled
        <4> QED BY <4>1, <4>2
      <3> QED BY <1>11, <3>2, <3>3
    <2>11. shown' \in [Keys -> Outcome] /\ summaries' \in [Licenses \X Codes -> Nat] /\ Len(buckets') <= CollectorsMax
      BY <1>1, <2>1, <2>5
    <2> QED BY <1>4, <2>5, <2>7, <2>8, <2>9, <2>10, <2>11 DEF CollectorsInv, Settled
  <1>7. CASE open = 0
    <2>1. buckets' = Append(room, new) /\ summaries' = [summaries EXCEPT ![<<l, c>>] = @ + 1]
      BY <1>7 DEF AppendResult
    <2>2. new \in Bucket /\ new.license = l /\ new.code = c /\ new.results = {result}
      BY DEF Bucket
    <2>3. /\ room \in Seq(Bucket) /\ Part(room, buckets) /\ Len(room) \in Nat
          /\ Len(room) + 1 <= CollectorsMax
      <3>1. CASE Len(buckets) >= CollectorsMax
        <4>1. buckets # <<>> /\ room = Tail(buckets)
          BY <1>1, <3>1, EmptySeq
        <4>2. room = SubSeq(buckets, 1 + 1, Len(buckets)) /\ 1 \in 0..Len(buckets)
          BY <1>1, <3>1, <4>1, TailIsSubSeq
        <4> HIDE DEF room
        <4> QED BY <1>1, <4>2, SuffixPart
      <3>2. CASE ~(Len(buckets) >= CollectorsMax)
        BY <1>1, <3>2, WholePart
      <3> QED BY <3>1, <3>2
    <2> HIDE DEF room, new, open
    <2>4. /\ buckets' \in Seq(Bucket) /\ Len(buckets') = Len(room) + 1
          /\ \A j \in 1..Len(room) : buckets'[j] = room[j]
          /\ buckets'[Len(room) + 1] = new
      BY <2>1, <2>2, <2>3, AppendProperties
    <2>5. \A j \in 1..Len(room) : \E m \in 1..Len(buckets) : room[j] = buckets[m]
      BY <2>3, PartMember
    <2>6. \A j \in 1..Len(buckets') : j \in 1..Len(room) \/ (j = Len(room) + 1 /\ buckets'[j] = new)
      BY <2>3, <2>4
    <2>7. ASSUME NEW j \in 1..Len(buckets')
          PROVE  \/ \E m \in 1..Len(buckets) : buckets'[j] = buckets[m]
                 \/ j = Len(room) + 1 /\ buckets'[j] = new
      BY <2>4, <2>5, <2>6
    <2>8. \A j \in 1..Len(room) : ~(room[j].license = l /\ room[j].code = c)
      BY <1>5, <1>7, <2>5
    <2>9. ASSUME NEW i \in 1..Len(buckets'), NEW j \in 1..Len(buckets'),
                 buckets'[i].license = buckets'[j].license, buckets'[i].code = buckets'[j].code
          PROVE  i = j
      <3>1. CASE i \in 1..Len(room) /\ j \in 1..Len(room)
        <4> SUFFICES ASSUME i # j PROVE FALSE
          OBVIOUS
        <4>1. PICK x, y \in 1..Len(buckets) : x # y /\ room[i] = buckets[x] /\ room[j] = buckets[y]
          BY <2>3, <3>1, PartApart
        <4>2. buckets'[i] = buckets[x] /\ buckets'[j] = buckets[y]
          BY <2>4, <3>1, <4>1
        <4>3. buckets[x].license = buckets[y].license /\ buckets[x].code = buckets[y].code
          BY <2>9, <4>2
        <4> QED BY <4>1, <4>3 DEF CollectorsInv
      <3>2. CASE i \notin 1..Len(room) \/ j \notin 1..Len(room)
        BY <2>2, <2>4, <2>6, <2>8, <2>9, <3>2
      <3> QED BY <3>1, <3>2
    <2>10. /\ summaries' \in [Licenses \X Codes -> Nat] /\ summaries'[<<l, c>>] > 0
           /\ \A b \in Bucket : summaries[<<b.license, b.code>>] > 0 => summaries'[<<b.license, b.code>>] > 0
      BY <1>1, <2>1 DEF Bucket
    <2>11. ASSUME NEW j \in 1..Len(buckets')
           PROVE  summaries'[<<buckets'[j].license, buckets'[j].code>>] > 0
      <3>1. CASE \E m \in 1..Len(buckets) : buckets'[j] = buckets[m]
        BY <1>1, <2>10, <3>1 DEF CollectorsInv
      <3> QED BY <2>2, <2>7, <2>10, <3>1
    <2>12. ASSUME NEW j \in 1..Len(buckets') PROVE Waiting(buckets[j])'
      <3>1. ASSUME NEW m \in 1..Len(buckets), buckets'[j] = buckets[m] PROVE Waiting(buckets[j])'
        <4>1. PICK b \in Bucket : b = buckets[m]
          BY <1>1
        <4>2. Waiting(b)'
          BY <1>12, <4>1 DEF CollectorsInv
        <4> QED BY <3>1, <4>1, <4>2 DEF Waiting
      <3>2. CASE buckets'[j] = new
        <4> SUFFICES ASSUME NEW v \in Users, NEW cur \in Currencies, NEW o \in Category,
                            <<v, cur, o>> \in new.results
                     PROVE  /\ dedup'[<<l, v, c, cur>>] # "none"
                            /\ o = "claimed" => dedup'[<<l, v, c, cur>>] = "claimed"
          BY <2>2, <3>2 DEF Waiting
        <4>1. <<v, cur, o>> = result
          BY <2>2
        <4> QED BY <1>3, <1>4, <4>1
      <3> QED BY <2>7, <3>1, <3>2
    <2>13. ASSUME NEW x \in Keys, shown'[x] = "claimed"
           PROVE  dedup'[x] # "none" /\ \A j \in 1..Len(buckets') : Settled(buckets'[j], x)
      <3>1. shown[x] = "claimed" /\ x = <<x[1], x[2], x[3], x[4]>>
        BY <2>13 DEF Keys
      <3>2. dedup[x] # "none" /\ \A j \in 1..Len(buckets) : Settled(buckets[j], x)
        BY <3>1 DEF CollectorsInv
      <3>3. ASSUME NEW j \in 1..Len(buckets') PROVE Settled(buckets'[j], x)
        <4>1. CASE \E m \in 1..Len(buckets) : buckets'[j] = buckets[m]
          BY <3>2, <4>1
        <4>2. CASE buckets'[j] = new
          <5>1. x[1] = l /\ x[3] = c /\ result = <<x[2], x[4], "failed">> => x = k /\ outcome = "failed"
            BY <3>1
          <5>2. x = k => outcome # "failed"
            BY <1>3, <3>2
          <5> HIDE DEF result
          <5> QED BY <2>2, <4>2, <5>1, <5>2 DEF Settled
        <4> QED BY <2>7, <4>1, <4>2
      <3> QED BY <1>11, <3>2, <3>3
    <2>14. shown' \in [Keys -> Outcome] /\ Len(buckets') <= CollectorsMax
      BY <1>1, <2>3, <2>4
    <2> QED BY <1>4, <2>4, <2>9, <2>10, <2>11, <2>12, <2>13, <2>14 DEF CollectorsInv, Settled
  <1> QED BY <1>6, <1>7

-----------------------------------------------------------------------------
(* The windows of the report. *)

LEMMA MovesBounded == MaxMoves \in Nat /\ 0 \in 0..MaxMoves
  <1>1. MaxMoves \in Nat
    BY DropConstants
  <1> QED BY <1>1

LEMMA FoldedSound ==
    ASSUME NEW t \in Tally, Sound(t),
           NEW l \in Licenses, NEW u \in Users, NEW c \in Codes, NEW outcome \in Category
    PROVE  /\ Folded(t, l, u, outcome) \in Tally
           /\ Folded(t, l, u, outcome).code = t.code
           /\ Sound(Folded(t, l, u, outcome))
  <1> DEFINE f == Folded(t, l, u, outcome)
  <1>1. CASE outcome = "claimed" /\ <<l, u>> \in t.users
    BY <1>1 DEF Folded
  <1>2. CASE ~(outcome = "claimed" /\ <<l, u>> \in t.users)
    <2> DEFINE counted == [t.counts EXCEPT ![outcome] = @ + 1]
               known == IF outcome = "claimed" THEN t.users \cup {<<l, u>>} ELSE t.users
    <2>1. f = [t EXCEPT !.counts = counted, !.users = known]
      BY <1>2 DEF Folded
    <2>2. /\ counted \in Counts /\ known \in SUBSET (Licenses \X Users)
          /\ t.counts \in Counts /\ t.reported \in Counts
      BY DEF Tally, Counts
    <2>3. /\ \A x \in Category : counted[x] >= t.counts[x]
          /\ outcome = "claimed" => counted["claimed"] > 0
      BY <2>2 DEF Counts, Category
    <2>4. known # {} => outcome = "claimed" \/ t.users # {}
      OBVIOUS
    <2> HIDE DEF counted, known
    <2>5. /\ f \in Tally /\ f.code = t.code /\ f.gen = t.gen /\ f.pending = t.pending
          /\ f.reported = t.reported /\ f.counts = counted /\ f.users = known
          /\ f.moved = t.moved /\ f.moves = t.moves
      BY <2>1, <2>2 DEF Tally
    <2> HIDE DEF f
    <2>6. "claimed" \in Category /\ \A x \in Category : t.counts[x] \in Nat /\ counted[x] \in Nat /\ t.reported[x] \in Nat
      BY <2>2 DEF Counts, Category
    <2>7. \A x \in Category : f.reported[x] <= f.counts[x]
      BY <2>3, <2>5, <2>6 DEF Sound
    <2>8. f.users # {} => f.counts["claimed"] > 0
      BY <2>3, <2>4, <2>5, <2>6 DEF Sound
    <2>9. /\ f.gen <= genSeq /\ sent[f.code] = f.reported
          /\ f.pending <=> [code |-> f.code, gen |-> f.gen] \in reports
          /\ f.moved => f.moves < MaxMoves
      BY <2>5 DEF Sound
    <2>10. Sound(f)
      BY <2>7, <2>8, <2>9 DEF Sound
    <2> QED BY <2>5, <2>10 DEF f
  <1> QED BY <1>1, <1>2

LEMMA FoldSafe ==
    ASSUME WindowsInv, NEW l \in Licenses, NEW u \in Users, NEW c \in Codes, NEW outcome \in Category,
           FoldResponse(l, u, c, outcome), UNCHANGED <<reports, genSeq, broadcasts, sent>>
    PROVE  WindowsInv'
  <1>1. /\ tallies \in Seq(Tally) /\ DOMAIN tallies = 1..Len(tallies) /\ Len(tallies) \in Nat
        /\ \A i \in 1..Len(tallies) : tallies[i] \in Tally /\ Sound(tallies[i])
    BY LenProperties, ElementOfSeq DEF WindowsInv
  <1> DEFINE g(i) == IF tallies[i].code = c THEN Folded(tallies[i], l, u, outcome) ELSE tallies[i]
  <1>2. ASSUME NEW i \in 1..Len(tallies)
        PROVE  g(i) \in Tally /\ g(i).code = tallies[i].code /\ Sound(g(i))
    BY <1>1, FoldedSound
  <1>3. tallies' = [i \in 1..Len(tallies) |-> g(i)]
    BY <1>1 DEF FoldResponse
  <1> HIDE DEF g
  <1>4. tallies' \in [1..Len(tallies) -> Tally] /\ \A i \in 1..Len(tallies) : tallies'[i] = g(i)
    BY <1>2, <1>3
  <1>5. tallies' \in Seq(Tally)
    BY <1>1, <1>4, SeqDef
  <1>6. Len(tallies') = Len(tallies)
    <2>1. Len(tallies') \in Nat /\ DOMAIN tallies' = 1..Len(tallies') /\ DOMAIN tallies' = 1..Len(tallies)
      BY <1>4, <1>5, LenProperties
    <2> DEFINE m == Len(tallies')
               n == Len(tallies)
    <2>2. m \in Nat /\ n \in Nat /\ 1..m = 1..n
      BY <1>1, <2>1
    <2> HIDE DEF m, n
    <2>3. m # 0 => m \in 1..n
      BY <2>2
    <2>4. n # 0 => n \in 1..m
      BY <2>2
    <2>5. m = n
      BY <2>2, <2>3, <2>4
    <2> QED BY <2>5 DEF m, n
  <1>7. /\ \A i \in 1..Len(tallies') : tallies'[i].code = tallies[i].code /\ Sound(tallies'[i])
    BY <1>2, <1>4, <1>6
  <1>8. \A i \in 1..Len(tallies') : Sound(tallies[i])'
    BY <1>7 DEF Sound
  <1>9. DrawnOnce'
    BY DEF WindowsInv, DrawnOnce
  <1> QED BY <1>5, <1>6, <1>7, <1>8, <1>9 DEF WindowsInv

(* A broadcast keeps some of the tallies and puts its own behind them.     *)
LEMMA TouchedSafe ==
    ASSUME WindowsInv, DrawnOnce', NEW c \in Codes, NEW r \in Seq(Tally), NEW e \in Tally,
           Part(r, tallies), Len(r) + 1 <= ReportMax, tallies' = Append(r, e), e.code = c,
           \A i \in 1..Len(r) : r[i].code # c,
           Sound(e)', \A t \in Tally : t.code # c /\ Sound(t) => Sound(t)'
    PROVE  WindowsInv'
  <1>1. /\ tallies' \in Seq(Tally) /\ Len(tallies') = Len(r) + 1 /\ Len(r) \in Nat
        /\ \A i \in 1..Len(r) : tallies'[i] = r[i] /\ r[i] \in Tally
        /\ tallies'[Len(r) + 1] = e
    BY AppendProperties, LenProperties, ElementOfSeq
  <1>2. \A i \in 1..Len(tallies') : i \in 1..Len(r) \/ (i = Len(r) + 1 /\ tallies'[i] = e)
    BY <1>1
  <1>3. ASSUME NEW i \in 1..Len(tallies')
        PROVE  Sound(tallies[i])'
    <2>1. CASE i \in 1..Len(r)
      <3>1. PICK m \in 1..Len(tallies) : r[i] = tallies[m]
        BY <2>1, PartMember
      <3>2. r[i] \in Tally /\ r[i].code # c /\ Sound(r[i]) /\ tallies'[i] = r[i]
        BY <1>1, <2>1, <3>1 DEF WindowsInv
      <3>3. Sound(r[i])'
        BY <3>2
      <3> QED BY <3>2, <3>3 DEF Sound
    <2>2. CASE tallies'[i] = e
      BY <2>2 DEF Sound
    <2> QED BY <1>2, <2>1, <2>2
  <1>4. ASSUME NEW i \in 1..Len(tallies'), NEW j \in 1..Len(tallies'), tallies'[i].code = tallies'[j].code
        PROVE  i = j
    <2>1. CASE i \in 1..Len(r) /\ j \in 1..Len(r)
      <3> SUFFICES ASSUME i # j PROVE FALSE
        OBVIOUS
      <3>1. PICK x, y \in 1..Len(tallies) : x # y /\ r[i] = tallies[x] /\ r[j] = tallies[y]
        BY <2>1, PartApart
      <3>2. tallies'[i] = tallies[x] /\ tallies'[j] = tallies[y]
        BY <1>1, <2>1, <3>1
      <3>3. tallies[x].code = tallies[y].code
        BY <1>4, <3>2
      <3> QED BY <3>1, <3>3 DEF WindowsInv
    <2>2. CASE i \notin 1..Len(r) \/ j \notin 1..Len(r)
      BY <1>1, <1>2, <1>4, <2>2
    <2> QED BY <2>1, <2>2
  <1> QED BY <1>1, <1>3, <1>4 DEF WindowsInv

LEMMA PrunedPart ==
    ASSUME WindowsInv, NEW p \in Pruned
    PROVE  /\ p \in Seq(Tally) /\ Len(p) \in Nat /\ Len(p) <= ReportMax /\ Part(p, tallies)
           /\ \A i, j \in 1..Len(p) : p[i].code = p[j].code => i = j
           /\ \A i \in 1..Len(p) : p[i] \in Tally /\ Sound(p[i])
  <1>1. /\ tallies \in Seq(Tally) /\ DOMAIN tallies = 1..Len(tallies) /\ Len(tallies) \in Nat
        /\ Len(tallies) <= ReportMax /\ ReportMax \in Nat
    BY LenProperties, DropConstants DEF WindowsInv
  <1>2. p \in Seq(Tally) /\ Part(p, tallies) /\ Len(p) <= Len(tallies)
    <2>1. CASE p = tallies
      BY <1>1, <2>1, WholePart
    <2>2. CASE p # tallies
      <3>1. PICK n \in DOMAIN tallies : p = SubSeq(tallies, n + 1, Len(tallies))
        BY <2>2 DEF Pruned
      <3>2. n \in 0..Len(tallies)
        BY <1>1
      <3> QED BY <1>1, <3>1, <3>2, SuffixPart
    <2> QED BY <2>1, <2>2
  <1>3. Len(p) \in Nat /\ \A i \in 1..Len(p) : p[i] \in Tally
    BY <1>2, LenProperties, ElementOfSeq
  <1>4. ASSUME NEW i \in 1..Len(p) PROVE Sound(p[i])
    <2>1. PICK m \in 1..Len(tallies) : p[i] = tallies[m]
      BY <1>2, PartMember
    <2> QED BY <2>1 DEF WindowsInv
  <1>5. ASSUME NEW i \in 1..Len(p), NEW j \in 1..Len(p), p[i].code = p[j].code PROVE i = j
    <2> SUFFICES ASSUME i # j PROVE FALSE
      OBVIOUS
    <2>1. PICK x, y \in 1..Len(tallies) : x # y /\ p[i] = tallies[x] /\ p[j] = tallies[y]
      BY <1>2, PartApart
    <2>2. tallies[x].code = tallies[y].code
      BY <1>5, <2>1
    <2> QED BY <2>1, <2>2 DEF WindowsInv
  <1> QED BY <1>1, <1>2, <1>3, <1>4, <1>5

LEMMA TakenOut ==
    ASSUME WindowsInv, NEW p \in Pruned, NEW c \in Codes, NEW i, i = Entry(p, c), i # 0,
           NEW r, Removal(r, p, i)
    PROVE  /\ i \in 1..Len(p) /\ p[i] \in Tally /\ p[i].code = c /\ Sound(p[i])
           /\ r \in Seq(Tally) /\ Part(r, tallies) /\ Len(r) + 1 <= ReportMax
           /\ \A j \in 1..Len(r) : r[j].code # c
  <1>1. /\ p \in Seq(Tally) /\ Len(p) \in Nat /\ Len(p) <= ReportMax /\ Part(p, tallies)
        /\ \A x, y \in 1..Len(p) : p[x].code = p[y].code => x = y
        /\ \A x \in 1..Len(p) : p[x] \in Tally /\ Sound(p[x])
    BY PrunedPart
  <1>2. i \in 1..Len(p) /\ p[i].code = c
    BY <1>1, TallyFound
  <1>3. /\ r \in Seq(Tally) /\ Len(r) = Len(p) - 1 /\ Part(r, p)
        /\ \A x \in 1..Len(r) : \E y \in 1..Len(p) : y # i /\ r[x] = p[y]
    <2>1. p \in Seq(Tally) /\ i \in 1..Len(p)
      BY <1>1, <1>2
    <2> QED BY <2>1, RemovedPart
  <1>4. Part(r, tallies)
    BY <1>1, <1>3, PartOfPart
  <1>5. \A j \in 1..Len(r) : r[j].code # c
    BY <1>1, <1>2, <1>3
  <1>6. Len(r) + 1 <= ReportMax
    BY <1>1, <1>3, DropConstants
  <1> QED BY <1>1, <1>2, <1>3, <1>4, <1>5, <1>6

LEMMA ArmedOnce ==
    ASSUME WindowsInv, NEW c \in Codes, Arm(c), broadcasts < MaxBroadcasts, broadcasts' = broadcasts + 1,
           sent' = sent \/ sent' = [sent EXCEPT ![c] = NoCounts]
    PROVE  /\ DrawnOnce' /\ genSeq + 1 \in 1..MaxBroadcasts /\ genSeq' = genSeq + 1
           /\ reports' = reports \cup {[code |-> c, gen |-> genSeq + 1]}
           /\ \A t \in Tally : t.code # c /\ Sound(t) => Sound(t)'
  <1> DEFINE n == [code |-> c, gen |-> genSeq + 1]
  <1>1. /\ reports \subseteq [code: Codes, gen: 1..MaxBroadcasts] /\ \A r \in reports : r.gen <= genSeq
        /\ genSeq \in 0..MaxBroadcasts /\ broadcasts \in 0..MaxBroadcasts /\ genSeq <= broadcasts
        /\ sent \in [Codes -> Counts] /\ MaxBroadcasts \in Nat
    BY DropConstants DEF WindowsInv, DrawnOnce
  <1>2. genSeq' = genSeq + 1 /\ reports' = reports \cup {n}
    BY DEF Arm
  <1>3. genSeq + 1 \in 1..MaxBroadcasts
    BY <1>1
  <1>4. n \in [code: Codes, gen: 1..MaxBroadcasts] /\ n.code = c /\ n.gen = genSeq + 1
    BY <1>3
  <1> HIDE DEF n
  <1>5. sent' \in [Codes -> Counts] /\ \A x \in Codes : x # c => sent'[x] = sent[x]
    BY <1>1 DEF NoCounts, Counts
  <1>6. DrawnOnce'
    <2>1. \A r \in reports' : r \in [code: Codes, gen: 1..MaxBroadcasts] /\ r.gen <= genSeq'
      BY <1>1, <1>2, <1>4
    <2> QED BY <1>1, <1>2, <1>3, <1>5, <2>1 DEF DrawnOnce
  <1>7. ASSUME NEW t \in Tally, t.code # c, Sound(t) PROVE Sound(t)'
    <2>1. t.code \in Codes /\ t.gen \in 1..MaxBroadcasts
      BY DEF Tally
    <2>2. [code |-> t.code, gen |-> t.gen] # n
      BY <1>4, <1>7
    <2>3. [code |-> t.code, gen |-> t.gen] \in reports' <=> [code |-> t.code, gen |-> t.gen] \in reports
      BY <1>2, <2>2
    <2>4. sent'[t.code] = sent[t.code] /\ t.gen <= genSeq'
      BY <1>1, <1>2, <1>5, <1>7, <2>1 DEF Sound
    <2> QED BY <1>7, <2>3, <2>4 DEF Sound
  <1> QED BY <1>2, <1>3, <1>6, <1>7 DEF n

LEMMA ScheduleSafe ==
    ASSUME WindowsInv, NEW c \in Codes, ScheduleOrExtend(c)
    PROVE  WindowsInv'
  <1>1. PICK p \in Pruned : \/ /\ broadcasts < MaxBroadcasts /\ broadcasts' = broadcasts + 1
                               /\ OpenWindow(p, c) \/ ReopenWindow(p, c)
                            \/ ExtendWindow(p, c) /\ UNCHANGED broadcasts
    BY DEF ScheduleOrExtend
  <1>3. /\ p \in Seq(Tally) /\ Len(p) \in Nat /\ Len(p) <= ReportMax /\ Part(p, tallies)
        /\ ReportMax \in Nat \ {0}
    BY PrunedPart, DropConstants
  <1>4. CASE broadcasts < MaxBroadcasts /\ broadcasts' = broadcasts + 1 /\ OpenWindow(p, c)
    <2>0. PICK e : e = [code |-> c, gen |-> genSeq + 1, counts |-> NoCounts, reported |-> NoCounts,
                        users |-> {}, pending |-> TRUE, moved |-> FALSE, moves |-> 0]
      OBVIOUS
    <2> DEFINE r == IF Len(p) + 1 > ReportMax THEN Tail(p) ELSE p
    <2>1. /\ Entry(p, c) = 0 /\ Arm(c) /\ sent' = [sent EXCEPT ![c] = NoCounts]
          /\ tallies' = Evict(Append(p, e))
      BY <1>4, <2>0 DEF OpenWindow
    <2>2. /\ DrawnOnce' /\ genSeq + 1 \in 1..MaxBroadcasts /\ genSeq' = genSeq + 1
          /\ reports' = reports \cup {[code |-> c, gen |-> genSeq + 1]}
          /\ \A t \in Tally : t.code # c /\ Sound(t) => Sound(t)'
      BY <1>4, <2>1, ArmedOnce
    <2>3. NoCounts \in Counts /\ \A x \in Category : NoCounts[x] = 0
      BY DEF NoCounts, Counts
    <2>4. /\ e \in Tally /\ e.code = c /\ e.gen = genSeq + 1 /\ e.pending = TRUE /\ e.users = {}
          /\ e.counts = NoCounts /\ e.reported = NoCounts /\ e.moved = FALSE
      BY <2>0, <2>2, <2>3, MovesBounded DEF Tally
    <2>5. sent'[c] = NoCounts
      BY <2>1 DEF WindowsInv, DrawnOnce
    <2>6. Sound(e)'
      <3>1. [code |-> e.code, gen |-> e.gen] \in reports'
        BY <2>2, <2>4
      <3>2. e.gen <= genSeq'
        BY <2>2, <2>4
      <3>3. \A x \in Category : e.reported[x] <= e.counts[x]
        BY <2>3, <2>4
      <3>4. e.pending /\ e.users = {} /\ ~e.moved
        BY <2>4
      <3>5. sent'[e.code] = e.reported
        BY <2>4, <2>5
      <3> QED BY <3>1, <3>2, <3>3, <3>4, <3>5 DEF Sound
    <2>7. \A i \in 1..Len(p) : p[i].code # c
      BY <1>3, <2>1, TallyFound
    <2>8. Len(Append(p, e)) = Len(p) + 1
      BY <1>3, <2>4, AppendProperties
    <2>9. CASE Len(p) + 1 > ReportMax
      <3>1. p # <<>> /\ r = Tail(p)
        BY <1>3, <2>9, EmptySeq
      <3>2. tallies' = Append(r, e)
        BY <1>3, <2>1, <2>8, <2>9, <3>1, HeadTailAppend DEF Evict
      <3>3. r = SubSeq(p, 1 + 1, Len(p)) /\ 1 \in 0..Len(p)
        BY <1>3, <2>9, <3>1, TailIsSubSeq
      <3> HIDE DEF r
      <3>4. r \in Seq(Tally) /\ Part(r, p) /\ Len(r) = Len(p) - 1
        BY <1>3, <3>3, SuffixPart
      <3>5. \A i \in 1..Len(r) : r[i].code # c
        BY <2>7, <3>4, PartMember
      <3>6. Part(r, tallies) /\ Len(r) + 1 <= ReportMax
        BY <1>3, <3>4, PartOfPart
      <3> QED BY <2>2, <2>4, <2>6, <3>2, <3>4, <3>5, <3>6, TouchedSafe
    <2>10. CASE ~(Len(p) + 1 > ReportMax)
      <3>1. tallies' = Append(p, e)
        BY <2>1, <2>8, <2>10 DEF Evict
      <3>2. Len(p) + 1 <= ReportMax
        BY <1>3, <2>10
      <3> QED BY <1>3, <2>2, <2>4, <2>6, <2>7, <3>1, <3>2, TouchedSafe
    <2> QED BY <2>9, <2>10
  <1> DEFINE i == Entry(p, c)
             r == RemoveAt(p, i)
  <1>5. i # 0 => /\ p[i] \in Tally /\ p[i].code = c /\ Sound(p[i])
                 /\ r \in Seq(Tally) /\ Part(r, tallies) /\ Len(r) + 1 <= ReportMax
                 /\ \A j \in 1..Len(r) : r[j].code # c
    BY TakenOut DEF Removal
  <1>6. CASE broadcasts < MaxBroadcasts /\ broadcasts' = broadcasts + 1 /\ ReopenWindow(p, c)
    <2>0. PICK e : e = [p[i] EXCEPT !.gen = genSeq + 1, !.users = {}, !.pending = TRUE, !.moved = FALSE,
                                    !.moves = 0]
      OBVIOUS
    <2>1. i # 0 /\ Arm(c) /\ tallies' = Append(r, e) /\ sent' = sent
      BY <1>6, <2>0 DEF ReopenWindow, Touched
    <2>2. /\ DrawnOnce' /\ genSeq + 1 \in 1..MaxBroadcasts /\ genSeq' = genSeq + 1
          /\ reports' = reports \cup {[code |-> c, gen |-> genSeq + 1]}
          /\ \A t \in Tally : t.code # c /\ Sound(t) => Sound(t)'
      BY <1>6, <2>1, ArmedOnce
    <2>3. p[i] \in Tally /\ p[i].code = c /\ Sound(p[i])
      BY <1>5, <2>1
    <2>4. /\ e \in Tally /\ e.code = c /\ e.gen = genSeq + 1 /\ e.pending = TRUE /\ e.users = {}
          /\ e.counts = p[i].counts /\ e.reported = p[i].reported /\ e.moved = FALSE
      BY <2>0, <2>2, <2>3, MovesBounded DEF Tally
    <2> HIDE DEF i, r
    <2>5. Sound(e)'
      <3>1. [code |-> e.code, gen |-> e.gen] \in reports'
        BY <2>2, <2>4
      <3>2. e.gen <= genSeq'
        BY <2>2, <2>4
      <3>3. \A x \in Category : e.reported[x] <= e.counts[x]
        BY <2>3, <2>4 DEF Sound
      <3>4. e.pending /\ e.users = {} /\ ~e.moved
        BY <2>4
      <3>5. sent'[e.code] = e.reported
        BY <2>1, <2>3, <2>4 DEF Sound
      <3> QED BY <3>1, <3>2, <3>3, <3>4, <3>5 DEF Sound
    <2> QED BY <1>5, <2>1, <2>2, <2>4, <2>5, TouchedSafe
  <1>7. CASE ExtendWindow(p, c) /\ UNCHANGED broadcasts
    <2>1. PICK moved \in {p[i].moved, p[i].moved \/ p[i].moves < MaxMoves} :
             tallies' = Append(r, [p[i] EXCEPT !.moved = moved])
      BY <1>7 DEF ExtendWindow, Touched
    <2>2. i # 0 /\ UNCHANGED <<genSeq, reports, sent>>
      BY <1>7 DEF ExtendWindow
    <2>3. p[i] \in Tally /\ p[i].code = c /\ Sound(p[i])
      BY <1>5, <2>2
    <2> DEFINE e == [p[i] EXCEPT !.moved = moved]
    <2>4. moved \in BOOLEAN /\ (moved => p[i].moves < MaxMoves)
      BY <2>3 DEF Tally, Sound
    <2>5. /\ e \in Tally /\ e.code = c /\ e.gen = p[i].gen /\ e.pending = p[i].pending
          /\ e.users = p[i].users /\ e.counts = p[i].counts /\ e.reported = p[i].reported
          /\ e.moved = moved /\ e.moves = p[i].moves
      BY <2>3, <2>4 DEF Tally
    <2> HIDE DEF e, i, r
    <2>6. \A t : Sound(t) => Sound(t)'
      BY <2>2 DEF Sound
    <2>7. Sound(e)
      BY <2>3, <2>4, <2>5 DEF Sound
    <2>8. DrawnOnce'
      BY <1>7, <2>2, DropConstants DEF WindowsInv, DrawnOnce
    <2> QED BY <1>5, <2>1, <2>2, <2>5, <2>6, <2>7, <2>8, TouchedSafe DEF e
  <1> QED BY <1>1, <1>4, <1>6, <1>7

LEMMA FireReportSafe ==
    ASSUME WindowsInv, NEW r \in reports, FireReport(r)
    PROVE  WindowsInv'
  <1>0. PICK i : i = Entry(tallies, r.code)
    OBVIOUS
  <1> DEFINE mine == i # 0 /\ tallies[i].gen = r.gen
  <1>1. /\ tallies \in Seq(Tally) /\ Len(tallies) \in Nat
        /\ \A j \in 1..Len(tallies) : tallies[j] \in Tally /\ Sound(tallies[j])
        /\ \A x, y \in 1..Len(tallies) : tallies[x].code = tallies[y].code => x = y
        /\ r \in [code: Codes, gen: 1..MaxBroadcasts] /\ sent \in [Codes -> Counts]
    BY LenProperties, ElementOfSeq DEF WindowsInv, DrawnOnce
  <1>2. /\ i \in 0..Len(tallies)
        /\ i # 0 => tallies[i].code = r.code
        /\ i = 0 => \A j \in 1..Len(tallies) : tallies[j].code # r.code
    BY <1>0, <1>1, TallyFound
  <1>3. genSeq' = genSeq /\ broadcasts' = broadcasts
    BY DEF FireReport
  <1>4. CASE mine /\ tallies[i].moved
    <2> DEFINE e == [tallies[i] EXCEPT !.moved = FALSE, !.moves = @ + 1]
    <2>1. tallies' = [tallies EXCEPT ![i] = e] /\ UNCHANGED <<reports, sent>>
      BY <1>0, <1>4 DEF FireReport
    <2>2. i \in 1..Len(tallies)
      BY <1>1, <1>2, <1>4
    <2>3. /\ e \in Tally /\ e.code = tallies[i].code /\ e.gen = tallies[i].gen /\ e.pending = tallies[i].pending
          /\ e.users = tallies[i].users /\ e.counts = tallies[i].counts /\ e.reported = tallies[i].reported
          /\ e.moved = FALSE
      <3>1. /\ tallies[i] \in Tally /\ tallies[i].moves + 1 \in 0..MaxMoves
        <4>1. tallies[i] \in Tally /\ Sound(tallies[i]) /\ tallies[i].moved
          BY <1>1, <1>4, <2>2
        <4>2. tallies[i].moves \in 0..MaxMoves /\ tallies[i].moves < MaxMoves
          BY <4>1 DEF Tally, Sound
        <4> QED BY <4>1, <4>2, MovesBounded
      <3> QED BY <3>1 DEF Tally
    <2> HIDE DEF e
    <2>4. Sound(e)
      BY <1>1, <2>2, <2>3 DEF Sound
    <2>5. /\ tallies' \in Seq(Tally) /\ Len(tallies') = Len(tallies)
          /\ \A j \in 1..Len(tallies) : tallies'[j] = IF j = i THEN e ELSE tallies[j]
      BY <1>1, <2>1, <2>2, <2>3, ExceptSeq
    <2>6. \A j \in 1..Len(tallies) : tallies'[j].code = tallies[j].code /\ Sound(tallies'[j])
      BY <1>1, <2>3, <2>4, <2>5
    <2>7. \A j \in 1..Len(tallies) : Sound(tallies[j])'
      BY <1>3, <2>1, <2>6 DEF Sound
    <2>8. DrawnOnce'
      BY <1>3, <2>1 DEF WindowsInv, DrawnOnce
    <2> QED BY <1>1, <2>5, <2>6, <2>7, <2>8 DEF WindowsInv
  <1>5. CASE ~(mine /\ tallies[i].moved)
    <2>1. reports' = reports \ {r}
      BY <1>0, <1>5 DEF FireReport
    <2>2. CASE ~mine
      <3>1. tallies' = tallies /\ sent' = sent
        BY <1>0, <1>5, <2>2 DEF FireReport
      <3>2. DrawnOnce'
        BY <1>3, <2>1, <3>1 DEF WindowsInv, DrawnOnce
      <3>3. ASSUME NEW j \in 1..Len(tallies) PROVE Sound(tallies[j])'
        <4>1. [code |-> tallies[j].code, gen |-> tallies[j].gen] # r
          BY <1>1, <1>2, <2>2
        <4>2. [code |-> tallies[j].code, gen |-> tallies[j].gen] \in reports'
                <=> [code |-> tallies[j].code, gen |-> tallies[j].gen] \in reports
          BY <2>1, <4>1
        <4> QED BY <1>1, <1>3, <3>1, <4>2 DEF Sound
      <3> QED BY <1>1, <3>1, <3>2, <3>3 DEF WindowsInv
    <2>3. CASE mine
      <3>0. PICK e : e = [tallies[i] EXCEPT !.pending = FALSE, !.reported = tallies[i].counts]
        OBVIOUS
      <3> DEFINE total == [x \in Category |-> sent[r.code][x] + tallies[i].counts[x] - tallies[i].reported[x]]
      <3>1. tallies' = [tallies EXCEPT ![i] = e] /\ sent' = [sent EXCEPT ![r.code] = total]
        BY <1>0, <1>5, <2>3, <3>0 DEF FireReport
      <3>2. i \in 1..Len(tallies) /\ tallies[i].code = r.code /\ tallies[i].gen = r.gen
        BY <1>1, <1>2, <2>3
      <3>3. tallies[i] \in Tally /\ Sound(tallies[i]) /\ tallies[i].counts \in Counts /\ tallies[i].reported \in Counts
        BY <1>1, <3>2 DEF Tally
      <3>4. /\ e \in Tally /\ e.code = r.code /\ e.gen = r.gen /\ e.pending = FALSE
            /\ e.users = tallies[i].users /\ e.counts = tallies[i].counts /\ e.reported = tallies[i].counts
            /\ e.moved = tallies[i].moved /\ e.moves = tallies[i].moves
        BY <3>0, <3>2, <3>3 DEF Tally
      <3>5. sent[r.code] = tallies[i].reported
        BY <3>2, <3>3 DEF Sound
      <3>6. total = tallies[i].counts
        <4>1. \A x \in Category : tallies[i].counts[x] \in Nat /\ tallies[i].reported[x] \in Nat
          BY <3>3 DEF Counts
        <4>2. \A x \in Category : total[x] = tallies[i].counts[x]
          BY <3>5, <4>1
        <4>3. tallies[i].counts = [x \in Category |-> tallies[i].counts[x]]
          BY <3>3 DEF Counts
        <4> QED BY <4>2, <4>3
      <3> HIDE DEF total
      <3>7. /\ sent' \in [Codes -> Counts] /\ sent'[r.code] = tallies[i].counts
            /\ \A x \in Codes : x # r.code => sent'[x] = sent[x]
        BY <1>1, <3>1, <3>3, <3>6
      <3>8. r = [code |-> e.code, gen |-> e.gen]
        BY <1>1, <3>4
      <3>9. Sound(e)'
        <4>1. [code |-> e.code, gen |-> e.gen] \notin reports'
          BY <2>1, <3>8
        <4>2. \A x \in Category : e.counts[x] \in Nat
          BY <3>3, <3>4 DEF Counts
        <4>3. e.gen <= genSeq'
          BY <1>3, <3>2, <3>3, <3>4 DEF Sound
        <4>4. sent'[e.code] = e.reported
          BY <3>4, <3>7
        <4>5. e.users # {} => e.counts["claimed"] > 0
          BY <3>3, <3>4 DEF Sound
        <4>6. \A x \in Category : e.reported[x] <= e.counts[x]
          BY <3>4, <4>2
        <4>7. ~e.pending
          BY <3>4
        <4>8. e.moved => e.moves < MaxMoves
          BY <3>3, <3>4 DEF Sound
        <4> QED BY <4>1, <4>3, <4>4, <4>5, <4>6, <4>7, <4>8 DEF Sound
      <3>10. /\ tallies' \in Seq(Tally) /\ Len(tallies') = Len(tallies)
             /\ \A j \in 1..Len(tallies) : tallies'[j] = IF j = i THEN e ELSE tallies[j]
        BY <1>1, <3>1, <3>2, <3>4, ExceptSeq
      <3>11. ASSUME NEW j \in 1..Len(tallies) PROVE Sound(tallies[j])' /\ tallies'[j].code = tallies[j].code
        <4>1. CASE j = i
          BY <3>2, <3>4, <3>9, <3>10, <4>1 DEF Sound
        <4>2. CASE j # i
          <5>1. tallies'[j] = tallies[j] /\ tallies[j].code # r.code /\ tallies[j] \in Tally /\ Sound(tallies[j])
            BY <1>1, <3>2, <3>10, <4>2
          <5>2. tallies[j].code \in Codes
            BY <5>1 DEF Tally
          <5>3. [code |-> tallies[j].code, gen |-> tallies[j].gen] # r
            BY <5>1
          <5>4. [code |-> tallies[j].code, gen |-> tallies[j].gen] \in reports'
                  <=> [code |-> tallies[j].code, gen |-> tallies[j].gen] \in reports
            BY <2>1, <5>3
          <5> QED BY <1>3, <3>7, <5>1, <5>2, <5>4 DEF Sound
        <4> QED BY <4>1, <4>2
      <3>12. DrawnOnce'
        BY <1>3, <2>1, <3>7 DEF WindowsInv, DrawnOnce
      <3> QED BY <1>1, <3>10, <3>11, <3>12 DEF WindowsInv
    <2> QED BY <2>2, <2>3
  <1> QED BY <1>4, <1>5

-----------------------------------------------------------------------------
(* Collectors and windows in the whole. *)

DropStep ==
    \/ \E l \in Licenses, u \in Users, c \in Codes, currency \in Currencies, outcome \in Category :
          DropResult(l, u, c, currency, outcome)
    \/ \E c \in Codes : ScheduleOrExtend(c)
    \/ DropTimers
    \/ ForgetDrops

Played == exercise \in Exercises

LEMMA DropMoves ==
    ASSUME Played, [Next]_vars
    PROVE  DropStep \/ UNCHANGED dropVars
  <1>0. exercise.currencies \subseteq Currencies
    BY PipelineConstants DEF Played
  <1>1. ASSUME NEW l \in Licenses, NEW u \in Users, NEW c \in Codes, NEW currency \in exercise.currencies,
               NEW outcome \in Category, NEW paid, NEW saysBonus,
               UserClaim(l, u, c, currency, outcome, paid, saysBonus)
        PROVE  DropStep
    BY <1>0, <1>1 DEF UserClaim, DropStep
  <1>2. ASSUME NEW c \in Codes, NEW isBonus, Broadcast(c, isBonus) PROVE DropStep
    BY <1>2 DEF Broadcast, DropStep
  <1>3. CASE UNCHANGED vars
    BY <1>3 DEF vars
  <1>4. CASE SlotProduct
    BY <1>4 DEF SlotProduct
  <1>5. CASE MainProduct
    BY <1>1, <1>2, <1>5 DEF MainProduct, Convert, ExpireBonus, Restart, DropStep
  <1> QED BY <1>3, <1>4, <1>5 DEF Next

LEMMA DropsForgotten == ForgetDrops /\ WindowsInv => (CollectorsInv /\ WindowsInv)'
  <1> SUFFICES ASSUME ForgetDrops, WindowsInv PROVE (CollectorsInv /\ WindowsInv)'
    OBVIOUS
  <1>1. CollectorsMax \in Nat /\ ReportMax \in Nat /\ MaxBroadcasts \in Nat
    BY DropConstants
  <1>2. /\ <<>> \in Seq(Bucket) /\ <<>> \in Seq(Tally) /\ Len(<<>>) = 0
    BY EmptySeq
  <1>3. CollectorsInv'
    BY <1>1, <1>2 DEF ForgetDrops, CollectorsInv, Outcome
  <1>4. NoCounts \in Counts
    BY DEF NoCounts, Counts
  <1>5. WindowsInv'
    BY <1>1, <1>2, <1>4 DEF ForgetDrops, WindowsInv, DrawnOnce
  <1> QED BY <1>3, <1>5

LEMMA ExerciseKept == Spec => []Played
  <1>1. Init => Played
    BY DEF Init, Played
  <1>2. Played /\ [Next]_vars => Played'
    <2>1. [Next]_vars => exercise' = exercise
      BY DEF Next, MainProduct, SlotProduct, UserClaim, Convert, Broadcast, ExpireBonus, Restart,
             pipelineVars, vars
    <2> QED BY <2>1 DEF Played
  <1> QED BY <1>1, <1>2, PTL DEF Spec

(* The collectors do not hang on the windows, or on time passing.          *)
LEMMA CollectorsStay == CollectorsInv /\ UNCHANGED <<dedup, buckets, summaries, shown>> => CollectorsInv'
  <1> SUFFICES ASSUME CollectorsInv, UNCHANGED <<dedup, buckets, summaries, shown>> PROVE CollectorsInv'
    OBVIOUS
  <1>1. \A b : Waiting(b) => Waiting(b)'
    BY DEF Waiting
  <1>2. \A i \in 1..Len(buckets) : Waiting(buckets[i])'
    BY <1>1 DEF CollectorsInv, Waiting
  <1>3. \A k \in Keys : shown'[k] = "claimed" =>
          dedup'[k] # "none" /\ \A i \in 1..Len(buckets') : Settled(buckets'[i], k)
    BY DEF CollectorsInv
  <1> QED BY <1>2, <1>3 DEF CollectorsInv, Settled

LEMMA DropAlways == Spec => [](CollectorsInv /\ WindowsInv)
  <1>1. Init => CollectorsInv /\ WindowsInv
    BY DropStarts DEF Init
  <1>2. ASSUME CollectorsInv, WindowsInv, Played, [Next]_vars
        PROVE  (CollectorsInv /\ WindowsInv)'
    <2>1. ASSUME NEW l \in Licenses, NEW u \in Users, NEW c \in Codes, NEW outcome \in Category,
                 NEW currency \in Currencies, DropResult(l, u, c, currency, outcome)
          PROVE  (CollectorsInv /\ WindowsInv)'
      <3>1. CASE Duplicate(<<l, u, c, currency>>, outcome)
        <4>1. UNCHANGED dropVars
          BY <2>1, <3>1 DEF DropResult
        <4> QED BY <1>2, <4>1, CollectorsStay DEF dropVars, WindowsInv, DrawnOnce, Sound
      <3>2. CASE ~Duplicate(<<l, u, c, currency>>, outcome)
        <4>1. /\ dedup' = [dedup EXCEPT ![<<l, u, c, currency>>] = outcome]
              /\ AppendResult(l, u, c, currency, outcome)
              /\ FoldResponse(l, u, c, outcome) /\ UNCHANGED <<reports, genSeq, broadcasts, shown, sent>>
          BY <2>1, <3>2 DEF DropResult
        <4>2. CollectorsInv'
          BY <1>2, <3>2, <4>1, CollectSafe
        <4>3. WindowsInv'
          BY <1>2, <4>1, FoldSafe
        <4> QED BY <4>2, <4>3
      <3> QED BY <3>1, <3>2
    <2>2. ASSUME NEW c \in Codes, ScheduleOrExtend(c) PROVE (CollectorsInv /\ WindowsInv)'
      <3>1. UNCHANGED <<dedup, buckets, summaries, shown>>
        BY <2>2 DEF ScheduleOrExtend
      <3>2. CollectorsInv'
        BY <1>2, <3>1, CollectorsStay
      <3> QED BY <1>2, <2>2, <3>2, ScheduleSafe
    <2>3. ASSUME NEW l \in Licenses, NEW c \in Codes, FireSummary(l, c) PROVE (CollectorsInv /\ WindowsInv)'
      <3>1. UNCHANGED <<tallies, reports, genSeq, broadcasts, sent>>
        BY <2>3 DEF FireSummary
      <3>2. WindowsInv'
        BY <1>2, <3>1 DEF WindowsInv, DrawnOnce, Sound
      <3> QED BY <1>2, <2>3, <3>2, FireSummarySafe
    <2>4. ASSUME NEW k \in Keys, ForgetDedup(k) PROVE (CollectorsInv /\ WindowsInv)'
      <3>1. UNCHANGED <<tallies, reports, genSeq, broadcasts, sent>>
        BY <2>4 DEF ForgetDedup
      <3>2. WindowsInv'
        BY <1>2, <3>1 DEF WindowsInv, DrawnOnce, Sound
      <3> QED BY <1>2, <2>4, <3>2, ForgetDedupSafe
    <2>5. ASSUME NEW r \in reports, FireReport(r) PROVE (CollectorsInv /\ WindowsInv)'
      <3>1. UNCHANGED <<dedup, buckets, summaries, shown>>
        BY <2>5 DEF FireReport
      <3>2. CollectorsInv'
        BY <1>2, <3>1, CollectorsStay
      <3> QED BY <1>2, <2>5, <3>2, FireReportSafe
    <2>6. CASE ForgetDrops
      BY <1>2, <2>6, DropsForgotten
    <2>7. CASE UNCHANGED dropVars
      BY <1>2, <2>7, CollectorsStay DEF dropVars, WindowsInv, DrawnOnce, Sound
    <2> QED BY <1>2, <2>1, <2>2, <2>3, <2>4, <2>5, <2>6, <2>7, DropMoves DEF DropStep, DropTimers
  <1> QED BY <1>1, <1>2, ExerciseKept, PTL DEF Spec

(* Collected results have a timer that will tell them, and an open window  *)
(* of the report the one that was armed for it, whatever was evicted.      *)
THEOREM TimersStayArmed == Spec => []TimersArmed
  BY DropAlways, DropInvMeans, PTL

(* Over all its windows, what the reports of a code told adds up to what   *)
(* was counted when the last of them was sent.                             *)
THEOREM ReportsTellAll == Spec => []ReportsAddUp
  BY DropAlways, DropInvMeans, PTL

(* An owner who was told of a success is not told, while the dedup         *)
(* remembers it, of a failure of the same user, code and currency.         *)
THEOREM SuccessStands == Spec => NeverTakenBack
  <1>1. CollectorsInv /\ Played /\ [Next]_vars =>
          [\A k \in Keys : shown[k] = "claimed" /\ dedup'[k] # "none" => shown'[k] = "claimed"]_dropVars
    <2> SUFFICES ASSUME CollectorsInv, Played, [Next]_vars, ~ UNCHANGED dropVars,
                        NEW k \in Keys, shown[k] = "claimed", dedup'[k] # "none"
                 PROVE  shown'[k] = "claimed"
      OBVIOUS
    <2>1. ASSUME NEW l \in Licenses, NEW c \in Codes, FireSummary(l, c) PROVE shown'[k] = "claimed"
      <3>1. CASE BucketAt(l, c) = 0
        BY <2>1, <3>1 DEF FireSummary
      <3>2. CASE BucketAt(l, c) # 0
        <4> DEFINE i == BucketAt(l, c)
        <4>1. i \in 1..Len(buckets) /\ buckets[i].license = l /\ buckets[i].code = c
          <5>1. buckets \in Seq(Bucket) /\ Len(buckets) \in Nat
            BY LenProperties DEF CollectorsInv
          <5> QED BY <3>2, <5>1, BucketFound
        <4>2. shown'[k] = IF k[1] = l /\ k[3] = c /\ TellsOf(buckets[i], k)
                          THEN Told(buckets[i], k[2]) ELSE shown[k]
          BY <2>1, <3>2 DEF FireSummary
        <4> HIDE DEF i
        <4>3. Settled(buckets[i], k) /\ k[4] \in Currencies
          BY <4>1 DEF CollectorsInv, Keys
        <4>4. ASSUME k[1] = l, k[3] = c, TellsOf(buckets[i], k) PROVE Told(buckets[i], k[2]) = "claimed"
          <5>1. <<k[2], k[4], "claimed">> \in buckets[i].results
            BY <4>1, <4>3, <4>4 DEF Settled, TellsOf, Category
          <5> QED BY <4>3, <5>1 DEF Told
        <4> QED BY <4>2, <4>4
      <3> QED BY <3>1, <3>2
    <2>2. ASSUME NEW x \in Keys, ForgetDedup(x) PROVE shown'[k] = "claimed"
      <3>1. /\ dedup' = [dedup EXCEPT ![x] = "none"] /\ shown' = [shown EXCEPT ![x] = "none"]
            /\ dedup \in [Keys -> Outcome] /\ shown \in [Keys -> Outcome]
        BY <2>2 DEF ForgetDedup, CollectorsInv
      <3>2. x # k
        BY <3>1
      <3> QED BY <3>1, <3>2
    <2>3. ~ForgetDrops
      BY DEF ForgetDrops
    <2>4. ASSUME shown' = shown PROVE shown'[k] = "claimed"
      BY <2>4
    <2>5. ASSUME NEW l \in Licenses, NEW u \in Users, NEW c \in Codes, NEW currency \in Currencies,
                 NEW outcome \in Category, DropResult(l, u, c, currency, outcome)
          PROVE  shown' = shown
      BY <2>5 DEF DropResult, dropVars
    <2>6. ASSUME NEW c \in Codes, ScheduleOrExtend(c) PROVE shown' = shown
      BY <2>6 DEF ScheduleOrExtend
    <2>7. ASSUME NEW r \in reports, FireReport(r) PROVE shown' = shown
      BY <2>7 DEF FireReport
    <2> QED BY <2>1, <2>2, <2>3, <2>4, <2>5, <2>6, <2>7, DropMoves DEF DropStep, DropTimers
  <1> QED BY <1>1, DropAlways, ExerciseKept, PTL DEF Spec, NeverTakenBack

LEMMA RememberedTyped ==
    ASSUME bonus \in Seq(Codes), Len(bonus) <= BonusMax, NEW c \in Codes
    PROVE  Remembered(c) \in Seq(Codes) /\ Len(Remembered(c)) <= BonusMax
  <1>0. Len(bonus) \in Nat /\ BonusMax \in Nat \ {0}
    BY LenProperties, PipelineConstants
  <1> DEFINE I == {i \in 1..Len(bonus) : bonus[i] = c}
             q == RemoveFirst(bonus, c)
  <1>1. q \in Seq(Codes) /\ Len(q) \in Nat /\ Len(q) <= Len(bonus)
    <2>1. CASE I = {}
      <3>1. q = bonus
        BY <2>1 DEF RemoveFirst
      <3> QED BY <1>0, <3>1
    <2>2. CASE I # {}
      <3>1. q = RemoveAt(bonus, Min(I))
        BY <2>2 DEF RemoveFirst, SelectInSeq
      <3>2. I \in SUBSET (1..Len(bonus))
        OBVIOUS
      <3> HIDE DEF I, q
      <3>3. Min(I) \in I
        BY <1>0, <2>2, <3>2, FirstOf
      <3>4. Min(I) \in 1..Len(bonus) /\ Removal(q, bonus, Min(I))
        BY <3>1, <3>2, <3>3 DEF Removal
      <3>5. q \in Seq(Codes) /\ Len(q) = Len(bonus) - 1
        BY <3>4, RemovedPart
      <3> QED BY <1>0, <3>4, <3>5
    <2> QED BY <2>1, <2>2
  <1> DEFINE a == Append(q, c)
  <1>2. Remembered(c) = IF Len(a) > BonusMax THEN Tail(a) ELSE a
    BY DEF Remembered
  <1> HIDE DEF q
  <1>3. a \in Seq(Codes) /\ Len(a) = Len(q) + 1 /\ a # <<>>
    BY <1>1, AppendProperties
  <1> HIDE DEF a
  <1>4. Tail(a) \in Seq(Codes) /\ Len(Tail(a)) = Len(a) - 1
    BY <1>3, HeadTailProperties
  <1>5. CASE Len(a) > BonusMax
    <2>1. Remembered(c) = Tail(a)
      BY <1>2, <1>5
    <2> QED BY <1>0, <1>1, <1>3, <1>4, <2>1
  <1>6. CASE ~(Len(a) > BonusMax)
    <2>1. Remembered(c) = a
      BY <1>2, <1>6
    <2> QED BY <1>0, <1>1, <1>3, <1>6, <2>1
  <1> QED BY <1>5, <1>6

PipelineTyped ==
    /\ exercise \in Exercises
    /\ bonus \in Seq(Codes) /\ Len(bonus) <= BonusMax
    /\ reported \in 0..exercise.events

LEMMA PipelineAlways == Spec => []PipelineTyped
  <1>1. Init => PipelineTyped
    <2>1. <<>> \in Seq(Codes) /\ Len(<<>>) = 0
      BY EmptySeq
    <2> QED BY <2>1, PipelineConstants DEF Init, PipelineTyped
  <1>2. ASSUME PipelineTyped, ConversionInv, ConversionInv', WindowsInv', [Next]_vars PROVE PipelineTyped'
    <2>1. /\ exercise \in Exercises /\ reported \in 0..exercise.events
          /\ bonus \in Seq(Codes) /\ Len(bonus) <= BonusMax
          /\ BonusMax \in Nat \ {0} /\ exercise.events \in Nat
      BY <1>2, PipelineConstants DEF PipelineTyped
    <2>2. CASE MainProduct
      <3>1. /\ forgets' \in Nat /\ errors' \in Nat /\ broadcasts' \in Nat
        BY <1>2, ConversionConstants, DropConstants DEF ConversionInv, ConversionTypeOK, WindowsInv, DrawnOnce
      <3>2. /\ reported' = reported \/ reported' = reported + 1
            /\ bonus' = bonus \/ bonus' = <<>> \/ (bonus # <<>> /\ bonus' = Tail(bonus))
                 \/ \E c \in Codes : bonus' = Remembered(c)
            /\ exercise' = exercise
        BY <2>2 DEF MainProduct, UserClaim, Convert, Broadcast, ExpireBonus, Restart, pipelineVars
      <3>3. reported' \in 0..exercise.events
        <4>1. reported' + broadcasts' + forgets' + errors' <= exercise.events
          BY <2>2 DEF MainProduct
        <4>2. reported' \in Nat
          BY <2>1, <3>2
        <4>3. \A x, y, z, w \in Nat : x + y + z + w <= exercise.events => x <= exercise.events
          BY <2>1
        <4>4. reported' <= exercise.events
          BY <3>1, <4>1, <4>2, <4>3
        <4> QED BY <2>1, <4>2, <4>4
      <3>4. <<>> \in Seq(Codes) /\ Len(<<>>) = 0
        BY EmptySeq
      <3>5. bonus # <<>> => Tail(bonus) \in Seq(Codes) /\ Len(Tail(bonus)) = Len(bonus) - 1
        BY <2>1, HeadTailProperties
      <3>6. \A c \in Codes : Remembered(c) \in Seq(Codes) /\ Len(Remembered(c)) <= BonusMax
        BY <2>1, RememberedTyped
      <3>7. Len(bonus) \in Nat
        BY <2>1, LenProperties
      <3>8. bonus' \in Seq(Codes) /\ Len(bonus') <= BonusMax
        <4>0. CASE bonus' = bonus
          BY <2>1, <4>0
        <4>1. CASE bonus' = <<>>
          <5>1. 0 <= BonusMax
            BY <2>1
          <5> QED BY <3>4, <4>1, <5>1
        <4>2. CASE bonus # <<>> /\ bonus' = Tail(bonus)
          <5>1. bonus' \in Seq(Codes) /\ Len(bonus') = Len(bonus) - 1
            BY <3>5, <4>2
          <5> QED BY <2>1, <3>7, <5>1
        <4>3. CASE \E c \in Codes : bonus' = Remembered(c)
          BY <3>6, <4>3
        <4> QED BY <3>2, <4>0, <4>1, <4>2, <4>3
      <3> QED BY <2>1, <3>2, <3>3, <3>8 DEF PipelineTyped
    <2>3. CASE SlotProduct \/ UNCHANGED vars
      <3>1. UNCHANGED pipelineVars
        BY <2>3 DEF SlotProduct, vars
      <3> QED BY <1>2, <3>1 DEF pipelineVars, PipelineTyped
    <2> QED BY <1>2, <2>2, <2>3 DEF Next
  <1> QED BY <1>1, <1>2, MoneyAlways, DropAlways, PTL DEF Spec

(* Every component keeps to its types, whichever product runs.             *)
THEOREM PipelineTypes == Spec => []TypeOK
  <1>1. ConversionInv /\ CollectorsInv /\ WindowsInv /\ ApiInv /\ PipelineTyped => TypeOK
    BY DropInvMeans DEF ConversionInv, ApiInv, PipelineTyped, TypeOK
  <1> QED BY <1>1, MoneyAlways, DropAlways, ApiAlways, PipelineAlways, PTL

=============================================================================
