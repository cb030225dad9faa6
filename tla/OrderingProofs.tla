--------------------------- MODULE OrderingProofs ---------------------------
(***************************************************************************)
(* Proofs about Ordering for every set of requests, members and inputs,    *)
(* every cap and opening balance, and every combination of faults.         *)
(***************************************************************************)
EXTENDS Ordering, TLAPS

(* A write of r that the server has not acknowledged and may still perform. *)
Late(op, r) == [op |-> op, by |-> r]

(* What Execute found out about r before its first write, and what makes   *)
(* that write safe: it was checked against the balance it was read with.   *)
Justified(r) ==
  LET q == req[r] IN
  /\ Refusal(q) = 0
  /\ \/ q.kind = "order" /\ q.amount >= 0 /\ Affordable(q, read[r])
     \/ q.kind = "grant" /\ q.amount > 0 /\ WithinCap(q, read[r])

(* No write of r has taken effect. *)
Untouched(r) == r \notin applied \union orders \union events

(* The writes of r before its step "op" have taken effect, the others not. *)
Reached(op, r) ==
  /\ op = "set" => Untouched(r)
  /\ op = "save" =>
       req[r].kind = "order" /\ r \in applied /\ r \notin orders \union events
  /\ op = "append" =>
       r \in applied /\ (req[r].kind = "order" => r \in orders) /\ r \notin events

(* Where a request stands in its sequence of writes. *)
StepInv ==
  \A r \in Requests :
    /\ pc[r] \in {"idle", "get"} => Untouched(r)
    /\ pc[r] = "idle" => code[r] = 0
    /\ pc[r] \in StoreSteps => code[r] = 0 /\ Refusal(req[r]) = 0
    /\ pc[r] \in {"reply", "done"} => code[r] # 0
    /\ pc[r] \in WriteSteps => Justified(r) /\ Reached(pc[r], r)

(* A write that is still with the server belongs to a request that has     *)
(* failed or died with the API, which does nothing more.                   *)
PendingInv ==
  /\ \A w \in pending :
       /\ pc[w.by] \in {"reply"} \union Settled
       /\ code[w.by] \in {0, 500}
       /\ Justified(w.by)
       /\ Reached(w.op, w.by)
  /\ \A v, w \in pending : v.by = w.by => v = w

(* Only orders and grants move credits. *)
MoversOnly == \A r \in applied : req[r].kind \in {"order", "grant"}

(* A balance that was read was backed by the grants made until then. *)
ReadsBacked ==
  \A r \in Requests : Amount(read[r]) <= granted[req[r].member]

IInv ==
  /\ TypeOK
  /\ StepInv
  /\ PendingInv
  /\ ReadsBacked
  /\ MoversOnly
  /\ CreditsWithinBounds
  /\ CreditsBackedByGrants
  /\ RecordsFollowMoney
  /\ AnswersMatchRecords

-----------------------------------------------------------------------------
(* Validation turns a request down with one of the refusals. *)
LEMMA RefusalType ==
  ASSUME NEW q PROVE Refusal(q) \in {0} \union Refusals
  BY DEF Refusal, Refusals

(* The inputs, unfolded for the provers. *)
LEMMA RequestFacts ==
  ASSUME TypeOK, NEW r \in Requests
  PROVE  /\ req[r] \in RequestType
         /\ req[r].member \in Members /\ req[r].amount \in Int
         /\ req[r].kind \in {"order", "grant", "credits", "history"}
  BY InputsAssumption DEF TypeOK, RequestType

(* An order that passes validation has no negative total. *)
LEMMA ValidOrder ==
  ASSUME NEW q \in Inputs, q.kind = "order", Refusal(q) = 0
  PROVE  q.amount >= 0
<1>1. q \in RequestType /\ q.defect # "body" /\ q.defect # "items"
  BY InputsAssumption DEF Refusal, Invalid
<1>2. q.defect = "none"
  BY <1>1 DEF RequestType
<1> QED
  BY <1>2, InputsAssumption

(* The service starts in a good state. *)
LEMMA InitInv == Init => IInv
<1> SUFFICES ASSUME Init PROVE IInv
  OBVIOUS
<1>1. TypeOK
  <2>1. credits \in [Members -> NoAccount..MaxCredits]
    BY CreditsAssumption DEF Init
  <2>2. granted \in [Members -> Nat] /\ spent \in [Members -> Nat]
    BY <2>1, CreditsAssumption DEF Init, Amount, NoAccount
  <2>3. read \in [Requests -> NoAccount..MaxCredits]
    BY CreditsAssumption DEF Init, NoAccount
  <2>4. credits \in [Members -> Int]
    BY <2>1 DEF NoAccount
  <2>5. pending \subseteq [op : WriteSteps, by : Requests]
    BY DEF Init
  <2> QED
    BY <2>2, <2>3, <2>4, <2>5 DEF Init, TypeOK
<1>2. StepInv
  BY DEF Init, StepInv, Untouched, StoreSteps, WriteSteps
<1>3. PendingInv
  BY DEF Init, PendingInv
<1>4. ReadsBacked
  BY <1>1, RequestFacts DEF Init, ReadsBacked, TypeOK, Amount, NoAccount
<1>9. MoversOnly
  BY DEF Init, MoversOnly
<1>5. CreditsWithinBounds
  BY CreditsAssumption DEF Init, CreditsWithinBounds
<1>6. CreditsBackedByGrants
  BY <1>1 DEF Init, TypeOK, CreditsBackedByGrants, Amount, NoAccount
<1>7. RecordsFollowMoney
  BY DEF Init, RecordsFollowMoney
<1>8. AnswersMatchRecords
  BY DEF Init, AnswersMatchRecords, Success, Refusals
<1> QED
  BY <1>1, <1>2, <1>3, <1>4, <1>5, <1>6, <1>7, <1>8, <1>9 DEF IInv

-----------------------------------------------------------------------------
(* The steps before the first write: a request is validated and reads. *)

LEMMA AcceptInv ==
  ASSUME IInv, NEW r \in Requests, Accept(r) PROVE IInv'
<1> USE DEF IInv, Accept, Goto, store, ledger
<1>1. TypeOK'
  BY DEF TypeOK, InFlight, StoreSteps
<1>2. StepInv'
  BY DEF TypeOK, StepInv, Untouched, Reached, Justified, StoreSteps, WriteSteps
<1>3. PendingInv'
  BY DEF TypeOK, PendingInv, Justified, Reached, Untouched, Settled
<1>4. (ReadsBacked /\ MoversOnly /\ CreditsWithinBounds /\ CreditsBackedByGrants)'
  BY DEF ReadsBacked, MoversOnly, CreditsWithinBounds, CreditsBackedByGrants
<1>5. (RecordsFollowMoney /\ AnswersMatchRecords)'
  BY DEF RecordsFollowMoney, AnswersMatchRecords
<1> QED
  BY <1>1, <1>2, <1>3, <1>4, <1>5

LEMMA RefuseInv ==
  ASSUME IInv, NEW r \in Requests, Refuse(r) PROVE IInv'
<1> USE DEF IInv, Refuse, Answer, store, ledger
<1>1. TypeOK'
  BY RefusalType DEF TypeOK, InFlight, StoreSteps
<1>2. StepInv'
  BY DEF TypeOK, StepInv, Untouched, Reached, Justified, StoreSteps, WriteSteps
<1>3. PendingInv'
  BY DEF TypeOK, PendingInv, Justified, Reached, Untouched, Settled
<1>4. (ReadsBacked /\ MoversOnly /\ CreditsWithinBounds /\ CreditsBackedByGrants)'
  BY DEF ReadsBacked, MoversOnly, CreditsWithinBounds, CreditsBackedByGrants
<1>5. (RecordsFollowMoney /\ AnswersMatchRecords)'
  BY RefusalType DEF RecordsFollowMoney, AnswersMatchRecords, StepInv, PendingInv, Untouched,
     TypeOK, Refusals, Success, Settled
<1> QED
  BY <1>1, <1>2, <1>3, <1>4, <1>5

LEMMA GetForOrderInv ==
  ASSUME IInv, NEW r \in Requests, GetForOrder(r) PROVE IInv'
<1> USE DEF IInv, GetForOrder, Get, Goto, Answer, store, ledger
<1>0. credits[req[r].member] \in NoAccount..MaxCredits /\ req[r].amount \in Int
  BY RequestFacts DEF CreditsWithinBounds
<1>a. Refusal(req[r]) = 0 /\ req[r].amount >= 0 /\ Untouched(r) /\ code[r] = 0
  BY ValidOrder DEF TypeOK, StepInv, StoreSteps
<1>1. TypeOK'
  BY <1>0 DEF TypeOK, InFlight, StoreSteps, WriteSteps, Refusals
<1>2. StepInv'
  BY <1>0, <1>a DEF TypeOK, StepInv, Untouched, Reached, Justified, StoreSteps, WriteSteps
<1>3. PendingInv'
  BY DEF TypeOK, PendingInv, Justified, Reached, Untouched, Settled
<1>4. (ReadsBacked /\ MoversOnly /\ CreditsWithinBounds /\ CreditsBackedByGrants)'
  BY RequestFacts DEF TypeOK, ReadsBacked, MoversOnly, CreditsWithinBounds, CreditsBackedByGrants
<1>5. (RecordsFollowMoney /\ AnswersMatchRecords)'
  BY DEF RecordsFollowMoney, AnswersMatchRecords, StepInv, PendingInv, Untouched,
     TypeOK, Refusals, Success, Settled
<1> QED
  BY <1>1, <1>2, <1>3, <1>4, <1>5

LEMMA GetForGrantInv ==
  ASSUME IInv, NEW r \in Requests, GetForGrant(r) PROVE IInv'
<1> USE DEF IInv, GetForGrant, Get, Goto, Answer, store, ledger
<1>0. credits[req[r].member] \in NoAccount..MaxCredits /\ req[r].amount \in Int
  BY RequestFacts DEF CreditsWithinBounds
<1>1. TypeOK'
  BY <1>0 DEF TypeOK, InFlight, StoreSteps, WriteSteps, Refusals
<1>2. StepInv'
  BY <1>0 DEF TypeOK, StepInv, Untouched, Reached, Justified, StoreSteps, WriteSteps,
     WithinCap, Refusal, Invalid
<1>3. PendingInv'
  BY DEF TypeOK, PendingInv, Justified, Reached, Untouched, Settled
<1>4. (ReadsBacked /\ MoversOnly /\ CreditsWithinBounds /\ CreditsBackedByGrants)'
  BY RequestFacts DEF TypeOK, ReadsBacked, MoversOnly, CreditsWithinBounds, CreditsBackedByGrants
<1>5. (RecordsFollowMoney /\ AnswersMatchRecords)'
  BY DEF RecordsFollowMoney, AnswersMatchRecords, StepInv, PendingInv, Untouched,
     TypeOK, Refusals, Success, Settled
<1> QED
  BY <1>1, <1>2, <1>3, <1>4, <1>5

LEMMA GetCreditsInv ==
  ASSUME IInv, NEW r \in Requests, GetCredits(r) PROVE IInv'
<1> USE DEF IInv, GetCredits, Get, Answer, store, ledger
<1>0. credits[req[r].member] \in NoAccount..MaxCredits
  BY RequestFacts DEF CreditsWithinBounds
<1>1. TypeOK'
  BY <1>0 DEF TypeOK, InFlight, Refusals, Success
<1>2. StepInv'
  BY DEF TypeOK, StepInv, Untouched, Reached, Justified, StoreSteps, WriteSteps
<1>3. PendingInv'
  BY DEF TypeOK, PendingInv, Justified, Reached, Untouched, Settled
<1>4. (ReadsBacked /\ MoversOnly /\ CreditsWithinBounds /\ CreditsBackedByGrants)'
  BY RequestFacts DEF TypeOK, ReadsBacked, MoversOnly, CreditsWithinBounds, CreditsBackedByGrants
<1>5. (RecordsFollowMoney /\ AnswersMatchRecords)'
  BY DEF RecordsFollowMoney, AnswersMatchRecords, StepInv, PendingInv, Untouched,
     TypeOK, Refusals, Success, Settled
<1> QED
  BY <1>1, <1>2, <1>3, <1>4, <1>5

LEMMA OrdersByMemberInv ==
  ASSUME IInv, NEW r \in Requests, OrdersByMember(r) PROVE IInv'
<1> USE DEF IInv, OrdersByMember, Answer, store, ledger
<1>1. TypeOK'
  BY DEF TypeOK, InFlight, Success
<1>2. StepInv'
  BY DEF TypeOK, StepInv, Untouched, Reached, Justified, StoreSteps, WriteSteps
<1>3. PendingInv'
  BY DEF TypeOK, PendingInv, Justified, Reached, Untouched, Settled
<1>4. (ReadsBacked /\ MoversOnly /\ CreditsWithinBounds /\ CreditsBackedByGrants)'
  BY DEF ReadsBacked, MoversOnly, CreditsWithinBounds, CreditsBackedByGrants
<1>5. (RecordsFollowMoney /\ AnswersMatchRecords)'
  BY DEF RecordsFollowMoney, AnswersMatchRecords, StepInv, PendingInv, Untouched,
     TypeOK, Refusals, Success, Settled
<1> QED
  BY <1>1, <1>2, <1>3, <1>4, <1>5

-----------------------------------------------------------------------------
(* What a write does to the balances and the collections, whether it is    *)
(* acknowledged in time or performed late.                                 *)

(* A justified Set keeps the balance within the bounds and backed, however *)
(* stale the balance it was computed from.                                 *)
LEMMA SetEffect ==
  ASSUME TypeOK, ReadsBacked, MoversOnly, CreditsWithinBounds, CreditsBackedByGrants, RecordsFollowMoney,
         NEW r \in Requests, Justified(r), Untouched(r), PerformSet(r), UNCHANGED <<req, read>>
  PROVE  /\ credits' \in [Members -> Int] /\ granted' \in [Members -> Nat]
         /\ spent' \in [Members -> Nat] /\ applied' \subseteq Requests
         /\ ReadsBacked' /\ MoversOnly' /\ CreditsWithinBounds' /\ CreditsBackedByGrants'
         /\ RecordsFollowMoney'
<1> DEFINE m == req[r].member
<1> USE DEF PerformSet
<1>1. m \in Members /\ req[r].amount \in Int /\ read[r] \in NoAccount..MaxCredits
  BY RequestFacts DEF TypeOK
<1>2. NewBalance(r) \in 0..MaxCredits /\ req[r].amount >= 0
  BY <1>1, CreditsAssumption
     DEF Justified, NewBalance, Affordable, WithinCap, Amount, NoAccount
<1>3. granted' \in [Members -> Nat] /\ spent' \in [Members -> Nat]
  BY <1>1, <1>2 DEF TypeOK
<1>4. \A n \in Members : granted[n] <= granted'[n]
  BY <1>1, <1>2 DEF TypeOK
<1>5. NewBalance(r) <= granted'[m]
  BY <1>1, <1>2 DEF TypeOK, ReadsBacked, Justified, NewBalance, Affordable, Amount, NoAccount
<1>6. ReadsBacked'
  BY <1>3, <1>4, RequestFacts, CreditsAssumption DEF TypeOK, ReadsBacked, Amount, NoAccount
<1>7. CreditsWithinBounds'
  BY <1>1, <1>2, RequestFacts, CreditsAssumption DEF TypeOK, CreditsWithinBounds, NoAccount
<1>8. CreditsBackedByGrants'
  BY <1>1, <1>2, <1>3, <1>4, <1>5 DEF TypeOK, CreditsBackedByGrants, Amount, NoAccount
<1>9. RecordsFollowMoney' /\ MoversOnly'
  BY DEF RecordsFollowMoney, MoversOnly, Justified
<1> QED
  BY <1>1, <1>2, <1>3, <1>6, <1>7, <1>8, <1>9 DEF TypeOK

LEMMA SetInv ==
  ASSUME IInv, NEW r \in Requests, Set(r) PROVE IInv'
<1> USE DEF IInv, Set, Goto
<1>1. /\ credits' \in [Members -> Int] /\ granted' \in [Members -> Nat]
      /\ spent' \in [Members -> Nat] /\ applied' \subseteq Requests
      /\ (ReadsBacked /\ MoversOnly /\ CreditsWithinBounds /\ CreditsBackedByGrants /\ RecordsFollowMoney)'
  BY SetEffect DEF StepInv, Reached, WriteSteps
<1> USE DEF PerformSet
<1>2. TypeOK'
  BY <1>1 DEF TypeOK, InFlight, StoreSteps, WriteSteps
<1>3. StepInv'
  BY DEF TypeOK, StepInv, Untouched, Reached, Justified, StoreSteps, WriteSteps
<1>4. PendingInv'
  BY DEF TypeOK, StepInv, PendingInv, Justified, Reached, Untouched, Settled
<1>5. AnswersMatchRecords'
  BY DEF AnswersMatchRecords, StepInv, StoreSteps, WriteSteps, TypeOK, Refusals, Success
<1> QED
  BY <1>1, <1>2, <1>3, <1>4, <1>5

LEMMA SaveInv ==
  ASSUME IInv, NEW r \in Requests, Save(r) PROVE IInv'
<1> USE DEF IInv, Save, Goto, PerformSave, ledger
<1>0. code[r] = 0 /\ Justified(r) /\ Reached("save", r)
  BY DEF StepInv, StoreSteps, WriteSteps
<1>1. TypeOK'
  BY DEF TypeOK, InFlight, StoreSteps, WriteSteps
<1>2. StepInv'
  BY <1>0 DEF TypeOK, StepInv, Untouched, Reached, Justified, StoreSteps, WriteSteps
<1>3. PendingInv'
  BY <1>0 DEF TypeOK, PendingInv, Justified, Reached, Untouched, Settled
<1>4. (ReadsBacked /\ MoversOnly /\ CreditsWithinBounds /\ CreditsBackedByGrants)'
  BY DEF ReadsBacked, MoversOnly, CreditsWithinBounds, CreditsBackedByGrants
<1>5. (RecordsFollowMoney /\ AnswersMatchRecords)'
  BY <1>0 DEF RecordsFollowMoney, AnswersMatchRecords, Reached, Refusals, Success, TypeOK
<1> QED
  BY <1>1, <1>2, <1>3, <1>4, <1>5

LEMMA AppendInv ==
  ASSUME IInv, NEW r \in Requests, Append(r) PROVE IInv'
<1> USE DEF IInv, Append, Answer, PerformAppend, ledger
<1>0. code[r] = 0 /\ Justified(r) /\ Reached("append", r)
  BY DEF StepInv, StoreSteps, WriteSteps
<1>1. TypeOK'
  BY DEF TypeOK, InFlight, Success
<1>2. StepInv'
  BY <1>0 DEF TypeOK, StepInv, Untouched, Reached, Justified, StoreSteps, WriteSteps
<1>3. PendingInv'
  BY <1>0 DEF TypeOK, PendingInv, Justified, Reached, Untouched, Settled
<1>4. (ReadsBacked /\ MoversOnly /\ CreditsWithinBounds /\ CreditsBackedByGrants)'
  BY DEF ReadsBacked, MoversOnly, CreditsWithinBounds, CreditsBackedByGrants
<1>5. (RecordsFollowMoney /\ AnswersMatchRecords)'
  BY <1>0 DEF RecordsFollowMoney, AnswersMatchRecords, Reached, Refusals, Success, TypeOK
<1> QED
  BY <1>1, <1>2, <1>3, <1>4, <1>5

-----------------------------------------------------------------------------
(* Failures, late writes and the end of a request. *)

LEMMA StoreErrorInv ==
  ASSUME IInv, NEW r \in Requests, StoreError(r) PROVE IInv'
<1> USE DEF IInv, StoreError, Answer, store, ledger
<1>1. TypeOK'
  BY DEF TypeOK, InFlight
<1>2. StepInv'
  BY DEF TypeOK, StepInv, Untouched, Reached, Justified, StoreSteps, WriteSteps
<1>3. PendingInv'
  BY DEF TypeOK, PendingInv, Justified, Reached, Untouched, Settled
<1>4. (ReadsBacked /\ MoversOnly /\ CreditsWithinBounds /\ CreditsBackedByGrants)'
  BY DEF ReadsBacked, MoversOnly, CreditsWithinBounds, CreditsBackedByGrants
<1>5. (RecordsFollowMoney /\ AnswersMatchRecords)'
  BY DEF RecordsFollowMoney, AnswersMatchRecords, Refusals, Success, TypeOK
<1> QED
  BY <1>1, <1>2, <1>3, <1>4, <1>5

LEMMA StoreTimeoutInv ==
  ASSUME IInv, NEW r \in Requests, StoreTimeout(r) PROVE IInv'
<1> USE DEF IInv, StoreTimeout, Answer, store, ledger
<1>0. pc[r] \in WriteSteps => Justified(r) /\ Reached(pc[r], r)
  BY DEF StepInv
<1>1. TypeOK'
  BY DEF TypeOK, InFlight
<1>2. StepInv'
  BY DEF TypeOK, StepInv, Untouched, Reached, Justified, StoreSteps, WriteSteps
<1>a. \A w \in pending : w.by # r
  BY DEF PendingInv, StoreSteps, WriteSteps, Settled
<1>3. PendingInv'
  <2>1. \A w \in pending' : w \in pending \/ (w = Late(pc[r], r) /\ pc[r] \in WriteSteps)
    BY DEF Late
  <2>2. \A w \in pending : Justified(w.by)' /\ Reached(w.op, w.by)'
    BY DEF PendingInv, Justified, Reached, Untouched
  <2>3. ASSUME NEW op, op = pc[r], op \in WriteSteps PROVE Justified(r)' /\ Reached(op, r)'
    BY <2>3, <1>0 DEF Justified, Reached, Untouched
  <2>4. pc'[r] = "reply" /\ code'[r] = 500
    BY DEF TypeOK
  <2>5. \A w \in pending : w.by \in Requests /\ pc'[w.by] = pc[w.by] /\ code'[w.by] = code[w.by]
    BY <1>a DEF TypeOK
  <2>6. Late(pc[r], r).op = pc[r] /\ Late(pc[r], r).by = r
    BY DEF Late
  <2>7. ASSUME NEW w \in pending'
        PROVE  /\ pc'[w.by] \in {"reply"} \union Settled /\ code'[w.by] \in {0, 500}
               /\ Justified(w.by)' /\ Reached(w.op, w.by)'
    <3>1. CASE w \in pending
      BY <3>1, <2>2, <2>5 DEF PendingInv
    <3>2. CASE w = Late(pc[r], r) /\ pc[r] \in WriteSteps
      <4>1. w.op = pc[r] /\ w.op \in WriteSteps /\ w.by = r
        BY <3>2, <2>6
      <4>2. Justified(r)' /\ Reached(w.op, r)'
        BY <4>1, <2>3
      <4> QED
        BY <4>1, <4>2, <2>4 DEF Justified, Reached, Untouched
    <3> QED
      BY <2>1, <3>1, <3>2
  <2>8. \A v, w \in pending' : v.by = w.by => v = w
    BY <1>a, <2>1, <2>6 DEF PendingInv
  <2> QED
    BY <2>7, <2>8 DEF PendingInv
<1>4. (ReadsBacked /\ MoversOnly /\ CreditsWithinBounds /\ CreditsBackedByGrants)'
  BY DEF ReadsBacked, MoversOnly, CreditsWithinBounds, CreditsBackedByGrants
<1>5. (RecordsFollowMoney /\ AnswersMatchRecords)'
  BY DEF RecordsFollowMoney, AnswersMatchRecords, Refusals, Success, TypeOK
<1> QED
  BY <1>1, <1>2, <1>3, <1>4, <1>5

(* The request of a late write has failed or died before. *)
LEMMA LateFacts ==
  ASSUME IInv, NEW w \in pending
  PROVE  /\ w.by \in Requests /\ code[w.by] \in {0, 500}
         /\ pc[w.by] \in {"reply"} \union Settled
         /\ Justified(w.by) /\ Reached(w.op, w.by)
         /\ \A v \in pending \ {w} : v.by # w.by
  BY DEF IInv, TypeOK, PendingInv

LEMMA LateSetInv ==
  ASSUME IInv, NEW w \in pending, LateWrite(w), w.op = "set", PerformSet(w.by) PROVE IInv'
<1> USE DEF IInv, LateWrite
<1>0. /\ w.by \in Requests /\ code[w.by] \in {0, 500} /\ pc[w.by] \in {"reply"} \union Settled
      /\ Justified(w.by) /\ Untouched(w.by)
      /\ \A v \in pending \ {w} : v.by # w.by
  BY LateFacts DEF Reached
<1>1. /\ credits' \in [Members -> Int] /\ granted' \in [Members -> Nat]
      /\ spent' \in [Members -> Nat] /\ applied' \subseteq Requests
      /\ (ReadsBacked /\ MoversOnly /\ CreditsWithinBounds /\ CreditsBackedByGrants /\ RecordsFollowMoney)'
  BY <1>0, SetEffect
<1> USE DEF PerformSet
<1>2. TypeOK'
  BY <1>1 DEF TypeOK
<1>3. StepInv'
  BY <1>0 DEF TypeOK, StepInv, Untouched, Reached, Justified, StoreSteps, WriteSteps, Settled
<1>4. PendingInv'
  BY <1>0 DEF PendingInv, Justified, Reached, Untouched
<1>5. AnswersMatchRecords'
  BY <1>0 DEF AnswersMatchRecords, TypeOK, Refusals, Success
<1> QED
  BY <1>1, <1>2, <1>3, <1>4, <1>5

LEMMA LateSaveInv ==
  ASSUME IInv, NEW w \in pending, LateWrite(w), w.op = "save", PerformSave(w.by) PROVE IInv'
<1> USE DEF IInv, LateWrite, PerformSave, ledger
<1>0. /\ w.by \in Requests /\ code[w.by] \in {0, 500} /\ pc[w.by] \in {"reply"} \union Settled
      /\ Justified(w.by) /\ Reached("save", w.by)
      /\ \A v \in pending \ {w} : v.by # w.by
  BY LateFacts
<1>1. TypeOK'
  BY <1>0 DEF TypeOK
<1>2. StepInv'
  BY <1>0 DEF TypeOK, StepInv, Untouched, Reached, Justified, StoreSteps, WriteSteps, Settled
<1>3. PendingInv'
  BY <1>0 DEF PendingInv, Justified, Reached, Untouched
<1>4. (ReadsBacked /\ MoversOnly /\ CreditsWithinBounds /\ CreditsBackedByGrants)'
  BY DEF ReadsBacked, MoversOnly, CreditsWithinBounds, CreditsBackedByGrants
<1>5. (RecordsFollowMoney /\ AnswersMatchRecords)'
  BY <1>0 DEF RecordsFollowMoney, AnswersMatchRecords, Reached, Refusals, Success, TypeOK
<1> QED
  BY <1>1, <1>2, <1>3, <1>4, <1>5

LEMMA LateAppendInv ==
  ASSUME IInv, NEW w \in pending, LateWrite(w), w.op = "append", PerformAppend(w.by) PROVE IInv'
<1> USE DEF IInv, LateWrite, PerformAppend, ledger
<1>0. /\ w.by \in Requests /\ code[w.by] \in {0, 500} /\ pc[w.by] \in {"reply"} \union Settled
      /\ Justified(w.by) /\ Reached("append", w.by)
      /\ \A v \in pending \ {w} : v.by # w.by
  BY LateFacts
<1>1. TypeOK'
  BY <1>0 DEF TypeOK
<1>2. StepInv'
  BY <1>0 DEF TypeOK, StepInv, Untouched, Reached, Justified, StoreSteps, WriteSteps, Settled
<1>3. PendingInv'
  BY <1>0 DEF PendingInv, Justified, Reached, Untouched
<1>4. (ReadsBacked /\ MoversOnly /\ CreditsWithinBounds /\ CreditsBackedByGrants)'
  BY DEF ReadsBacked, MoversOnly, CreditsWithinBounds, CreditsBackedByGrants
<1>5. (RecordsFollowMoney /\ AnswersMatchRecords)'
  BY <1>0 DEF RecordsFollowMoney, AnswersMatchRecords, Reached, Refusals, Success, TypeOK
<1> QED
  BY <1>1, <1>2, <1>3, <1>4, <1>5

LEMMA LostWriteInv ==
  ASSUME IInv, NEW w \in pending, LostWrite(w) PROVE IInv'
<1> USE DEF IInv, LostWrite, store, ledger
<1>1. TypeOK'
  BY DEF TypeOK
<1>2. StepInv'
  BY DEF StepInv, Untouched, Reached, Justified
<1>3. PendingInv'
  BY DEF PendingInv, Justified, Reached, Untouched
<1>4. (ReadsBacked /\ MoversOnly /\ CreditsWithinBounds /\ CreditsBackedByGrants)'
  BY DEF ReadsBacked, MoversOnly, CreditsWithinBounds, CreditsBackedByGrants
<1>5. (RecordsFollowMoney /\ AnswersMatchRecords)'
  BY DEF RecordsFollowMoney, AnswersMatchRecords
<1> QED
  BY <1>1, <1>2, <1>3, <1>4, <1>5

LEMMA CrashInv ==
  ASSUME IInv, Crash PROVE IInv'
<1> USE DEF IInv, store, ledger
<1>1. PICK left \in SUBSET {r \in Requests : pc[r] \in WriteSteps} :
        pending' = pending \union {Late(pc[r], r) : r \in left}
  BY DEF Crash, Late
<1>2. /\ \A r \in Requests : pc'[r] = IF pc[r] \in InFlight THEN "lost" ELSE pc[r]
      /\ pc' \in [Requests -> {"idle"} \union InFlight \union Settled]
      /\ UNCHANGED <<req, read, code, listed, credits, orders, events, applied, granted, spent>>
  BY DEF Crash, TypeOK, Settled
<1>3. \A w \in pending' : w \in pending \/ (w.by \in left /\ w = Late(pc[w.by], w.by))
  BY <1>1 DEF Late
<1>4. \A r \in left : r \in Requests /\ pc[r] \in WriteSteps /\ pc'[r] = "lost" /\ code[r] = 0
                   /\ Justified(r) /\ Reached(pc[r], r)
  BY <1>2 DEF StepInv, InFlight, StoreSteps
<1>5. TypeOK'
  <2>1. pending' \subseteq [op : WriteSteps, by : Requests]
    BY <1>1, <1>4 DEF TypeOK, Late
  <2> QED
    BY <1>2, <2>1 DEF TypeOK
<1>6. StepInv'
  BY <1>2 DEF TypeOK, StepInv, Untouched, Reached, Justified, StoreSteps, WriteSteps, InFlight
<1>7. PendingInv'
  <2>1. ASSUME NEW w \in pending'
        PROVE  /\ pc'[w.by] \in {"reply"} \union Settled /\ code'[w.by] \in {0, 500}
               /\ Justified(w.by)' /\ Reached(w.op, w.by)'
    <3>1. CASE w \in pending
      <4>1. /\ w.by \in Requests /\ pc[w.by] \in {"reply"} \union Settled /\ code[w.by] \in {0, 500}
            /\ Justified(w.by) /\ Reached(w.op, w.by)
        BY <3>1 DEF PendingInv, TypeOK
      <4> QED
        BY <1>2, <4>1 DEF Justified, Reached, Untouched, Settled
    <3>2. CASE w.by \in left /\ w = Late(pc[w.by], w.by)
      <4>1. w.op = pc[w.by]
        BY <3>2 DEF Late
      <4> QED
        BY <1>2, <1>4, <3>2, <4>1 DEF Justified, Reached, Untouched, Settled
    <3> QED
      BY <1>3, <3>1, <3>2
  <2>2. \A w \in pending : w.by \notin left
    BY <1>4 DEF PendingInv, WriteSteps, Settled
  <2>3. \A v, w \in pending' : v.by = w.by => v = w
    BY <1>3, <2>2 DEF PendingInv
  <2> QED
    BY <2>1, <2>3 DEF PendingInv
<1>8. (ReadsBacked /\ MoversOnly /\ CreditsWithinBounds /\ CreditsBackedByGrants)'
  BY <1>2 DEF ReadsBacked, MoversOnly, CreditsWithinBounds, CreditsBackedByGrants
<1>9. (RecordsFollowMoney /\ AnswersMatchRecords)'
  <2>1. RecordsFollowMoney'
    BY <1>2 DEF RecordsFollowMoney
  <2>2. ASSUME NEW r \in Requests, code[r] \in Refusals
        PROVE  r \notin {w.by : w \in pending'}
    BY <1>3, <1>4, <2>2 DEF AnswersMatchRecords, Refusals
  <2> QED
    BY <1>2, <2>1, <2>2 DEF AnswersMatchRecords
<1> QED
  BY <1>5, <1>6, <1>7, <1>8, <1>9

LEMMA ReplyInv ==
  ASSUME IInv, NEW r \in Requests, Reply(r) PROVE IInv'
<1> USE DEF IInv, Reply, Goto, store, ledger
<1>1. TypeOK'
  BY DEF TypeOK, Settled
<1>2. StepInv'
  BY DEF TypeOK, StepInv, Untouched, Reached, Justified, StoreSteps, WriteSteps
<1>3. PendingInv'
  BY DEF TypeOK, PendingInv, Justified, Reached, Untouched, Settled
<1>4. (ReadsBacked /\ MoversOnly /\ CreditsWithinBounds /\ CreditsBackedByGrants)'
  BY DEF ReadsBacked, MoversOnly, CreditsWithinBounds, CreditsBackedByGrants
<1>5. (RecordsFollowMoney /\ AnswersMatchRecords)'
  BY DEF RecordsFollowMoney, AnswersMatchRecords
<1> QED
  BY <1>1, <1>2, <1>3, <1>4, <1>5

LEMMA StutterInv ==
  ASSUME IInv, UNCHANGED vars PROVE IInv'
<1> USE DEF IInv, vars, store, ledger
<1>1. (TypeOK /\ StepInv /\ PendingInv)'
  BY DEF TypeOK, StepInv, PendingInv, Untouched, Reached, Justified
<1>2. (ReadsBacked /\ MoversOnly /\ CreditsWithinBounds /\ CreditsBackedByGrants)'
  BY DEF ReadsBacked, MoversOnly, CreditsWithinBounds, CreditsBackedByGrants
<1>3. (RecordsFollowMoney /\ AnswersMatchRecords)'
  BY DEF RecordsFollowMoney, AnswersMatchRecords
<1> QED
  BY <1>1, <1>2, <1>3

-----------------------------------------------------------------------------
(* Every step preserves the invariant. *)
LEMMA NextInv == IInv /\ [Next]_vars => IInv'
<1> SUFFICES ASSUME IInv, [Next]_vars PROVE IInv'
  OBVIOUS
<1>1. ASSUME NEW r \in Requests, Serve(r) PROVE IInv'
  <2>1. CASE Accept(r)          BY <2>1, AcceptInv
  <2>2. CASE Refuse(r)          BY <2>2, RefuseInv
  <2>3. CASE GetForOrder(r)     BY <2>3, GetForOrderInv
  <2>4. CASE GetForGrant(r)     BY <2>4, GetForGrantInv
  <2>5. CASE GetCredits(r)      BY <2>5, GetCreditsInv
  <2>6. CASE OrdersByMember(r)  BY <2>6, OrdersByMemberInv
  <2>7. CASE Set(r)             BY <2>7, SetInv
  <2>8. CASE Save(r)            BY <2>8, SaveInv
  <2>9. CASE Append(r)          BY <2>9, AppendInv
  <2>10. CASE StoreError(r)     BY <2>10, StoreErrorInv
  <2>11. CASE StoreTimeout(r)   BY <2>11, StoreTimeoutInv
  <2>12. CASE Reply(r)          BY <2>12, ReplyInv
  <2> QED
    BY <1>1, <2>1, <2>2, <2>3, <2>4, <2>5, <2>6, <2>7, <2>8, <2>9, <2>10, <2>11, <2>12
       DEF Serve
<1>2. ASSUME NEW w \in pending, LateWrite(w) PROVE IInv'
  BY <1>2, LateSetInv, LateSaveInv, LateAppendInv DEF LateWrite, Perform
<1>3. ASSUME NEW w \in pending, LostWrite(w) PROVE IInv'
  BY <1>3, LostWriteInv
<1>4. CASE Crash
  BY <1>4, CrashInv
<1>5. CASE UNCHANGED vars
  BY <1>5, StutterInv
<1> QED
  BY <1>1, <1>2, <1>3, <1>4, <1>5 DEF Next

(* The inductive invariant holds in every reachable state. *)
THEOREM Invariance == Spec => []IInv
  BY InitInv, NextInv, PTL DEF Spec

(* Every variable keeps its type. *)
THEOREM TypeCorrect == Spec => []TypeOK
<1>1. IInv => TypeOK
  BY DEF IInv
<1> QED
  BY <1>1, Invariance, PTL

(* A balance stays between zero and the cap, and an account once written   *)
(* exists for good, for any number of overlapping and failing requests.    *)
THEOREM Bounded == Spec => []CreditsWithinBounds
<1>1. IInv => CreditsWithinBounds
  BY DEF IInv
<1> QED
  BY <1>1, Invariance, PTL

(* No interleaving makes credits that were not granted. *)
THEOREM Backed == Spec => []CreditsBackedByGrants
<1>1. IInv => CreditsBackedByGrants
  BY DEF IInv
<1> QED
  BY <1>1, Invariance, PTL

(* An order that is stored was paid, an event that is stored happened. *)
THEOREM Recorded == Spec => []RecordsFollowMoney
<1>1. IInv => RecordsFollowMoney
  BY DEF IInv
<1> QED
  BY <1>1, Invariance, PTL

(* A confirmed request is stored in full, a refused one not at all. *)
THEOREM Answered == Spec => []AnswersMatchRecords
<1>1. IInv => AnswersMatchRecords
  BY DEF IInv
<1> QED
  BY <1>1, Invariance, PTL

-----------------------------------------------------------------------------
(* Who passes validation may ask what was asked.                           *)
LEMMA Passed ==
  ASSUME TypeOK, NEW r \in Requests, Refusal(req[r]) = 0
  PROVE  Entitled(req[r])
BY InputsAssumption DEF TypeOK, RequestType, Refusal, RouteOpen, CanAccess, Entitled

(* A balance that is written is the one of the request's own member.       *)
LEMMA SetMoves ==
  ASSUME IInv, NEW r \in Requests, Justified(r), Reached("set", r), PerformSet(r),
         NEW m \in Members, credits'[m] # credits[m]
  PROVE  \E s \in applied' \ applied : req[s].member = m /\ Entitled(req[s])
<1>1. r \in applied' \ applied
  BY DEF PerformSet, Reached, Untouched
<1>2. m = req[r].member
  BY DEF PerformSet, IInv, TypeOK
<1>3. Entitled(req[r])
  BY Passed DEF Justified, IInv
<1> QED
  BY <1>1, <1>2, <1>3

(* A write that is performed, in time or late, adds and takes nothing back. *)
LEMMA WriteAdds ==
  ASSUME IInv, NEW op \in WriteSteps, NEW r \in Requests, Justified(r), Reached(op, r), Perform(op, r)
  PROVE  /\ \A m \in Members : credits'[m] # credits[m] =>
              \E s \in applied' \ applied : req[s].member = m /\ Entitled(req[s])
         /\ orders \subseteq orders' /\ events \subseteq events' /\ applied \subseteq applied'
<1>1. CASE op = "set" /\ PerformSet(r)
  <2>1. orders' = orders /\ events' = events /\ applied \subseteq applied'
    BY <1>1 DEF PerformSet
  <2> QED
    BY <1>1, <2>1, SetMoves
<1>2. CASE op = "save" /\ PerformSave(r)
  BY <1>2 DEF PerformSave, ledger
<1>3. CASE op = "append" /\ PerformAppend(r)
  BY <1>3 DEF PerformAppend, ledger
<1> QED
  BY <1>1, <1>2, <1>3 DEF Perform

(* Every change of a balance is made once, by somebody who may make it, and *)
(* nothing that was recorded is ever taken back: Set, Save and Append of   *)
(* the repository are reached through the controllers' checks only.        *)
THEOREM Authorised == Spec => ChangesAreAuthorised
<1> DEFINE A == /\ \A m \in Members : credits'[m] # credits[m] =>
                     \E r \in applied' \ applied : req[r].member = m /\ Entitled(req[r])
                /\ orders \subseteq orders' /\ events \subseteq events'
                /\ applied \subseteq applied'
<1>1. IInv /\ [Next]_vars => [A]_vars
  <2> SUFFICES ASSUME IInv, Next PROVE A
    OBVIOUS
  <2>1. UNCHANGED <<store, applied>> => A
    BY DEF store
  <2>2. ASSUME NEW op \in WriteSteps, NEW r \in Requests, Justified(r), Reached(op, r), Perform(op, r)
        PROVE  A
    BY <2>2, WriteAdds
  <2> HIDE DEF A
  <2>3. ASSUME NEW r \in Requests, Serve(r) PROVE A
    <3>1. CASE Set(r) \/ Save(r) \/ Append(r)
      <4>1. pc[r] \in WriteSteps /\ Perform(pc[r], r)
        BY <3>1 DEF Set, Save, Append, Perform, WriteSteps
      <4> QED
        BY <2>2, <4>1 DEF IInv, StepInv
    <3>2. CASE ~(Set(r) \/ Save(r) \/ Append(r))
      BY <2>1, <2>3, <3>2 DEF Serve, Accept, Refuse, GetForOrder, GetForGrant, GetCredits, Get,
         OrdersByMember, StoreError, StoreTimeout, Reply, store, ledger
    <3> QED
      BY <3>1, <3>2
  <2>4. ASSUME NEW w \in pending, LateWrite(w) PROVE A
    <3>1. w.op \in WriteSteps /\ w.by \in Requests
      BY DEF IInv, TypeOK
    <3>2. Justified(w.by) /\ Reached(w.op, w.by) /\ Perform(w.op, w.by)
      BY <2>4 DEF IInv, PendingInv, LateWrite
    <3> QED
      BY <2>2, <3>1, <3>2
  <2>5. ASSUME NEW w \in pending, LostWrite(w) PROVE A
    BY <2>1, <2>5 DEF LostWrite, store, ledger
  <2>6. CASE Crash \/ UNCHANGED vars
    BY <2>1, <2>6 DEF Crash, vars, store, ledger
  <2> QED
    BY <2>3, <2>4, <2>5, <2>6 DEF Next
<1> QED
  BY <1>1, Invariance, PTL DEF Spec, ChangesAreAuthorised

(* A history that OrdersByMember answers holds every order about the       *)
(* member that was confirmed before, and only such as were paid for.       *)
THEOREM Complete == Spec => HistoryIsComplete
<1> DEFINE own(r) == {o \in Requests : req[o].kind = "order" /\ req[o].member = req[r].member}
           A == \A r \in Requests : req[r].kind = "history" /\ code[r] = 0 /\ code'[r] = 200 =>
                  /\ {o \in own(r) : code[o] = 201} \subseteq listed'[r]
                  /\ listed'[r] \subseteq own(r) \intersect applied
                  /\ Entitled(req[r])
<1>1. IInv /\ [Next]_vars => [A]_vars
  <2> SUFFICES ASSUME IInv, Next, NEW r \in Requests,
                      req[r].kind = "history", code[r] = 0, code'[r] = 200
               PROVE  /\ {o \in own(r) : code[o] = 201} \subseteq listed'[r]
                      /\ listed'[r] \subseteq own(r) \intersect applied
                      /\ Entitled(req[r])
    OBVIOUS
  <2>1. \E s \in Requests : Serve(s)
    BY DEF Next, LateWrite, LostWrite, Crash, vars
  <2>2. PICK s \in Requests : Serve(s)
    BY <2>1
  <2>3. s = r
    BY <2>2 DEF Serve, Accept, Refuse, GetForOrder, GetForGrant, GetCredits, OrdersByMember,
       Set, Save, Append, StoreError, StoreTimeout, Reply, Goto, Answer, IInv, TypeOK
  <2>4. ~Append(r)
    BY DEF Append, IInv, StepInv, Justified, WriteSteps
  <2>5. ~Refuse(r)
    BY RefusalType DEF Refuse, Answer, IInv, TypeOK, Refusals
  <2>6. OrdersByMember(r)
    BY <2>2, <2>3, <2>4, <2>5 DEF Serve, Accept, GetForOrder, GetForGrant, GetCredits,
       Set, Save, StoreError, StoreTimeout, Reply, Goto, Answer, IInv, TypeOK
  <2>7. listed'[r] = {o \in orders : req[o].member = req[r].member} /\ pc[r] = "get"
    BY <2>6 DEF OrdersByMember, IInv, TypeOK
  <2>8. orders \subseteq {o \in applied : req[o].kind = "order"} /\ applied \subseteq Requests
    BY DEF IInv, TypeOK, RecordsFollowMoney
  <2>9. \A o \in own(r) : code[o] = 201 => o \in orders
    BY DEF IInv, AnswersMatchRecords, RecordsFollowMoney, Success
  <2>10. Entitled(req[r])
    BY <2>7, Passed DEF IInv, StepInv, StoreSteps
  <2> QED
    BY <2>7, <2>8, <2>9, <2>10
<1> QED
  BY <1>1, Invariance, PTL DEF Spec, HistoryIsComplete

-----------------------------------------------------------------------------
(* Liveness *)

(* Where a request that is being served may be after a step of anybody.    *)
LEMMA Onward ==
  ASSUME IInv, [Next]_vars, NEW r \in Requests, pc[r] \in InFlight
  PROVE  /\ pc'[r] \in InFlight \union Settled
         /\ pc[r] = "reply" => pc'[r] \in {"reply"} \union Settled
<1> USE DEF IInv, TypeOK, InFlight, Settled, StoreSteps, WriteSteps, Goto, Answer
<1>1. CASE \E s \in Requests : Serve(s)
  BY <1>1 DEF Serve, Accept, Refuse, Get, GetForOrder, GetForGrant, GetCredits, OrdersByMember,
     Set, Save, Append, StoreError, StoreTimeout, Reply
<1>2. CASE (\E w \in pending : LateWrite(w) \/ LostWrite(w)) \/ UNCHANGED vars
  BY <1>2 DEF LateWrite, LostWrite, vars
<1>3. CASE Crash
  BY <1>3 DEF Crash
<1> QED
  BY <1>1, <1>2, <1>3 DEF Next

(* A step whose guard holds is ENABLED, which no installed prover knows:   *)
(* the hypothesis of the theorem below.                                    *)
CanGoOn(r) ==
  /\ pc[r] \in StoreSteps => ENABLED <<StoreTimeout(r)>>_vars
  /\ pc[r] = "reply" => ENABLED <<Reply(r)>>_vars

GuardsEnable == \A r \in Requests : CanGoOn(r)

(* Every request that is being served comes to an end although no step of  *)
(* the database is fair: what a repository call waits for is its timeout,  *)
(* and that nothing keeps it from.                                         *)
THEOREM Settles == FairSpec /\ []GuardsEnable => RequestsAreSettled
<1> SUFFICES ASSUME NEW r \in Requests
             PROVE  FairSpec /\ []GuardsEnable => (pc[r] \in InFlight ~> pc[r] \in Settled)
  BY DEF RequestsAreSettled
<1> DEFINE Asks == pc[r] \in StoreSteps
           Answers == pc[r] = "reply"
           Over == pc[r] \in Settled
<1>1. FairSpec => Spec /\ GoesOn(r)
  BY DEF FairSpec
<1>2. GuardsEnable => /\ Asks => ENABLED <<StoreTimeout(r)>>_vars
                      /\ Answers => ENABLED <<Reply(r)>>_vars
  <2>1. GuardsEnable => CanGoOn(r)
    BY DEF GuardsEnable
  <2> QED
    BY <2>1 DEF CanGoOn
<1>3. IInv /\ Asks /\ [Next]_vars => Asks' \/ Answers' \/ Over'
  BY Onward DEF InFlight
<1>4. IInv /\ Asks /\ <<StoreTimeout(r)>>_vars => Answers'
  BY DEF StoreTimeout, Answer, IInv, TypeOK
<1>5. IInv /\ Answers /\ [Next]_vars => Answers' \/ Over'
  BY Onward DEF InFlight
<1>6. IInv /\ Answers /\ <<Reply(r)>>_vars => Over'
  BY DEF IInv, TypeOK, Reply, Goto, Settled
<1>7. (pc[r] \in InFlight => Asks \/ Answers) /\ (Over => pc[r] \in Settled)
  BY DEF InFlight
<1> HIDE DEF Asks, Answers, Over
<1> QED
  BY <1>1, <1>2, <1>3, <1>4, <1>5, <1>6, <1>7, Invariance, PTL DEF Spec, GoesOn
=============================================================================
