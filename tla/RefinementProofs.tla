-------------------------- MODULE RefinementProofs --------------------------
(***************************************************************************)
(* Ordering implements Booking: the proof, for every combination of        *)
(* requests, overlaps and faults, that each step of the API is a step of   *)
(* Booking or leaves it unchanged.                                         *)
(***************************************************************************)
EXTENDS OrderingRefinement, OrderingProofs

bvars == <<[r \in Requests |-> WritesOf(req[r])],
           [r \in Requests |-> Written(r)],
           [r \in Requests |-> Told(r)]>>

(* Each of the two views changes only where the collections, or the        *)
(* answer, of a request do.                                                *)
LEMMA SameWritten ==
  ASSUME NEW r, UNCHANGED req, r \in applied' <=> r \in applied,
         r \in orders' <=> r \in orders, r \in events' <=> r \in events
  PROVE  Written(r)' = Written(r)
  BY DEF Written

LEMMA SameTold ==
  ASSUME NEW r, pc'[r] = pc[r], code'[r] = code[r]
  PROVE  Told(r)' = Told(r)
  BY DEF Told

(* A request that is being served, or has not come, is open. *)
LEMMA Open ==
  ASSUME NEW r, pc[r] \in {"idle"} \union InFlight
  PROVE  Told(r) = "open"
  BY DEF Told, InFlight, StoreSteps, WriteSteps

LEMMA WritesOfType ==
  ASSUME NEW q PROVE WritesOf(q) \in 0..3
  BY DEF WritesOf

(* A write that takes effect next is the one that Booking expects next. *)
LEMMA NextWrite ==
  ASSUME IInv, NEW r \in Requests, NEW op \in WriteSteps, Justified(r), Reached(op, r)
  PROVE  /\ Written(r) < WritesOf(req[r])
         /\ op = "set" => Written(r) = 0
         /\ op = "save" => Written(r) = 1 /\ WritesOf(req[r]) = 3
         /\ op = "append" => Written(r) + 1 = WritesOf(req[r])
  BY DEF Justified, Reached, Untouched, Written, WritesOf, WriteSteps, IInv, RecordsFollowMoney

(* Performing it is Booking's step Write. *)
LEMMA PerformIsWrite ==
  ASSUME IInv, NEW r \in Requests, NEW op \in WriteSteps, Justified(r), Reached(op, r),
         Perform(op, r), UNCHANGED req,
         \A s \in Requests : Told(s)' = Told(s),
         Told(r) \in {"open", "failed"}
  PROVE  B!Write(r)
<1>1. Written(r) < WritesOf(req[r]) /\ Written(r) \in Nat
  BY NextWrite, WritesOfType DEF Written
<1>2. Written(r)' = Written(r) + 1
  <2>1. CASE op = "set"
    BY <2>1, NextWrite DEF Perform, PerformSet, Written, Reached, Untouched
  <2>2. CASE op = "save"
    BY <2>2, NextWrite DEF Perform, PerformSave, Written, Reached, ledger
  <2>3. CASE op = "append"
    BY <2>3, NextWrite DEF Perform, PerformAppend, Written, WritesOf, ledger
  <2> QED
    BY <2>1, <2>2, <2>3 DEF WriteSteps
<1>3. \A s \in Requests : s # r => Written(s)' = Written(s)
  BY DEF Perform, PerformSet, PerformSave, PerformAppend, Written, ledger
<1> QED
  BY <1>1, <1>2, <1>3 DEF B!Write

(* A step that writes nothing and gives no client its answer. *)
LEMMA NoStep ==
  ASSUME UNCHANGED <<req, applied, orders, events>>,
         \A s \in Requests : Told(s)' = Told(s)
  PROVE  UNCHANGED bvars
  BY SameWritten DEF bvars

LEMMA ServeMaps ==
  ASSUME IInv, NEW r \in Requests, Serve(r)
  PROVE  B!Next \/ UNCHANGED bvars
<1>t. pc \in [Requests -> {"idle"} \union InFlight \union Settled] /\ code \in [Requests -> Int]
  BY DEF IInv, TypeOK, Refusals, Success
<1> DEFINE before == pc[r] \in {"idle"} \union InFlight
           after == pc'[r] \in InFlight
           others == \A s \in Requests : s # r => pc'[s] = pc[s] /\ code'[s] = code[s]
<1>o. ASSUME before, after, others PROVE \A s \in Requests : Told(s)' = Told(s)
  <2>1. Told(r)' = Told(r)
    BY <1>o DEF Told, InFlight, StoreSteps, WriteSteps
  <2> QED
    BY <1>o, <2>1, SameTold
<1>1. CASE Accept(r) \/ Refuse(r) \/ GetForOrder(r) \/ GetForGrant(r) \/ GetCredits(r)
           \/ OrdersByMember(r) \/ StoreError(r) \/ StoreTimeout(r)
  <2>1. before /\ after /\ others
    BY <1>t, <1>1 DEF Accept, Refuse, GetForOrder, GetForGrant, GetCredits, OrdersByMember, Get,
       StoreError, StoreTimeout, Goto, Answer, InFlight, StoreSteps, WriteSteps
  <2>2. UNCHANGED <<req, applied, orders, events>>
    BY <1>1 DEF Accept, Refuse, GetForOrder, GetForGrant, GetCredits, OrdersByMember, Get,
       StoreError, StoreTimeout, store, ledger
  <2> QED
    BY <1>o, <2>1, <2>2, NoStep
<1>2. CASE Set(r) \/ Save(r) \/ Append(r)
  <2>1. before /\ after /\ others /\ UNCHANGED req
    BY <1>t, <1>2 DEF Set, Save, Append, Goto, Answer, InFlight, StoreSteps, WriteSteps
  <2>2. PICK op \in WriteSteps : op = pc[r] /\ Perform(op, r)
    BY <1>2 DEF Set, Save, Append, Perform, WriteSteps
  <2>3. Justified(r) /\ Reached(op, r)
    BY <2>2 DEF IInv, StepInv
  <2>4. Told(r) = "open"
    BY <2>1, Open
  <2> QED
    BY <1>o, <2>1, <2>2, <2>3, <2>4, PerformIsWrite DEF B!Next
<1>3. CASE Reply(r)
  <2>1. /\ pc[r] = "reply" /\ pc'[r] = "done" /\ code' = code
        /\ \A s \in Requests : s # r => pc'[s] = pc[s]
    BY <1>t, <1>3 DEF Reply, Goto
  <2>2. UNCHANGED <<req, applied, orders, events>>
    BY <1>3 DEF Reply, store, ledger
  <2>3. \A s \in Requests : Written(s)' = Written(s)
    BY <2>2, SameWritten
  <2>4. Told(r) = "open"
    BY <2>1, Open DEF InFlight
  <2>5. \A s \in Requests : s # r => Told(s)' = Told(s)
    BY <2>1, SameTold
  <2>6. code[r] \in {500} \union Refusals \union Success
    BY <2>1 DEF IInv, TypeOK, StepInv
  <2>7. CASE code[r] \in Success
    <3>1. Told(r)' = "confirmed"
      BY <2>1, <2>7 DEF Told, Success, Refusals
    <3>2. Written(r) = WritesOf(req[r])
      BY <2>7, RequestFacts
         DEF IInv, AnswersMatchRecords, MoversOnly, RecordsFollowMoney, Written, WritesOf
    <3>3. B!Confirm(r)
      BY <2>2, <2>3, <2>4, <2>5, <3>1, <3>2 DEF B!Confirm
    <3> QED
      BY <3>3 DEF B!Next
  <2>8. CASE code[r] \in Refusals
    <3>1. Told(r)' = "refused"
      BY <2>1, <2>8 DEF Told, Success, Refusals
    <3>2. Written(r) = 0
      BY <2>8 DEF IInv, AnswersMatchRecords, Written
    <3>3. B!TurnDown(r)
      BY <2>2, <2>3, <2>4, <2>5, <3>1, <3>2 DEF B!TurnDown
    <3> QED
      BY <3>3 DEF B!Next
  <2>9. CASE code[r] = 500
    <3>1. Told(r)' = "failed"
      BY <2>1, <2>9 DEF Told, Success, Refusals
    <3>2. B!Fail
      <4>1. {r} \in SUBSET {s \in Requests : [q \in Requests |-> Told(q)][s] = "open"}
        BY <2>4
      <4>2. [q \in Requests |-> Told(q)]' =
              [q \in Requests |-> IF q \in {r} THEN "failed" ELSE [s \in Requests |-> Told(s)][q]]
        BY <2>5, <3>1
      <4> QED
        BY <2>2, <2>3, <4>1, <4>2 DEF B!Fail
    <3> QED
      BY <3>2 DEF B!Next
  <2> QED
    BY <2>6, <2>7, <2>8, <2>9
<1> QED
  BY <1>1, <1>2, <1>3 DEF Serve

LEMMA LateWriteMaps ==
  ASSUME IInv, NEW w \in pending, LateWrite(w)
  PROVE  B!Next
<1>1. /\ w.by \in Requests /\ code[w.by] \in {0, 500} /\ pc[w.by] \in {"reply"} \union Settled
      /\ Justified(w.by) /\ Reached(w.op, w.by)
  BY LateFacts
<1>2. w.op \in WriteSteps /\ Perform(w.op, w.by) /\ UNCHANGED <<req, pc, code>>
  BY DEF IInv, TypeOK, LateWrite
<1>3. \A s \in Requests : Told(s)' = Told(s)
  BY <1>2, SameTold
<1>4. Told(w.by) \in {"open", "failed"}
  <2>1. pc[w.by] = "done" => code[w.by] = 500
    BY <1>1 DEF IInv, StepInv
  <2> QED
    BY <1>1, <2>1 DEF Told, Settled, Success, Refusals
<1>5. B!Write(w.by)
  BY <1>1, <1>2, <1>3, <1>4, PerformIsWrite
<1> QED
  BY <1>1, <1>5 DEF B!Next

LEMMA CrashMaps ==
  ASSUME IInv, Crash
  PROVE  B!Next
<1> DEFINE served == {r \in Requests : pc[r] \in InFlight}
<1>1. UNCHANGED <<req, applied, orders, events, code>>
  BY DEF Crash, store, ledger
<1>2. \A s \in Requests : Written(s)' = Written(s)
  BY <1>1, SameWritten
<1>3. \A s \in served : Told(s) = "open" /\ Told(s)' = "failed"
  BY Open DEF Crash, Told
<1>4. \A s \in Requests \ served : Told(s)' = Told(s)
  BY <1>1, SameTold DEF Crash
<1>5. served \in SUBSET {s \in Requests : [q \in Requests |-> Told(q)][s] = "open"}
  BY <1>3
<1>6. [q \in Requests |-> Told(q)]' =
        [q \in Requests |-> IF q \in served THEN "failed" ELSE [s \in Requests |-> Told(s)][q]]
  BY <1>3, <1>4
<1> HIDE DEF served
<1>7. B!Fail
  BY <1>1, <1>2, <1>5, <1>6 DEF B!Fail
<1> QED
  BY <1>7 DEF B!Next

(* Every step of the API is a step of Booking or leaves it unchanged. *)
LEMMA NextMaps == IInv /\ [Next]_vars => B!Next \/ UNCHANGED bvars
<1> SUFFICES ASSUME IInv, [Next]_vars PROVE B!Next \/ UNCHANGED bvars
  OBVIOUS
<1>1. CASE \E r \in Requests : Serve(r)
  BY <1>1, ServeMaps
<1>2. ASSUME NEW w \in pending, LateWrite(w) PROVE B!Next
  BY <1>2, LateWriteMaps
<1>3. ASSUME NEW w \in pending, LostWrite(w) PROVE UNCHANGED bvars
  <2>1. UNCHANGED <<req, applied, orders, events, pc, code>>
    BY <1>3 DEF LostWrite, store, ledger
  <2> QED
    BY <2>1, SameTold, NoStep
<1>4. CASE Crash
  BY <1>4, CrashMaps
<1>5. CASE UNCHANGED vars
  <2>1. UNCHANGED <<req, applied, orders, events, pc, code>>
    BY <1>5 DEF vars, store, ledger
  <2> QED
    BY <2>1, SameTold, NoStep
<1> QED
  BY <1>1, <1>2, <1>3, <1>4, <1>5 DEF Next

LEMMA InitMaps == Init => B!Init
<1> SUFFICES ASSUME Init PROVE B!Init
  OBVIOUS
<1>1. \A r \in Requests : Written(r) = 0 /\ Told(r) = "open"
  BY DEF Init, Written, Told
<1> QED
  BY <1>1, WritesOfType DEF B!Init

(* Each request goes through its writes as Booking promises, whatever      *)
(* overlaps it and whatever fails.                                         *)
THEOREM Booked == Spec => ImplementsBooking
<1>1. IInv /\ [Next]_vars => [B!Next]_bvars
  BY NextMaps
<1>2. Init => B!Init
  BY InitMaps
<1> QED
  BY <1>1, <1>2, Invariance, PTL DEF Spec, ImplementsBooking, B!Spec, bvars

=============================================================================
