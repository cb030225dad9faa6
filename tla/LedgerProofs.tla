---------------------------- MODULE LedgerProofs ----------------------------
(***************************************************************************)
(* Proofs that Ordering implements Ledger and loses no credit, for every   *)
(* set of requests, members and inputs, every cap and opening balance,     *)
(* errors and crashes included, as long as the requests about one member   *)
(* are served one after the other and no write times out.                  *)
(***************************************************************************)
EXTENDS OrderingRefinement, OrderingProofs

(* The clients wait, and a write that is not acknowledged was not made.    *)
Serial == ~Overlap /\ "timeout" \notin Faults

(* One request about a member at a time, whose balance is still as it was  *)
(* read when it is written.                                                *)
SerialInv ==
  /\ pending = {}
  /\ \A r, s \in Requests :
       pc[r] \in InFlight /\ pc[s] \in InFlight /\ req[r].member = req[s].member => r = s
  /\ \A r \in Requests : pc[r] = "set" => read[r] = credits[req[r].member]
  /\ CreditsConserved

Shown == [m \in Members |-> Amount(credits[m])]
accounts == <<Shown, granted, spent>>

-----------------------------------------------------------------------------
LEMMA SerialInit == IInv /\ Init => SerialInv
<1> SUFFICES ASSUME IInv, Init PROVE SerialInv
  OBVIOUS
<1>1. \A r \in Requests : pc[r] = "idle"
  BY DEF Init
<1>2. CreditsConserved
  <2>1. \A m \in Members : Amount(credits[m]) \in Int
    BY DEF IInv, TypeOK, Amount
  <2> QED
    BY <2>1 DEF Init, CreditsConserved
<1> QED
  BY <1>1, <1>2 DEF Init, SerialInv, InFlight, StoreSteps, WriteSteps

(* A request that begins is the only one about its member.                 *)
LEMMA StartSerial ==
  ASSUME Serial, IInv, SerialInv, NEW r \in Requests, Accept(r) \/ Refuse(r)
  PROVE  SerialInv' /\ UNCHANGED accounts
<1> USE DEF Accept, Refuse, Goto, Answer, store, ledger
<1>1. /\ pc[r] = "idle" /\ pc'[r] # "set" /\ \A s \in Requests : s # r => pc'[s] = pc[s]
      /\ UNCHANGED <<req, read, store, pending, ledger>>
  BY DEF IInv, TypeOK
<1>2. \A s \in Requests : pc[s] \in InFlight => req[s].member # req[r].member
  BY DEF MayStart, Serial
<1> HIDE DEF Accept, Refuse
<1>3. CreditsConserved' /\ UNCHANGED accounts
  BY <1>1 DEF SerialInv, CreditsConserved, Shown, accounts
<1> QED
  BY <1>1, <1>2, <1>3 DEF SerialInv

(* A request that is being served goes on, and no credit moves.            *)
LEMMA QuietSerial ==
  ASSUME IInv, SerialInv, NEW r \in Requests,
         pc[r] \in InFlight, \A s \in Requests : s # r => pc'[s] = pc[s] /\ read'[s] = read[s],
         pc'[r] = "set" => read'[r] = credits[req[r].member],
         UNCHANGED <<req, pending, credits, ledger>>
  PROVE  SerialInv' /\ UNCHANGED accounts
<1>1. CreditsConserved' /\ UNCHANGED accounts
  BY DEF SerialInv, CreditsConserved, Shown, accounts, ledger
<1> QED
  BY <1>1 DEF SerialInv

LEMMA ReadSerial ==
  ASSUME IInv, SerialInv, NEW r \in Requests,
         GetForOrder(r) \/ GetForGrant(r) \/ GetCredits(r) \/ OrdersByMember(r)
  PROVE  SerialInv' /\ UNCHANGED accounts
<1> USE DEF GetForOrder, GetForGrant, GetCredits, OrdersByMember, Get, Goto, Answer, store
<1>1. /\ pc[r] \in InFlight
      /\ \A s \in Requests : s # r => pc'[s] = pc[s] /\ read'[s] = read[s]
      /\ UNCHANGED <<req, pending, credits, ledger>>
  BY DEF IInv, TypeOK, InFlight, StoreSteps
<1>2. pc'[r] = "set" => read'[r] = credits[req[r].member]
  BY DEF IInv, TypeOK
<1> QED
  BY <1>1, <1>2, QuietSerial

LEMMA RestSerial ==
  ASSUME IInv, SerialInv, NEW r \in Requests, Save(r) \/ Append(r) \/ StoreError(r) \/ Reply(r)
  PROVE  SerialInv' /\ UNCHANGED accounts
<1>1. /\ pc[r] \in InFlight /\ pc'[r] # "set"
      /\ \A s \in Requests : s # r => pc'[s] = pc[s] /\ read'[s] = read[s]
      /\ UNCHANGED <<req, pending, credits, ledger>>
  BY DEF IInv, TypeOK, Save, Append, StoreError, Reply, PerformSave, PerformAppend, Goto, Answer,
         store, InFlight, StoreSteps, WriteSteps
<1> QED
  BY <1>1, QuietSerial

(* A balance that is written is the balance as it was, and the amount.     *)
LEMMA SetSerial ==
  ASSUME IInv, SerialInv, NEW r \in Requests, Set(r)
  PROVE  SerialInv' /\ L!Next
<1> DEFINE m == req[r].member
           a == req[r].amount
<1>1. /\ pc[r] = "set" /\ pc'[r] \in {"save", "append"}
      /\ \A s \in Requests : s # r => pc'[s] = pc[s]
      /\ PerformSet(r)
      /\ UNCHANGED <<req, read, pending>>
  BY DEF Set, Goto, IInv, TypeOK
<1>2. /\ m \in Members /\ a \in Int /\ read[r] = credits[m] /\ req[r] \in Inputs
      /\ credits[m] \in NoAccount..MaxCredits /\ Justified(r)
      /\ credits \in [Members -> Int] /\ granted \in [Members -> Nat] /\ spent \in [Members -> Nat]
      /\ MaxCredits \in Nat
  BY <1>1, RequestFacts, CreditsAssumption
     DEF IInv, TypeOK, SerialInv, StepInv, WriteSteps, CreditsWithinBounds
<1>3. a \in {q.amount : q \in Inputs}
  BY <1>2
<1> HIDE DEF m, a
<1>4. /\ credits' = [credits EXCEPT ![m] = NewBalance(r)]
      /\ \/ /\ req[r].kind = "order" /\ 0 <= a /\ a <= Amount(credits[m])
            /\ NewBalance(r) = Amount(credits[m]) - a
            /\ spent' = [spent EXCEPT ![m] = @ + a] /\ granted' = granted
         \/ /\ req[r].kind = "grant" /\ a > 0 /\ Amount(credits[m]) + a <= MaxCredits
            /\ NewBalance(r) = Amount(credits[m]) + a
            /\ granted' = [granted EXCEPT ![m] = @ + a] /\ spent' = spent
  BY <1>1, <1>2 DEF PerformSet, Justified, Affordable, WithinCap, NewBalance, Amount, m, a
<1>5. /\ Amount(credits[m]) \in Nat /\ NewBalance(r) \in Nat /\ Amount(NewBalance(r)) = NewBalance(r)
  BY <1>2, <1>4 DEF Amount, NoAccount
<1>6. Shown' = [Shown EXCEPT ![m] = NewBalance(r)]
  BY <1>2, <1>4, <1>5 DEF Shown
<1>7. Shown[m] = Amount(credits[m])
  BY <1>2 DEF Shown
<1>8. L!Next
  <2>1. CASE req[r].kind = "order"
    <3>1. L!Charge(m, a)
      BY <1>4, <1>6, <1>7, <2>1 DEF L!Charge, Shown
    <3> QED
      BY <1>2, <1>3, <3>1 DEF L!Next
  <2>2. CASE req[r].kind = "grant"
    <3>1. L!Grant(m, a)
      BY <1>4, <1>6, <1>7, <2>2 DEF L!Grant, Shown
    <3> QED
      BY <1>2, <1>3, <3>1 DEF L!Next
  <2> QED
    BY <1>4, <2>1, <2>2
<1>9. CreditsConserved'
  <2> SUFFICES ASSUME NEW n \in Members PROVE Amount(credits'[n]) = granted'[n] - spent'[n]
    BY DEF CreditsConserved
  <2>1. Amount(credits[n]) = granted[n] - spent[n] /\ Amount(credits[m]) = granted[m] - spent[m]
    BY <1>2 DEF SerialInv, CreditsConserved
  <2>2. CASE n = m
    BY <1>2, <1>4, <1>5, <2>1, <2>2
  <2>3. CASE n # m
    BY <1>2, <1>4, <2>1, <2>3
  <2> QED
    BY <2>2, <2>3
<1>10. \A s \in Requests : s # r /\ pc[s] = "set" => credits'[req[s].member] = credits[req[s].member]
  BY <1>1, <1>2, <1>4, RequestFacts DEF IInv, SerialInv, InFlight, StoreSteps, WriteSteps, m
<1>11. SerialInv'
  BY <1>1, <1>9, <1>10 DEF SerialInv, InFlight, StoreSteps, WriteSteps
<1> QED
  BY <1>8, <1>11

(* A crash ends the requests and moves nothing.                            *)
LEMMA CrashSerial ==
  ASSUME Serial, IInv, SerialInv, Crash PROVE SerialInv' /\ UNCHANGED accounts
<1>1. /\ \A r \in Requests : pc'[r] \notin InFlight
      /\ UNCHANGED <<req, read, credits, granted, spent>>
  BY DEF Crash, store, ledger, InFlight, StoreSteps, WriteSteps
<1>3. pending' = pending
  <2>1. PICK left \in SUBSET {r \in Requests : pc[r] \in WriteSteps} :
          /\ left # {} => "timeout" \in Faults
          /\ pending' = pending \union {[op |-> pc[r], by |-> r] : r \in left}
    BY DEF Crash
  <2>2. left = {}
    BY <2>1 DEF Serial
  <2> QED
    BY <2>1, <2>2
<1>2. CreditsConserved' /\ UNCHANGED accounts
  BY <1>1 DEF SerialInv, CreditsConserved, Shown, accounts
<1> QED
  BY <1>1, <1>2, <1>3 DEF SerialInv, InFlight, StoreSteps, WriteSteps

LEMMA SerialStep ==
  ASSUME Serial, IInv, SerialInv, [Next]_vars
  PROVE  SerialInv' /\ (L!Next \/ UNCHANGED accounts)
<1>1. CASE UNCHANGED vars
  BY <1>1 DEF vars, store, ledger, SerialInv, CreditsConserved, Shown, accounts
<1>2. ASSUME NEW r \in Requests, Serve(r) PROVE SerialInv' /\ (L!Next \/ UNCHANGED accounts)
  <2>1. ~StoreTimeout(r)
    BY DEF Serial, StoreTimeout
  <2> QED
    BY <1>2, <2>1, StartSerial, ReadSerial, RestSerial, SetSerial DEF Serve
<1>3. ASSUME NEW w \in pending PROVE FALSE
  BY <1>3 DEF SerialInv
<1>4. CASE Crash
  BY <1>4, CrashSerial
<1> QED
  BY <1>1, <1>2, <1>3, <1>4 DEF Next

-----------------------------------------------------------------------------
(* Served one after the other, PlaceOrder and GrantCredits lose no credit: *)
(* the balance is what was put in less what was taken out, after every     *)
(* failed call and every crash.                                            *)
THEOREM Conserved ==
  ASSUME Serial PROVE Spec => []CreditsConserved
<1>1. Spec => []IInv
  BY Invariance
<1>2. IInv /\ Init => SerialInv
  BY SerialInit
<1>3. IInv /\ SerialInv /\ [Next]_vars => SerialInv'
  BY SerialStep
<1>4. SerialInv => CreditsConserved
  BY DEF SerialInv
<1> QED
  BY <1>1, <1>2, <1>3, <1>4, PTL DEF Spec

(* ... and their three repository calls act like one atomic grant or       *)
(* charge.                                                                 *)
THEOREM Atomic ==
  ASSUME Serial PROVE Spec => ImplementsLedger
<1>1. Spec => []IInv
  BY Invariance
<1>2. IInv /\ Init => SerialInv
  BY SerialInit
<1>3. IInv /\ SerialInv /\ [Next]_vars => SerialInv' /\ (L!Next \/ UNCHANGED accounts)
  BY SerialStep
<1>4. IInv /\ Init => L!Init
  <2> SUFFICES ASSUME IInv, Init PROVE L!Init
    OBVIOUS
  <2>1. \A m \in Members : Amount(credits[m]) \in 0..MaxCredits
    BY CreditsAssumption DEF IInv, TypeOK, CreditsWithinBounds, Amount, NoAccount
  <2> QED
    BY <2>1 DEF Init, L!Init
<1>5. UNCHANGED accounts <=> UNCHANGED <<[m \in Members |-> Amount(credits[m])], granted, spent>>
  BY DEF accounts, Shown
<1> QED
  BY <1>1, <1>2, <1>3, <1>4, <1>5, PTL DEF Spec, ImplementsLedger, L!Spec

(* Then every confirmed order is deducted, what the code does not give to  *)
(* requests that overlap: the write of one is not lost in that of another. *)
THEOREM Deducted ==
  ASSUME Serial PROVE Spec => []ConfirmedOrdersAreDeducted
<1>1. IInv /\ CreditsConserved => ConfirmedOrdersAreDeducted
  <2> SUFFICES ASSUME IInv, CreditsConserved, NEW m \in Members
               PROVE  Amount(credits[m]) + spent[m] <= granted[m]
    BY DEF ConfirmedOrdersAreDeducted
  <2>1. credits[m] \in Int /\ granted[m] \in Int /\ spent[m] \in Int
    BY DEF IInv, TypeOK
  <2>2. Amount(credits[m]) = granted[m] - spent[m]
    BY DEF CreditsConserved
  <2> QED
    BY <2>1, <2>2 DEF Amount
<1> QED
  BY <1>1, Conserved, Invariance, PTL
=============================================================================
