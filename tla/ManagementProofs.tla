-------------------------- MODULE ManagementProofs --------------------------
(***************************************************************************)
(* Proofs about Management for every set of members, any number of clicks  *)
(* and of calls under way, and every combination of faults.                *)
(***************************************************************************)
EXTENDS Management, SequenceTheorems, TLAPS

Waits(i) == grants[i].at \in {"sent", "served", "failed"}

(* One dialog at a time, and each opening has a number of its own.         *)
DialogInv ==
  /\ ~(grantOpen /\ selfOpen)
  /\ opened <= moves
  /\ ~NoDialog => opened >= 1

(* Only the last grant is under way, with its buttons disabled; a dialog   *)
(* that is open has not succeeded since it was opened, and has shown the   *)
(* same member ever since.                                                 *)
GrantsInv ==
  \A i \in DOMAIN grants :
    /\ Waits(i) => granting /\ i = Len(grants)
    /\ grants[i].opened <= opened
    /\ grants[i].opened = opened =>
         /\ grants[i].at = "ok" \/ grants[i].from = "gone" => NoDialog
         /\ grants[i].from = "row" => ~selfOpen /\ (grantOpen => grants[i].member = selected)
         /\ grants[i].from = "self" => ~grantOpen

(* What a refresh that began has found or has yet to ask for.              *)
HistoryInv ==
  /\ since \subseteq history
  /\ \A h \in Refreshes :
       /\ refresh[h].at \in {"members", "orders"} => refresh[h].base \subseteq ordered
       /\ refresh[h].at = "orders" => refresh[h].base \subseteq refresh[h].asked \union refresh[h].found

(* Balances only grow, so that the last grant to a member tells the most.  *)
BalanceInv ==
  \A i \in DOMAIN grants :
    /\ grants[i].to <= balance[grants[i].member]
    /\ grants[i].at = "served" =>
         \A j \in DOMAIN grants :
           grants[j].member = grants[i].member => grants[j].to <= grants[i].to

(* Rows that are not behind the grants made from the list.                 *)
UpToDate(rows) ==
  \A m \in DOMAIN rows :
    rows[m] = 0 \/ \A i \in DOMAIN grants :
      grants[i].at = "ok" /\ grants[i].member = m /\ grants[i].from = "row" => grants[i].to <= rows[m]

(* A manager who waits has one thing under way at a time.                  *)
PatientInv ==
  patient =>
    /\ boot.at # "done" => grants = <<>>
    /\ \A l \in Loads : load[l] # Idle =>
         /\ \A k \in Loads : load[k] # Idle => k = l
         /\ \A i \in DOMAIN grants : ~Waits(i)
    /\ \A i \in DOMAIN grants :
         /\ Waits(i) /\ grants[i].from = "row" => grants[i].member = selected
         /\ grants[i].at = "ok" /\ grants[i].member = Self => grants[i].to <= credits
    /\ \A l \in Loads : load[l].at = "served" => UpToDate(load[l].rows)
    /\ (\A l \in Loads : load[l] = Idle) => UpToDate(members)

IInv ==
  /\ TypeOK
  /\ DialogInv
  /\ GrantsInv
  /\ GrantedOnceUnlessFailed
  /\ HistoryInv
  /\ BalanceInv
  /\ PatientInv

GrantingInv == DialogInv /\ GrantsInv /\ GrantedOnceUnlessFailed

-----------------------------------------------------------------------------
(* The list of grants, unfolded for the provers.                           *)
LEMMA GrantFacts ==
  ASSUME TypeOK
  PROVE  /\ Len(grants) \in Nat /\ DOMAIN grants = 1..Len(grants)
         /\ \A i \in DOMAIN grants :
              /\ grants[i] \in GrantType
              /\ grants[i].member \in Members /\ grants[i].to \in Nat
              /\ grants[i].opened \in 1..MaxMoves
<1>1. grants \in Seq(GrantType)
  BY DEF TypeOK
<1>2. Len(grants) \in Nat /\ DOMAIN grants = 1..Len(grants)
  BY <1>1, LenProperties
<1>3. \A i \in DOMAIN grants : grants[i] \in GrantType
  BY <1>1, <1>2, ElementOfSeq
<1> QED
  BY <1>2, <1>3 DEF GrantType

(* A grant that is under way goes one step further.                        *)
LEMMA GrantExcept ==
  ASSUME TypeOK, NEW i \in DOMAIN grants, NEW g \in GrantType, grants' = [grants EXCEPT ![i] = g]
  PROVE  /\ grants' \in Seq(GrantType) /\ Len(grants') = Len(grants)
         /\ DOMAIN grants' = DOMAIN grants
         /\ grants'[i] = g /\ \A j \in DOMAIN grants : j # i => grants'[j] = grants[j]
<1>1. i \in 1..Len(grants) /\ grants \in Seq(GrantType)
  BY GrantFacts DEF TypeOK
<1>2. grants' \in Seq(GrantType) /\ Len(grants') = Len(grants)
  BY <1>1, ExceptSeq
<1> QED
  BY <1>1, <1>2, GrantFacts

(* What a step keeps that does not touch it.                               *)
LEMMA FrameGranting ==
  ASSUME GrantingInv, UNCHANGED <<grantOpen, selfOpen, selected, opened, moves, granting, grants>>
  PROVE  GrantingInv'
BY DEF GrantingInv, DialogInv, NoDialog, GrantsInv, Waits, GrantedOnceUnlessFailed

LEMMA FrameHistory ==
  ASSUME HistoryInv, UNCHANGED <<history, since, refresh, ordered>>
  PROVE  HistoryInv'
BY DEF HistoryInv

LEMMA FrameBalance ==
  ASSUME BalanceInv, UNCHANGED <<grants, balance>>
  PROVE  BalanceInv'
BY DEF BalanceInv

LEMMA FramePatient ==
  ASSUME PatientInv, UNCHANGED <<patient, boot, credits, members, load, selected, grants>>
  PROVE  PatientInv'
BY DEF PatientInv, UpToDate, Waits

-----------------------------------------------------------------------------
(* The page is loaded without anything under way but the bootstrap.        *)
LEMMA InitInv == Init => IInv
<1> SUFFICES ASSUME Init PROVE IInv
  OBVIOUS
<1>1. grants \in Seq(GrantType) /\ DOMAIN grants = {}
  BY EmptySeq DEF Init
<1>2. TypeOK
  <2> USE DEF Init
  <2>1. boot \in BootType /\ load \in [Loads -> LoadType] /\ refresh \in [Refreshes -> RefreshType]
    BY DEF BootType, LoadType, RefreshType, Idle
  <2>2. members \in Rows
    BY DEF Rows
  <2>3. opened \in 0..MaxMoves /\ moves \in 0..MaxMoves /\ balance \in [Members -> Nat]
    BY ManagementAssumption
  <2> QED
    BY <1>1, <2>1, <2>2, <2>3 DEF TypeOK, Views
<1>3. DialogInv /\ GrantsInv /\ GrantedOnceUnlessFailed /\ BalanceInv
  BY <1>1, ManagementAssumption
     DEF Init, DialogInv, NoDialog, GrantsInv, GrantedOnceUnlessFailed, BalanceInv
<1>4. HistoryInv
  BY DEF Init, HistoryInv, Idle
<1>5. PatientInv
  BY <1>1 DEF Init, PatientInv, UpToDate, Idle
<1> QED
  BY <1>2, <1>3, <1>4, <1>5 DEF IInv

-----------------------------------------------------------------------------
(* The bootstrap *)

LEMMA BootStep ==
  ASSUME IInv, ServeCredits \/ FailBoot \/ OnBoot PROVE IInv'
<1> USE DEF IInv, ServeCredits, FailBoot, OnBoot, OnMenus, OnCredits
<1> USE DEF own, orders, list, dialogs, granted, api
<1>1. TypeOK'
  <2>1. balance[Self] \in Nat
    BY ManagementAssumption DEF TypeOK
  <2> QED
    BY <2>1 DEF TypeOK, BootType
<1>2. GrantingInv'
  BY FrameGranting DEF GrantingInv
<1>3. HistoryInv'
  BY DEF HistoryInv
<1>4. BalanceInv'
  BY FrameBalance
<1>5. PatientInv'
  <2>1. boot.at # "done"
    OBVIOUS
  <2>2. patient => grants = <<>>
    BY <2>1 DEF PatientInv
  <2>3. UNCHANGED <<patient, grants, load, members, selected>>
    OBVIOUS
  <2>4. grants = <<>> => DOMAIN grants = {}
    BY EmptySeq
  <2> QED
    BY <2>2, <2>3, <2>4 DEF PatientInv, UpToDate, Waits
<1> QED
  BY <1>1, <1>2, <1>3, <1>4, <1>5 DEF GrantingInv

-----------------------------------------------------------------------------
(* Turning to another section *)

LEMMA SetViewStep ==
  ASSUME IInv, NEW v \in Views, SetView(v) PROVE IInv'
<1> USE DEF IInv, SetView, Click, own, api
<1> DEFINE g(i) == IF grants[i].from = "row" THEN [grants[i] EXCEPT !.from = "gone"] ELSE grants[i]
<1>1. grants' = [i \in 1..Len(grants) |-> g(i)]
  BY GrantFacts
<1>2. \A i \in 1..Len(grants) : g(i) \in GrantType
  BY GrantFacts DEF GrantType
<1>3. grants' \in Seq(GrantType) /\ Len(grants') = Len(grants) /\ DOMAIN grants' = DOMAIN grants
  <2>1. grants' \in [1..Len(grants) -> GrantType]
    BY <1>1, <1>2
  <2>2. grants' \in Seq(GrantType)
    BY <2>1, GrantFacts, SeqDef
  <2> QED
    BY <1>1, <2>2, GrantFacts, LenProperties
<1>4. \A i \in DOMAIN grants :
        /\ grants'[i].member = grants[i].member /\ grants'[i].opened = grants[i].opened
        /\ grants'[i].at = grants[i].at /\ grants'[i].to = grants[i].to
        /\ grants'[i].from = IF grants[i].from = "row" THEN "gone" ELSE grants[i].from
  BY <1>1, GrantFacts DEF GrantType
<1>5. load' \in [Loads -> LoadType] /\ loadingMembers' \in BOOLEAN
  <2>1. load \in [Loads -> LoadType] /\ Idle \in LoadType /\ [at |-> "sent"] \in LoadType
    BY DEF TypeOK, LoadType, Idle
  <2>2. CASE v = "management"
    BY <2>1, <2>2 DEF MountList
  <2>3. CASE v # "management"
    BY <2>1, <2>3 DEF UnmountList
  <2> QED
    BY <2>2, <2>3
<1>6. /\ refresh' \in [Refreshes -> RefreshType] /\ historyLoading' \in BOOLEAN
      /\ \A h \in Refreshes : refresh'[h] = refresh[h] \/ refresh'[h] = [at |-> "members", base |-> ordered]
  <2>1. [at |-> "members", base |-> ordered] \in RefreshType
    BY DEF TypeOK, RefreshType
  <2>2. refresh \in [Refreshes -> RefreshType] /\ historyLoading \in BOOLEAN
    BY DEF TypeOK
  <2>3. CASE v = "history"
    BY <2>1, <2>2, <2>3 DEF RefreshOrderHistory
  <2>4. CASE v # "history"
    BY <2>2, <2>4
  <2> QED
    BY <2>3, <2>4
<1>7. TypeOK'
  BY <1>3, <1>5, <1>6, ManagementAssumption DEF TypeOK, Rows, Views
<1>8. DialogInv' /\ GrantsInv' /\ GrantedOnceUnlessFailed'
  BY <1>3, <1>4, ManagementAssumption
     DEF TypeOK, DialogInv, NoDialog, GrantsInv, Waits, GrantedOnceUnlessFailed
<1>9. HistoryInv'
  BY <1>6 DEF HistoryInv
<1>10. BalanceInv'
  BY <1>3, <1>4 DEF BalanceInv
<1>11. PatientInv'
  <2> SUFFICES ASSUME patient PROVE PatientInv'
    BY DEF PatientInv
  <2>1. Settled /\ (\A l \in Loads : load[l] = Idle) /\ (\A i \in DOMAIN grants : ~Waits(i))
    BY DEF Settled, UnderWay, Waits
  <2>2. \A i \in DOMAIN grants : ~Waits(i)'
    BY <1>3, <1>4, <2>1 DEF Waits
  <2>3. /\ \A l, k \in Loads : load'[l] # Idle /\ load'[k] # Idle => k = l
        /\ \A l \in Loads : load'[l].at # "served"
    <3>1. load \in [Loads -> LoadType]
      BY DEF TypeOK
    <3>2. CASE v = "management"
      BY <2>1, <3>1, <3>2 DEF MountList, Idle
    <3>3. CASE v # "management"
      BY <3>3 DEF UnmountList, Idle
    <3> QED
      BY <3>2, <3>3
  <2>4. UpToDate(members)'
    BY DEF UpToDate
  <2> QED
    BY <1>3, <1>4, <2>1, <2>2, <2>3, <2>4 DEF PatientInv, Settled
<1> QED
  BY <1>7, <1>8, <1>9, <1>10, <1>11

-----------------------------------------------------------------------------
(* The list of members *)

LEMMA ListAnsweredStep ==
  ASSUME IInv, NEW l \in Loads, ServeList(l) \/ FailList(l) PROVE IInv'
<1> USE DEF IInv, ServeList, FailList, own, orders, dialogs, granted, api
<1>1. PICK rows \in Rows :
        /\ load' = [load EXCEPT ![l] = [at |-> "served", rows |-> rows]]
        /\ \A m \in DOMAIN rows : m \in Members /\ rows[m] \in {0, balance[m]}
  <2>1. CASE FailList(l)
    <3> DEFINE r == <<>>
    <3>1. r \in Rows /\ DOMAIN r = {}
      BY DEF Rows
    <3> QED
      BY <2>1, <3>1
  <2>2. ASSUME NEW U, load' = [load EXCEPT ![l] =
                  [at |-> "served", rows |-> [m \in Members |-> IF m \in U THEN 0 ELSE balance[m]]]]
        PROVE  \E rows \in Rows :
                 /\ load' = [load EXCEPT ![l] = [at |-> "served", rows |-> rows]]
                 /\ \A m \in DOMAIN rows : m \in Members /\ rows[m] \in {0, balance[m]}
    <3> DEFINE r == [m \in Members |-> IF m \in U THEN 0 ELSE balance[m]]
    <3>1. r \in Rows /\ \A m \in DOMAIN r : m \in Members /\ r[m] \in {0, balance[m]}
      BY DEF TypeOK, Rows
    <3> HIDE DEF r
    <3> QED
      BY <2>2, <3>1 DEF r
  <2> QED
    BY <2>1, <2>2
<1>2. load[l].at = "sent"
  OBVIOUS
<1>3. TypeOK'
  BY <1>1 DEF TypeOK, LoadType
<1>4. GrantingInv' /\ HistoryInv' /\ BalanceInv'
  BY FrameGranting, FrameHistory, FrameBalance DEF GrantingInv
<1>5. PatientInv'
  <2> SUFFICES ASSUME patient PROVE PatientInv'
    BY DEF PatientInv
  <2>1. load[l] # Idle /\ load'[l].at = "served" /\ load'[l] # Idle
    BY <1>1, <1>2 DEF TypeOK, Idle
  <2>2. \A k \in Loads : k # l => load[k] = Idle /\ load'[k] = Idle
    BY <1>1, <2>1 DEF TypeOK, PatientInv
  <2>3. UpToDate(load[l].rows)'
    <3>1. load'[l].rows = rows
      BY <1>1 DEF TypeOK
    <3>2. \A i \in DOMAIN grants : grants[i].to <= balance[grants[i].member]
      BY DEF BalanceInv
    <3>3. \A m \in DOMAIN rows : \A i \in DOMAIN grants :
            rows[m] = 0 \/ (grants[i].member = m => grants[i].to <= rows[m])
      BY <1>1, <3>2
    <3> QED
      BY <3>1, <3>3 DEF UpToDate
  <2>4. \A k \in Loads : (load[k].at = "served")' => UpToDate(load[k].rows)'
    BY <2>2, <2>3 DEF Idle
  <2> QED
    BY <2>1, <2>2, <2>4 DEF PatientInv, Waits
<1> QED
  BY <1>3, <1>4, <1>5 DEF GrantingInv

LEMMA OnListStep ==
  ASSUME IInv, NEW l \in Loads, OnList(l) PROVE IInv'
<1> USE DEF IInv, OnList, own, orders, dialogs, granted, api
<1>1. load[l] \in LoadType /\ load[l].rows \in Rows
  BY DEF TypeOK, LoadType
<1>2. TypeOK'
  BY <1>1 DEF TypeOK, LoadType, Idle
<1>3. GrantingInv' /\ HistoryInv' /\ BalanceInv'
  BY FrameGranting, FrameHistory, FrameBalance DEF GrantingInv
<1>4. PatientInv'
  <2> SUFFICES ASSUME patient PROVE PatientInv'
    BY DEF PatientInv
  <2>1. \A k \in Loads : load'[k] = Idle
    BY DEF TypeOK, PatientInv, Idle
  <2>2. UpToDate(members)'
    BY DEF PatientInv, UpToDate
  <2> QED
    BY <2>1, <2>2 DEF PatientInv, Waits, Idle
<1> QED
  BY <1>2, <1>3, <1>4 DEF GrantingInv

LEMMA OpenStep ==
  ASSUME IInv, OpenSelfModal \/ \E m \in Members : OpenGrantModal(m) PROVE IInv'
<1> USE DEF IInv, OpenSelfModal, OpenGrantModal, Click, own, orders, list, granted, api
<1>1. TypeOK'
  <2>1. selected' \in Members \union {None} /\ grantOpen' \in BOOLEAN /\ selfOpen' \in BOOLEAN
    BY DEF TypeOK
  <2>2. moves' \in 0..MaxMoves /\ opened' \in 0..MaxMoves
    BY ManagementAssumption DEF TypeOK
  <2> QED
    BY <2>1, <2>2 DEF TypeOK
<1>2. GrantingInv'
  BY GrantFacts, ManagementAssumption
     DEF TypeOK, GrantingInv, DialogInv, NoDialog, GrantsInv, Waits, GrantedOnceUnlessFailed
<1>3. HistoryInv' /\ BalanceInv'
  BY FrameHistory, FrameBalance
<1>4. PatientInv'
  BY DEF PatientInv, Settled, UnderWay, Waits, UpToDate
<1> QED
  BY <1>1, <1>2, <1>3, <1>4 DEF GrantingInv

LEMMA DismissStep ==
  ASSUME IInv, Dismiss PROVE IInv'
<1> USE DEF IInv, Dismiss, own, orders, list, granted, api
<1>1. TypeOK'
  BY DEF TypeOK
<1>2. GrantingInv'
  BY DEF GrantingInv, DialogInv, NoDialog, GrantsInv, Waits, GrantedOnceUnlessFailed
<1>3. HistoryInv' /\ BalanceInv' /\ PatientInv'
  BY FrameHistory, FrameBalance, FramePatient
<1> QED
  BY <1>1, <1>2, <1>3 DEF GrantingInv

-----------------------------------------------------------------------------
(* Granting *)

LEMMA GrantStep ==
  ASSUME IInv, NEW m \in Members, NEW from \in {"self", "row"}, Grant(m, from), ~granting,
         from = "row" => grantOpen /\ m = selected, from = "self" => selfOpen
  PROVE  IInv'
<1> USE DEF IInv, Grant, Click, own, orders, list, dialogs, api
<1> DEFINE g == [member |-> m, from |-> from, opened |-> opened, at |-> "sent", to |-> 0]
<1>1. g \in GrantType /\ opened \in 1..MaxMoves
  BY ManagementAssumption DEF TypeOK, DialogInv, NoDialog, GrantType
<1>2. /\ grants' \in Seq(GrantType) /\ Len(grants') = Len(grants) + 1
      /\ DOMAIN grants' = 1..(Len(grants) + 1)
      /\ grants'[Len(grants) + 1] = g
      /\ \A i \in DOMAIN grants : grants'[i] = grants[i]
  <2>1. grants \in Seq(GrantType)
    BY DEF TypeOK
  <2> HIDE DEF g
  <2>2. grants' = Append(grants, g)
    BY DEF g
  <2> QED
    BY <1>1, <2>1, <2>2, AppendProperties, GrantFacts, LenProperties
<1>3. \A i \in DOMAIN grants : ~Waits(i) /\ grants[i].at \in {"ok", "error"}
  <2>1. \A i \in DOMAIN grants : grants[i].at \in {"sent", "served", "failed", "ok", "error"}
    BY GrantFacts DEF GrantType
  <2> QED
    BY <2>1 DEF GrantsInv, Waits
<1>4. TypeOK'
  BY <1>2, ManagementAssumption DEF TypeOK
<1>5. DialogInv'
  BY ManagementAssumption DEF TypeOK, DialogInv, NoDialog
<1>6. GrantsInv'
  <2> SUFFICES ASSUME NEW i \in 1..(Len(grants) + 1)
               PROVE  /\ Waits(i)' => granting' /\ i = Len(grants')
                      /\ grants'[i].opened <= opened'
                      /\ grants'[i].opened = opened' =>
                           /\ grants'[i].at = "ok" \/ grants'[i].from = "gone" => NoDialog'
                           /\ grants'[i].from = "row" => ~selfOpen'
                           /\ grants'[i].from = "self" => ~grantOpen'
    BY <1>2 DEF GrantsInv
  <2>1. CASE i \in DOMAIN grants
    BY <1>2, <1>3, <2>1 DEF GrantsInv, Waits, NoDialog
  <2>2. CASE i = Len(grants) + 1
    BY <1>1, <1>2, <2>2 DEF DialogInv, NoDialog
  <2> QED
    BY <2>1, <2>2, GrantFacts
<1>7. GrantedOnceUnlessFailed'
  <2> SUFFICES ASSUME NEW i \in 1..(Len(grants) + 1), NEW j \in 1..(Len(grants) + 1), i < j
               PROVE  /\ grants'[i].at \in {"ok", "error"}
                      /\ grants'[i].opened = grants'[j].opened => grants'[i].at = "error"
    BY <1>2 DEF GrantedOnceUnlessFailed
  <2>1. i \in DOMAIN grants /\ grants'[i] = grants[i]
    BY <1>2, GrantFacts
  <2>2. CASE j \in DOMAIN grants
    BY <1>2, <2>1, <2>2 DEF GrantedOnceUnlessFailed
  <2>3. CASE j = Len(grants) + 1
    <3>1. grants'[j].opened = opened /\ ~NoDialog
      BY <1>2, <2>3 DEF NoDialog
    <3> QED
      BY <1>3, <2>1, <3>1 DEF GrantsInv
  <2> QED
    BY <2>2, <2>3, GrantFacts
<1>8. HistoryInv'
  BY FrameHistory
<1>9. BalanceInv'
  <2> SUFFICES ASSUME NEW i \in 1..(Len(grants) + 1)
               PROVE  /\ grants'[i].to <= balance'[grants'[i].member]
                      /\ grants'[i].at # "served"
    BY <1>2 DEF BalanceInv
  <2>1. CASE i \in DOMAIN grants
    BY <1>2, <1>3, <2>1 DEF BalanceInv
  <2>2. CASE i = Len(grants) + 1
    BY <1>2, <2>2 DEF TypeOK
  <2> QED
    BY <2>1, <2>2, GrantFacts
<1>10. PatientInv'
  <2> SUFFICES ASSUME patient PROVE PatientInv'
    BY DEF PatientInv
  <2>1. Settled
    OBVIOUS
  <2>2. \A rows : UpToDate(rows) => UpToDate(rows)'
    BY <1>2, GrantFacts DEF UpToDate
  <2>3. UpToDate(members)'
    BY <2>1, <2>2 DEF PatientInv, Settled, UpToDate
  <2>4. \A i \in 1..(Len(grants) + 1) :
          /\ Waits(i)' /\ grants'[i].from = "row" => grants'[i].member = selected'
          /\ grants'[i].at = "ok" /\ grants'[i].member = Self => grants'[i].to <= credits'
    BY <1>2, <1>3, GrantFacts DEF PatientInv, Waits
  <2> QED
    BY <1>2, <2>1, <2>3, <2>4 DEF PatientInv, Settled, Idle
<1> QED
  BY <1>4, <1>5, <1>6, <1>7, <1>8, <1>9, <1>10

(* A button of a dialog is pressed while it is enabled.                    *)
LEMMA SubmitStep ==
  ASSUME IInv, SubmitGrant \/ SubmitSelf PROVE IInv'
<1>1. CASE SubmitGrant
  <2>1. selected \in Members /\ "row" \in {"self", "row"} /\ "row" # "self"
    BY <1>1 DEF SubmitGrant, ListDialog, IInv, TypeOK
  <2> QED
    BY <1>1, <2>1, GrantStep DEF SubmitGrant, ListDialog
<1>2. CASE SubmitSelf
  <2>1. Self \in Members /\ "self" \in {"self", "row"} /\ "row" # "self"
    BY ManagementAssumption
  <2> QED
    BY <1>2, <2>1, GrantStep DEF SubmitSelf, SelfDialog
<1> QED
  BY <1>1, <1>2

(* A grant that is under way is the last, and stays who and whence it is.  *)
LEMMA GrantAdvances ==
  ASSUME IInv, NEW i \in DOMAIN grants, Waits(i), NEW g \in GrantType,
         g.member = grants[i].member, g.from = grants[i].from, g.opened = grants[i].opened,
         grants' = [grants EXCEPT ![i] = g]
  PROVE  /\ grants' \in Seq(GrantType)
         /\ DOMAIN grants' = DOMAIN grants /\ Len(grants') = Len(grants) /\ i = Len(grants)
         /\ grants'[i] = g /\ \A j \in DOMAIN grants : j # i => grants'[j] = grants[j] /\ ~Waits(j)
         /\ \A j \in DOMAIN grants :
              /\ grants'[j].member = grants[j].member /\ grants'[j].from = grants[j].from
              /\ grants'[j].opened = grants[j].opened
<1>1. TypeOK /\ i = Len(grants) /\ \A j \in DOMAIN grants : j # i => ~Waits(j)
  BY DEF IInv, GrantsInv
<1>2. /\ grants' \in Seq(GrantType) /\ Len(grants') = Len(grants)
      /\ DOMAIN grants' = DOMAIN grants
      /\ grants'[i] = g /\ \A j \in DOMAIN grants : j # i => grants'[j] = grants[j]
  BY <1>1, GrantExcept
<1> QED
  BY <1>1, <1>2

(* The buttons stay disabled until the page goes on, and no dialog stays   *)
(* open that has succeeded.                                                *)
LEMMA GrantingAdvances ==
  ASSUME IInv, NEW i \in DOMAIN grants, Waits(i), NEW g \in GrantType,
         g.member = grants[i].member, g.from = grants[i].from, g.opened = grants[i].opened,
         grants' = [grants EXCEPT ![i] = g],
         UNCHANGED <<opened, moves>>, grantOpen' => grantOpen, selfOpen' => selfOpen,
         grantOpen' => selected' = selected,
         g.at \in {"sent", "served", "failed"} => granting',
         g.at = "ok" /\ g.opened = opened => NoDialog'
  PROVE  GrantingInv'
<1> USE GrantAdvances DEF IInv
<1>1. DialogInv'
  BY DEF DialogInv, NoDialog
<1>2. GrantsInv'
  <2> SUFFICES ASSUME NEW j \in DOMAIN grants
               PROVE  /\ Waits(j)' => granting' /\ j = Len(grants')
                      /\ grants'[j].opened <= opened'
                      /\ grants'[j].opened = opened' =>
                           /\ grants'[j].at = "ok" \/ grants'[j].from = "gone" => NoDialog'
                           /\ grants'[j].from = "row" =>
                                ~selfOpen' /\ (grantOpen' => grants'[j].member = selected')
                           /\ grants'[j].from = "self" => ~grantOpen'
    BY DEF GrantsInv
  <2>1. CASE j = i
    BY <2>1 DEF GrantsInv, Waits, NoDialog
  <2>2. CASE j # i
    BY <2>2 DEF GrantsInv, Waits, NoDialog
  <2> QED
    BY <2>1, <2>2
<1>3. GrantedOnceUnlessFailed'
  <2> SUFFICES ASSUME NEW j \in DOMAIN grants, NEW k \in DOMAIN grants, j < k
               PROVE  /\ grants'[j].at \in {"ok", "error"}
                      /\ grants'[j].opened = grants'[k].opened => grants'[j].at = "error"
    BY DEF GrantedOnceUnlessFailed
  <2>1. j \in 1..Len(grants) /\ k \in 1..Len(grants) /\ i = Len(grants)
    BY GrantFacts DEF GrantsInv
  <2>2. j # i
    BY <2>1
  <2> QED
    BY <2>2 DEF GrantedOnceUnlessFailed
<1> QED
  BY <1>1, <1>2, <1>3 DEF GrantingInv

(* While a grant is under way a manager who waits has no list loading, and *)
(* the list has nothing to follow before the grant has succeeded.          *)
LEMMA PatientAdvances ==
  ASSUME IInv, NEW i \in DOMAIN grants, Waits(i), NEW g \in GrantType,
         g.member = grants[i].member, g.from = grants[i].from, g.opened = grants[i].opened,
         grants' = [grants EXCEPT ![i] = g], g.at # "ok",
         UNCHANGED <<patient, boot, credits, members, load, selected>>
  PROVE  PatientInv'
<1> USE GrantAdvances DEF IInv
<1> SUFFICES ASSUME patient PROVE PatientInv'
  BY DEF PatientInv
<1>1. grants # <<>>
  BY GrantFacts, EmptySeq
<1>2. boot.at = "done" /\ \A l \in Loads : load[l] = Idle
  BY <1>1 DEF PatientInv
<1>3. UpToDate(members)'
  <2>1. UpToDate(members)
    BY <1>2 DEF PatientInv
  <2>2. ASSUME NEW j \in DOMAIN grants, grants'[j].at = "ok" PROVE grants'[j] = grants[j]
    BY <2>2
  <2> QED
    BY <2>1, <2>2 DEF UpToDate
<1>4. \A j \in DOMAIN grants :
        /\ Waits(j)' /\ grants'[j].from = "row" => grants'[j].member = selected'
        /\ grants'[j].at = "ok" /\ grants'[j].member = Self => grants'[j].to <= credits'
  BY DEF PatientInv, Waits
<1> QED
  BY <1>2, <1>3, <1>4 DEF PatientInv, Idle

(* The API answers, with the greatest balance so far, or not.              *)
LEMMA GrantAnsweredStep ==
  ASSUME IInv, NEW i \in DOMAIN grants, ServeGrant(i) \/ FailGrant(i) PROVE IInv'
<1> USE DEF IInv, ServeGrant, FailGrant, own, orders, list, dialogs, granted, api
<1> DEFINE m == grants[i].member
           served == [[grants[i] EXCEPT !.at = "served"] EXCEPT !.to = balance[m] + 1]
           failed == [grants[i] EXCEPT !.at = "failed"]
<1>1. grants[i] \in GrantType /\ m \in Members /\ balance \in [Members -> Nat] /\ Waits(i)
  BY GrantFacts DEF TypeOK, Waits
<1>2. /\ served \in GrantType /\ served.at = "served" /\ served.to = balance[m] + 1
      /\ served.member = m /\ served.from = grants[i].from /\ served.opened = grants[i].opened
  <2>1. balance[m] + 1 \in Nat
    BY <1>1
  <2> DEFINE n == balance[m] + 1
             s == [grants[i] EXCEPT !.at = "served"]
  <2>2. /\ s \in GrantType /\ s.at = "served"
        /\ s.member = m /\ s.from = grants[i].from /\ s.opened = grants[i].opened
    BY <1>1 DEF GrantType
  <2> HIDE DEF n, s
  <2>3. n \in Nat
    BY <2>1 DEF n
  <2>4. LET t == [s EXCEPT !.to = n]
        IN  /\ t \in GrantType /\ t.at = "served" /\ t.to = n
            /\ t.member = s.member /\ t.from = s.from /\ t.opened = s.opened
    BY <2>2, <2>3 DEF GrantType
  <2> QED
    BY <2>2, <2>4 DEF n, s
<1>3. /\ failed \in GrantType /\ failed.at = "failed" /\ failed.to = grants[i].to
      /\ failed.member = m /\ failed.from = grants[i].from /\ failed.opened = grants[i].opened
  BY <1>1 DEF GrantType
<1>4. /\ balance' \in [Members -> Nat] /\ \A n \in Members : balance[n] <= balance'[n]
      /\ ServeGrant(i) => balance'[m] = balance[m] + 1
  BY <1>1
<1>5. PICK g \in GrantType :
        /\ grants' = [grants EXCEPT ![i] = g]
        /\ g.member = m /\ g.from = grants[i].from /\ g.opened = grants[i].opened
        /\ \/ g.at = "served" /\ g.to = balance[m] + 1 /\ g.to = balance'[m]
           \/ g.at = "failed" /\ g.to = grants[i].to
  <2>1. CASE ServeGrant(i) /\ grants' = [grants EXCEPT ![i] = served]
    <3> HIDE DEF served
    <3> QED
      BY <1>2, <1>4, <2>1
  <2>2. CASE grants' = [grants EXCEPT ![i] = failed]
    <3> HIDE DEF failed
    <3> QED
      BY <1>3, <2>2
  <2>3. ServeGrant(i) => \/ grants' = [grants EXCEPT ![i] = served]
                         \/ grants' = [grants EXCEPT ![i] = failed]
    BY <1>1
  <2>4. FailGrant(i) => grants' = [grants EXCEPT ![i] = failed]
    BY <1>1
  <2> QED
    BY <2>1, <2>2, <2>3, <2>4
<1> HIDE DEF served, failed
<1>6. TypeOK'
  BY <1>1, <1>4, <1>5, GrantAdvances DEF TypeOK
<1>7. GrantingInv'
  <2>1. granting
    BY <1>1 DEF GrantsInv
  <2>2. granting' /\ g.at # "ok"
    BY <1>5, <2>1
  <2>3. /\ UNCHANGED <<opened, moves>> /\ (grantOpen' => grantOpen) /\ (selfOpen' => selfOpen)
        /\ selected' = selected
    OBVIOUS
  <2> HIDE DEF IInv, ServeGrant, FailGrant
  <2> QED
    BY <1>1, <1>5, <2>2, <2>3, GrantingAdvances
<1>8. HistoryInv'
  BY FrameHistory
<1>9. BalanceInv'
  <2>1. \A j \in DOMAIN grants :
          /\ grants[j].to <= balance[grants[j].member]
          /\ grants[j].to <= balance'[grants[j].member]
    <3> SUFFICES ASSUME NEW j \in DOMAIN grants
                 PROVE  /\ grants[j].to <= balance[grants[j].member]
                        /\ grants[j].to <= balance'[grants[j].member]
      OBVIOUS
    <3>1. /\ grants[j].to \in Nat /\ balance[grants[j].member] \in Nat
          /\ balance'[grants[j].member] \in Nat
          /\ balance[grants[j].member] <= balance'[grants[j].member]
      BY <1>1, <1>4, GrantFacts
    <3>2. grants[j].to <= balance[grants[j].member]
      BY DEF BalanceInv
    <3> QED
      BY <3>1, <3>2
  <2>2. /\ DOMAIN grants' = DOMAIN grants /\ grants'[i] = g
        /\ \A j \in DOMAIN grants : j # i => grants'[j] = grants[j] /\ ~Waits(j)
    BY <1>1, <1>5, GrantAdvances
  <2>3. g.to <= balance'[m]
    BY <1>1, <1>5, <2>1, <1>4 DEF GrantType
  <2>4. g.at = "served" => \A j \in DOMAIN grants : grants[j].member = m => grants[j].to <= g.to
    BY <1>5, <2>1
  <2>5. ASSUME NEW j \in DOMAIN grants PROVE grants'[j].to <= balance'[grants'[j].member]
    BY <1>5, <2>1, <2>2, <2>3
  <2>6. ASSUME NEW j \in DOMAIN grants, grants'[j].at = "served" PROVE j = i
    BY <2>2, <2>6 DEF Waits
  <2>7. g.to <= g.to
    BY DEF GrantType
  <2> QED
    BY <1>5, <2>2, <2>4, <2>5, <2>6, <2>7 DEF BalanceInv
<1>10. PatientInv'
  BY <1>1, <1>5, PatientAdvances
<1> QED
  BY <1>6, <1>7, <1>8, <1>9, <1>10 DEF GrantingInv

(* The page goes on after a success: the newest balance is in the header   *)
(* if it is the manager's own, and a list that is still there is loaded.   *)
LEMMA OnGrantedStep ==
  ASSUME IInv, NEW i \in DOMAIN grants, OnGranted(i) PROVE IInv'
<1> DEFINE g == [grants[i] EXCEPT !.at = "ok"]
<1>1. grants[i] \in GrantType /\ grants[i].at = "served" /\ Waits(i)
  BY GrantFacts DEF IInv, OnGranted, Waits
<1>2. /\ g \in GrantType /\ g.at = "ok" /\ g.to = grants[i].to
      /\ g.member = grants[i].member /\ g.from = grants[i].from /\ g.opened = grants[i].opened
  BY <1>1 DEF GrantType
<1>3. grants' = [grants EXCEPT ![i] = g]
  BY DEF OnGranted, Granted
<1> HIDE DEF g
<1>4. /\ grants' \in Seq(GrantType) /\ DOMAIN grants' = DOMAIN grants
      /\ grants'[i] = g /\ \A j \in DOMAIN grants : j # i => grants'[j] = grants[j] /\ ~Waits(j)
  BY <1>1, <1>2, <1>3, GrantAdvances
<1> USE DEF IInv, OnGranted, Granted, LoadMembers, orders, api
<1>5. TypeOK'
  <2>1. credits' \in Nat
    BY <1>1 DEF TypeOK, GrantType
  <2>2. load' \in [Loads -> LoadType] /\ loadingMembers' \in BOOLEAN
    <3>1. load \in [Loads -> LoadType] /\ [at |-> "sent"] \in LoadType /\ loadingMembers \in BOOLEAN
      BY DEF TypeOK, LoadType
    <3> QED
      BY <3>1
  <2>3. selected' \in Members \union {None} /\ grantOpen' \in BOOLEAN /\ selfOpen' \in BOOLEAN
    BY DEF TypeOK
  <2> QED
    BY <1>4, <2>1, <2>2, <2>3 DEF TypeOK
<1>6. GrantingInv'
  <2>1. /\ (grantOpen' => grantOpen) /\ (selfOpen' => selfOpen) /\ UNCHANGED <<opened, moves>>
        /\ grantOpen' => selected' = selected
    OBVIOUS
  <2>2. g.at \notin {"sent", "served", "failed"}
    BY <1>2
  <2>3. g.opened = opened => NoDialog'
    BY <1>2 DEF NoDialog, GrantsInv
  <2> HIDE DEF IInv, OnGranted
  <2> QED
    BY <1>1, <1>2, <1>3, <2>1, <2>2, <2>3, GrantingAdvances
<1>7. HistoryInv'
  BY FrameHistory
<1>8. BalanceInv'
  <2>1. ASSUME NEW j \in DOMAIN grants
        PROVE  grants'[j].to <= balance'[grants'[j].member] /\ grants'[j].at # "served"
    <3>1. CASE j = i
      BY <1>2, <1>4, <3>1 DEF BalanceInv
    <3>2. CASE j # i
      BY <1>4, <3>2 DEF BalanceInv, Waits
    <3> QED
      BY <3>1, <3>2
  <2> QED
    BY <1>4, <2>1 DEF BalanceInv
<1>9. PatientInv'
  <2> SUFFICES ASSUME patient PROVE PatientInv'
    BY DEF PatientInv
  <2>1. boot.at = "done" /\ \A l \in Loads : load[l] = Idle
    BY <1>1, GrantFacts, EmptySeq DEF PatientInv
  <2>2. \A j \in DOMAIN grants : ~Waits(j)'
    BY <1>2, <1>4 DEF Waits
  <2>3. ASSUME NEW j \in DOMAIN grants, grants'[j].at = "ok", grants'[j].member = Self
        PROVE  grants'[j].to <= credits'
    <3>1. CASE grants[i].member = Self
      <4>1. \A k \in DOMAIN grants : grants[k].member = Self => grants[k].to <= grants[i].to
        BY <1>1, <3>1 DEF BalanceInv
      <4> QED
        BY <1>2, <1>4, <2>3, <3>1, <4>1
    <3>2. CASE grants[i].member # Self
      BY <1>2, <1>4, <2>3, <3>2 DEF PatientInv
    <3> QED
      BY <3>1, <3>2
  <2>4. CASE grants[i].from = "row"
    <3>1. /\ \E l \in Loads : load'[l] # Idle
          /\ \A l, k \in Loads : load'[l] # Idle /\ load'[k] # Idle => k = l
          /\ \A l \in Loads : load'[l].at # "served"
      <4>1. load \in [Loads -> LoadType] /\ Free(load) \in Loads
        BY <2>4 DEF TypeOK, HasFree, Free
      <4>2. load' = [load EXCEPT ![Free(load)] = [at |-> "sent"]]
        BY <2>4
      <4> QED
        BY <2>1, <4>1, <4>2 DEF Idle
    <3> QED
      BY <1>4, <2>1, <2>2, <2>3, <3>1 DEF PatientInv
  <2>5. CASE grants[i].from # "row"
    <3>1. UNCHANGED <<load, members>>
      BY <2>5
    <3>2. UpToDate(members)
      BY <2>1 DEF PatientInv
    <3>3. UpToDate(members)'
      BY <1>2, <1>4, <2>5, <3>1, <3>2 DEF UpToDate
    <3> QED
      BY <1>4, <2>1, <2>2, <2>3, <3>1, <3>3 DEF PatientInv, Idle
  <2> QED
    BY <2>4, <2>5
<1> QED
  BY <1>5, <1>6, <1>7, <1>8, <1>9 DEF GrantingInv

(* A failure leaves its dialog open, with the buttons enabled.             *)
LEMMA OnGrantFailedStep ==
  ASSUME IInv, NEW i \in DOMAIN grants, OnGrantFailed(i) PROVE IInv'
<1> DEFINE g == [grants[i] EXCEPT !.at = "error"]
<1>1. grants[i] \in GrantType /\ Waits(i)
  BY GrantFacts DEF IInv, OnGrantFailed, Waits
<1>2. /\ g \in GrantType /\ g.at = "error" /\ g.to = grants[i].to
      /\ g.member = grants[i].member /\ g.from = grants[i].from /\ g.opened = grants[i].opened
  BY <1>1 DEF GrantType
<1>3. grants' = [grants EXCEPT ![i] = g]
  BY DEF OnGrantFailed
<1> HIDE DEF g
<1>4. /\ grants' \in Seq(GrantType) /\ DOMAIN grants' = DOMAIN grants
      /\ grants'[i] = g /\ \A j \in DOMAIN grants : j # i => grants'[j] = grants[j] /\ ~Waits(j)
  BY <1>1, <1>2, <1>3, GrantAdvances
<1> USE DEF OnGrantFailed, own, orders, list, dialogs, api
<1>5. TypeOK'
  BY <1>4 DEF IInv, TypeOK
<1>6. GrantingInv'
  <2>1. UNCHANGED <<opened, moves, grantOpen, selfOpen, selected>>
    OBVIOUS
  <2>2. g.at \notin {"sent", "served", "failed", "ok"}
    BY <1>2
  <2> HIDE DEF OnGrantFailed
  <2> QED
    BY <1>1, <1>2, <1>3, <2>1, <2>2, GrantingAdvances
<1>7. HistoryInv'
  BY FrameHistory DEF IInv
<1>8. BalanceInv'
  <2>1. ASSUME NEW j \in DOMAIN grants
        PROVE  grants'[j].to <= balance'[grants'[j].member] /\ grants'[j].at # "served"
    <3>1. CASE j = i
      BY <1>2, <1>4, <3>1 DEF IInv, BalanceInv
    <3>2. CASE j # i
      BY <1>4, <3>2 DEF IInv, BalanceInv, Waits
    <3> QED
      BY <3>1, <3>2
  <2> QED
    BY <1>4, <2>1 DEF BalanceInv
<1>9. PatientInv'
  BY <1>1, <1>2, <1>3, PatientAdvances
<1> QED
  BY <1>5, <1>6, <1>7, <1>8, <1>9 DEF IInv, GrantingInv

-----------------------------------------------------------------------------
(* The orders of all members *)

(* A refresh goes one step further, or fails.                              *)
LEMMA RefreshStep ==
  ASSUME IInv, NEW h \in Refreshes,
         ServeMembers(h) \/ FailRefresh(h) \/ \E m \in Others : ServeOrders(h, m)
  PROVE  IInv'
<1> USE DEF IInv, own, list, dialogs, granted, api
<1>1. /\ UNCHANGED <<patient, own, view, list, dialogs, granted, api, moves>>
      /\ UNCHANGED <<history, since, historyLoading>>
  BY DEF ServeMembers, FailRefresh, ServeOrders
<1>2. refresh[h] \in RefreshType /\ ordered \subseteq Others
  BY DEF TypeOK
<1>3. PICK r \in RefreshType :
        /\ refresh' = [refresh EXCEPT ![h] = r]
        /\ r.at \in {"members", "orders"} => r.base \subseteq ordered
        /\ r.at = "orders" => r.base \subseteq r.asked \union r.found
  <2>1. CASE ServeMembers(h)
    <3> DEFINE r == [at |-> "orders", base |-> refresh[h].base, asked |-> Others, found |-> {}]
    <3>1. /\ r \in RefreshType /\ r.base \subseteq ordered /\ r.at = "orders"
          /\ r.base \subseteq r.asked \union r.found
      BY <1>2, <2>1 DEF RefreshType, ServeMembers, HistoryInv
    <3>2. refresh' = [refresh EXCEPT ![h] = r]
      BY <2>1 DEF ServeMembers
    <3> HIDE DEF r
    <3> QED
      BY <3>1, <3>2
  <2>2. CASE FailRefresh(h)
    <3> DEFINE r == [refresh[h] EXCEPT !.at = "failed"]
    <3> DEFINE parts == [at : {"orders", "failed"}, base : SUBSET Others,
                         asked : SUBSET Others, found : SUBSET Others]
               bare == [at : {"members", "failed"}, base : SUBSET Others]
    <3>0. refresh[h] \in parts \/ refresh[h] \in bare
      BY <1>2, <2>2 DEF RefreshType, FailRefresh
    <3>1. r \in RefreshType /\ r.at = "failed"
      <4>1. CASE refresh[h] \in parts
        BY <4>1 DEF RefreshType
      <4>2. CASE refresh[h] \in bare
        BY <4>2 DEF RefreshType
      <4> QED
        BY <3>0, <4>1, <4>2
    <3>2. refresh' = [refresh EXCEPT ![h] = r]
      BY <2>2 DEF FailRefresh
    <3> HIDE DEF r
    <3> QED
      BY <3>1, <3>2
  <2>3. ASSUME NEW m \in Others, ServeOrders(h, m)
        PROVE  \E r \in RefreshType :
                 /\ refresh' = [refresh EXCEPT ![h] = r]
                 /\ r.at \in {"members", "orders"} => r.base \subseteq ordered
                 /\ r.at = "orders" => r.base \subseteq r.asked \union r.found
    <3> DEFINE old == refresh[h]
               r == [old EXCEPT !.asked = old.asked \ {m}, !.found = old.found \union ({m} \intersect ordered)]
    <3>1. /\ old \in [at : {"orders"}, base : SUBSET Others, asked : SUBSET Others, found : SUBSET Others]
          /\ old.base \subseteq ordered
          /\ old.base \subseteq old.asked \union old.found
      BY <1>2, <2>3 DEF RefreshType, ServeOrders, HistoryInv
    <3>2. refresh' = [refresh EXCEPT ![h] = r]
      BY <2>3 DEF ServeOrders
    <3>3. /\ r \in [at : {"orders"}, base : SUBSET Others, asked : SUBSET Others, found : SUBSET Others]
          /\ r.at = "orders" /\ r.base = old.base /\ r.asked = old.asked \ {m}
          /\ r.found = old.found \union ({m} \intersect ordered)
      <4> HIDE DEF old
      <4> QED
        BY <1>2, <3>1
    <3>4. r \in RefreshType
      <4> HIDE DEF r
      <4> QED
        BY <3>3 DEF RefreshType
    <3> HIDE DEF r, old
    <3> QED
      BY <3>1, <3>2, <3>3, <3>4
  <2> QED
    BY <2>1, <2>2, <2>3
<1>4. TypeOK'
  BY <1>1, <1>3 DEF TypeOK
<1>5. HistoryInv'
  BY <1>1, <1>3 DEF TypeOK, HistoryInv
<1>6. GrantingInv' /\ BalanceInv' /\ PatientInv'
  BY <1>1, FrameGranting, FrameBalance, FramePatient DEF GrantingInv
<1> QED
  BY <1>4, <1>5, <1>6 DEF GrantingInv

LEMMA OnHistoryStep ==
  ASSUME IInv, NEW h \in Refreshes, OnHistory(h) PROVE IInv'
<1> USE DEF IInv, OnHistory, own, list, dialogs, granted, api
<1>1. refresh[h] \in RefreshType /\ Idle \in RefreshType
  BY DEF TypeOK, RefreshType, Idle
<1>2. history' \subseteq Others /\ since' \subseteq Others /\ since' \subseteq history'
  BY <1>1 DEF TypeOK, RefreshType, HistoryInv
<1>3. TypeOK'
  BY <1>1, <1>2 DEF TypeOK
<1>4. HistoryInv'
  BY <1>1, <1>2 DEF TypeOK, HistoryInv, Idle
<1>5. GrantingInv' /\ BalanceInv' /\ PatientInv'
  BY FrameGranting, FrameBalance, FramePatient DEF GrantingInv
<1> QED
  BY <1>3, <1>4, <1>5 DEF GrantingInv

LEMMA OrderStep ==
  ASSUME IInv, NEW m \in Others, Order(m) PROVE IInv'
<1> USE DEF IInv, Order, own, orders, list, dialogs, granted
<1>1. /\ balance' \in [Members -> Nat]
      /\ \A n \in Members : balance[n] \in Nat /\ balance'[n] \in Nat /\ balance[n] <= balance'[n]
  BY DEF TypeOK, Others
<1>2. TypeOK'
  BY <1>1 DEF TypeOK
<1>3. HistoryInv'
  BY DEF HistoryInv
<1>4. BalanceInv'
  <2>1. ASSUME NEW i \in DOMAIN grants PROVE grants[i].to <= balance'[grants[i].member]
    <3>1. grants[i].to \in Nat /\ grants[i].member \in Members
      BY GrantFacts
    <3>2. grants[i].to <= balance[grants[i].member]
      BY DEF BalanceInv
    <3> QED
      BY <1>1, <3>1, <3>2
  <2> QED
    BY <2>1 DEF BalanceInv
<1>5. GrantingInv' /\ PatientInv'
  BY FrameGranting, FramePatient DEF GrantingInv
<1> QED
  BY <1>2, <1>3, <1>4, <1>5 DEF GrantingInv

-----------------------------------------------------------------------------
(* IInv holds after every step, since each action keeps it.                *)
LEMMA StepInv == IInv /\ [Next]_vars => IInv'
<1> SUFFICES ASSUME IInv, [Next]_vars PROVE IInv'
  OBVIOUS
<1>1. CASE Serve
  BY <1>1, BootStep, ListAnsweredStep, GrantAnsweredStep, RefreshStep DEF Serve
<1>2. CASE Fail
  BY <1>2, BootStep, ListAnsweredStep, GrantAnsweredStep, RefreshStep DEF Fail
<1>3. CASE OnAnswer
  BY <1>3, BootStep, OnListStep, OnGrantedStep, OnGrantFailedStep, OnHistoryStep DEF OnAnswer
<1>4. CASE \E v \in Views : SetView(v)
  BY <1>4, SetViewStep
<1>5. CASE OpenSelfModal \/ \E m \in Members : OpenGrantModal(m)
  BY <1>5, OpenStep
<1>6. CASE Dismiss
  BY <1>6, DismissStep
<1>7. CASE SubmitGrant \/ SubmitSelf
  BY <1>7, SubmitStep
<1>8. CASE \E m \in Others : Order(m)
  BY <1>8, OrderStep
<1>9. CASE UNCHANGED vars
  <2> USE <1>9 DEF vars, own, orders, list, dialogs, granted, api
  <2>1. TypeOK'
    BY DEF IInv, TypeOK
  <2>2. GrantingInv' /\ HistoryInv' /\ BalanceInv' /\ PatientInv'
    BY FrameGranting, FrameHistory, FrameBalance, FramePatient DEF IInv, GrantingInv
  <2> QED
    BY <2>1, <2>2 DEF IInv, GrantingInv
<1> QED
  BY <1>1, <1>2, <1>3, <1>4, <1>5, <1>6, <1>7, <1>8, <1>9 DEF Next

(* The invariant holds in every state of a manager's tab.                  *)
THEOREM Invariance == Spec => []IInv
<1> QED
  BY InitInv, StepInv, PTL DEF Spec

(* Every variable of the page keeps its type, whatever is clicked,         *)
(* answered and lost.                                                      *)
THEOREM TypeCorrect == Spec => []TypeOK
<1>1. IInv => TypeOK
  BY DEF IInv
<1> QED
  BY <1>1, Invariance, PTL

(* One opening of a dialog grants again only after the page has said that  *)
(* the grant before had failed, and no two grants are under way at once    *)
(* (grantCreditsToMember and the two dialogs).                             *)
THEOREM GrantsOnce == Spec => []GrantedOnceUnlessFailed
<1>1. IInv => GrantedOnceUnlessFailed
  BY DEF IInv
<1> QED
  BY <1>1, Invariance, PTL

(* The history shows everything there was when the refresh that made it    *)
(* began, for any number of overlapping refreshes (refreshOrderHistory).   *)
THEOREM Whole == Spec => []HistoryIsWhole
<1>1. IInv => HistoryIsWhole
  BY DEF IInv, HistoryInv, HistoryIsWhole
<1> QED
  BY <1>1, Invariance, PTL

(* Neither the header's balance nor the rows that a manager who waits sees *)
(* are older than the grants made there, however many there were           *)
(* (onGranted of both dialogs and loadMembers).                            *)
THEOREM Follows == Spec => []ScreenFollowsGrants
<1>1. IInv => ScreenFollowsGrants
  <2> SUFFICES ASSUME IInv, patient, Settled PROVE ScreenFollowsGrants
    BY DEF ScreenFollowsGrants
  <2>1. \A i \in DOMAIN grants :
          grants[i].at = "ok" /\ grants[i].member = Self => grants[i].to <= credits
    BY DEF IInv, PatientInv
  <2>2. UpToDate(members)
    BY DEF IInv, PatientInv, Settled
  <2> QED
    BY <2>1, <2>2 DEF ScreenFollowsGrants, Known, UpToDate
<1> QED
  BY <1>1, Invariance, PTL

(* The list's dialog closes after a grant to the very member it shows, or  *)
(* when it is dismissed, or by a grant from before it was opened, which a  *)
(* manager who waits has not under way (OnGranted clears the selection     *)
(* whatever it is by then).                                                *)
THEOREM ClosesRight == Spec => ClosesForItsOwnGrant
<1> DEFINE Own(i) ==
             /\ grants[i].at = "served" /\ grants'[i].at = "ok"
             /\ grants[i].member = selected \/ (~patient /\ grants[i].opened < opened)
<1>1. IInv /\ [Next]_vars =>
        [(grantOpen /\ ~grantOpen') => Dismiss \/ \E i \in DOMAIN grants : Own(i)]_vars
  <2> SUFFICES ASSUME IInv, Next, grantOpen, ~grantOpen', ~Dismiss
               PROVE  \E i \in DOMAIN grants : Own(i)
    OBVIOUS
  <2>1. PICK i \in DOMAIN grants : OnGranted(i) /\ grants[i].from = "row"
    BY DEF Next, Serve, Fail, OnAnswer, OnBoot, FailBoot, ServeCredits, ServeList, FailList, OnList,
           ServeGrant, FailGrant, OnGranted, OnGrantFailed, ServeMembers, ServeOrders, FailRefresh,
           OnHistory, SetView, OpenGrantModal, OpenSelfModal, SubmitGrant, SubmitSelf, Grant, Order,
           dialogs
  <2>2. grants[i].at = "served" /\ grants'[i].at = "ok"
    <3>1. [grants[i] EXCEPT !.at = "ok"] \in GrantType /\ [grants[i] EXCEPT !.at = "ok"].at = "ok"
      BY GrantFacts DEF IInv, GrantType
    <3> DEFINE g == [grants[i] EXCEPT !.at = "ok"]
    <3>2. grants' = [grants EXCEPT ![i] = g]
      BY <2>1 DEF OnGranted, Granted
    <3> HIDE DEF g
    <3>3. grants'[i] = g
      BY <3>1, <3>2, GrantExcept DEF IInv, g
    <3> QED
      BY <2>1, <3>1, <3>3 DEF OnGranted, g
  <2>3. patient => grants[i].member = selected
    BY <2>1 DEF OnGranted, IInv, PatientInv, Waits
  <2>4. grants[i].opened < opened \/ grants[i].member = selected
    <3>1. grants[i].opened \in Nat /\ opened \in Nat
      BY GrantFacts, ManagementAssumption DEF IInv, TypeOK
    <3> QED
      BY <2>1, <3>1 DEF IInv, GrantsInv
  <2> QED
    BY <2>2, <2>3, <2>4
<1> QED
  BY <1>1, Invariance, PTL DEF Spec, ClosesForItsOwnGrant

-----------------------------------------------------------------------------
(* What is disabled or loading waits for a call that is under way.  There  *)
(* is no list, and nothing is granted from one, in another section.        *)
GrantingWaits == granting => \E i \in DOMAIN grants : Waits(i)

HistoryWaits == historyLoading => \E h \in Refreshes : refresh[h] # Idle

ListWaits ==
  /\ grantOpen => view = "management"
  /\ view # "management" =>
       (\A l \in Loads : load[l] = Idle) /\ (\A i \in DOMAIN grants : grants[i].from # "row")
  /\ loadingMembers => \E l \in Loads : load[l] # Idle

(* How a step changes the grants.                                          *)
Kept == UNCHANGED <<grants, granting>>

Moved ==
  /\ DOMAIN grants' = DOMAIN grants /\ granting' = granting
  /\ \A i \in DOMAIN grants : grants'[i].at = grants[i].at /\ grants'[i].from # "row"

Begun ==
  /\ \E i \in DOMAIN grants' : Waits(i)'
  /\ \A i \in DOMAIN grants' :
       (i \in DOMAIN grants /\ grants'[i].from = grants[i].from)
         \/ grants'[i].from # "row" \/ grantOpen

Advanced ==
  /\ DOMAIN grants' = DOMAIN grants
  /\ \A i \in DOMAIN grants : grants'[i].from = grants[i].from
  /\ \/ granting' = FALSE
     \/ granting' = granting /\ \A i \in DOMAIN grants : Waits(i) => Waits(i)'

LEMMA Answering ==
  ASSUME IInv, NEW i \in DOMAIN grants,
         ServeGrant(i) \/ FailGrant(i) \/ OnGranted(i) \/ OnGrantFailed(i)
  PROVE  Advanced
<1> USE DEF Advanced, Waits
<1>1. TypeOK /\ grants[i] \in GrantType
  BY GrantFacts DEF IInv
<1>2. ASSUME NEW at \in {"served", "failed", "ok", "error"}, NEW to \in Nat,
             grants' = [grants EXCEPT ![i] = [@ EXCEPT !.at = at, !.to = to]]
      PROVE  /\ DOMAIN grants' = DOMAIN grants /\ grants'[i].at = at
             /\ \A j \in DOMAIN grants : grants'[j].from = grants[j].from
             /\ \A j \in DOMAIN grants : j # i => grants'[j] = grants[j]
  <2> DEFINE g == [grants[i] EXCEPT !.at = at, !.to = to]
  <2>1. g \in GrantType /\ g.at = at /\ g.from = grants[i].from
    BY <1>1 DEF GrantType
  <2>2. grants' = [grants EXCEPT ![i] = g]
    BY <1>2
  <2> HIDE DEF g
  <2> QED
    BY <1>1, <2>1, <2>2, GrantExcept
<1>3. \A at \in {"served", "failed", "ok", "error"} :
        [grants[i] EXCEPT !.at = at] = [grants[i] EXCEPT !.at = at, !.to = grants[i].to]
  BY <1>1 DEF GrantType
<1>4. \A at \in {"served", "failed", "ok", "error"} :
        grants' = [grants EXCEPT ![i].at = at] =>
          grants' = [grants EXCEPT ![i] = [@ EXCEPT !.at = at, !.to = grants[i].to]]
  BY <1>3
<1>5. grants[i].to \in Nat
  BY <1>1 DEF GrantType
<1>6. CASE ServeGrant(i)
  <2>1. granting' = granting /\ balance'[grants[i].member] \in Nat
    BY <1>1, <1>6 DEF ServeGrant, TypeOK, GrantType
  <2> QED
    BY <1>2, <1>4, <1>5, <1>6, <2>1 DEF ServeGrant
<1>7. CASE FailGrant(i)
  BY <1>2, <1>4, <1>5, <1>7 DEF FailGrant
<1>8. CASE OnGranted(i)
  BY <1>2, <1>4, <1>5, <1>8 DEF OnGranted, Granted
<1>9. CASE OnGrantFailed(i)
  BY <1>2, <1>4, <1>5, <1>9 DEF OnGrantFailed
<1> QED
  BY <1>6, <1>7, <1>8, <1>9

LEMMA Beginning ==
  ASSUME IInv, NEW m, NEW from, m \in Members, from \in {"self", "row"}, from = "row" => grantOpen,
         Grant(m, from)
  PROVE  Begun
<1> DEFINE g == [member |-> m, from |-> from, opened |-> opened, at |-> "sent", to |-> 0]
<1>1. g.at = "sent" /\ g.from = from
  OBVIOUS
<1>2. grants' = Append(grants, g)
  BY DEF Grant
<1> HIDE DEF g
<1>3. /\ DOMAIN grants' = 1..(Len(grants) + 1) /\ grants'[Len(grants) + 1] = g
      /\ \A i \in DOMAIN grants : grants'[i] = grants[i]
  <2>1. grants \in Seq(GrantType \union {g})
    <3>1. grants \in Seq(GrantType) /\ Len(grants) \in Nat /\ DOMAIN grants = 1..Len(grants)
      BY GrantFacts DEF IInv, TypeOK
    <3>2. \A i \in 1..Len(grants) : grants[i] \in GrantType \union {g}
      BY <3>1, GrantFacts DEF IInv
    <3> QED
      BY <3>1, <3>2, IsASeq, ElementOfSeq, LenProperties
  <2> QED
    BY <1>2, <2>1, AppendProperties, GrantFacts DEF IInv
<1> QED
  BY <1>1, <1>3, GrantFacts DEF IInv, Begun, Waits

LEMMA Turning ==
  ASSUME IInv, NEW v \in Views, SetView(v)
  PROVE  Moved
BY GrantFacts DEF IInv, SetView, Moved, GrantType

LEMMA Changes ==
  ASSUME IInv, [Next]_vars
  PROVE  Kept \/ Moved \/ Begun \/ Advanced
<1> USE DEF Kept
<1>1. CASE Serve \/ Fail \/ OnAnswer
  <2>1. ASSUME NEW i \in DOMAIN grants,
               ServeGrant(i) \/ FailGrant(i) \/ OnGranted(i) \/ OnGrantFailed(i)
        PROVE  Advanced
    BY <2>1, Answering
  <2> QED
    BY <1>1, <2>1
       DEF Serve, Fail, OnAnswer, OnBoot, FailBoot, ServeCredits, ServeList, FailList, OnList,
           ServeMembers, ServeOrders, FailRefresh, OnHistory, granted
<1>2. ASSUME NEW v \in Views, SetView(v) PROVE Moved
  BY <1>2, Turning
<1>3. CASE SubmitGrant
  BY <1>3, Beginning DEF SubmitGrant, ListDialog, IInv, TypeOK
<1>4. CASE SubmitSelf
  BY <1>4, Beginning, ManagementAssumption DEF SubmitSelf
<1>5. CASE Dismiss \/ OpenSelfModal \/ (\E m \in Members : OpenGrantModal(m))
           \/ (\E m \in Others : Order(m)) \/ UNCHANGED vars
  BY <1>5 DEF Dismiss, OpenSelfModal, OpenGrantModal, Order, vars, granted
<1> QED
  BY <1>1, <1>2, <1>3, <1>4, <1>5 DEF Next

LEMMA GrantingWaitsStep == IInv /\ GrantingWaits /\ [Next]_vars => GrantingWaits'
<1> SUFFICES ASSUME IInv, GrantingWaits, [Next]_vars PROVE GrantingWaits'
  OBVIOUS
<1> QED
  BY Changes DEF GrantingWaits, Kept, Moved, Begun, Advanced, Waits

(* The history is loading as long as a refresh is under way, and only then *)
(* for as many as there are.                                               *)
LEMMA HistoryWaitsStep == IInv /\ HistoryWaits /\ [Next]_vars => HistoryWaits'
<1> SUFFICES ASSUME IInv, HistoryWaits, [Next]_vars PROVE HistoryWaits'
  OBVIOUS
<1> USE DEF HistoryWaits, own, orders, list, dialogs, granted, api
<1>1. refresh \in [Refreshes -> RefreshType]
  BY DEF IInv, TypeOK
<1>2. CASE UNCHANGED <<refresh, historyLoading>>
  BY <1>2
<1>3. ASSUME NEW v \in Views, SetView(v) PROVE HistoryWaits'
  <2>1. CASE v = "history"
    <3>1. Free(refresh) \in Refreshes
      BY <1>1, <1>3, <2>1 DEF SetView, RefreshOrderHistory, HasFree, Free
    <3>2. refresh'[Free(refresh)].at = "members"
      BY <1>1, <1>3, <2>1, <3>1 DEF SetView, RefreshOrderHistory
    <3> QED
      BY <3>1, <3>2 DEF Idle
  <2>2. CASE v # "history"
    BY <1>2, <1>3, <2>2 DEF SetView
  <2> QED
    BY <2>1, <2>2
<1>4. ASSUME NEW h \in Refreshes,
             ServeMembers(h) \/ (\E m \in Others : ServeOrders(h, m)) \/ FailRefresh(h)
      PROVE  HistoryWaits'
  <2>1. historyLoading' = historyLoading
        /\ \A k \in Refreshes : k # h => refresh'[k] = refresh[k]
    BY <1>1, <1>4 DEF ServeMembers, ServeOrders, FailRefresh
  <2>2. refresh'[h].at \in {"orders", "failed"}
    <3>1. CASE ServeMembers(h)
      BY <1>1, <3>1 DEF ServeMembers
    <3>2. CASE \E m \in Others : ServeOrders(h, m)
      <4>1. refresh[h].at = "orders" /\ refresh[h] \in RefreshType
        BY <1>1, <3>2 DEF ServeOrders
      <4> QED
        BY <1>1, <3>2, <4>1 DEF ServeOrders, RefreshType
    <3>3. CASE FailRefresh(h)
      <4>1. refresh[h].at \in {"members", "orders"} /\ refresh[h] \in RefreshType
        BY <1>1, <3>3 DEF FailRefresh
      <4> QED
        BY <1>1, <3>3, <4>1 DEF FailRefresh, RefreshType
    <3> QED
      BY <1>4, <3>1, <3>2, <3>3
  <2> QED
    BY <2>2 DEF Idle
<1>5. CASE \E h \in Refreshes : OnHistory(h)
  BY <1>5 DEF OnHistory
<1>6. CASE Serve \/ Fail \/ OnAnswer
  BY <1>2, <1>4, <1>5, <1>6
     DEF Serve, Fail, OnAnswer, OnBoot, FailBoot, ServeCredits, ServeList, FailList, OnList,
         ServeGrant, FailGrant, OnGranted, OnGrantFailed
<1>7. CASE Dismiss \/ OpenSelfModal \/ (\E m \in Members : OpenGrantModal(m))
           \/ SubmitGrant \/ SubmitSelf \/ (\E m \in Others : Order(m)) \/ UNCHANGED vars
  BY <1>2, <1>7 DEF Dismiss, OpenSelfModal, OpenGrantModal, SubmitGrant, SubmitSelf, Grant, Order, vars
<1> QED
  BY <1>3, <1>6, <1>7 DEF Next

(* The list is loading only while a call for it is under way, since a list *)
(* that goes away takes both with it and a new one begins with both.       *)
LEMMA ListWaitsStep == IInv /\ ListWaits /\ [Next]_vars => ListWaits'
<1> SUFFICES ASSUME IInv, ListWaits, [Next]_vars PROVE ListWaits'
  OBVIOUS
<1> USE DEF own, orders, list, dialogs, granted, api
<1>1. load \in [Loads -> LoadType] /\ view \in Views
  BY DEF IInv, TypeOK
<1>2. ASSUME view' = view, load' = load, loadingMembers' = loadingMembers,
             grantOpen' => grantOpen \/ view = "management",
             Kept \/ Advanced \/ Begun
      PROVE  ListWaits'
  <2>1. view # "management" => \A i \in DOMAIN grants' : grants'[i].from # "row"
    BY <1>2 DEF ListWaits, Kept, Advanced, Begun
  <2> QED
    BY <1>2, <2>1 DEF ListWaits
<1>3. ASSUME NEW v \in Views, SetView(v) PROVE ListWaits'
  <2>1. Moved /\ ~grantOpen' /\ view' = v /\ v # view
    BY <1>3, Turning DEF SetView, NoDialog
  <2>2. \A i \in DOMAIN grants' : grants'[i].from # "row"
    BY <2>1 DEF Moved
  <2>3. CASE v = "management"
    <3>1. \A l \in Loads : load[l] = Idle
      BY <2>1, <2>3 DEF ListWaits
    <3>2. Free(load) \in Loads
      BY <1>1, <3>1, ManagementAssumption DEF Free
    <3>3. load'[Free(load)].at = "sent"
      BY <1>1, <1>3, <2>3, <3>2 DEF SetView, MountList
    <3> QED
      BY <2>1, <2>3, <3>2, <3>3 DEF ListWaits, Idle
  <2>4. CASE v # "management"
    BY <1>3, <2>1, <2>2, <2>4 DEF SetView, UnmountList, ListWaits
  <2> QED
    BY <2>3, <2>4
<1>4. ASSUME NEW l \in Loads, ServeList(l) \/ FailList(l) PROVE ListWaits'
  <2>1. load'[l].at = "served" /\ load[l].at = "sent"
    BY <1>1, <1>4 DEF ServeList, FailList
  <2>2. view = "management"
    BY <2>1 DEF ListWaits, Idle
  <2>3. UNCHANGED <<view, grantOpen>>
    BY <1>4 DEF ServeList, FailList
  <2> QED
    BY <2>1, <2>2, <2>3 DEF ListWaits, Idle
<1>5. ASSUME NEW l \in Loads, OnList(l) PROVE ListWaits'
  <2>1. UNCHANGED <<view, grantOpen, grants>> /\ loadingMembers' = FALSE
        /\ \A k \in Loads : load'[k] = load[k] \/ load'[k] = Idle
    BY <1>1, <1>5 DEF OnList
  <2> QED
    BY <2>1 DEF ListWaits
<1>6. ASSUME NEW i \in DOMAIN grants, OnGranted(i) PROVE ListWaits'
  <2>1. Advanced /\ UNCHANGED view /\ (grantOpen' => grantOpen)
    <3>1. Advanced
      BY <1>6, Answering
    <3> QED
      BY <1>6, <3>1 DEF OnGranted
  <2>2. CASE grants[i].from = "row"
    <3>1. view = "management"
      BY <2>2 DEF ListWaits
    <3>2. LoadMembers
      BY <1>6, <2>2 DEF OnGranted
    <3>3. Free(load) \in Loads
      BY <1>1, <3>2 DEF LoadMembers, HasFree, Free
    <3>4. load'[Free(load)].at = "sent"
      BY <1>1, <3>2, <3>3 DEF LoadMembers
    <3> QED
      BY <2>1, <3>1, <3>3, <3>4 DEF ListWaits, Idle
  <2>3. CASE grants[i].from # "row"
    BY <1>2, <1>6, <2>1, <2>3 DEF OnGranted
  <2> QED
    BY <2>2, <2>3
<1>7. CASE Serve \/ Fail \/ OnAnswer
  <2>1. CASE ServeCredits \/ FailBoot \/ OnBoot
             \/ \E h \in Refreshes : ServeMembers(h) \/ (\E m \in Others : ServeOrders(h, m))
                                     \/ FailRefresh(h) \/ OnHistory(h)
    BY <1>2, <2>1 DEF ServeCredits, FailBoot, OnBoot, ServeMembers, ServeOrders, FailRefresh, OnHistory, Kept
  <2>2. ASSUME NEW i \in DOMAIN grants, ServeGrant(i) \/ FailGrant(i) \/ OnGrantFailed(i)
        PROVE  ListWaits'
    <3>1. Advanced
      BY <2>2, Answering
    <3> QED
      BY <1>2, <2>2, <3>1 DEF ServeGrant, FailGrant, OnGrantFailed
  <2> QED
    BY <1>4, <1>5, <1>6, <1>7, <2>1, <2>2 DEF Serve, Fail, OnAnswer
<1>8. CASE SubmitGrant \/ SubmitSelf
  <2>1. Begun
    BY <1>8, Beginning, ManagementAssumption DEF SubmitGrant, SubmitSelf, ListDialog, IInv, TypeOK
  <2> QED
    BY <1>2, <1>8, <2>1 DEF SubmitGrant, SubmitSelf, Grant
<1>9. CASE Dismiss \/ OpenSelfModal \/ (\E m \in Members : OpenGrantModal(m))
           \/ (\E m \in Others : Order(m)) \/ UNCHANGED vars
  BY <1>2, <1>9 DEF Dismiss, OpenSelfModal, OpenGrantModal, Listed, Order, vars, Kept
<1> QED
  BY <1>3, <1>7, <1>8, <1>9 DEF Next

(* Nothing in a manager's tab stays disabled or loading when the calls     *)
(* that it waits for are over, however the manager clicks, dismisses and   *)
(* changes the section meanwhile and whichever of several refreshes ends   *)
(* last (grantingCredits, historyLoading and loadingMembers).              *)
NothingStaysBusy == Settled => ~granting /\ ~historyLoading /\ ~loadingMembers

THEOREM BusyOnlyWhileUnderWay == Spec => []NothingStaysBusy
<1>1. Init => GrantingWaits /\ HistoryWaits /\ ListWaits
  BY DEF Init, GrantingWaits, HistoryWaits, ListWaits
<1>2. GrantingWaits /\ HistoryWaits /\ ListWaits => NothingStaysBusy
  BY DEF GrantingWaits, HistoryWaits, ListWaits, NothingStaysBusy, Settled, UnderWay, Waits
<1> QED
  BY <1>1, <1>2, GrantingWaitsStep, HistoryWaitsStep, ListWaitsStep, Invariance, PTL DEF Spec
=============================================================================
