----------------------------- MODULE MenuProofs -----------------------------
(***************************************************************************)
(* Proofs about MenuContext for any picks, number of reservations and      *)
(* refreshes, balances and faults.                                         *)
(***************************************************************************)
EXTENDS MenuContext, FiniteSetTheorems, SequenceTheorems, TLAPS

Live(c) == wire[c] # "idle"

(* Only the last reservation waits for its answer, with the button         *)
(* disabled until the refresh after it is over too.                        *)
OrderInv ==
  /\ contents \in Seq(SUBSET Picks) /\ told \in Seq({"waiting", "ok", "failed"})
  /\ Len(told) = Len(contents)
  /\ \A i \in DOMAIN told : told[i] = "waiting" <=> (Live("order") /\ i = Len(told))
  /\ Live("order") => contents # <<>>
  /\ Live("order") \/ Live("after") => placing
  /\ ~(Live("order") /\ Live("after"))
  /\ placed \subseteq DOMAIN contents
  /\ IsBootstrapping => contents = <<>> /\ cart = {} /\ ~dialog

(* What was reserved is in no later reservation and not in the cart.       *)
CartInv ==
  /\ cart \subseteq added /\ \A i \in DOMAIN contents : contents[i] \subseteq added
  /\ \A i \in DOMAIN told : told[i] = "ok" => contents[i] \intersect cart = {}
  /\ \A i, j \in DOMAIN told : i < j /\ told[i] = "ok" => contents[i] \intersect contents[j] = {}

(* For a member who waits the dialog stays before the cart.  For others    *)
(* what is in the cart and not in the reservation under way came late.     *)
DialogInv ==
  /\ patient => (placing => dialog)
  /\ Live("order") => cart \subseteq contents[Len(contents)] \union late

(* How far the bootstrap has come tells which of its calls are under way.  *)
BootInv ==
  /\ Live("me") => boot = "waiting" /\ session = "checking"
  /\ Live("menus") => boot = "menus"
  /\ Live("credits") \/ Live("orders") => boot \in {"data", "partial"}
  /\ boot \in {"waiting", "menus"} => resolved = {}
  /\ boot = "data" => (\A c \in {"credits", "orders"} : c \in resolved => ~Live(c))

(* The balance was set by the newest answer, or that is yet to be handled. *)
BalanceInv ==
  boot # "partial" =>
    /\ \A c \in {"credits", "order"} : wire[c] = "served" => result[c].balance = latest.balance
    /\ (\A c \in {"credits", "order"} : wire[c] # "served") => credits = latest.balance

(* Before the first reservation every answer is the empty history; after   *)
(* it a member who waits has one call for it under way at a time.          *)
HistoryInv ==
  patient /\ session # "out" =>
    /\ contents = <<>> =>
         /\ history = {} /\ latest.orders = {} /\ placed = {}
         /\ \A c \in HistoryCalls : result[c].orders = {}
    /\ (dialog /\ ~placing) \/ Live("order") => \A c \in HistoryCalls : ~Live(c)
    /\ contents # <<>> =>
         /\ ~Live("orders")
         /\ \A c, d \in HistoryCalls : Live(c) /\ Live(d) => c = d
         /\ \A c \in HistoryCalls : wire[c] = "served" => result[c].orders = latest.orders
         /\ (\A c \in HistoryCalls : wire[c] # "served") => history = latest.orders

IInv ==
  /\ TypeOK
  /\ OrderInv
  /\ CartInv
  /\ DialogInv /\ NothingIsDropped
  /\ BootInv
  /\ BalanceInv
  /\ HistoryInv

-----------------------------------------------------------------------------
(* The names of the calls are distinct.                                    *)
LEMMA CallNames ==
  /\ Reads \subseteq Calls /\ HistoryCalls \subseteq Reads /\ Refreshes \subseteq HistoryCalls
  /\ {"me", "menus", "credits", "orders", "after"} \subseteq Reads /\ "order" \in Calls
  /\ {"orders", "after"} \subseteq HistoryCalls
  /\ "order" \notin Reads
  /\ \A c \in HistoryCalls : c \notin {"me", "menus", "credits", "order"}
  /\ \A c \in Refreshes : c \notin {"orders", "after"}
BY MenuAssumption DEF Reads, Calls, HistoryCalls

LEMMA Lists ==
  ASSUME OrderInv
  PROVE  /\ Len(contents) \in Nat /\ Len(told) = Len(contents)
         /\ DOMAIN contents = 1..Len(contents) /\ DOMAIN told = 1..Len(contents)
         /\ \A i \in 1..Len(contents) :
              contents[i] \in SUBSET Picks /\ told[i] \in {"waiting", "ok", "failed"}
         /\ contents # <<>> <=> Len(contents) > 0
<1>1. contents \in Seq(SUBSET Picks) /\ told \in Seq({"waiting", "ok", "failed"})
  BY DEF OrderInv
<1>2. /\ Len(contents) \in Nat /\ Len(told) = Len(contents)
      /\ DOMAIN contents = 1..Len(contents) /\ DOMAIN told = 1..Len(contents)
  BY <1>1, LenProperties DEF OrderInv
<1>3. /\ \A i \in 1..Len(contents) : contents[i] \in SUBSET Picks
      /\ \A i \in 1..Len(contents) : told[i] \in {"waiting", "ok", "failed"}
  BY <1>1, <1>2, ElementOfSeq
<1>4. contents # <<>> <=> Len(contents) > 0
  BY <1>1, <1>2, EmptySeq
<1> QED
  BY <1>2, <1>3, <1>4

(* A call is answered and others are sent.                                 *)
LEMMA TurnFacts ==
  ASSUME TypeOK, NEW c \in Calls, NEW C \in SUBSET Calls, Turn(c, C)
  PROVE  /\ wire' \in [Calls -> {"idle", "sent", "served", "failed"}]
         /\ \A d \in C : wire'[d] = "sent"
         /\ c \notin C => wire'[c] = "idle"
         /\ \A d \in Calls : d # c /\ d \notin C => wire'[d] = wire[d]
BY DEF Turn, TypeOK

LEMMA ThenFacts ==
  ASSUME TypeOK, NEW c \in Calls, NEW C \in SUBSET Calls, Then(c, C)
  PROVE  /\ wire' \in [Calls -> {"idle", "sent", "served", "failed"}]
         /\ \A d \in C : wire'[d] = "sent"
         /\ c \notin C => wire'[c] = "idle"
         /\ \A d \in Calls : d # c /\ d \notin C => wire'[d] = wire[d]
         /\ result' \in [Calls -> AccountType]
         /\ result'[c] = Empty /\ \A d \in Calls : d # c => result'[d] = result[d]
<1>1. Turn(c, C) /\ result' = [result EXCEPT ![c] = Empty]
  BY DEF Then
<1>2. Empty \in AccountType
  BY MenuAssumption DEF Empty, AccountType
<1> QED
  BY <1>1, <1>2, TurnFacts DEF TypeOK

(* What a step keeps that does not touch it.                               *)
LEMMA FrameOrder ==
  ASSUME OrderInv, UNCHANGED <<contents, told, placing, placed, boot, cart, dialog>>,
         wire'["order"] # "idle" <=> wire["order"] # "idle",
         wire'["after"] # "idle" <=> wire["after"] # "idle"
  PROVE  OrderInv'
BY DEF OrderInv, Live, IsBootstrapping

LEMMA FrameCart ==
  ASSUME CartInv, UNCHANGED <<cart, added, contents, told>>
  PROVE  CartInv'
BY DEF CartInv

LEMMA FrameDialog ==
  ASSUME DialogInv, UNCHANGED <<patient, placing, dialog, cart, contents, late>>,
         wire'["order"] # "idle" <=> wire["order"] # "idle"
  PROVE  DialogInv'
BY DEF DialogInv, Live

LEMMA FrameDropped ==
  ASSUME NothingIsDropped, UNCHANGED <<patient, cart, contents, told, added, removed, late>>
  PROVE  NothingIsDropped'
BY DEF NothingIsDropped

LEMMA FrameBoot ==
  ASSUME BootInv, UNCHANGED <<boot, resolved, session>>,
         \A c \in {"me", "menus", "credits", "orders"} : wire'[c] # "idle" => wire[c] # "idle"
  PROVE  BootInv'
BY DEF BootInv, Live

LEMMA FrameBalance ==
  ASSUME BalanceInv, UNCHANGED <<boot, credits, latest>>,
         \A c \in {"credits", "order"} :
           \/ wire'[c] = wire[c] /\ result'[c] = result[c]
           \/ wire[c] # "served" /\ wire'[c] # "served"
  PROVE  BalanceInv'
BY DEF BalanceInv

LEMMA FrameHistory ==
  ASSUME HistoryInv, UNCHANGED <<patient, session, contents, history, placed, dialog, placing, latest>>,
         wire'["order"] # "idle" => wire["order"] # "idle",
         \A c \in HistoryCalls :
           /\ result'[c] = result[c]
           /\ \/ wire'[c] = wire[c]
              \/ wire[c] = "sent" /\ wire'[c] = "failed"
  PROVE  HistoryInv'
BY CallNames DEF HistoryInv, Live

-----------------------------------------------------------------------------
(* The page is loaded: nothing is reserved.                                *)
LEMMA InitInv == Init => IInv
<1> SUFFICES ASSUME Init PROVE IInv
  OBVIOUS
<1>1. contents = <<>> /\ told = <<>> /\ Len(contents) = 0 /\ Len(told) = 0 /\ placed = {}
      /\ contents \in Seq(SUBSET Picks) /\ told \in Seq({"waiting", "ok", "failed"})
      /\ DOMAIN contents = {} /\ DOMAIN told = {}
  BY EmptySeq, LenProperties DEF Init
<1>2. Empty \in AccountType /\ Empty.balance = 0 /\ Empty.orders = {}
  BY MenuAssumption DEF Empty, AccountType
<1>3. /\ wire \in [Calls -> {"idle", "sent", "served", "failed"}]
      /\ \A c \in Calls : wire[c] = IF c = "me" THEN "sent" ELSE "idle"
      /\ \A c \in Calls : result[c] = Empty
  BY DEF Init
<1>4. TypeOK
  <2>1. result \in [Calls -> AccountType] /\ latest \in AccountType
    BY <1>2 DEF Init
  <2>2. credits \in 0..MaxBalance /\ balance \in 0..MaxBalance /\ Len(contents) \in 0..MaxOrders
    BY <1>1, MenuAssumption DEF Init
  <2>3. boot \in {"waiting"} /\ session \in {"checking"} /\ view \in {"menu"} /\ patient \in BOOLEAN
    BY DEF Init
  <2>4. /\ resolved = {} /\ history = {} /\ cart = {} /\ dialog = FALSE /\ placing = FALSE
        /\ added = {} /\ removed = {} /\ late = {}
    BY DEF Init
  <2> QED
    BY <1>1, <1>3, <2>1, <2>2, <2>3, <2>4 DEF TypeOK
<1>5. OrderInv
  BY <1>1, <1>3, CallNames DEF Init, OrderInv, Live
<1>6. CartInv /\ DialogInv /\ NothingIsDropped
  BY <1>1, <1>3, CallNames DEF Init, CartInv, DialogInv, NothingIsDropped, Live
<1>7. BootInv
  BY <1>3, CallNames DEF Init, BootInv, Live
<1>8. BalanceInv
  BY <1>2, <1>3, CallNames DEF Init, BalanceInv
<1>9. HistoryInv
  BY <1>1, <1>2, <1>3, CallNames DEF Init, HistoryInv, Live
<1> QED
  BY <1>4, <1>5, <1>6, <1>7, <1>8, <1>9 DEF IInv

-----------------------------------------------------------------------------
(* The API *)

LEMMA ServeReadStep ==
  ASSUME IInv, UNCHANGED patient, NEW c \in Reads, ServeRead(c) PROVE IInv'
<1> USE DEF IInv
<1>1. PICK a \in AccountType :
        /\ wire' = [wire EXCEPT ![c] = "served"] /\ result' = [result EXCEPT ![c] = a]
        /\ a.balance = IF c = "credits" THEN balance ELSE 0
        /\ a.orders = IF c \in HistoryCalls THEN placed ELSE {}
        /\ latest' \in AccountType
        /\ latest'.balance = IF c = "credits" THEN balance ELSE latest.balance
        /\ latest'.orders = IF c \in HistoryCalls THEN placed ELSE latest.orders
  <2>1. balance \in 0..MaxBalance /\ placed \subseteq Orders /\ latest \in AccountType /\ 0 \in 0..MaxBalance
    BY MenuAssumption DEF TypeOK
  <2>2. CASE c = "credits"
    <3> DEFINE a == [Empty EXCEPT !.balance = balance]
               n == [latest EXCEPT !.balance = balance]
    <3>1. /\ a \in AccountType /\ a.balance = balance /\ a.orders = {}
          /\ n \in AccountType /\ n.balance = balance /\ n.orders = latest.orders
      BY <2>1 DEF Empty, AccountType
    <3>2. /\ wire' = [wire EXCEPT ![c] = "served"] /\ result' = [result EXCEPT ![c] = a]
          /\ latest' = n /\ c \notin HistoryCalls
      BY <2>2, CallNames DEF ServeRead, Served
    <3> HIDE DEF a, n
    <3> QED
      BY <2>2, <3>1, <3>2
  <2>3. CASE c \in HistoryCalls
    <3> DEFINE a == [Empty EXCEPT !.orders = placed]
               n == [latest EXCEPT !.orders = placed]
    <3>1. /\ a \in AccountType /\ a.balance = 0 /\ a.orders = placed
          /\ n \in AccountType /\ n.balance = latest.balance /\ n.orders = placed
      BY <2>1 DEF Empty, AccountType
    <3>2. /\ wire' = [wire EXCEPT ![c] = "served"] /\ result' = [result EXCEPT ![c] = a]
          /\ latest' = n /\ c # "credits"
      BY <2>3, CallNames DEF ServeRead, Served
    <3> HIDE DEF a, n
    <3> QED
      BY <2>3, <3>1, <3>2
  <2>4. CASE c \in {"me", "menus"}
    <3>1. Empty \in AccountType /\ Empty.balance = 0 /\ Empty.orders = {}
      BY <2>1 DEF Empty, AccountType
    <3>2. /\ wire' = [wire EXCEPT ![c] = "served"] /\ result' = [result EXCEPT ![c] = Empty]
          /\ latest' = latest /\ c # "credits" /\ c \notin HistoryCalls
      BY <2>4, CallNames DEF ServeRead, Served
    <3> QED
      BY <2>1, <3>1, <3>2
  <2> QED
    BY <2>2, <2>3, <2>4 DEF ServeRead
<1>2. /\ wire[c] = "sent" /\ c # "order" /\ c \in Calls
      /\ UNCHANGED <<screen, cart, contents, told, account, past>>
  BY CallNames DEF ServeRead
<1>3. /\ wire' \in [Calls -> {"idle", "sent", "served", "failed"}] /\ wire'[c] = "served"
      /\ \A d \in Calls : d # c => wire'[d] = wire[d]
      /\ result' \in [Calls -> AccountType] /\ result'[c] = a
      /\ \A d \in Calls : d # c => result'[d] = result[d]
  BY <1>1, <1>2 DEF TypeOK
<1>4. \A d \in Calls : wire'[d] # "idle" <=> wire[d] # "idle"
  BY <1>2, <1>3
<1> USE CallNames DEF screen, account, past
<1>5. TypeOK'
  BY <1>1, <1>2, <1>3 DEF TypeOK
<1>6. OrderInv' /\ CartInv' /\ DialogInv' /\ NothingIsDropped' /\ BootInv'
  BY <1>2, <1>4, FrameOrder, FrameCart, FrameDialog, FrameDropped, FrameBoot
<1>7. BalanceInv'
  <2> SUFFICES ASSUME boot # "partial" PROVE BalanceInv'
    BY <1>2 DEF BalanceInv
  <2>1. CASE c = "credits"
    <3>1. wire'["order"] = "idle"
      BY <1>2, <1>3, <2>1 DEF BootInv, OrderInv, IsBootstrapping, Live
    <3> QED
      BY <1>1, <1>2, <1>3, <2>1, <3>1 DEF BalanceInv
  <2>2. CASE c # "credits"
    BY <1>1, <1>2, <1>3, <2>2 DEF BalanceInv
  <2> QED
    BY <2>1, <2>2
<1>8. HistoryInv'
  <2> SUFFICES ASSUME patient, session # "out" PROVE HistoryInv'
    BY <1>2 DEF HistoryInv
  <2>1. CASE c \in HistoryCalls
    <3>1. contents = <<>> => placed = {}
      BY DEF HistoryInv
    <3>2. contents # <<>> => \A d \in HistoryCalls : d # c => wire'[d] = "idle"
      BY <1>2, <1>3, <2>1 DEF HistoryInv, Live
    <3> QED
      BY <1>1, <1>2, <1>3, <1>4, <2>1, <3>1, <3>2 DEF HistoryInv, Live
  <2>2. CASE c \notin HistoryCalls
    <3>1. \A d \in HistoryCalls : wire'[d] = wire[d] /\ result'[d] = result[d]
      BY <1>3, <2>2
    <3> QED
      BY <1>1, <1>2, <1>4, <2>2, <3>1 DEF HistoryInv, Live
  <2> QED
    BY <2>1, <2>2
<1> QED
  BY <1>5, <1>6, <1>7, <1>8

(* A reservation is charged, turned down, or its answer is lost.           *)
LEMMA ServeOrderStep ==
  ASSUME IInv, UNCHANGED patient, ServeOrder PROVE IInv'
<1> USE CallNames DEF IInv, screen, past
<1> DEFINE i == Len(contents)
           left == balance - Cardinality(contents[i])
<1>1. /\ wire["order"] = "sent" /\ contents # <<>>
      /\ UNCHANGED <<screen, cart, contents, told, past>>
  BY DEF ServeOrder, OrderInv, Live
<1>2. i \in DOMAIN contents /\ i \in Orders /\ left \in Int /\ left <= balance
  <2>1. i \in 1..Len(contents)
    BY <1>1, Lists
  <2>2. contents[i] \subseteq Picks
    BY <2>1, Lists
  <2>3. Cardinality(contents[i]) \in Nat
    BY <2>2, MenuAssumption, FS_Subset, FS_CardinalityType
  <2>4. i \in Orders
    BY <2>1, Lists, MenuAssumption DEF TypeOK, Orders
  <2> QED
    BY <2>1, <2>3, <2>4, Lists DEF TypeOK
<1> HIDE DEF i, left
<1>3. /\ balance' \in 0..MaxBalance /\ placed' \in {placed, placed \union {i}}
      /\ \A d \in Calls : d # "order" => wire'[d] = wire[d] /\ result'[d] = result[d]
      /\ wire'["order"] \in {"served", "failed"}
      /\ wire'["order"] = "served" => result'["order"].balance = latest'.balance
      /\ wire'["order"] = "failed" => latest' = latest
      /\ latest'.orders = latest.orders
      /\ wire' \in [Calls -> {"idle", "sent", "served", "failed"}]
      /\ result' \in [Calls -> AccountType] /\ latest' \in AccountType
  <2>1. /\ balance \in 0..MaxBalance /\ latest \in AccountType /\ 0 \in 0..MaxBalance
        /\ wire \in [Calls -> {"idle", "sent", "served", "failed"}]
        /\ result \in [Calls -> AccountType]
    BY MenuAssumption DEF TypeOK
  <2>2. CASE left >= 0 /\ balance' = left /\ placed' = placed \union {i}
             /\ Served("order", [Empty EXCEPT !.balance = left])
             /\ latest' = [latest EXCEPT !.balance = left]
    <3> DEFINE a == [Empty EXCEPT !.balance = left]
               n == [latest EXCEPT !.balance = left]
    <3>1. left \in 0..MaxBalance
      BY <1>2, <2>1, <2>2, MenuAssumption
    <3>2. a \in AccountType /\ a.balance = left /\ n \in AccountType /\ n.balance = left
          /\ n.orders = latest.orders
      BY <2>1, <3>1 DEF Empty, AccountType
    <3>3. wire' = [wire EXCEPT !["order"] = "served"] /\ result' = [result EXCEPT !["order"] = a]
          /\ latest' = n
      BY <2>2 DEF Served
    <3> HIDE DEF a, n
    <3> QED
      BY <2>1, <2>2, <3>1, <3>2, <3>3
  <2>3. CASE wire' = [wire EXCEPT !["order"] = "failed"] /\ UNCHANGED <<result, account, latest>>
    BY <2>1, <2>3 DEF account
  <2>4. CASE left >= 0 /\ balance' = left /\ placed' \in {placed, placed \union {i}}
             /\ wire' = [wire EXCEPT !["order"] = "failed"] /\ UNCHANGED <<result, latest>>
    BY <1>2, <2>1, <2>4, MenuAssumption
  <2> QED
    BY <2>2, <2>3, <2>4 DEF ServeOrder, i, left
<1>4. \A d \in Calls : wire'[d] # "idle" <=> wire[d] # "idle"
  BY <1>1, <1>3
<1>5. TypeOK'
  BY <1>1, <1>2, <1>3 DEF TypeOK
<1>6. OrderInv'
  BY <1>1, <1>2, <1>3, <1>4 DEF OrderInv, Live, IsBootstrapping
<1>7. CartInv' /\ DialogInv' /\ NothingIsDropped' /\ BootInv'
  BY <1>1, <1>4, FrameCart, FrameDialog, FrameDropped, FrameBoot
<1>8. BalanceInv'
  <2> SUFFICES ASSUME boot # "partial" PROVE BalanceInv'
    BY <1>1 DEF BalanceInv
  <2>1. wire'["credits"] = "idle" /\ wire["credits"] = "idle"
    BY <1>1, <1>3 DEF BootInv, OrderInv, IsBootstrapping, Live
  <2> QED
    BY <1>1, <1>3, <2>1 DEF BalanceInv
<1>9. HistoryInv'
  BY <1>1, <1>3, <1>4 DEF HistoryInv, Live
<1> QED
  BY <1>5, <1>6, <1>7, <1>8, <1>9

LEMMA FailStep ==
  ASSUME IInv, UNCHANGED patient, NEW c \in Calls, FailCall(c) PROVE IInv'
<1> USE CallNames DEF IInv, FailCall, screen, account, past
<1>1. /\ wire[c] = "sent" /\ wire'[c] = "failed" /\ \A d \in Calls : d # c => wire'[d] = wire[d]
      /\ wire' \in [Calls -> {"idle", "sent", "served", "failed"}]
  BY DEF TypeOK
<1>2. UNCHANGED <<screen, cart, result, contents, told, account, latest, past>>
  OBVIOUS
<1> HIDE DEF FailCall
<1>3. TypeOK'
  BY <1>1, <1>2 DEF TypeOK
<1>4. OrderInv' /\ CartInv' /\ DialogInv' /\ NothingIsDropped' /\ BootInv'
  BY <1>1, <1>2, FrameOrder, FrameCart, FrameDialog, FrameDropped, FrameBoot
<1>5. BalanceInv' /\ HistoryInv'
  BY <1>1, <1>2, FrameBalance, FrameHistory
<1> QED
  BY <1>3, <1>4, <1>5

LEMMA GrantStep ==
  ASSUME IInv, UNCHANGED patient, GrantElsewhere PROVE IInv'
<1> USE DEF IInv, GrantElsewhere, screen, past
<1>1. TypeOK'
  BY MenuAssumption DEF TypeOK
<1>2. OrderInv' /\ CartInv' /\ DialogInv' /\ NothingIsDropped' /\ BootInv'
  BY FrameOrder, FrameCart, FrameDialog, FrameDropped, FrameBoot
<1>3. BalanceInv' /\ HistoryInv'
  BY FrameBalance, FrameHistory
<1> QED
  BY <1>1, <1>2, <1>3

-----------------------------------------------------------------------------
(* Loading the page *)

LEMMA OnMeStep ==
  ASSUME IInv, UNCHANGED patient, OnMe PROVE IInv'
<1> USE CallNames DEF IInv, account, past
<1>1. /\ wire["me"] # "idle" /\ boot = "waiting" /\ session = "checking"
      /\ UNCHANGED <<resolved, credits, history, dialog, placing, view>>
      /\ UNCHANGED <<cart, contents, told, account, latest, past>>
  BY DEF OnMe, BootInv, Live
<1>2. PICK C \in {{}, {"menus"}} :
        /\ Then("me", C)
        /\ \/ session' = "in" /\ boot' = "menus"
           \/ session' = "out" /\ boot' = "waiting" /\ C = {}
  BY <1>1 DEF OnMe
<1>3. /\ wire' \in [Calls -> {"idle", "sent", "served", "failed"}] /\ result' \in [Calls -> AccountType]
      /\ wire'["me"] = "idle"
      /\ wire'["menus"] = wire["menus"] \/ (wire'["menus"] = "sent" /\ boot' = "menus")
      /\ \A d \in Calls : d \notin {"me", "menus"} => wire'[d] = wire[d] /\ result'[d] = result[d]
  <2>1. CASE C = {"menus"}
    <3>1. Then("me", {"menus"}) /\ {"menus"} \in SUBSET Calls /\ boot' = "menus"
      BY <1>2, <2>1
    <3> QED
      BY <3>1, ThenFacts
  <2>2. CASE C = {}
    <3>1. Then("me", {}) /\ {} \in SUBSET Calls
      BY <1>2, <2>2
    <3> QED
      BY <3>1, ThenFacts
  <2> QED
    BY <2>1, <2>2
<1>4. TypeOK'
  BY <1>1, <1>2, <1>3 DEF TypeOK
<1>5. OrderInv'
  BY <1>1, <1>2, <1>3 DEF OrderInv, Live, IsBootstrapping
<1>6. CartInv' /\ DialogInv' /\ NothingIsDropped'
  BY <1>1, <1>3, FrameCart, FrameDialog, FrameDropped
<1>7. BootInv'
  BY <1>1, <1>2, <1>3 DEF BootInv, Live
<1>8. BalanceInv'
  BY <1>1, <1>2, <1>3 DEF BalanceInv
<1>9. HistoryInv'
  BY <1>1, <1>2, <1>3 DEF HistoryInv, Live
<1> QED
  BY <1>4, <1>5, <1>6, <1>7, <1>8, <1>9

LEMMA OnMenusStep ==
  ASSUME IInv, UNCHANGED patient, OnMenus PROVE IInv'
<1> USE CallNames DEF IInv, account, past
<1>1. /\ wire["menus"] # "idle" /\ boot = "menus" /\ contents = <<>> /\ cart = {}
      /\ UNCHANGED <<session, resolved, credits, history, dialog, placing, view>>
      /\ UNCHANGED <<cart, contents, told, account, latest, past>>
  BY DEF OnMenus, BootInv, Live, OrderInv, IsBootstrapping
<1>2. PICK C \in {{}, {"credits", "orders"}} :
        /\ Then("menus", C)
        /\ \/ boot' = "data"
           \/ boot' = "broken" /\ C = {}
  BY <1>1 DEF OnMenus
<1>3. /\ wire' \in [Calls -> {"idle", "sent", "served", "failed"}] /\ result' \in [Calls -> AccountType]
      /\ wire'["menus"] = "idle"
      /\ \A d \in {"credits", "orders"} : wire'[d] = wire[d] \/ (wire'[d] = "sent" /\ boot' = "data")
      /\ \A d \in Calls : d \notin {"menus", "credits", "orders"} => wire'[d] = wire[d]
      /\ \A d \in Calls : d # "menus" => result'[d] = result[d]
  <2>1. CASE C = {"credits", "orders"}
    <3>1. Then("menus", {"credits", "orders"}) /\ {"credits", "orders"} \in SUBSET Calls /\ boot' = "data"
      BY <1>2, <2>1
    <3> QED
      BY <3>1, ThenFacts
  <2>2. CASE C = {}
    <3>1. Then("menus", {}) /\ {} \in SUBSET Calls
      BY <1>2, <2>2
    <3> QED
      BY <3>1, ThenFacts
  <2> QED
    BY <2>1, <2>2
<1>4. wire["credits"] = "idle" /\ wire["orders"] = "idle" /\ resolved = {} /\ wire["me"] = "idle"
  BY <1>1 DEF BootInv, Live
<1>5. TypeOK'
  BY <1>1, <1>2, <1>3 DEF TypeOK
<1>6. OrderInv'
  BY <1>1, <1>2, <1>3 DEF OrderInv, Live, IsBootstrapping
<1>7. CartInv' /\ DialogInv' /\ NothingIsDropped'
  BY <1>1, <1>3, FrameCart, FrameDialog, FrameDropped
<1>8. BootInv'
  BY <1>1, <1>2, <1>3, <1>4 DEF BootInv, Live
<1>9. BalanceInv'
  BY <1>1, <1>2, <1>3, <1>4 DEF BalanceInv
<1>10. HistoryInv'
  <2>1. wire["order"] = "idle" /\ wire'["order"] = "idle" /\ ~dialog
    BY <1>1, <1>3 DEF OrderInv, Live, IsBootstrapping
  <2> QED
    BY <1>1, <1>2, <1>3, <1>4, <2>1 DEF HistoryInv, Live
<1> QED
  BY <1>5, <1>6, <1>7, <1>8, <1>9, <1>10

(* The second answer completes the bootstrap, the first failure ends it.   *)
LEMMA OnDataStep ==
  ASSUME IInv, UNCHANGED patient, NEW c \in {"credits", "orders"}, OnData(c) PROVE IInv'
<1> USE CallNames DEF IInv, account, past
<1>1. /\ wire[c] \in {"served", "failed"} /\ c \in Calls
      /\ Turn(c, {})
      /\ credits' = IF c = "credits" /\ wire[c] = "served" THEN result[c].balance ELSE credits
      /\ resolved' = IF wire[c] = "served" THEN resolved \union {c} ELSE resolved
      /\ UNCHANGED <<session, dialog, placing, view>>
      /\ UNCHANGED <<cart, contents, told, account, latest, past>>
  BY DEF OnData
<1>2. /\ boot' \in {boot, "done", "partial"}
      /\ boot \in {"data", "partial"} /\ (boot = "partial" => boot' = "partial")
      /\ boot' = "done" => boot = "data" /\ resolved' = {"credits", "orders"}
      /\ boot = "data" /\ wire[c] = "failed" => boot' = "partial"
      /\ history' = history \/ (history' = result["orders"].orders /\ boot = "data")
  <2>1. boot \in {"data", "partial"}
    BY <1>1 DEF BootInv, Live
  <2>2. boot = "data" => ~(wire[c] = "failed" /\ resolved' = {"credits", "orders"})
    BY <1>1 DEF BootInv, Live
  <2> QED
    BY <1>1, <2>1, <2>2 DEF OnData
<1>3. /\ wire' \in [Calls -> {"idle", "sent", "served", "failed"}] /\ wire'[c] = "idle"
      /\ \A d \in Calls : d # c => wire'[d] = wire[d]
  <2>1. {} \in SUBSET Calls
    OBVIOUS
  <2> QED
    BY <1>1, <2>1, TurnFacts
<1>4. /\ result' \in [Calls -> AccountType]
      /\ \A d \in Calls : d \notin {"credits", "orders"} => result'[d] = result[d]
      /\ result'["credits"] = IF c = "credits" THEN Empty ELSE result["credits"]
      /\ result'["orders"] \in {Empty, result["orders"]}
  <2>1. Empty \in AccountType
    BY MenuAssumption DEF Empty, AccountType
  <2>2. result \in [Calls -> AccountType]
    BY DEF TypeOK
  <2>3. PICK x \in {Empty, result["credits"]}, y \in {Empty, result["orders"]} :
          /\ result' = [result EXCEPT !["credits"] = x, !["orders"] = y]
          /\ x = IF c = "credits" THEN Empty ELSE result["credits"]
    BY <1>1 DEF OnData
  <2> QED
    BY <2>1, <2>2, <2>3
<1>5. TypeOK'
  <2>1. history' \subseteq Orders /\ credits' \in 0..MaxBalance /\ resolved' \subseteq {"credits", "orders"}
    BY <1>1, <1>2 DEF TypeOK, AccountType
  <2> QED
    BY <1>1, <1>2, <1>3, <1>4, <2>1 DEF TypeOK
<1>6. OrderInv'
  BY <1>1, <1>2, <1>3 DEF OrderInv, Live, IsBootstrapping
<1>7. CartInv' /\ DialogInv' /\ NothingIsDropped'
  BY <1>1, <1>3, FrameCart, FrameDialog, FrameDropped
<1>8. BootInv'
  BY <1>1, <1>2, <1>3 DEF BootInv, Live
<1>9. BalanceInv'
  <2> SUFFICES ASSUME boot' # "partial" PROVE BalanceInv'
    BY DEF BalanceInv
  <2>1. boot = "data" /\ wire[c] = "served"
    BY <1>1, <1>2
  <2>2. wire["order"] = "idle"
    BY <2>1 DEF OrderInv, IsBootstrapping, Live
  <2> QED
    BY <1>1, <1>3, <1>4, <2>1, <2>2 DEF BalanceInv
<1>10. HistoryInv'
  <2> SUFFICES ASSUME patient, session # "out" PROVE HistoryInv'
    BY <1>1 DEF HistoryInv
  <2>1. boot = "data" => contents = <<>>
    BY DEF OrderInv, IsBootstrapping
  <2>2. CASE contents = <<>>
    <3>1. history' = {} /\ latest.orders = {} /\ placed = {}
          /\ \A d \in HistoryCalls : result'[d].orders = {}
      BY <1>2, <1>4, <2>2 DEF HistoryInv, Empty
    <3> QED
      BY <1>1, <1>3, <2>2, <3>1 DEF HistoryInv, Live
  <2>3. CASE contents # <<>>
    <3>1. c = "credits" /\ history' = history /\ wire["orders"] = "idle"
      BY <1>1, <1>2, <2>1, <2>3 DEF HistoryInv, Live
    <3> QED
      BY <1>1, <1>3, <1>4, <2>3, <3>1 DEF HistoryInv, Live
  <2> QED
    BY <2>2, <2>3
<1> QED
  BY <1>5, <1>6, <1>7, <1>8, <1>9, <1>10

-----------------------------------------------------------------------------
(* The cart *)

(* A pick is new, so that it is in no reservation.                         *)
LEMMA CartStep ==
  ASSUME IInv, UNCHANGED patient, NEW p \in Picks, AddToCart(p) \/ RemoveFromCart(p) PROVE IInv'
<1> USE CallNames DEF IInv, AddToCart, RemoveFromCart, screen, account
<1>1. /\ UNCHANGED <<screen, wire, result, contents, told, account, latest>>
      /\ ~dialog /\ (IsBootstrapping => p \in cart)
      /\ \/ p \notin added /\ cart' = cart \union {p} /\ added' = added \union {p} /\ removed' = removed
         \/ cart' = cart \ {p} /\ p \in cart /\ removed' = removed \union {p} /\ added' = added
      /\ late' = late \/ (late' = late \union {p} /\ Live("order") /\ added' = added \union {p})
      /\ Live("order") => cart' \subseteq cart \union late'
      /\ wire["order"] = "idle" => late' = late
  BY DEF Offered, InTray, IsBootstrapping, Live
<1> HIDE DEF AddToCart, RemoveFromCart
<1>2. TypeOK'
  BY <1>1 DEF TypeOK, CartInv
<1>3. OrderInv'
  BY <1>1 DEF OrderInv, Live, IsBootstrapping
<1>4. CartInv'
  <2>1. DOMAIN told = DOMAIN contents
    BY Lists
  <2> QED
    BY <1>1, <2>1 DEF CartInv
<1>5. DialogInv'
  BY <1>1 DEF DialogInv, OrderInv, Live
<1>6. NothingIsDropped'
  <2>1. patient => late' = late
    BY <1>1 DEF DialogInv, OrderInv
  <2> QED
    BY <1>1, <2>1 DEF NothingIsDropped
<1>7. BootInv' /\ BalanceInv' /\ HistoryInv'
  BY <1>1, FrameBoot, FrameBalance, FrameHistory
<1> QED
  BY <1>2, <1>3, <1>4, <1>5, <1>6, <1>7

LEMMA DialogStep ==
  ASSUME IInv, UNCHANGED patient, OpenConfirm \/ CloseConfirm PROVE IInv'
<1> USE CallNames DEF IInv, OpenConfirm, CloseConfirm, SetDialog, Awaited, account, past
<1>1. /\ UNCHANGED <<session, boot, resolved, credits, history, placing, view>>
      /\ UNCHANGED <<cart, wire, result, contents, told, account, latest, past>>
      /\ \/ /\ dialog' = TRUE /\ ~IsBootstrapping
            /\ patient => \A c \in HistoryCalls : wire[c] = "idle"
         \/ dialog' = FALSE /\ (patient => ~placing)
  BY DEF CanReserve
<1> HIDE DEF OpenConfirm, CloseConfirm
<1>2. TypeOK'
  BY <1>1 DEF TypeOK
<1>3. OrderInv'
  BY <1>1 DEF OrderInv, Live, IsBootstrapping
<1>4. DialogInv'
  BY <1>1 DEF DialogInv, OrderInv, Live
<1>5. CartInv' /\ NothingIsDropped' /\ BootInv' /\ BalanceInv'
  BY <1>1, FrameCart, FrameDropped, FrameBoot, FrameBalance
<1>6. HistoryInv'
  BY <1>1 DEF HistoryInv, Live
<1> QED
  BY <1>2, <1>3, <1>4, <1>5, <1>6

-----------------------------------------------------------------------------
(* Reserving *)

(* The cart is reserved as it is.                                          *)
LEMMA PlaceOrderStep ==
  ASSUME IInv, UNCHANGED patient, PlaceOrder PROVE IInv'
<1> USE CallNames DEF IInv, ConfirmDialog, account, past
<1>1. /\ dialog /\ ~placing /\ placing' = TRUE /\ Len(contents) < MaxOrders
      /\ contents' = Append(contents, cart) /\ told' = Append(told, "waiting")
      /\ Then("order", {"order"})
      /\ UNCHANGED <<session, boot, resolved, credits, history, dialog, view>>
      /\ UNCHANGED <<cart, account, latest, past>>
  BY DEF PlaceOrder
<1> DEFINE n == Len(contents) + 1
<1>2. /\ contents' \in Seq(SUBSET Picks) /\ Len(contents') = n
      /\ told' \in Seq({"waiting", "ok", "failed"}) /\ Len(told') = n
      /\ DOMAIN contents' = 1..n /\ DOMAIN told' = 1..n /\ contents' # <<>>
      /\ contents'[n] = cart /\ told'[n] = "waiting"
      /\ \A i \in 1..Len(contents) : contents'[i] = contents[i] /\ told'[i] = told[i]
  <2>1. cart \in SUBSET Picks /\ contents \in Seq(SUBSET Picks) /\ told \in Seq({"waiting", "ok", "failed"})
    BY DEF TypeOK, OrderInv
  <2>2. Len(contents) \in Nat /\ Len(told) = Len(contents)
    BY Lists
  <2>3. /\ contents' \in Seq(SUBSET Picks) /\ Len(contents') = n
        /\ contents'[n] = cart /\ \A i \in 1..Len(contents) : contents'[i] = contents[i]
    BY <1>1, <2>1, <2>2, AppendProperties
  <2>4. /\ told' \in Seq({"waiting", "ok", "failed"}) /\ Len(told') = n
        /\ told'[n] = "waiting" /\ \A i \in 1..Len(contents) : told'[i] = told[i]
    BY <1>1, <2>1, <2>2, AppendProperties
  <2>5. DOMAIN contents' = 1..n /\ DOMAIN told' = 1..n
    BY <2>3, <2>4, LenProperties
  <2>6. contents' # <<>>
    BY <2>2, <2>3, EmptySeq
  <2> QED
    BY <2>3, <2>4, <2>5, <2>6
<1>3. /\ wire' \in [Calls -> {"idle", "sent", "served", "failed"}] /\ result' \in [Calls -> AccountType]
      /\ wire'["order"] = "sent"
      /\ \A d \in Calls : d # "order" => wire'[d] = wire[d] /\ result'[d] = result[d]
  <2>1. {"order"} \in SUBSET Calls
    OBVIOUS
  <2> QED
    BY <1>1, <2>1, ThenFacts
<1>4. n \in Nat /\ n \in 1..MaxOrders /\ 1..n = (1..Len(contents)) \union {n}
  BY <1>1, Lists, MenuAssumption
<1>5. wire["order"] = "idle" /\ wire["after"] = "idle" /\ ~IsBootstrapping
      /\ \A i \in 1..Len(contents) : told[i] # "waiting"
  BY <1>1, Lists DEF OrderInv, Live
<1> HIDE DEF n
<1>6. TypeOK'
  <2>1. \A i \in DOMAIN contents' : contents'[i] \subseteq Picks
    BY <1>2, <1>4, Lists DEF TypeOK
  <2>2. \A i \in DOMAIN told' : told'[i] \in {"waiting", "ok", "failed"}
    BY <1>2, <1>4, Lists
  <2>3. Len(contents') \in 0..MaxOrders
    BY <1>2, <1>4
  <2> QED
    BY <1>1, <1>2, <1>3, <2>1, <2>2, <2>3 DEF TypeOK
<1>7. OrderInv'
  <2>1. \A i \in DOMAIN told' : told'[i] = "waiting" <=> i = n
    BY <1>2, <1>4, <1>5, Lists
  <2>2. placed' \subseteq DOMAIN contents'
    BY <1>1, <1>2, <1>4, Lists DEF OrderInv
  <2> QED
    BY <1>1, <1>2, <1>3, <1>5, <2>1, <2>2 DEF OrderInv, Live, IsBootstrapping
<1>8. CartInv'
  BY <1>1, <1>2, <1>4, Lists DEF CartInv
<1>9. DialogInv'
  BY <1>1, <1>2 DEF DialogInv
<1>10. NothingIsDropped'
  BY <1>1, <1>2, <1>4, Lists DEF NothingIsDropped
<1>11. BootInv'
  BY <1>1, <1>3, FrameBoot
<1>12. BalanceInv'
  BY <1>1, <1>3, <1>5 DEF BalanceInv
<1>13. HistoryInv'
  BY <1>1, <1>2, <1>3 DEF HistoryInv, Live
<1> QED
  BY <1>6, <1>7, <1>8, <1>9, <1>10, <1>11, <1>12, <1>13

(* The answer to the last reservation is told.                             *)
LEMMA ToldFacts ==
  ASSUME OrderInv, Live("order"), NEW a \in {"ok", "failed"},
         told' = [told EXCEPT ![Len(told)] = a]
  PROVE  /\ told' \in Seq({"waiting", "ok", "failed"}) /\ Len(told') = Len(told)
         /\ DOMAIN told' = DOMAIN told
         /\ Len(contents) \in DOMAIN told /\ told'[Len(contents)] = a
         /\ \A i \in DOMAIN told : i # Len(contents) => told'[i] = told[i]
         /\ \A i \in DOMAIN told : told'[i] # "waiting"
<1> DEFINE n == Len(told)
<1>1. told \in Seq({"waiting", "ok", "failed"}) /\ n = Len(contents) /\ n \in 1..n /\ DOMAIN told = 1..n
  <2>1. contents # <<>>
    BY DEF OrderInv
  <2> QED
    BY <2>1, Lists DEF OrderInv
<1>2. /\ told' \in Seq({"waiting", "ok", "failed"}) /\ Len(told') = n
      /\ \A i \in 1..n : told'[i] = IF i = n THEN a ELSE told[i]
  BY <1>1, ExceptSeq
<1>3. DOMAIN told' = 1..n
  BY <1>2, LenProperties
<1>4. \A i \in 1..n : i # n => told[i] # "waiting"
  BY <1>1 DEF OrderInv
<1> QED
  BY <1>1, <1>2, <1>3, <1>4

(* A confirmed reservation takes the cart with it.                         *)
LEMMA OnOrderedStep ==
  ASSUME IInv, UNCHANGED patient, OnOrdered PROVE IInv'
<1> USE CallNames DEF IInv, account, past
<1>1. /\ wire["order"] = "served" /\ Live("order") /\ cart' = {}
      /\ credits' = result["order"].balance /\ told' = [told EXCEPT ![Len(told)] = "ok"]
      /\ Then("order", {"after"})
      /\ UNCHANGED <<session, boot, resolved, history, dialog, placing, view>>
      /\ UNCHANGED <<contents, account, latest, past>>
  BY DEF OnOrdered, Live
<1>2. contents # <<>> /\ placing /\ ~IsBootstrapping
  BY <1>1 DEF OrderInv
<1>3. /\ told' \in Seq({"waiting", "ok", "failed"}) /\ Len(told') = Len(told)
      /\ DOMAIN told' = DOMAIN told
      /\ Len(contents) \in DOMAIN told /\ told'[Len(contents)] = "ok"
      /\ \A i \in DOMAIN told : i # Len(contents) => told'[i] = told[i]
      /\ \A i \in DOMAIN told : told'[i] # "waiting"
  BY <1>1, ToldFacts
<1>4. /\ wire' \in [Calls -> {"idle", "sent", "served", "failed"}] /\ result' \in [Calls -> AccountType]
      /\ wire'["order"] = "idle" /\ wire'["after"] = "sent"
      /\ \A d \in Calls : d \notin {"order", "after"} => wire'[d] = wire[d]
      /\ \A d \in Calls : d # "order" => result'[d] = result[d]
  <2>1. {"after"} \in SUBSET Calls
    OBVIOUS
  <2> QED
    BY <1>1, <2>1, ThenFacts
<1>5. DOMAIN told = DOMAIN contents /\ DOMAIN told = 1..Len(contents) /\ Len(contents) \in Nat
  BY Lists
<1>6. TypeOK'
  <2>1. \A i \in DOMAIN told' : told'[i] \in {"waiting", "ok", "failed"}
    BY <1>3, <1>5, ElementOfSeq, LenProperties
  <2>2. credits' \in 0..MaxBalance
    BY <1>1 DEF TypeOK, AccountType
  <2> QED
    BY <1>1, <1>3, <1>4, <2>1, <2>2 DEF TypeOK
<1>7. OrderInv'
  BY <1>1, <1>2, <1>3, <1>4 DEF OrderInv, Live, IsBootstrapping
<1>8. CartInv'
  <2>1. \A i, j \in DOMAIN told : i < j => i # Len(contents)
    BY <1>5
  <2> QED
    BY <1>1, <1>3, <1>5, <2>1 DEF CartInv
<1>9. DialogInv'
  BY <1>1, <1>4 DEF DialogInv, Live
<1>10. NothingIsDropped'
  BY <1>1, <1>3 DEF NothingIsDropped, DialogInv
<1>11. BootInv'
  BY <1>1, <1>4, FrameBoot
<1>12. BalanceInv'
  <2>1. boot # "partial" => wire["credits"] = "idle"
    BY <1>2 DEF BootInv, Live, IsBootstrapping
  <2> QED
    BY <1>1, <1>4, <2>1 DEF BalanceInv
<1>13. HistoryInv'
  BY <1>1, <1>2, <1>4 DEF HistoryInv, Live
<1> QED
  BY <1>6, <1>7, <1>8, <1>9, <1>10, <1>11, <1>12, <1>13

(* A failed one leaves the cart for another try.                           *)
LEMMA OnOrderFailedStep ==
  ASSUME IInv, UNCHANGED patient, OnOrderFailed PROVE IInv'
<1> USE CallNames DEF IInv, account, past
<1>1. /\ wire["order"] = "failed" /\ Live("order") /\ placing' = FALSE
      /\ told' = [told EXCEPT ![Len(told)] = "failed"]
      /\ Then("order", {})
      /\ UNCHANGED <<session, boot, resolved, credits, history, dialog, view>>
      /\ UNCHANGED <<cart, contents, account, latest, past>>
  BY DEF OnOrderFailed, Live
<1>2. contents # <<>> /\ placing /\ ~IsBootstrapping /\ wire["after"] = "idle"
  BY <1>1 DEF OrderInv, Live
<1>3. /\ told' \in Seq({"waiting", "ok", "failed"}) /\ Len(told') = Len(told)
      /\ DOMAIN told' = DOMAIN told
      /\ Len(contents) \in DOMAIN told /\ told'[Len(contents)] = "failed"
      /\ \A i \in DOMAIN told : i # Len(contents) => told'[i] = told[i]
      /\ \A i \in DOMAIN told : told'[i] # "waiting"
  BY <1>1, ToldFacts
<1>4. /\ wire' \in [Calls -> {"idle", "sent", "served", "failed"}] /\ result' \in [Calls -> AccountType]
      /\ wire'["order"] = "idle"
      /\ \A d \in Calls : d # "order" => wire'[d] = wire[d] /\ result'[d] = result[d]
  <2>1. {} \in SUBSET Calls
    OBVIOUS
  <2> QED
    BY <1>1, <2>1, ThenFacts
<1>5. DOMAIN told = DOMAIN contents /\ DOMAIN told = 1..Len(contents) /\ Len(contents) \in Nat
  BY Lists
<1>6. TypeOK'
  <2>1. \A i \in DOMAIN told' : told'[i] \in {"waiting", "ok", "failed"}
    BY <1>3, <1>5, ElementOfSeq, LenProperties
  <2> QED
    BY <1>1, <1>3, <1>4, <2>1 DEF TypeOK
<1>7. OrderInv'
  BY <1>1, <1>2, <1>3, <1>4 DEF OrderInv, Live, IsBootstrapping
<1>8. CartInv'
  <2>1. \A i \in DOMAIN told : told'[i] = "ok" => told[i] = "ok"
    BY <1>3
  <2> QED
    BY <1>1, <1>3, <2>1 DEF CartInv
<1>9. DialogInv'
  BY <1>1, <1>4 DEF DialogInv, Live
<1>10. NothingIsDropped'
  <2>1. \A i \in DOMAIN told : told[i] = "ok" => told'[i] = "ok"
    BY <1>1, <1>3, <1>5 DEF OrderInv
  <2> QED
    BY <1>1, <1>3, <2>1 DEF NothingIsDropped
<1>11. BootInv'
  BY <1>1, <1>4, FrameBoot
<1>12. BalanceInv'
  BY <1>1, <1>4, FrameBalance
<1>13. HistoryInv'
  BY <1>1, <1>2, <1>4 DEF HistoryInv, Live
<1> QED
  BY <1>6, <1>7, <1>8, <1>9, <1>10, <1>11, <1>12, <1>13

-----------------------------------------------------------------------------
(* The history, and leaving *)

(* A call for the history is over, and what it read is shown.              *)
LEMMA ShowFacts ==
  ASSUME IInv, NEW c \in HistoryCalls, ShowHistory(c)
  PROVE  /\ wire[c] \in {"served", "failed"}
         /\ wire' \in [Calls -> {"idle", "sent", "served", "failed"}] /\ result' \in [Calls -> AccountType]
         /\ wire'[c] = "idle" /\ \A d \in Calls : d # c => wire'[d] = wire[d] /\ result'[d] = result[d]
         /\ result'[c].orders = {}
         /\ history' = IF wire[c] = "served" THEN result[c].orders ELSE history
         /\ history' \subseteq Orders
<1> USE CallNames DEF IInv
<1>1. Then(c, {}) /\ wire[c] \in {"served", "failed"} /\ c \in Calls /\ {} \in SUBSET Calls
      /\ history' = IF wire[c] = "served" THEN result[c].orders ELSE history
  BY DEF ShowHistory
<1>2. history' \subseteq Orders
  BY <1>1 DEF TypeOK, AccountType
<1> QED
  BY <1>1, <1>2, ThenFacts DEF Empty

(* A member who waits has the one call for the history under way.          *)
LEMMA ShowHistoryInv ==
  ASSUME IInv, UNCHANGED <<patient, session, contents, latest, placed>>,
         NEW c \in HistoryCalls, ShowHistory(c),
         dialog' /\ ~placing' => dialog /\ ~placing
  PROVE  HistoryInv'
<1> USE CallNames DEF IInv
<1> SUFFICES ASSUME patient, session # "out" PROVE HistoryInv'
  BY DEF HistoryInv
<1>1. /\ wire[c] \in {"served", "failed"} /\ wire'[c] = "idle"
      /\ \A d \in Calls : d # c => wire'[d] = wire[d] /\ result'[d] = result[d]
      /\ result'[c].orders = {}
      /\ history' = IF wire[c] = "served" THEN result[c].orders ELSE history
  BY ShowFacts
<1>2. wire'["order"] = wire["order"]
  BY <1>1
<1>3. CASE contents = <<>>
  BY <1>1, <1>2, <1>3 DEF HistoryInv, Live
<1>4. CASE contents # <<>>
  <2>1. \A d \in HistoryCalls : d # c => wire[d] = "idle"
    BY <1>1, <1>4 DEF HistoryInv, Live
  <2>2. history' = latest.orders
    BY <1>1, <1>4, <2>1 DEF HistoryInv
  <2> QED
    BY <1>1, <1>2, <1>4, <2>1, <2>2 DEF HistoryInv, Live
<1> QED
  BY <1>3, <1>4

(* The refresh after a reservation closes the dialog.                      *)
LEMMA OnRefreshedStep ==
  ASSUME IInv, UNCHANGED patient, OnRefreshed PROVE IInv'
<1> USE CallNames DEF IInv, account, past
<1>1. /\ ShowHistory("after") /\ placing' = FALSE /\ dialog' = FALSE
      /\ UNCHANGED <<session, boot, resolved, credits, view>>
      /\ UNCHANGED <<cart, contents, told, account, latest, past>>
  BY DEF OnRefreshed
<1>2. /\ wire["after"] \in {"served", "failed"} /\ wire'["after"] = "idle"
      /\ wire' \in [Calls -> {"idle", "sent", "served", "failed"}] /\ result' \in [Calls -> AccountType]
      /\ \A d \in Calls : d # "after" => wire'[d] = wire[d] /\ result'[d] = result[d]
      /\ history' \subseteq Orders
  BY <1>1, ShowFacts
<1>3. TypeOK'
  BY <1>1, <1>2 DEF TypeOK
<1>4. OrderInv'
  BY <1>1, <1>2 DEF OrderInv, Live, IsBootstrapping
<1>5. DialogInv'
  BY <1>1, <1>2 DEF DialogInv, OrderInv, Live
<1>6. CartInv' /\ NothingIsDropped' /\ BootInv' /\ BalanceInv'
  BY <1>1, <1>2, FrameCart, FrameDropped, FrameBoot, FrameBalance
<1>7. HistoryInv'
  BY <1>1, ShowHistoryInv
<1> QED
  BY <1>3, <1>4, <1>5, <1>6, <1>7

LEMMA OnHistoryStep ==
  ASSUME IInv, UNCHANGED patient, NEW h \in Refreshes, OnHistory(h) PROVE IInv'
<1> USE CallNames DEF IInv, account, past
<1>1. /\ ShowHistory(h) /\ h \in HistoryCalls
      /\ h \notin {"me", "menus", "credits", "orders", "order", "after"}
      /\ UNCHANGED <<session, boot, resolved, credits, dialog, placing, view>>
      /\ UNCHANGED <<cart, contents, told, account, latest, past>>
  BY DEF OnHistory
<1>2. /\ wire' \in [Calls -> {"idle", "sent", "served", "failed"}] /\ result' \in [Calls -> AccountType]
      /\ \A d \in Calls : d # h => wire'[d] = wire[d] /\ result'[d] = result[d]
      /\ history' \subseteq Orders
  BY <1>1, ShowFacts
<1>3. TypeOK'
  BY <1>1, <1>2 DEF TypeOK
<1>4. /\ OrderInv' /\ DialogInv' /\ CartInv' /\ NothingIsDropped' /\ BootInv' /\ BalanceInv'
  BY <1>1, <1>2, FrameOrder, FrameDialog, FrameCart, FrameDropped, FrameBoot, FrameBalance
<1>5. HistoryInv'
  BY <1>1, ShowHistoryInv
<1> QED
  BY <1>3, <1>4, <1>5

(* The history is asked for while the dialog is closed.                    *)
LEMMA OpenHistoryStep ==
  ASSUME IInv, UNCHANGED patient, NEW h \in Refreshes, OpenHistory(h) PROVE IInv'
<1> USE CallNames DEF IInv, account, past
<1>1. /\ ~dialog /\ view' = "history" /\ Then(h, {h}) /\ wire[h] = "idle"
      /\ patient => \A c \in HistoryCalls : wire[c] = "idle"
      /\ h \in HistoryCalls /\ h \notin {"me", "menus", "credits", "orders", "order", "after"}
      /\ UNCHANGED <<session, boot, resolved, credits, history, dialog, placing>>
      /\ UNCHANGED <<cart, contents, told, account, latest, past>>
  BY DEF OpenHistory, Awaited
<1>2. /\ wire' \in [Calls -> {"idle", "sent", "served", "failed"}] /\ result' \in [Calls -> AccountType]
      /\ wire'[h] = "sent" /\ result'[h].orders = {}
      /\ \A d \in Calls : d # h => wire'[d] = wire[d] /\ result'[d] = result[d]
  <2>1. {h} \in SUBSET Calls
    OBVIOUS
  <2> QED
    BY <1>1, <2>1, ThenFacts DEF Empty
<1>3. TypeOK'
  BY <1>1, <1>2 DEF TypeOK
<1>4. /\ OrderInv' /\ DialogInv' /\ CartInv' /\ NothingIsDropped' /\ BootInv' /\ BalanceInv'
  BY <1>1, <1>2, FrameOrder, FrameDialog, FrameCart, FrameDropped, FrameBoot, FrameBalance
<1>5. HistoryInv'
  <2> SUFFICES ASSUME patient, session # "out" PROVE HistoryInv'
    BY <1>1 DEF HistoryInv
  <2>1. wire["order"] = "idle" /\ \A c \in HistoryCalls : wire[c] = "idle"
    BY <1>1 DEF OrderInv, DialogInv, Live
  <2> QED
    BY <1>1, <1>2, <2>1 DEF HistoryInv, Live
<1> QED
  BY <1>3, <1>4, <1>5

LEMMA OpenMenuStep ==
  ASSUME IInv, UNCHANGED patient, OpenMenu PROVE IInv'
<1> USE DEF IInv, OpenMenu, account, past
<1>1. TypeOK'
  BY DEF TypeOK
<1>2. OrderInv' /\ CartInv' /\ DialogInv' /\ NothingIsDropped' /\ BootInv' /\ BalanceInv' /\ HistoryInv'
  BY FrameOrder, FrameCart, FrameDialog, FrameDropped, FrameBoot, FrameBalance, FrameHistory
<1> QED
  BY <1>1, <1>2

(* Signing out empties the history on the screen.                          *)
LEMMA SignOutStep ==
  ASSUME IInv, UNCHANGED patient, SignOut PROVE IInv'
<1> USE CallNames DEF IInv, SignOut, account, past
<1>1. TypeOK'
  BY DEF TypeOK
<1>2. OrderInv' /\ CartInv' /\ DialogInv' /\ NothingIsDropped' /\ BalanceInv'
  BY FrameOrder, FrameCart, FrameDialog, FrameDropped, FrameBalance
<1>3. BootInv'
  BY DEF BootInv, Live
<1>4. HistoryInv'
  BY DEF HistoryInv
<1> QED
  BY <1>1, <1>2, <1>3, <1>4

-----------------------------------------------------------------------------
LEMMA StepInv == IInv /\ [Next]_vars => IInv'
<1> SUFFICES ASSUME IInv, [Next]_vars PROVE IInv'
  OBVIOUS
<1>1. CASE UNCHANGED vars
  <2> USE <1>1 DEF IInv, vars, moving, screen, account, past
  <2>1. TypeOK'
    BY DEF TypeOK
  <2>2. OrderInv' /\ CartInv' /\ DialogInv' /\ NothingIsDropped' /\ BootInv' /\ BalanceInv' /\ HistoryInv'
    BY FrameOrder, FrameCart, FrameDialog, FrameDropped, FrameBoot, FrameBalance, FrameHistory
  <2> QED
    BY <2>1, <2>2
<1>2. CASE Next
  <2>1. UNCHANGED patient /\ Step
    BY <1>2 DEF Next
  <2>2. CASE Serve
    BY <2>1, <2>2, ServeOrderStep, ServeReadStep DEF Serve
  <2>3. CASE GrantElsewhere
    BY <2>1, <2>3, GrantStep
  <2>4. CASE \E c \in Calls : FailCall(c)
    BY <2>1, <2>4, FailStep
  <2>5. CASE OnAnswer
    BY <2>1, <2>5, OnMeStep, OnMenusStep, OnDataStep, OnOrderedStep, OnOrderFailedStep,
       OnRefreshedStep, OnHistoryStep DEF OnAnswer
  <2>6. CASE \E p \in Picks : AddToCart(p) \/ RemoveFromCart(p)
    BY <2>1, <2>6, CartStep
  <2>7. CASE OpenConfirm \/ CloseConfirm
    BY <2>1, <2>7, DialogStep
  <2>8. CASE PlaceOrder
    BY <2>1, <2>8, PlaceOrderStep
  <2>9. CASE \E h \in Refreshes : OpenHistory(h)
    BY <2>1, <2>9, OpenHistoryStep
  <2>10. CASE OpenMenu \/ SignOut
    BY <2>1, <2>10, OpenMenuStep, SignOutStep
  <2> QED
    BY <2>1, <2>2, <2>3, <2>4, <2>5, <2>6, <2>7, <2>8, <2>9, <2>10 DEF Step
<1> QED
  BY <1>1, <1>2

(* The page, its calls and the API never leave the inductive invariant,    *)
(* whatever is clicked, served, answered or lost in MenuProvider.          *)
THEOREM Invariance == Spec => []IInv
BY InitInv, StepInv, PTL DEF Spec

-----------------------------------------------------------------------------
(* Every state of MenuProvider has its type, for any picks, number of      *)
(* reservations and refreshes.                                             *)
THEOREM TypeCorrect == Spec => []TypeOK
<1>1. IInv => TypeOK
  BY DEF IInv
<1> QED
  BY <1>1, Invariance, PTL

(* What was put into the cart once is stored in two reservations only when *)
(* placeOrder told the member that the first had failed: a disabled button *)
(* and a cart that the answer empties are enough, also for a member who    *)
(* dismisses the dialog and goes on clicking.                              *)
THEOREM ReservedOnce == Spec => []ReservedOnceUnlessFailed
<1>1. IInv => ReservedOnceUnlessFailed
  <2> SUFFICES ASSUME IInv, NEW i \in placed, NEW j \in placed,
                      i < j, contents[i] \intersect contents[j] # {}
               PROVE  told[i] = "failed"
    BY DEF ReservedOnceUnlessFailed
  <2>1. OrderInv /\ CartInv
    BY DEF IInv
  <2>2. i \in 1..Len(contents) /\ j \in 1..Len(contents) /\ Len(contents) \in Nat
        /\ DOMAIN told = 1..Len(contents) /\ Len(told) = Len(contents)
        /\ told[i] \in {"waiting", "ok", "failed"}
    BY <2>1, Lists DEF OrderInv
  <2>3. told[i] # "waiting"
    BY <2>1, <2>2 DEF OrderInv
  <2>4. told[i] # "ok"
    BY <2>1, <2>2 DEF CartInv
  <2> QED
    BY <2>2, <2>3, <2>4
<1> QED
  BY <1>1, Invariance, PTL

(* A member who waits for the answers loses no pick: the answer that       *)
(* empties the cart is that of a reservation of the very same cart.        *)
THEOREM NothingDropped == Spec => []NothingIsDropped
<1>1. IInv => NothingIsDropped
  BY DEF IInv
<1> QED
  BY <1>1, Invariance, PTL

(* When all is quiet, the screen of a member who waits shows the newest    *)
(* balance and the newest orders that refreshCredits, refreshOrderHistory  *)
(* or placeOrder were answered with.                                       *)
THEOREM Newest == Spec => []NewestAnswerIsShown
<1>1. IInv => NewestAnswerIsShown
  <2> SUFFICES ASSUME IInv, patient, session = "in", boot = "done", \A c \in Calls : wire[c] = "idle"
               PROVE  credits = latest.balance /\ history = latest.orders
    BY DEF NewestAnswerIsShown
  <2>1. BalanceInv /\ HistoryInv
    BY DEF IInv
  <2>2. credits = latest.balance
    BY <2>1, CallNames DEF BalanceInv
  <2>3. history = latest.orders
    BY <2>1, CallNames DEF HistoryInv
  <2> QED
    BY <2>2, <2>3
<1> QED
  BY <1>1, Invariance, PTL

-----------------------------------------------------------------------------
(* Loading and reserving wait for a call that is under way: a page that is *)
(* asking for the menus has sent for them, one that is asking for its data *)
(* lacks an answer and has sent for it, and the button stays disabled only *)
(* with a reservation or the refresh after it on the way.                  *)
WaitInv ==
  /\ session = "in" => boot # "waiting"
  /\ boot = "menus" => Live("menus")
  /\ boot = "data" =>
       /\ resolved # {"credits", "orders"}
       /\ \A c \in {"credits", "orders"} : c \in resolved \/ Live(c)
  /\ placing => Live("order") \/ Live("after")

(* The calls that loading and reserving wait for.                          *)
Waited == {"menus", "credits", "orders", "order", "after"}

(* Nothing but the page's own continuations and the click that reserves    *)
(* moves the bootstrap and the button, or takes a call off the wire.       *)
Stays ==
  /\ UNCHANGED <<boot, resolved, placing>> /\ session' \in {session, "out"}
  /\ \A c \in Waited : \/ wire'[c] = wire[c]
                       \/ wire[c] = "sent" /\ wire'[c] \in {"served", "failed"}

LEMMA Moves ==
  ASSUME IInv, [Next]_vars
  PROVE  \/ Stays \/ OnMe \/ OnMenus \/ \E c \in {"credits", "orders"} : OnData(c)
         \/ PlaceOrder \/ OnOrdered \/ OnOrderFailed \/ OnRefreshed
<1> USE CallNames DEF Waited, Stays, screen, account, past
<1>1. TypeOK
  BY DEF IInv
<1>2. CASE UNCHANGED vars
  BY <1>2 DEF vars, moving
<1>3. CASE Serve \/ \E c \in Calls : FailCall(c)
  <2>1. CASE ServeOrder
    BY <1>1, <2>1 DEF ServeOrder, Served, TypeOK
  <2>2. ASSUME NEW c \in Reads, ServeRead(c) PROVE Stays
    BY <1>1, <2>2 DEF ServeRead, Served, TypeOK
  <2>3. ASSUME NEW c \in Calls, FailCall(c) PROVE Stays
    BY <1>1, <2>3 DEF FailCall, TypeOK
  <2> QED
    BY <1>3, <2>1, <2>2, <2>3 DEF Serve
<1>4. CASE GrantElsewhere \/ OpenConfirm \/ CloseConfirm \/ OpenMenu \/ SignOut
  BY <1>4 DEF GrantElsewhere, OpenConfirm, CloseConfirm, SetDialog, OpenMenu, SignOut
<1>5. CASE \E p \in Picks : AddToCart(p) \/ RemoveFromCart(p)
  BY <1>5 DEF AddToCart, RemoveFromCart
<1>6. ASSUME NEW h \in Refreshes, OpenHistory(h) \/ OnHistory(h) PROVE Stays
  <2>1. Then(h, {h}) \/ Then(h, {})
    BY <1>6 DEF OpenHistory, OnHistory, ShowHistory
  <2>2. \A c \in Waited : wire'[c] = wire[c]
    BY <1>1, <2>1, ThenFacts
  <2> QED
    BY <1>6, <2>2 DEF OpenHistory, OnHistory
<1>7. CASE Next
  BY <1>3, <1>4, <1>5, <1>6, <1>7 DEF Next, Step, OnAnswer
<1> QED
  BY <1>2, <1>7

(* What the moves do to the bootstrap, the button and the wire.            *)
LEMMA OnMeFacts ==
  ASSUME IInv, OnMe
  PROVE  /\ boot = "waiting" /\ UNCHANGED <<resolved, placing>>
         /\ \/ session' = "in" /\ boot' = "menus" /\ wire'["menus"] = "sent"
            \/ session' = "out" /\ boot' = boot
         /\ \A c \in Waited \ {"menus"} : wire'[c] = wire[c]
<1> USE CallNames DEF Waited
<1>1. TypeOK /\ BootInv
  BY DEF IInv
<1>2. CASE wire["me"] = "served" /\ session' = "in" /\ boot' = "menus" /\ Then("me", {"menus"})
  BY <1>1, <1>2, ThenFacts DEF OnMe, BootInv, Live
<1>3. CASE wire["me"] = "failed" /\ session' = "out" /\ Then("me", {}) /\ UNCHANGED boot
  BY <1>1, <1>3, ThenFacts DEF OnMe, BootInv, Live
<1> QED
  BY <1>2, <1>3 DEF OnMe

LEMMA OnMenusFacts ==
  ASSUME IInv, OnMenus
  PROVE  /\ boot = "menus" /\ resolved = {} /\ UNCHANGED <<session, resolved, placing>>
         /\ \/ boot' = "data" /\ wire'["credits"] = "sent" /\ wire'["orders"] = "sent"
            \/ boot' = "broken"
         /\ wire'["menus"] = "idle"
         /\ \A c \in {"order", "after"} : wire'[c] = wire[c]
<1> USE CallNames DEF Waited
<1>1. TypeOK /\ BootInv
  BY DEF IInv
<1>2. CASE wire["menus"] = "served" /\ boot' = "data" /\ Then("menus", {"credits", "orders"})
  BY <1>1, <1>2, ThenFacts DEF OnMenus, BootInv, Live
<1>3. CASE wire["menus"] = "failed" /\ boot' = "broken" /\ Then("menus", {})
  BY <1>1, <1>3, ThenFacts DEF OnMenus, BootInv, Live
<1> QED
  BY <1>2, <1>3 DEF OnMenus

LEMMA OnDataFacts ==
  ASSUME IInv, NEW c \in {"credits", "orders"}, OnData(c)
  PROVE  /\ boot \in {"data", "partial"} /\ UNCHANGED <<session, placing>>
         /\ wire'[c] = "idle" /\ \A d \in Waited : d # c => wire'[d] = wire[d]
         /\ boot' = "data" => /\ boot = "data" /\ resolved' # {"credits", "orders"}
                              /\ resolved' = resolved \union {c}
         /\ boot' \in {"data", "done", "partial"}
<1> USE CallNames DEF Waited
<1>1. TypeOK /\ BootInv
  BY DEF IInv
<1>2. Turn(c, {}) /\ wire[c] \in {"served", "failed"}
  BY DEF OnData
<1>3. boot \in {"data", "partial"}
  BY <1>1, <1>2 DEF BootInv, Live
<1>4. wire'[c] = "idle" /\ \A d \in Calls : d # c => wire'[d] = wire[d]
  BY <1>1, <1>2, TurnFacts
<1>5. /\ resolved' = IF wire[c] = "served" THEN resolved \union {c} ELSE resolved
      /\ boot' = IF boot = "data" /\ resolved' = {"credits", "orders"} THEN "done"
                 ELSE IF wire[c] = "failed" /\ boot = "data" THEN "partial" ELSE boot
      /\ UNCHANGED <<session, placing>>
  BY DEF OnData
<1> QED
  BY <1>2, <1>3, <1>4, <1>5

LEMMA OrderFacts ==
  ASSUME IInv, PlaceOrder \/ OnOrdered \/ OnOrderFailed \/ OnRefreshed
  PROVE  /\ UNCHANGED <<session, boot, resolved>>
         /\ \A c \in Waited \ {"order", "after"} : wire'[c] = wire[c]
         /\ \/ ~placing /\ placing' /\ wire'["order"] = "sent"
            \/ /\ wire["order"] = "served" /\ placing' = placing
               /\ wire'["order"] = "idle" /\ wire'["after"] = "sent"
            \/ wire["order"] = "failed" /\ ~placing'
            \/ wire["after"] \in {"served", "failed"} /\ ~placing'
<1> USE CallNames DEF Waited
<1>1. TypeOK
  BY DEF IInv
<1>2. CASE PlaceOrder
  <2>1. /\ ~placing /\ placing' = TRUE /\ Then("order", {"order"})
        /\ UNCHANGED <<session, boot, resolved>>
    BY <1>2 DEF PlaceOrder, ConfirmDialog
  <2>2. /\ wire'["order"] = "sent"
        /\ \A c \in Waited \ {"order", "after"} : wire'[c] = wire[c]
    BY <1>1, <2>1, ThenFacts
  <2> QED
    BY <2>1, <2>2
<1>3. CASE OnOrdered
  BY <1>1, <1>3, ThenFacts DEF OnOrdered
<1>4. CASE OnOrderFailed
  BY <1>1, <1>4, ThenFacts DEF OnOrderFailed
<1>5. CASE OnRefreshed
  BY <1>1, <1>5, ThenFacts DEF OnRefreshed, ShowHistory
<1> QED
  BY <1>2, <1>3, <1>4, <1>5

(* What is waited for is under way, or is over.                            *)
LEMMA WaitInit == Init => WaitInv
BY DEF Init, WaitInv

LEMMA WaitStep == IInv /\ WaitInv /\ [Next]_vars => WaitInv'
<1> SUFFICES ASSUME IInv, WaitInv, [Next]_vars PROVE WaitInv'
  OBVIOUS
<1> USE DEF WaitInv, Live, Waited
<1>1. CASE Stays
  BY <1>1 DEF Stays
<1>2. CASE OnMe
  BY <1>2, OnMeFacts
<1>3. CASE OnMenus
  BY <1>3, OnMenusFacts
<1>4. ASSUME NEW c \in {"credits", "orders"}, OnData(c) PROVE WaitInv'
  BY <1>4, OnDataFacts
<1>5. CASE PlaceOrder \/ OnOrdered \/ OnOrderFailed \/ OnRefreshed
  BY <1>5, OrderFacts
<1> QED
  BY <1>1, <1>2, <1>3, <1>4, <1>5, Moves

LEMMA Waits == Spec => [](IInv /\ WaitInv)
BY WaitInit, WaitStep, Invariance, PTL DEF Spec

(* What a state must have for each step of the page to be taken: a call    *)
(* that was sent can be served, and one that is answered can be handled,   *)
(* by a page with a closed dialog or without a session too.  That a step   *)
(* is ENABLED where its guard holds is what none of the provers knows.     *)
ReadCanGoOn(c) == wire[c] = "sent" => ENABLED <<ServeRead(c)>>_moving

DataCanGoOn(c) == wire[c] \in {"served", "failed"} => ENABLED <<OnData(c)>>_moving

LoadingCanGoOn ==
  /\ wire["me"] \in {"served", "failed"} => ENABLED <<OnMe>>_moving
  /\ wire["menus"] \in {"served", "failed"} => ENABLED <<OnMenus>>_moving

OrderCanGoOn ==
  /\ wire["order"] = "sent" => ENABLED <<ServeOrder>>_moving
  /\ wire["order"] = "served" => ENABLED <<OnOrdered>>_moving
  /\ wire["order"] = "failed" => ENABLED <<OnOrderFailed>>_moving
  /\ wire["after"] \in {"served", "failed"} => ENABLED <<OnRefreshed>>_moving

GuardsEnable ==
  /\ \A c \in Reads : ReadCanGoOn(c)
  /\ \A c \in {"credits", "orders"} : DataCanGoOn(c)
  /\ LoadingCanGoOn /\ OrderCanGoOn

(* A page that asks for the menus receives an answer and goes on.          *)
LEMMA MenusArrive ==
  FairSpec /\ []GuardsEnable => (boot = "menus" ~> boot = "data" \/ ~IsBootstrapping)
<1> DEFINE Asked == boot = "menus" /\ wire["menus"] = "sent"
           Answered == boot = "menus" /\ wire["menus"] \in {"served", "failed"}
           Gone == boot = "data" \/ ~IsBootstrapping
<1>1. FairSpec => Spec /\ ReadIsServed("menus") /\ LoadingIsHandled
  BY CallNames DEF FairSpec
<1>2. GuardsEnable => /\ Asked => ENABLED <<ServeRead("menus")>>_moving
                      /\ Answered => ENABLED <<OnMenus>>_moving
  <2>1. GuardsEnable => ReadCanGoOn("menus") /\ LoadingCanGoOn
    BY CallNames DEF GuardsEnable
  <2> QED
    BY <2>1 DEF ReadCanGoOn, LoadingCanGoOn
<1>3. IInv /\ [Next]_vars => /\ Asked => Asked' \/ Answered' \/ Gone'
                             /\ Answered => Answered' \/ Gone'
  <2> SUFFICES ASSUME IInv, [Next]_vars, boot = "menus", Live("menus")
               PROVE  /\ Asked => Asked' \/ Answered' \/ Gone'
                      /\ Answered => Answered' \/ Gone'
    BY DEF Live
  <2> USE DEF Waited, IsBootstrapping
  <2>1. CASE Stays
    BY <2>1 DEF Stays
  <2>2. CASE OnMenus
    BY <2>2, OnMenusFacts
  <2>3. CASE OnMe \/ \E c \in {"credits", "orders"} : OnData(c)
    BY <2>3, OnMeFacts, OnDataFacts
  <2>4. CASE PlaceOrder \/ OnOrdered \/ OnOrderFailed \/ OnRefreshed
    BY <2>4, OrderFacts
  <2> QED
    BY <2>1, <2>2, <2>3, <2>4, Moves
<1>4. IInv /\ Asked /\ <<ServeRead("menus")>>_moving => Answered'
  BY CallNames DEF IInv, TypeOK, ServeRead, Served, screen
<1>5. IInv /\ Answered /\ <<OnMenus>>_moving => Gone'
  BY OnMenusFacts DEF IsBootstrapping
<1>6. IInv /\ WaitInv /\ boot = "menus" => Asked \/ Answered
  BY CallNames DEF IInv, TypeOK, WaitInv, Live
<1> HIDE DEF Asked, Answered, Gone
<1>7. FairSpec /\ []GuardsEnable => (boot = "menus" ~> Gone)
  BY <1>1, <1>2, <1>3, <1>4, <1>5, <1>6, Waits, PTL DEF Spec, ReadIsServed, LoadingIsHandled
<1> QED
  BY <1>7 DEF Gone

(* Each of the two calls for the data is answered, unless the other fails  *)
(* before and ends the bootstrap.                                          *)
DataArrives(c) == boot = "data" ~> (boot = "data" /\ c \in resolved) \/ ~IsBootstrapping

LEMMA DataArrive ==
  ASSUME NEW c \in {"credits", "orders"}
  PROVE  FairSpec /\ []GuardsEnable => DataArrives(c)
<1> DEFINE Asking == boot = "data"
           Asked == boot = "data" /\ wire[c] = "sent"
           Answered == boot = "data" /\ wire[c] \in {"served", "failed"}
           Gone == (boot = "data" /\ c \in resolved) \/ ~IsBootstrapping
<1>1. FairSpec => Spec /\ ReadIsServed(c) /\ DataIsHandled(c)
  BY CallNames DEF FairSpec
<1>2. GuardsEnable => /\ Asked => ENABLED <<ServeRead(c)>>_moving
                      /\ Answered => ENABLED <<OnData(c)>>_moving
  <2>1. GuardsEnable => ReadCanGoOn(c) /\ DataCanGoOn(c)
    BY CallNames DEF GuardsEnable
  <2> QED
    BY <2>1 DEF ReadCanGoOn, DataCanGoOn
<1>3. IInv /\ [Next]_vars => /\ Asked => Asked' \/ Answered' \/ Gone'
                             /\ Answered => Answered' \/ Gone'
  <2> SUFFICES ASSUME IInv, [Next]_vars, boot = "data", wire[c] \in {"sent", "served", "failed"}
               PROVE  /\ Asked => Asked' \/ Answered' \/ Gone'
                      /\ Answered => Answered' \/ Gone'
    OBVIOUS
  <2> USE DEF Waited, IsBootstrapping
  <2>1. CASE Stays
    BY <2>1 DEF Stays
  <2>2. CASE OnMe \/ OnMenus
    BY <2>2, OnMeFacts, OnMenusFacts
  <2>3. ASSUME NEW d \in {"credits", "orders"}, OnData(d)
        PROVE  /\ Asked => Asked' \/ Answered' \/ Gone'
               /\ Answered => Answered' \/ Gone'
    BY <2>3, OnDataFacts
  <2>4. CASE PlaceOrder \/ OnOrdered \/ OnOrderFailed \/ OnRefreshed
    BY <2>4, OrderFacts
  <2> QED
    BY <2>1, <2>2, <2>3, <2>4, Moves
<1>4. IInv /\ Asked /\ <<ServeRead(c)>>_moving => Answered'
  BY CallNames DEF IInv, TypeOK, ServeRead, Served, screen
<1>5. IInv /\ Answered /\ <<OnData(c)>>_moving => Gone'
  BY OnDataFacts DEF IsBootstrapping
<1>6. IInv /\ WaitInv /\ Asking => Asked \/ Answered \/ Gone
  BY CallNames DEF IInv, TypeOK, WaitInv, Live
<1> HIDE DEF Asking, Asked, Answered, Gone
<1>7. FairSpec /\ []GuardsEnable => (Asking ~> Gone)
  BY <1>1, <1>2, <1>3, <1>4, <1>5, <1>6, Waits, PTL DEF Spec, ReadIsServed, DataIsHandled
<1> QED
  BY <1>7 DEF Asking, Gone, DataArrives

(* A call that was answered stays so while the bootstrap goes on, and it   *)
(* does not go on with both answered.                                      *)
LEMMA BootEnds ==
  FairSpec /\ []GuardsEnable => (session = "in" ~> ~IsBootstrapping)
<1> DEFINE Asking == boot = "menus"
           Data == boot = "data"
           Credits == boot = "data" /\ "credits" \in resolved
           Ords == boot = "data" /\ "orders" \in resolved
           Usable == ~IsBootstrapping
<1>1. FairSpec => Spec
  BY DEF FairSpec
<1>2. FairSpec /\ []GuardsEnable => (Asking ~> Data \/ Usable)
  BY MenusArrive
<1>3. FairSpec /\ []GuardsEnable => (Data ~> Credits \/ Usable) /\ (Data ~> Ords \/ Usable)
  <2>1. FairSpec /\ []GuardsEnable => DataArrives("credits") /\ DataArrives("orders")
    BY DataArrive
  <2> QED
    BY <2>1 DEF DataArrives
<1>4. IInv /\ [Next]_vars => /\ Credits => Credits' \/ Usable'
                             /\ Ords => Ords' \/ Usable'
  <2> SUFFICES ASSUME IInv, [Next]_vars, boot = "data"
               PROVE  /\ Credits => Credits' \/ Usable'
                      /\ Ords => Ords' \/ Usable'
    OBVIOUS
  <2> USE DEF IsBootstrapping
  <2>1. CASE Stays
    BY <2>1 DEF Stays
  <2>2. CASE OnMe \/ OnMenus
    BY <2>2, OnMeFacts, OnMenusFacts
  <2>3. CASE \E d \in {"credits", "orders"} : OnData(d)
    BY <2>3, OnDataFacts
  <2>4. CASE PlaceOrder \/ OnOrdered \/ OnOrderFailed \/ OnRefreshed
    BY <2>4, OrderFacts
  <2> QED
    BY <2>1, <2>2, <2>3, <2>4, Moves
<1>5. IInv /\ WaitInv => /\ ~(Credits /\ Ords)
                         /\ session = "in" => Asking \/ Data \/ Usable
  BY DEF IInv, TypeOK, WaitInv, IsBootstrapping
<1> HIDE DEF Asking, Data, Credits, Ords, Usable
<1>6. FairSpec /\ []GuardsEnable => (Data ~> Usable)
  BY <1>1, <1>3, <1>4, <1>5, Waits, PTL DEF Spec
<1>7. FairSpec /\ []GuardsEnable => (session = "in" ~> Usable)
  BY <1>1, <1>2, <1>5, <1>6, Waits, PTL
<1> QED
  BY <1>7 DEF Usable

(* The reservation is answered, and after it the refresh of the history.   *)
LEMMA OrderEnds == FairSpec /\ []GuardsEnable => (placing ~> ~placing)
<1> DEFINE Asked(c) == placing /\ wire[c] = "sent"
           Confirmed == placing /\ wire["order"] = "served"
           Refused == placing /\ wire["order"] = "failed"
           Answered == placing /\ wire["after"] \in {"served", "failed"}
           Asked1 == Asked("order")
           Asked2 == Asked("after")
           Ready == ~placing
<1>1. FairSpec => Spec /\ ReadIsServed("after") /\ OrderIsHandled
  BY CallNames DEF FairSpec
<1>2. GuardsEnable => /\ Asked1 => ENABLED <<ServeOrder>>_moving
                      /\ Confirmed => ENABLED <<OnOrdered>>_moving
                      /\ Refused => ENABLED <<OnOrderFailed>>_moving
                      /\ Asked2 => ENABLED <<ServeRead("after")>>_moving
                      /\ Answered => ENABLED <<OnRefreshed>>_moving
  <2>1. GuardsEnable => ReadCanGoOn("after") /\ OrderCanGoOn
    BY CallNames DEF GuardsEnable
  <2> QED
    BY <2>1 DEF ReadCanGoOn, OrderCanGoOn
<1>3. IInv /\ [Next]_vars => /\ Asked1 => Asked1' \/ Confirmed' \/ Refused' \/ Ready'
                             /\ Confirmed => Confirmed' \/ Asked2' \/ Ready'
                             /\ Refused => Refused' \/ Ready'
                             /\ Asked2 => Asked2' \/ Answered' \/ Ready'
                             /\ Answered => Answered' \/ Ready'
  <2> SUFFICES ASSUME IInv, [Next]_vars, placing
               PROVE  /\ Asked1 => Asked1' \/ Confirmed' \/ Refused' \/ Ready'
                      /\ Confirmed => Confirmed' \/ Asked2' \/ Ready'
                      /\ Refused => Refused' \/ Ready'
                      /\ Asked2 => Asked2' \/ Answered' \/ Ready'
                      /\ Answered => Answered' \/ Ready'
    OBVIOUS
  <2> USE DEF Waited
  <2>1. CASE Stays
    BY <2>1 DEF Stays
  <2>2. CASE OnMe \/ OnMenus \/ \E c \in {"credits", "orders"} : OnData(c)
    BY <2>2, OnMeFacts, OnMenusFacts, OnDataFacts
  <2>3. CASE PlaceOrder \/ OnOrdered \/ OnOrderFailed \/ OnRefreshed
    <3>1. ~(Live("order") /\ Live("after"))
      BY DEF IInv, OrderInv
    <3> QED
      BY <2>3, <3>1, OrderFacts DEF Live
  <2> QED
    BY <2>1, <2>2, <2>3, Moves
<1>4. IInv /\ Asked1 /\ <<ServeOrder>>_moving => Confirmed' \/ Refused'
  BY CallNames DEF IInv, TypeOK, ServeOrder, Served, screen
<1>5. IInv /\ Confirmed /\ <<OnOrdered>>_moving => Asked2'
  BY OrderFacts, CallNames, ThenFacts DEF IInv, OnOrdered
<1>6. /\ Refused /\ <<OnOrderFailed>>_moving => Ready'
      /\ Answered /\ <<OnRefreshed>>_moving => Ready'
  BY DEF OnOrderFailed, OnRefreshed
<1>7. IInv /\ Asked2 /\ <<ServeRead("after")>>_moving => Answered'
  BY CallNames DEF IInv, TypeOK, ServeRead, Served, screen
<1>8. IInv /\ WaitInv /\ placing => Asked1 \/ Confirmed \/ Refused \/ Asked2 \/ Answered
  BY CallNames DEF IInv, TypeOK, WaitInv, Live
<1> HIDE DEF Asked, Confirmed, Refused, Answered, Asked1, Asked2, Ready
<1>9. FairSpec /\ []GuardsEnable => (placing ~> Ready)
  BY <1>1, <1>2, <1>3, <1>4, <1>5, <1>6, <1>7, <1>8, Waits, PTL DEF Spec, ReadIsServed, OrderIsHandled
<1> QED
  BY <1>9 DEF Ready

(* The page becomes usable again, also for a member who closes the dialog  *)
(* or signs out meanwhile, whichever calls fail: bootstrapApiData and      *)
(* placeOrder wait for calls that are under way, and for nothing else.     *)
THEOREM ControlsReturn == FairSpec /\ []GuardsEnable => ControlsComeBack
BY BootEnds, OrderEnds DEF ControlsComeBack
=============================================================================
