---------------------------- MODULE MenuContext ----------------------------
(***************************************************************************)
(* The menu page of the web UI in a member's browser tab: the React state  *)
(* of MenuProvider, what the member does, and the calls to the API that    *)
(* are under way.                                                          *)
(*                                                                         *)
(* A call is sent, served by the API at some later moment, and answered    *)
(* later still; nothing orders the answers of two calls.  The provider     *)
(* aborts no call and gives none a number: the state is whatever the       *)
(* answer that comes last makes of it, unless the controls were disabled.  *)
(*                                                                         *)
(* Every click on "add" is a pick of its own, one credit's worth of food,  *)
(* so that a cart is a set of picks and its subtotal their number.  The    *)
(* API serves a reservation in one step here; Ordering tells what may      *)
(* happen in between.                                                      *)
(***************************************************************************)
EXTENDS Naturals, Sequences, FiniteSets

CONSTANTS
  Picks,      (* what can be put into the cart; bounds the model            *)
  MaxOrders,  (* the reservations the member sends; bounds the model        *)
  MaxBalance, (* the most credits the account ever holds; bounds the model  *)
  Refreshes,  (* the calls to refresh the history that may be under way     *)
  Hasty,      (* those of a member who does not wait; bounds the model      *)
  Faults      (* a subset of FaultKinds                                     *)

(* A call fails without effect; the answer to a reservation is an error or *)
(* gets lost although some of its effects took place.                      *)
FaultKinds == {"error", "lost"}

ASSUME MenuAssumption ==
  /\ IsFiniteSet(Picks)
  /\ MaxOrders \in Nat /\ MaxBalance \in Nat
  /\ Refreshes \intersect {"me", "menus", "credits", "orders", "order", "after"} = {}
  /\ Hasty \subseteq Refreshes /\ Faults \subseteq FaultKinds

VARIABLES
  patient,   (* does the member wait for an answer before going on?         *)
  session,   (* "checking", "in" or "out"                                   *)
  boot,      (* where bootstrapApiData is, and how it ended                 *)
  resolved,  (* which of its two concurrent calls have been answered        *)
  credits,   (* the balance on the screen                                   *)
  history,   (* the orders on the screen                                    *)
  cart,      (* the picks in the cart                                       *)
  dialog,    (* showConfirmModal                                            *)
  placing,   (* placingOrder                                                *)
  view,      (* viewMode                                                    *)
  wire,      (* wire[c]: what has become of call c                          *)
  result,    (* result[c]: the account as it was when c was served          *)
  contents,  (* contents[i]: the picks of the member's i-th reservation     *)
  told,      (* told[i]: its answer                                         *)
  balance,   (* the API's: the member's credits                             *)
  placed,    (* the API's: the member's orders, named by the reservation    *)
  latest,    (* history: the account in the newest answer of each kind      *)
  added,     (* history: the picks that were ever put into the cart         *)
  removed,   (* history: those the member took out again                    *)
  late       (* history: those put into it while a reservation was under    *)
             (* way                                                         *)

screen == <<session, boot, resolved, credits, history, dialog, placing, view>>
account == <<balance, placed>>
past == <<added, removed, late>>
moving == <<screen, cart, wire, result, contents, told, account, latest, past>>
vars == <<patient, moving>>

HistoryCalls == Refreshes \union {"orders", "after"}
Reads == HistoryCalls \union {"me", "menus", "credits"}
Calls == Reads \union {"order"}
Orders == 1..MaxOrders
AccountType == [balance : 0..MaxBalance, orders : SUBSET Orders]

Empty == [balance |-> 0, orders |-> {}]

(* The page is loaded with a token in the cookie. *)
Init ==
  /\ patient \in BOOLEAN
  /\ session = "checking" /\ boot = "waiting" /\ resolved = {}
  /\ credits = 0 /\ history = {} /\ cart = {}
  /\ dialog = FALSE /\ placing = FALSE /\ view = "menu"
  /\ wire = [c \in Calls |-> IF c = "me" THEN "sent" ELSE "idle"]
  /\ result = [c \in Calls |-> Empty]
  /\ contents = <<>> /\ told = <<>>
  /\ balance \in 0..MaxBalance /\ placed = {}
  /\ latest = Empty
  /\ added = {} /\ removed = {} /\ late = {}

-----------------------------------------------------------------------------
(* The API *)

Served(c, value) ==
  /\ wire' = [wire EXCEPT ![c] = "served"]
  /\ result' = [result EXCEPT ![c] = value]

(* A GET finds the balance or the orders as they are. *)
ServeRead(c) ==
  /\ c \in Reads /\ wire[c] = "sent"
  /\ \/ /\ c = "credits"
        /\ Served(c, [Empty EXCEPT !.balance = balance])
        /\ latest' = [latest EXCEPT !.balance = balance]
     \/ /\ c \in HistoryCalls
        /\ Served(c, [Empty EXCEPT !.orders = placed])
        /\ latest' = [latest EXCEPT !.orders = placed]
     \/ /\ c \in {"me", "menus"}
        /\ Served(c, Empty)
        /\ UNCHANGED latest
  /\ UNCHANGED <<screen, cart, contents, told, account, past>>

(* A reservation within the balance is charged and stored; one beyond it   *)
(* is turned down.                                                         *)
ServeOrder ==
  LET i == Len(contents)
      left == balance - Cardinality(contents[i])
  IN /\ wire["order"] = "sent"
     /\ \/ /\ left >= 0
           /\ balance' = left /\ placed' = placed \union {i}
           /\ Served("order", [Empty EXCEPT !.balance = left])
           /\ latest' = [latest EXCEPT !.balance = left]
        \/ /\ left < 0
           /\ wire' = [wire EXCEPT !["order"] = "failed"]
           /\ UNCHANGED <<result, account, latest>>
        \/ /\ "lost" \in Faults /\ left >= 0
           /\ balance' = left /\ placed' \in {placed, placed \union {i}}
           /\ wire' = [wire EXCEPT !["order"] = "failed"]
           /\ UNCHANGED <<result, latest>>
     /\ UNCHANGED <<screen, cart, contents, told, past>>

FailCall(c) ==
  /\ "error" \in Faults
  /\ wire[c] = "sent"
  /\ wire' = [wire EXCEPT ![c] = "failed"]
  /\ UNCHANGED <<screen, cart, result, contents, told, account, latest, past>>

(* A manager grants a credit. *)
GrantElsewhere ==
  /\ balance < MaxBalance
  /\ balance' = balance + 1
  /\ UNCHANGED <<screen, cart, wire, result, contents, told, placed, latest, past>>

-----------------------------------------------------------------------------
(* Loading the page *)

(* Call c is over and the calls of C are sent. *)
Turn(c, C) ==
  wire' = [d \in Calls |-> IF d \in C THEN "sent" ELSE IF d = c THEN "idle" ELSE wire[d]]

(* ... and with its continuation its answer is gone. *)
Then(c, C) == Turn(c, C) /\ result' = [result EXCEPT ![c] = Empty]

(* validateSession: a profile starts the session and with it the           *)
(* bootstrap, anything else leads back to the sign-in page.                *)
OnMe ==
  /\ \/ /\ wire["me"] = "served"
        /\ session' = "in" /\ boot' = "menus"
        /\ Then("me", {"menus"})
     \/ /\ wire["me"] = "failed"
        /\ session' = "out"
        /\ Then("me", {})
        /\ UNCHANGED boot
  /\ UNCHANGED <<resolved, credits, history, dialog, placing, view>>
  /\ UNCHANGED <<cart, contents, told, account, latest, past>>

(* Without menus there is nothing to put into a cart; otherwise the        *)
(* balance and the orders are asked for at once.                           *)
OnMenus ==
  /\ \/ /\ wire["menus"] = "served"
        /\ boot' = "data"
        /\ Then("menus", {"credits", "orders"})
     \/ /\ wire["menus"] = "failed"
        /\ boot' = "broken"
        /\ Then("menus", {})
  /\ UNCHANGED <<session, resolved, credits, history, dialog, placing, view>>
  /\ UNCHANGED <<cart, contents, told, account, latest, past>>

(* Promise.all of the two calls: the history is set when both have         *)
(* succeeded, and the first to fail ends the bootstrap.                    *)
OnData(c) ==
  /\ c \in {"credits", "orders"}
  /\ wire[c] \in {"served", "failed"}
  /\ Turn(c, {})
  /\ credits' = IF c = "credits" /\ wire[c] = "served" THEN result[c].balance ELSE credits
  /\ resolved' = IF wire[c] = "served" THEN resolved \union {c} ELSE resolved
  /\ LET all == boot = "data" /\ resolved' = {"credits", "orders"} IN
     /\ history' = IF all THEN result["orders"].orders ELSE history
     /\ boot' = IF all THEN "done"
                ELSE IF wire[c] = "failed" /\ boot = "data" THEN "partial" ELSE boot
     /\ result' = [result EXCEPT !["credits"] = IF c = "credits" THEN Empty ELSE @,
                                 !["orders"] = IF boot' # "data" THEN Empty ELSE @]
  /\ UNCHANGED <<session, dialog, placing, view>>
  /\ UNCHANGED <<cart, contents, told, account, latest, past>>

-----------------------------------------------------------------------------
(* The cart *)

(* The items of the vendors are on the page once it is loaded.             *)
Offered == session = "in" /\ ~dialog /\ view = "menu" /\ boot \in {"done", "partial"}

AddToCart(p) ==
  /\ Offered
  /\ p \notin added
  /\ cart' = cart \union {p}
  /\ added' = added \union {p}
  /\ late' = IF wire["order"] = "idle" THEN late ELSE late \union {p}
  /\ UNCHANGED <<screen, wire, result, contents, told, account, latest, removed>>

(* The tray shows the cart beside the menu. *)
InTray(p) == session = "in" /\ ~dialog /\ view = "menu" /\ p \in cart

(* updateCartQuantity with a smaller quantity. *)
RemoveFromCart(p) ==
  /\ InTray(p)
  /\ cart' = cart \ {p}
  /\ removed' = removed \union {p}
  /\ UNCHANGED <<screen, wire, result, contents, told, account, latest, added, late>>

IsBootstrapping == boot \in {"waiting", "menus", "data"}

CanReserve == cart # {} /\ ~placing /\ ~IsBootstrapping

(* A patient member opens neither dialog nor history while the history is  *)
(* being read.                                                             *)
Awaited == patient => \A c \in HistoryCalls : wire[c] = "idle"

SetDialog(open) ==
  /\ dialog' = open
  /\ UNCHANGED <<session, boot, resolved, credits, history, placing, view>>
  /\ UNCHANGED <<cart, wire, result, contents, told, account, latest, past>>

OpenConfirm == session = "in" /\ ~dialog /\ view = "menu" /\ Awaited /\ CanReserve /\ SetDialog(TRUE)

(* The dialog can be dismissed at any time, also while the reservation is  *)
(* under way.                                                              *)
CloseConfirm == session = "in" /\ dialog /\ (patient => ~placing) /\ SetDialog(FALSE)

-----------------------------------------------------------------------------
(* Reserving *)

(* The button of the dialog, when it is enabled. *)
ConfirmDialog == session = "in" /\ dialog /\ ~placing

PlaceOrder ==
  /\ ConfirmDialog /\ cart # {}
  /\ Len(contents) < MaxOrders
  /\ placing' = TRUE
  /\ contents' = Append(contents, cart)
  /\ told' = Append(told, "waiting")
  /\ Then("order", {"order"})
  /\ UNCHANGED <<session, boot, resolved, credits, history, dialog, view>>
  /\ UNCHANGED <<cart, account, latest, past>>

(* Variants: the subtotal is taken off the balance on the screen; the cart *)
(* is left alone.                                                          *)
OnOrderedGuess ==
  /\ wire["order"] = "served"
  /\ cart' = {}
  /\ credits' = credits - Cardinality(cart)
  /\ told' = [told EXCEPT ![Len(told)] = "ok"]
  /\ Then("order", {"after"})
  /\ UNCHANGED <<session, boot, resolved, history, dialog, placing, view>>
  /\ UNCHANGED <<contents, account, latest, past>>

OnOrderedKeepsCart ==
  /\ wire["order"] = "served"
  /\ credits' = result["order"].balance
  /\ told' = [told EXCEPT ![Len(told)] = "ok"]
  /\ Then("order", {"after"})
  /\ UNCHANGED <<session, boot, resolved, history, dialog, placing, view>>
  /\ UNCHANGED <<cart, contents, account, latest, past>>

(* The answer empties the cart, shows the remaining credits and has the    *)
(* history refreshed; placingOrder stays set until that is done too.       *)
OnOrdered ==
  /\ wire["order"] = "served"
  /\ cart' = {}
  /\ credits' = result["order"].balance
  /\ told' = [told EXCEPT ![Len(told)] = "ok"]
  /\ Then("order", {"after"})
  /\ UNCHANGED <<session, boot, resolved, history, dialog, placing, view>>
  /\ UNCHANGED <<contents, account, latest, past>>

(* Variant: the cart is emptied whatever the answer. *)
OnOrderFailedEmptiesCart ==
  /\ wire["order"] = "failed"
  /\ cart' = {}
  /\ placing' = FALSE
  /\ told' = [told EXCEPT ![Len(told)] = "failed"]
  /\ Then("order", {})
  /\ UNCHANGED <<session, boot, resolved, credits, history, dialog, view>>
  /\ UNCHANGED <<contents, account, latest, past>>

(* An error leaves cart and dialog as they are, for another try. *)
OnOrderFailed ==
  /\ wire["order"] = "failed"
  /\ placing' = FALSE
  /\ told' = [told EXCEPT ![Len(told)] = "failed"]
  /\ Then("order", {})
  /\ UNCHANGED <<session, boot, resolved, credits, history, dialog, view>>
  /\ UNCHANGED <<cart, contents, account, latest, past>>

ShowHistory(c) ==
  /\ wire[c] \in {"served", "failed"}
  /\ history' = IF wire[c] = "served" THEN result[c].orders ELSE history
  /\ Then(c, {})

(* Variant: placingOrder is not reset when the refresh fails.              *)
OnRefreshedOnly ==
  /\ ShowHistory("after")
  /\ placing' = (wire["after"] = "failed") /\ dialog' = FALSE
  /\ UNCHANGED <<session, boot, resolved, credits, view>>
  /\ UNCHANGED <<cart, contents, told, account, latest, past>>

OnRefreshed ==
  /\ ShowHistory("after")
  /\ placing' = FALSE /\ dialog' = FALSE
  /\ UNCHANGED <<session, boot, resolved, credits, view>>
  /\ UNCHANGED <<cart, contents, told, account, latest, past>>

-----------------------------------------------------------------------------
(* The history, and leaving *)

(* Turning to the history refreshes it, whatever else is under way. *)
OpenHistory(h) ==
  /\ session = "in" /\ ~dialog /\ view = "menu"
  /\ wire[h] = "idle"
  /\ patient \/ h \in Hasty
  /\ Awaited
  /\ view' = "history"
  /\ Then(h, {h})
  /\ UNCHANGED <<session, boot, resolved, credits, history, dialog, placing>>
  /\ UNCHANGED <<cart, contents, told, account, latest, past>>

OpenMenu ==
  /\ session = "in" /\ ~dialog /\ view = "history"
  /\ view' = "menu"
  /\ UNCHANGED <<session, boot, resolved, credits, history, dialog, placing>>
  /\ UNCHANGED <<cart, wire, result, contents, told, account, latest, past>>

OnHistory(h) ==
  /\ ShowHistory(h)
  /\ UNCHANGED <<session, boot, resolved, credits, dialog, placing, view>>
  /\ UNCHANGED <<cart, contents, told, account, latest, past>>

(* Calls that are under way are not aborted and their answers still count. *)
SignOut ==
  /\ session = "in" /\ ~dialog
  /\ session' = "out"
  /\ history' = {}
  /\ UNCHANGED <<boot, resolved, credits, dialog, placing, view>>
  /\ UNCHANGED <<cart, wire, result, contents, told, account, latest, past>>

Serve == ServeOrder \/ \E c \in Reads : ServeRead(c)

OnAnswer ==
  \/ OnMe \/ OnMenus \/ \E c \in {"credits", "orders"} : OnData(c)
  \/ OnOrdered \/ OnOrderFailed \/ OnRefreshed
  \/ \E h \in Refreshes : OnHistory(h)

Step ==
  \/ Serve \/ GrantElsewhere
  \/ \E c \in Calls : FailCall(c)
  \/ OnAnswer
  \/ \E p \in Picks : AddToCart(p) \/ RemoveFromCart(p)
  \/ OpenConfirm \/ CloseConfirm \/ PlaceOrder
  \/ \E h \in Refreshes : OpenHistory(h)
  \/ OpenMenu \/ SignOut

Next == UNCHANGED patient /\ Step

Spec == Init /\ [][Next]_vars

(* The API settles every request (Ordering, Aggregator) and the event loop *)
(* runs the continuation of every call that is answered.                   *)
ReadIsServed(c) == WF_moving(ServeRead(c))

DataIsHandled(c) == WF_moving(OnData(c))

LoadingIsHandled == WF_moving(OnMe) /\ WF_moving(OnMenus)

OrderIsHandled ==
  WF_moving(ServeOrder) /\ WF_moving(OnOrdered) /\ WF_moving(OnOrderFailed) /\ WF_moving(OnRefreshed)

FairSpec ==
  /\ Spec
  /\ \A c \in Reads : ReadIsServed(c)
  /\ \A c \in {"credits", "orders"} : DataIsHandled(c)
  /\ LoadingIsHandled /\ OrderIsHandled

-----------------------------------------------------------------------------
(* Properties *)

(* Every variable has its type. *)
TypeOK ==
  /\ session \in {"checking", "in", "out"}
  /\ patient \in BOOLEAN
  /\ boot \in {"waiting", "menus", "data", "done", "partial", "broken"}
  /\ resolved \subseteq {"credits", "orders"}
  /\ credits \in 0..MaxBalance /\ history \subseteq Orders
  /\ cart \subseteq Picks
  /\ dialog \in BOOLEAN /\ placing \in BOOLEAN /\ view \in {"menu", "history"}
  /\ wire \in [Calls -> {"idle", "sent", "served", "failed"}]
  /\ result \in [Calls -> AccountType]
  /\ Len(contents) \in 0..MaxOrders /\ \A i \in DOMAIN contents : contents[i] \subseteq Picks
  /\ Len(told) = Len(contents)
  /\ \A i \in DOMAIN told : told[i] \in {"waiting", "ok", "failed"}
  /\ balance \in 0..MaxBalance /\ placed \subseteq Orders
  /\ latest \in AccountType
  /\ added \subseteq Picks /\ removed \subseteq added /\ late \subseteq added

(* However the member clicks, what was put into the cart once is reserved  *)
(* twice only when the member was told that the first reservation had      *)
(* failed (placeOrder keeps the cart then, and the dialog open).           *)
ReservedOnceUnlessFailed ==
  \A i, j \in placed :
    i < j /\ contents[i] \intersect contents[j] # {} => told[i] = "failed"

(* However the member clicks, what was added is in the cart, or was taken  *)
(* out, or is in a confirmed reservation; or it was added behind the back  *)
(* of a reservation under way, whose answer empties the cart whatever is   *)
(* in it by then.  A member who waits for the answers cannot do that, and  *)
(* loses nothing.                                                          *)
NothingIsDropped ==
  /\ added \subseteq cart \union removed \union late \union
       UNION {contents[i] : i \in {x \in DOMAIN told : told[x] = "ok"}}
  /\ patient => late = {}

(* When nothing is under way, the screen of a member who waits shows what  *)
(* the API said last: no older answer has overwritten a newer one.  What   *)
(* keeps refreshCredits from it is that nothing can be reserved while it   *)
(* is under way; a bootstrap that failed half way ends before it does and  *)
(* is excepted.                                                            *)
NewestAnswerIsShown ==
  (patient /\ session = "in" /\ boot = "done" /\ \A c \in Calls : wire[c] = "idle") =>
    credits = latest.balance /\ history = latest.orders

(* The page becomes usable, and again after every reservation, also when a *)
(* call or only the refresh that follows it fails.                         *)
ControlsComeBack ==
  /\ session = "in" ~> ~IsBootstrapping
  /\ placing ~> ~placing
=============================================================================
