----------------------------- MODULE Management -----------------------------
(***************************************************************************)
(* The menu page of the web UI in a manager's browser tab: the list of     *)
(* members and the granting of credits to them, the manager's own balance, *)
(* and the orders of all members.                                          *)
(*                                                                         *)
(* Two components can grant: the list, with a dialog for the member whose  *)
(* row was clicked, and the header, with a dialog for the manager's own    *)
(* account.  They share the flag grantingCredits and the function that     *)
(* calls the API; each has its own way to go on after the answer.  The     *)
(* list is loaded anew whenever its section is mounted, and again after a  *)
(* grant made from it.  A section that was unmounted has lost its state,   *)
(* and what its calls do when they are answered changes nothing.           *)
(*                                                                         *)
(* Nothing orders the answers of two calls.  A dialog is modal: while it   *)
(* is open the rest of the page cannot be clicked.                         *)
(*                                                                         *)
(* A balance is named by the number of changes that led to it, from one    *)
(* on, so that of two readings the greater is the newer; zero is what the  *)
(* page shows when it could not be read.  An account has one order or      *)
(* none.  MenuContext has what a manager does as a member, and the signing *)
(* out.                                                                    *)
(***************************************************************************)
EXTENDS Naturals, Sequences, FiniteSets

CONSTANTS
  Members,    (* the accounts of the list                                   *)
  Self,       (* the manager's own; the others have the role MEMBER         *)
  Loads,      (* the calls for the list that may be under way; bounds the   *)
              (* model                                                      *)
  Refreshes,  (* the refreshes of the history that may be under way; bounds *)
              (* the model                                                  *)
  MaxMoves,   (* the clicks that start something; bounds the model          *)
  Faults,     (* a subset of FaultKinds                                     *)
  None

(* A call fails without effect; a grant is performed and its answer lost;  *)
(* the list is answered although a balance could not be read.              *)
FaultKinds == {"error", "lost", "unread"}

ASSUME ManagementAssumption ==
  /\ Self \in Members /\ None \notin Members
  /\ Loads # {}
  /\ MaxMoves \in Nat
  /\ Faults \subseteq FaultKinds

VARIABLES
  patient,        (* does the manager wait for the answers?                 *)
  boot,           (* bootstrapApiData: what is under way, or "done"         *)
  credits,        (* the balance in the header                              *)
  history,        (* the members whose orders the history shows             *)
  since,          (* history: whose orders there were when the refresh that *)
                  (* made it began                                          *)
  historyLoading,
  view,           (* viewMode                                               *)
  members,        (* the rows: a balance for each member that is listed     *)
  loadingMembers,
  selected,       (* selectedMember, or None                                *)
  grantOpen,      (* is the dialog of the list open?                        *)
  selfOpen,       (* showGrantModal                                         *)
  granting,       (* grantingCredits                                        *)
  opened,         (* history: the move that opened the last dialog          *)
  load,           (* load[l]: what has become of a call for the list        *)
  refresh,        (* refresh[h]: how far a refresh of the history has come  *)
  grants,         (* every grant of the tab, in the order of the clicks     *)
  balance,        (* the API's: balance[m], see above                       *)
  ordered,        (* the API's: the members with an order                   *)
  moves           (* the clicks so far                                      *)

own == <<boot, credits>>
orders == <<history, since, historyLoading, refresh>>
list == <<members, loadingMembers, load>>
dialogs == <<selected, grantOpen, selfOpen, opened>>
granted == <<granting, grants>>
api == <<balance, ordered>>
vars == <<patient, own, orders, view, list, dialogs, granted, api, moves>>

Others == Members \ {Self}
Views == {"menu", "history", "management"}

(* Where the calls of the bootstrap, of the list and of the history are.   *)
Idle == [at |-> "idle"]
Rows == [Members -> Nat] \union {<<>>}
BootType == [at : {"menus", "credits", "done"}] \union [at : {"served"}, read : Nat]
LoadType == [at : {"idle", "sent"}] \union [at : {"served"}, rows : Rows]
RefreshType ==
  [at : {"idle"}] \union [at : {"members", "failed"}, base : SUBSET Others] \union
  [at : {"orders", "failed"}, base : SUBSET Others, asked : SUBSET Others, found : SUBSET Others]

(* What a grant returns is in to, and from tells who waits for it: the     *)
(* header's dialog, the list's, or a list that is gone.                    *)
GrantType ==
  [member : Members, from : {"self", "row", "gone"}, opened : 1..MaxMoves,
   at : {"sent", "served", "failed", "ok", "error"}, to : Nat]

Init ==
  /\ patient \in BOOLEAN
  /\ boot = [at |-> "menus"]
  /\ credits = 0
  /\ history = {} /\ since = {} /\ historyLoading = FALSE
  /\ view = "menu"
  /\ members = <<>> /\ loadingMembers = FALSE
  /\ selected = None /\ grantOpen = FALSE /\ selfOpen = FALSE
  /\ granting = FALSE /\ opened = 0
  /\ load = [l \in Loads |-> Idle]
  /\ refresh = [h \in Refreshes |-> Idle]
  /\ grants = <<>>
  /\ balance = [m \in Members |-> 1] /\ ordered = {}
  /\ moves = 0

UnderWay == {i \in DOMAIN grants : grants[i].at \in {"sent", "served", "failed"}}

Settled ==
  /\ boot.at = "done"
  /\ \A l \in Loads : load[l] = Idle
  /\ \A h \in Refreshes : refresh[h] = Idle
  /\ UnderWay = {}

(* A click that starts something; a patient manager waits before it.       *)
Click ==
  /\ patient => Settled
  /\ moves < MaxMoves
  /\ moves' = moves + 1

(* The page behind an open dialog cannot be clicked.                       *)
NoDialog == ~grantOpen /\ ~selfOpen

-----------------------------------------------------------------------------
(* The bootstrap of a manager's tab *)

(* Nothing in the model depends on the menus.                              *)
OnMenus ==
  /\ boot.at = "menus"
  /\ boot' = [at |-> "credits"]
  /\ UNCHANGED <<credits, history, since>>

ServeCredits ==
  /\ boot.at = "credits"
  /\ boot' = [at |-> "served", read |-> balance[Self]]
  /\ UNCHANGED <<patient, credits, orders, view, list, dialogs, granted, api, moves>>

(* The balance, and an empty history.                                      *)
OnCredits ==
  /\ boot.at = "served"
  /\ boot' = [at |-> "done"]
  /\ credits' = boot.read
  /\ history' = {} /\ since' = {}

(* Without the menus, or the balance, the rest is left as it was.          *)
FailBoot ==
  /\ "error" \in Faults
  /\ boot.at \in {"menus", "credits"}
  /\ boot' = [at |-> "done"]
  /\ UNCHANGED <<patient, credits, orders, view, list, dialogs, granted, api, moves>>

OnBoot ==
  /\ OnMenus \/ OnCredits
  /\ UNCHANGED <<patient, historyLoading, refresh, view, list, dialogs, granted, api, moves>>

-----------------------------------------------------------------------------
(* Turning to another section *)

(* A call that is not under way.                                           *)
Free(call) == CHOOSE c \in DOMAIN call : call[c] = Idle
HasFree(call) == \E c \in DOMAIN call : call[c] = Idle

(* The list's section is mounted without rows, and its effect loads them.  *)
MountList ==
  /\ load' = [load EXCEPT ![Free(load)] = [at |-> "sent"]]
  /\ loadingMembers' = TRUE

(* Its state goes with it.                                                 *)
UnmountList ==
  /\ load' = [l \in Loads |-> Idle]
  /\ loadingMembers' = FALSE

(* refreshOrderHistory, for a manager.                                     *)
RefreshOrderHistory ==
  /\ HasFree(refresh)
  /\ refresh' = [refresh EXCEPT ![Free(refresh)] = [at |-> "members", base |-> ordered]]
  /\ historyLoading' = TRUE

SetView(v) ==
  /\ v # view /\ NoDialog /\ Click
  /\ view' = v
  /\ members' = <<>> /\ selected' = None
  /\ IF v = "management" THEN MountList ELSE UnmountList
  /\ IF v = "history" THEN RefreshOrderHistory ELSE UNCHANGED <<refresh, historyLoading>>
  /\ grants' = [i \in DOMAIN grants |->
                  IF grants[i].from = "row" THEN [grants[i] EXCEPT !.from = "gone"] ELSE grants[i]]
  /\ UNCHANGED <<patient, own, history, since, grantOpen, selfOpen, opened, granting, api>>

-----------------------------------------------------------------------------
(* The list of members *)

(* Reading the members and their balances is one step here; Accounts has   *)
(* what may happen in between.  A balance that cannot be read is answered  *)
(* as zero.                                                                *)
ServeList(l) ==
  /\ load[l].at = "sent"
  /\ \E U \in {{}} \union (IF "unread" \in Faults THEN {{m} : m \in Members} ELSE {}) :
       load' = [load EXCEPT ![l] =
                  [at |-> "served", rows |-> [m \in Members |-> IF m \in U THEN 0 ELSE balance[m]]]]
  /\ UNCHANGED <<patient, own, orders, view, members, loadingMembers, dialogs, granted, api, moves>>

(* A failed lookup is an empty list.                                       *)
FailList(l) ==
  /\ "error" \in Faults
  /\ load[l].at = "sent"
  /\ load' = [load EXCEPT ![l] = [at |-> "served", rows |-> <<>>]]
  /\ UNCHANGED <<patient, own, orders, view, members, loadingMembers, dialogs, granted, api, moves>>

(* Whichever call is answered last fills the list.                         *)
OnList(l) ==
  /\ load[l].at = "served"
  /\ members' = load[l].rows
  /\ loadingMembers' = FALSE
  /\ load' = [load EXCEPT ![l] = Idle]
  /\ UNCHANGED <<patient, own, orders, view, dialogs, granted, api, moves>>

(* A row has a button, also while the list is being loaded again.          *)
Listed(m) == view = "management" /\ m \in DOMAIN members

OpenGrantModal(m) ==
  /\ Listed(m) /\ NoDialog /\ Click
  /\ selected' = m /\ grantOpen' = TRUE
  /\ opened' = moves'
  /\ UNCHANGED <<patient, own, orders, view, list, selfOpen, granted, api>>

OpenSelfModal ==
  /\ NoDialog /\ Click
  /\ selfOpen' = TRUE
  /\ opened' = moves'
  /\ UNCHANGED <<patient, own, orders, view, list, selected, grantOpen, granted, api>>

(* A dialog can be dismissed also while its grant is under way.            *)
Dismiss ==
  /\ ~NoDialog
  /\ patient => Settled
  /\ grantOpen' = FALSE /\ selfOpen' = FALSE
  /\ UNCHANGED <<patient, own, orders, view, list, selected, opened, granted, api, moves>>

-----------------------------------------------------------------------------
(* Granting *)

(* grantCreditsToMember; an amount that is not positive is turned down     *)
(* before the call.                                                        *)
Grant(m, from) ==
  /\ Click
  /\ granting' = TRUE
  /\ grants' = Append(grants, [member |-> m, from |-> from, opened |-> opened,
                               at |-> "sent", to |-> 0])
  /\ UNCHANGED <<patient, own, orders, view, list, dialogs, api>>

(* Variant: the list's button looks at the selection only.                 *)
ListDialogAnyTime == grantOpen /\ selected # None

(* The buttons of the two dialogs, when they are enabled.                  *)
ListDialog == grantOpen /\ ~granting /\ selected # None
SelfDialog == selfOpen /\ ~granting

SubmitGrant == ListDialog /\ Grant(selected, "row")

SubmitSelf == SelfDialog /\ Grant(Self, "self")

ServeGrant(i) ==
  LET m == grants[i].member IN
  /\ grants[i].at = "sent"
  /\ balance' = [balance EXCEPT ![m] = @ + 1]
  /\ \/ grants' = [grants EXCEPT ![i] = [@ EXCEPT !.at = "served", !.to = balance'[m]]]
     \/ "lost" \in Faults /\ grants' = [grants EXCEPT ![i].at = "failed"]
  /\ UNCHANGED <<patient, own, orders, view, list, dialogs, granting, ordered, moves>>

FailGrant(i) ==
  /\ "error" \in Faults
  /\ grants[i].at = "sent"
  /\ grants' = [grants EXCEPT ![i].at = "failed"]
  /\ UNCHANGED <<patient, own, orders, view, list, dialogs, granting, api, moves>>

(* loadMembers, when the grant came from a list that is still there.       *)
LoadMembers ==
  /\ HasFree(load)
  /\ load' = [load EXCEPT ![Free(load)] = [at |-> "sent"]]
  /\ loadingMembers' = TRUE

(* The part that both dialogs share.                                       *)
Granted(i) ==
  /\ grants' = [grants EXCEPT ![i].at = "ok"]
  /\ granting' = FALSE
  /\ credits' = IF grants[i].member = Self THEN grants[i].to ELSE credits

(* Variant: the list is left as it was.                                    *)
OnGrantedUnloaded(i) ==
  /\ grants[i].at = "served"
  /\ Granted(i)
  /\ IF grants[i].from = "row"
     THEN grantOpen' = FALSE /\ selected' = None /\ UNCHANGED selfOpen
     ELSE selfOpen' = (selfOpen /\ grants[i].from = "gone") /\ UNCHANGED <<grantOpen, selected>>
  /\ UNCHANGED <<patient, boot, orders, view, list, opened, api, moves>>

(* Each dialog closes when its grant has succeeded, whichever member it    *)
(* shows by then; the list is loaded again.                                *)
OnGranted(i) ==
  /\ grants[i].at = "served"
  /\ Granted(i)
  /\ \/ /\ grants[i].from = "row"
        /\ grantOpen' = FALSE /\ selected' = None
        /\ LoadMembers
        /\ UNCHANGED selfOpen
     \/ /\ grants[i].from = "self"
        /\ selfOpen' = FALSE
        /\ UNCHANGED <<grantOpen, selected, load, loadingMembers>>
     \/ /\ grants[i].from = "gone"
        /\ UNCHANGED <<grantOpen, selfOpen, selected, load, loadingMembers>>
  /\ UNCHANGED <<patient, boot, orders, view, members, opened, api, moves>>

(* Variant: the answer is not looked at.                                   *)
OnGrantFailedCloses(i) ==
  /\ grants[i].at = "failed"
  /\ grants' = [grants EXCEPT ![i].at = "error"]
  /\ granting' = FALSE
  /\ grantOpen' = FALSE
  /\ UNCHANGED <<patient, own, orders, view, list, selected, selfOpen, opened, api, moves>>

(* A failure leaves the dialog open for another try.                       *)
OnGrantFailed(i) ==
  /\ grants[i].at = "failed"
  /\ grants' = [grants EXCEPT ![i].at = "error"]
  /\ granting' = FALSE
  /\ UNCHANGED <<patient, own, orders, view, list, dialogs, api, moves>>

-----------------------------------------------------------------------------
(* The orders of all members *)

(* The members first, then the orders of each of them, all at once.        *)
ServeMembers(h) ==
  /\ refresh[h].at = "members"
  /\ refresh' = [refresh EXCEPT ![h] = [at |-> "orders", base |-> @.base, asked |-> Others, found |-> {}]]
  /\ UNCHANGED <<patient, own, history, since, historyLoading, view, list, dialogs, granted, api, moves>>

ServeOrders(h, m) ==
  LET old == refresh[h] IN
  /\ refresh[h].at = "orders" /\ m \in refresh[h].asked
  /\ refresh' = [refresh EXCEPT ![h] = [old EXCEPT !.asked = old.asked \ {m},
                                                   !.found = old.found \union ({m} \intersect ordered)]]
  /\ UNCHANGED <<patient, own, history, since, historyLoading, view, list, dialogs, granted, api, moves>>

(* The first failure ends the refresh.                                     *)
FailRefresh(h) ==
  /\ "error" \in Faults
  /\ refresh[h].at = "members" \/ (refresh[h].at = "orders" /\ refresh[h].asked # {})
  /\ refresh' = [refresh EXCEPT ![h] = [@ EXCEPT !.at = "failed"]]
  /\ UNCHANGED <<patient, own, history, since, historyLoading, view, list, dialogs, granted, api, moves>>

(* Variants: what was found before a failure is shown; a failure leaves    *)
(* the section loading.                                                    *)
OnHistoryInParts(h) ==
  /\ \/ refresh[h].at = "orders" /\ refresh[h].asked = {}
     \/ refresh[h].at = "failed"
  /\ history' = IF "found" \in DOMAIN refresh[h] THEN refresh[h].found ELSE history
  /\ since' = IF "found" \in DOMAIN refresh[h] THEN refresh[h].base ELSE since
  /\ historyLoading' = FALSE
  /\ refresh' = [refresh EXCEPT ![h] = Idle]
  /\ UNCHANGED <<patient, own, view, list, dialogs, granted, api, moves>>

OnHistoryOnly(h) ==
  /\ \/ /\ refresh[h].at = "orders" /\ refresh[h].asked = {}
        /\ history' = refresh[h].found /\ since' = refresh[h].base
        /\ historyLoading' = FALSE
     \/ refresh[h].at = "failed" /\ UNCHANGED <<history, since, historyLoading>>
  /\ refresh' = [refresh EXCEPT ![h] = Idle]
  /\ UNCHANGED <<patient, own, view, list, dialogs, granted, api, moves>>

(* Promise.all: all of the orders, or none of them.                        *)
OnHistory(h) ==
  /\ \/ /\ refresh[h].at = "orders" /\ refresh[h].asked = {}
        /\ history' = refresh[h].found /\ since' = refresh[h].base
     \/ refresh[h].at = "failed" /\ UNCHANGED <<history, since>>
  /\ historyLoading' = FALSE
  /\ refresh' = [refresh EXCEPT ![h] = Idle]
  /\ UNCHANGED <<patient, own, view, list, dialogs, granted, api, moves>>

-----------------------------------------------------------------------------
(* A member places an order, which changes the balance too.                *)
Order(m) ==
  /\ m \notin ordered
  /\ ordered' = ordered \union {m}
  /\ balance' = [balance EXCEPT ![m] = @ + 1]
  /\ UNCHANGED <<patient, own, orders, view, list, dialogs, granted, moves>>

Serve ==
  \/ ServeCredits
  \/ \E l \in Loads : ServeList(l)
  \/ \E i \in DOMAIN grants : ServeGrant(i)
  \/ \E h \in Refreshes : ServeMembers(h) \/ \E m \in Others : ServeOrders(h, m)

Fail ==
  \/ FailBoot
  \/ \E l \in Loads : FailList(l)
  \/ \E i \in DOMAIN grants : FailGrant(i)
  \/ \E h \in Refreshes : FailRefresh(h)

OnAnswer ==
  \/ OnBoot
  \/ \E l \in Loads : OnList(l)
  \/ \E i \in DOMAIN grants : OnGranted(i) \/ OnGrantFailed(i)
  \/ \E h \in Refreshes : OnHistory(h)

Next ==
  \/ Serve \/ Fail \/ OnAnswer
  \/ \E v \in Views : SetView(v)
  \/ \E m \in Members : OpenGrantModal(m)
  \/ OpenSelfModal \/ Dismiss \/ SubmitGrant \/ SubmitSelf
  \/ \E m \in Others : Order(m)

Spec == Init /\ [][Next]_vars

(* The API settles every request and the event loop runs the continuation  *)
(* of every answer; the number of both is finite, as the manager's clicks  *)
(* are.                                                                    *)
FairSpec == Spec /\ WF_vars(Serve \/ OnAnswer)

-----------------------------------------------------------------------------
(* Properties *)

(* Every variable has its type.                                            *)
TypeOK ==
  /\ patient \in BOOLEAN
  /\ boot \in BootType /\ credits \in Nat
  /\ history \subseteq Others /\ since \subseteq Others
  /\ historyLoading \in BOOLEAN /\ refresh \in [Refreshes -> RefreshType]
  /\ view \in Views
  /\ members \in Rows /\ loadingMembers \in BOOLEAN /\ load \in [Loads -> LoadType]
  /\ selected \in Members \union {None}
  /\ grantOpen \in BOOLEAN /\ selfOpen \in BOOLEAN /\ opened \in 0..MaxMoves
  /\ granting \in BOOLEAN /\ grants \in Seq(GrantType)
  /\ balance \in [Members -> Nat] /\ ordered \subseteq Others
  /\ moves \in 0..MaxMoves

(* The two dialogs never grant at once, and one opening of a dialog grants *)
(* again only after the page has said that the grant before had failed,    *)
(* however the manager clicks, dismisses, and leaves the list and returns  *)
(* (grantingCredits is shared, and each dialog closes after a success).    *)
GrantedOnceUnlessFailed ==
  \A i, j \in DOMAIN grants : i < j =>
    /\ grants[i].at \in {"ok", "error"}
    /\ grants[i].opened = grants[j].opened => grants[i].at = "error"

(* The newest balance that the tab was answered for a grant to m made from *)
(* one of the given places.                                                *)
Known(m, from) ==
  {grants[i].to : i \in {k \in DOMAIN grants : grants[k].at = "ok" /\ grants[k].member = m
                                               /\ grants[k].from \in from}}

(* What a manager who waits sees is never older than a grant made there:   *)
(* not the balance in the header, and not the rows, but for those whose    *)
(* balance could not be read.  A grant from the header leaves the          *)
(* manager's own row as it was.                                            *)
ScreenFollowsGrants ==
  (patient /\ Settled) =>
    /\ \A n \in Known(Self, {"self", "row", "gone"}) : n <= credits
    /\ \A m \in DOMAIN members : members[m] = 0 \/ \A n \in Known(m, {"row"}) : n <= members[m]

(* The history is never a part of what there was when the refresh that     *)
(* made it began, whichever refreshes overlap and whichever calls fail.    *)
HistoryIsWhole == since \subseteq history

(* The dialog of the list is there for a member, and closes only by being  *)
(* dismissed or when a grant to that very member has succeeded; or when    *)
(* one has that was sent from an earlier dialog, which a manager who waits *)
(* has not dismissed.                                                      *)
ClosesForItsOwnGrant ==
  [][(grantOpen /\ ~grantOpen') =>
       \/ Dismiss
       \/ \E i \in DOMAIN grants :
            /\ grants[i].at = "served" /\ grants'[i].at = "ok"
            /\ grants[i].member = selected \/ (~patient /\ grants[i].opened < opened)]_vars

(* Once the manager stops clicking, every call comes to its end, whichever *)
(* fail, and no control is left disabled and no section loading.           *)
ControlsComeBack == <>[](Settled /\ ~granting /\ ~historyLoading /\ ~loadingMembers)
=============================================================================
