------------------------------ MODULE Ordering ------------------------------
(***************************************************************************)
(* The ordering core of the coordination API: what the goroutines that     *)
(* serve POST /api/orders, POST and GET /api/members/{id}/credits and      *)
(* GET /api/members/{id}/orders do to the credits, orders and events       *)
(* collections of MongoDB.                                                 *)
(*                                                                         *)
(* net/http starts one goroutine per request, so a request is the process  *)
(* here.  It passes the router's role check and the controller's and the   *)
(* use case's validation, then makes one repository call after another.    *)
(* Nothing ties these calls together: no lock, no transaction, no          *)
(* compensation.  Every call has a five second timeout of its own, after   *)
(* which the request fails although the server may still perform the       *)
(* write.                                                                  *)
(*                                                                         *)
(* An order and the events of a request carry fresh UUIDs; the request's   *)
(* own identity stands for them, so that "orders" and "events" are sets of *)
(* requests.                                                               *)
(***************************************************************************)
EXTENDS Integers, FiniteSets

CONSTANTS
  Requests,    (* the HTTP requests that are made; bounds the model         *)
  Members,     (* the member ids                                            *)
  Inputs,      (* what a request may ask, a subset of RequestType           *)
  MaxCredits,  (* domain.MaxMemberCredits                                   *)
  Opening,     (* the balances the database may hold when the API starts    *)
  Faults,      (* which of FaultKinds can happen; "timeout": the server may *)
               (* perform a write for which nobody waits any more           *)
  Overlap      (* may two requests about one member be served at once?      *)

FaultKinds == {"error", "timeout", "crash"}

(* A member without a document in the credits collection.                  *)
NoAccount == -1

(* An HTTP request: the route it takes, the claims of its token (no token, *)
(* a member's or a manager's), the member it is about, and its amount: an  *)
(* order's total over the items or the credits to grant.  "defect" tells   *)
(* where the payload fails to validate: in an identifier or the JSON body, *)
(* which is looked at before the caller's rights, or in the items, which   *)
(* are looked at after.                                                    *)
RequestType ==
  [kind : {"order", "grant", "credits", "history"},
   role : {"none", "MEMBER", "MANAGER"},
   self : Members,
   member : Members,
   amount : Int,
   defect : {"none", "body", "items"}]

(* The total of a valid order cannot be negative: quantities are positive, *)
(* prices are not negative.                                                *)
ASSUME InputsAssumption ==
  /\ Inputs \subseteq RequestType
  /\ \A q \in Inputs : q.kind = "order" /\ q.defect = "none" => q.amount >= 0

ASSUME CreditsAssumption ==
  /\ MaxCredits \in Nat
  /\ Opening \subseteq NoAccount..MaxCredits

ASSUME ModeAssumption ==
  /\ Faults \subseteq FaultKinds
  /\ Overlap \in BOOLEAN

VARIABLES
  req,      (* req[r]: what request r asks                                  *)
  pc,       (* pc[r]: where the goroutine serving r is                      *)
  read,     (* read[r]: the balance that r's Get returned                   *)
  code,     (* code[r]: the status r is answered with, 0 before             *)
  listed,   (* listed[r]: the orders that a history request found           *)
  credits,  (* credits[m]: the member's document, or NoAccount              *)
  orders,   (* the orders collection                                        *)
  events,   (* the events collection                                        *)
  pending,  (* writes that the server may still perform: their call timed   *)
            (* out or their caller died                                     *)
  applied,  (* history: the requests whose new balance was stored           *)
  granted,  (* history: per member, the credits ever put in                 *)
  spent     (* history: per member, the credits ever taken out              *)

store == <<credits, orders, events>>
ledger == <<applied, granted, spent>>
vars == <<req, pc, read, code, listed, store, pending, ledger>>

WriteSteps == {"set", "save", "append"}
StoreSteps == WriteSteps \union {"get"}
InFlight == StoreSteps \union {"reply"}
Settled == {"done", "lost"}

(* A request that is answered with one of these was turned down by a check *)
(* of the router, the controller or the use case.                          *)
Refusals == {400, 401, 403, 404, 422}
Success == {200, 201}

-----------------------------------------------------------------------------
(* Validation: the status with which a request is turned down before any   *)
(* repository call, or 0.                                                  *)

(* RequireRoles on POST /api/members/{id}/credits: managers only. *)
RouteOpen(q) == q.kind = "grant" => q.role = "MANAGER"

(* canAccessMemberData *)
CanAccess(q) == q.role = "MANAGER" \/ q.self = q.member

(* What Execute checks before its first repository call. *)
Invalid(q) ==
  \/ q.kind = "order" /\ q.defect = "items"
  \/ q.kind = "grant" /\ q.amount <= 0

(* Variant: the controller forgets canAccessMemberData. *)
RefusalAnyMember(q) ==
  IF q.role = "none" THEN 401
  ELSE IF ~RouteOpen(q) THEN 403
  ELSE IF q.defect = "body" \/ Invalid(q) THEN 400
  ELSE 0

Refusal(q) ==
  IF q.role = "none" THEN 401
  ELSE IF ~RouteOpen(q) THEN 403
  ELSE IF q.defect = "body" THEN 400
  ELSE IF ~CanAccess(q) THEN 403
  ELSE IF Invalid(q) THEN 400
  ELSE 0

-----------------------------------------------------------------------------
(* A missing account counts as an empty one. *)
Amount(balance) == IF balance = NoAccount THEN 0 ELSE balance

(* Variants: no comparison with the total; a comparison off by one. *)
AffordableAnyTotal(q, balance) == balance # NoAccount
AffordableOffByOne(q, balance) == balance # NoAccount /\ q.amount <= balance + 1

(* !ok || currentCredits < total *)
Affordable(q, balance) == balance # NoAccount /\ q.amount <= balance

(* newBalance > MaxMemberCredits *)
WithinCap(q, balance) == Amount(balance) + q.amount <= MaxCredits

(* Variants: the total is added; a grant replaces the balance. *)
NewBalanceWrongSign(r) == Amount(read[r]) + req[r].amount
NewBalanceReplaced(r) ==
  IF req[r].kind = "order" THEN read[r] - req[r].amount ELSE req[r].amount

(* The amount Execute hands to Set: computed from what Get returned, not   *)
(* from what the collection holds by then.                                 *)
NewBalance(r) ==
  IF req[r].kind = "order"
  THEN read[r] - req[r].amount
  ELSE Amount(read[r]) + req[r].amount

Goto(r, step) == pc' = [pc EXCEPT ![r] = step] /\ UNCHANGED code

Answer(r, status) ==
  /\ pc' = [pc EXCEPT ![r] = "reply"]
  /\ code' = [code EXCEPT ![r] = status]

Init ==
  /\ req \in [Requests -> Inputs]
  /\ pc = [r \in Requests |-> "idle"]
  /\ read = [r \in Requests |-> NoAccount]
  /\ code = [r \in Requests |-> 0]
  /\ listed = [r \in Requests |-> {}]
  /\ credits \in [Members -> Opening]
  /\ orders = {}
  /\ events = {}
  /\ pending = {}
  /\ applied = {}
  /\ granted = [m \in Members |-> Amount(credits[m])]
  /\ spent = [m \in Members |-> 0]

-----------------------------------------------------------------------------
(* The request arrives and is validated. *)

(* Not the code's doing: without Overlap the clients wait with a request   *)
(* until no other about the same member is being served.                   *)
MayStart(r) ==
  \/ Overlap
  \/ \A s \in Requests : pc[s] \in InFlight => req[s].member # req[r].member

Accept(r) ==
  /\ pc[r] = "idle"
  /\ MayStart(r)
  /\ Refusal(req[r]) = 0
  /\ Goto(r, "get")
  /\ UNCHANGED <<req, read, listed, store, pending, ledger>>

Refuse(r) ==
  /\ pc[r] = "idle"
  /\ MayStart(r)
  /\ Refusal(req[r]) # 0
  /\ Answer(r, Refusal(req[r]))
  /\ UNCHANGED <<req, read, listed, store, pending, ledger>>

-----------------------------------------------------------------------------
(* The repository's read answers, and Execute decides. *)

Get(r) ==
  /\ pc[r] = "get"
  /\ read' = [read EXCEPT ![r] = credits[req[r].member]]
  /\ UNCHANGED <<req, listed, store, pending, ledger>>

GetForOrder(r) ==
  /\ req[r].kind = "order"
  /\ Get(r)
  /\ IF Affordable(req[r], read'[r]) THEN Goto(r, "set") ELSE Answer(r, 422)

GetForGrant(r) ==
  /\ req[r].kind = "grant"
  /\ Get(r)
  /\ IF WithinCap(req[r], read'[r]) THEN Goto(r, "set") ELSE Answer(r, 422)

GetCredits(r) ==
  /\ req[r].kind = "credits"
  /\ Get(r)
  /\ Answer(r, IF read'[r] = NoAccount THEN 404 ELSE 200)

OrdersByMember(r) ==
  /\ req[r].kind = "history"
  /\ pc[r] = "get"
  /\ listed' = [listed EXCEPT ![r] = {o \in orders : req[o].member = req[r].member}]
  /\ Answer(r, 200)
  /\ UNCHANGED <<req, read, store, pending, ledger>>

-----------------------------------------------------------------------------
(* What a write of request r does to the collections, whenever it is       *)
(* performed.  Set replaces the member's document or inserts it.           *)

PerformSet(r) ==
  LET m == req[r].member IN
  /\ credits' = [credits EXCEPT ![m] = NewBalance(r)]
  /\ applied' = applied \union {r}
  /\ IF req[r].kind = "order"
     THEN /\ spent' = [spent EXCEPT ![m] = @ + req[r].amount]
          /\ UNCHANGED granted
     ELSE /\ granted' = [granted EXCEPT ![m] = @ + req[r].amount]
          /\ UNCHANGED spent
  /\ UNCHANGED <<orders, events>>

PerformSave(r) ==
  /\ orders' = orders \union {r}
  /\ UNCHANGED <<credits, events, ledger>>

PerformAppend(r) ==
  /\ events' = events \union {r}
  /\ UNCHANGED <<credits, orders, ledger>>

Perform(op, r) ==
  \/ op = "set" /\ PerformSet(r)
  \/ op = "save" /\ PerformSave(r)
  \/ op = "append" /\ PerformAppend(r)

(* The aggregate an event belongs to: an order's event to the order, not   *)
(* to the member who pays for it; a grant's event to the member.           *)
AggregateID(r) == IF req[r].kind = "order" THEN r ELSE req[r].member

EventsByAggregate(a) == {e \in events : AggregateID(e) = a}

(* Set refuses an amount above the cap before it calls the server. *)
OverCap(r) == pc[r] = "set" /\ NewBalance(r) > MaxCredits

(* The server acknowledges a write and Execute goes on to the next. *)

(* Variant: the order is charged and logged but not saved. *)
SetWithoutSave(r) ==
  /\ pc[r] = "set"
  /\ ~OverCap(r)
  /\ PerformSet(r)
  /\ Goto(r, "append")
  /\ UNCHANGED <<req, read, listed, pending>>

Set(r) ==
  /\ pc[r] = "set"
  /\ ~OverCap(r)
  /\ PerformSet(r)
  /\ Goto(r, IF req[r].kind = "order" THEN "save" ELSE "append")
  /\ UNCHANGED <<req, read, listed, pending>>

(* Variant: the order is confirmed before its event is appended. *)
SaveAndConfirm(r) ==
  /\ pc[r] = "save"
  /\ PerformSave(r)
  /\ Answer(r, 201)
  /\ UNCHANGED <<req, read, listed, pending>>

Save(r) ==
  /\ pc[r] = "save"
  /\ PerformSave(r)
  /\ Goto(r, "append")
  /\ UNCHANGED <<req, read, listed, pending>>

Append(r) ==
  /\ pc[r] = "append"
  /\ PerformAppend(r)
  /\ Answer(r, IF req[r].kind = "order" THEN 201 ELSE 200)
  /\ UNCHANGED <<req, read, listed, pending>>

-----------------------------------------------------------------------------
(* Failures *)

(* Variant: the error of Set is dropped and the order saved all the same. *)
StoreErrorDropped(r) ==
  /\ "error" \in Faults
  /\ pc[r] \in StoreSteps
  /\ IF pc[r] = "set" /\ req[r].kind = "order" THEN Goto(r, "save") ELSE Answer(r, 500)
  /\ UNCHANGED <<req, read, listed, store, pending, ledger>>

(* A repository call fails without effect.  Execute returns the error and  *)
(* undoes nothing.                                                         *)
StoreError(r) ==
  /\ "error" \in Faults \/ OverCap(r)
  /\ pc[r] \in StoreSteps
  /\ Answer(r, 500)
  /\ UNCHANGED <<req, read, listed, store, pending, ledger>>

(* Variants: a timeout of Append counts as success; only writes time out. *)
StoreTimeoutConfirms(r) ==
  /\ "timeout" \in Faults
  /\ pc[r] \in StoreSteps
  /\ Answer(r, IF pc[r] = "append" THEN 201 ELSE 500)
  /\ pending' = IF pc[r] \in WriteSteps
                THEN pending \union {[op |-> pc[r], by |-> r]}
                ELSE pending
  /\ UNCHANGED <<req, read, listed, store, ledger>>

StoreTimeoutOfWrites(r) ==
  /\ "timeout" \in Faults
  /\ pc[r] \in WriteSteps
  /\ Answer(r, 500)
  /\ pending' = pending \union {[op |-> pc[r], by |-> r]}
  /\ UNCHANGED <<req, read, listed, store, ledger>>

(* A repository call's context expires.  The request fails alike, but a    *)
(* write is with the server, which may perform it at any later time ...    *)
StoreTimeout(r) ==
  /\ "timeout" \in Faults
  /\ pc[r] \in StoreSteps
  /\ Answer(r, 500)
  /\ pending' = IF pc[r] \in WriteSteps
                THEN pending \union {[op |-> pc[r], by |-> r]}
                ELSE pending
  /\ UNCHANGED <<req, read, listed, store, ledger>>

LateWrite(w) ==
  /\ w \in pending
  /\ Perform(w.op, w.by)
  /\ pending' = pending \ {w}
  /\ UNCHANGED <<req, pc, read, code, listed>>

(* ... or never. *)
LostWrite(w) ==
  /\ w \in pending
  /\ pending' = pending \ {w}
  /\ UNCHANGED <<req, pc, read, code, listed, store, ledger>>

(* The API's only replica dies and is restarted: every request in flight   *)
(* ends between two of its steps, and its client gets no answer.  The      *)
(* writes it was waiting for are with the server like those that timed     *)
(* out: each is performed later or never.                                  *)
Crash ==
  /\ "crash" \in Faults
  /\ \E r \in Requests : pc[r] \in InFlight
  /\ pc' = [r \in Requests |-> IF pc[r] \in InFlight THEN "lost" ELSE pc[r]]
  /\ \E left \in SUBSET {r \in Requests : pc[r] \in WriteSteps} :
       /\ left # {} => "timeout" \in Faults
       /\ pending' = pending \union {[op |-> pc[r], by |-> r] : r \in left}
  /\ UNCHANGED <<req, read, code, listed, store, ledger>>

Reply(r) ==
  /\ pc[r] = "reply"
  /\ Goto(r, "done")
  /\ UNCHANGED <<req, read, listed, store, pending, ledger>>

(* Every request is over and the API waits for more. *)
Quiescent ==
  /\ \A r \in Requests : pc[r] \in Settled
  /\ pending = {}

Serve(r) ==
  \/ Accept(r) \/ Refuse(r)
  \/ GetForOrder(r) \/ GetForGrant(r) \/ GetCredits(r) \/ OrdersByMember(r)
  \/ Set(r) \/ Save(r) \/ Append(r)
  \/ StoreError(r) \/ StoreTimeout(r)
  \/ Reply(r)

Next ==
  \/ \E r \in Requests : Serve(r)
  \/ \E w \in pending : LateWrite(w) \/ LostWrite(w)
  \/ Crash
  \/ Quiescent /\ UNCHANGED vars

Spec == Init /\ [][Next]_vars

(* The database may never answer: no step of the store is fair.  The       *)
(* timeout of a call is, and so is the goroutine's own reply.              *)
GoesOn(r) == WF_vars(StoreTimeout(r)) /\ WF_vars(Reply(r))

FairSpec == Spec /\ \A r \in Requests : GoesOn(r)

-----------------------------------------------------------------------------
(* Properties *)

(* Who may ask what, as the product means it: a member for their own       *)
(* account, a manager for every account, and only a manager grants.        *)
Entitled(q) ==
  \/ q.role = "MANAGER"
  \/ q.role = "MEMBER" /\ q.self = q.member /\ q.kind # "grant"

(* Every variable has its type. *)
TypeOK ==
  /\ req \in [Requests -> Inputs]
  /\ pc \in [Requests -> {"idle"} \union InFlight \union Settled]
  /\ read \in [Requests -> NoAccount..MaxCredits]
  /\ code \in [Requests -> {0, 500} \union Refusals \union Success]
  /\ listed \in [Requests -> SUBSET Requests]
  /\ credits \in [Members -> Int]
  /\ orders \subseteq Requests
  /\ events \subseteq Requests
  /\ pending \subseteq [op : WriteSteps, by : Requests]
  /\ applied \subseteq Requests
  /\ granted \in [Members -> Nat]
  /\ spent \in [Members -> Nat]

(* A balance is never negative and never above the cap, whatever requests  *)
(* overlap, fail or are performed late; and an account that was written is *)
(* there for good.  Execute checks both bounds against a balance that may  *)
(* be stale when it is used (PlaceOrder lines 81-115, AddCredits 166-178). *)
CreditsWithinBounds ==
  /\ \A m \in Members : credits[m] \in NoAccount..MaxCredits
  /\ \A r \in applied : credits[req[r].member] # NoAccount

(* Stale writes may lose a change, but never make money that no manager    *)
(* granted: a balance is at most the opening balance and all the grants.   *)
CreditsBackedByGrants ==
  \A m \in Members : Amount(credits[m]) <= granted[m]

(* The order of the three writes, as a crash or a failed call leaves them: *)
(* an order in the collection has been paid for, an event in the           *)
(* collection tells of an order that is stored or a grant that took place. *)
RecordsFollowMoney ==
  /\ orders \subseteq {r \in applied : req[r].kind = "order"}
  /\ \A r \in events : IF req[r].kind = "order" THEN r \in orders ELSE r \in applied

(* What the status tells the client is true of the collections.  A         *)
(* confirmed order or grant has been written in full; a request that was   *)
(* turned down has written nothing and never will, late writes included.   *)
AnswersMatchRecords ==
  \A r \in Requests :
    /\ code[r] \in Success /\ req[r].kind \in {"order", "grant"} => r \in events
    /\ code[r] \in Refusals =>
         r \notin applied \union orders \union events \union {w.by : w \in pending}

(* A history that is answered is the member's own and complete: it holds   *)
(* every order about the member that was confirmed before the collection   *)
(* was read, and nothing else than orders that were paid for.              *)
HistoryIsComplete ==
  [][\A r \in Requests : req[r].kind = "history" /\ code[r] = 0 /\ code'[r] = 200 =>
       LET own == {o \in Requests : req[o].kind = "order" /\ req[o].member = req[r].member}
       IN /\ {o \in own : code[o] = 201} \subseteq listed'[r]
          /\ listed'[r] \subseteq own \intersect applied
          /\ Entitled(req[r])]_vars

(* A balance changes only by a request about this member that the caller   *)
(* may make, at most once per request, and orders and events are only ever *)
(* added: no retry, failure or late write repeats or takes back one.       *)
ChangesAreAuthorised ==
  [][/\ \A m \in Members : credits'[m] # credits[m] =>
          \E r \in applied' \ applied : req[r].member = m /\ Entitled(req[r])
     /\ orders \subseteq orders' /\ events \subseteq events'
     /\ applied \subseteq applied']_vars

(* Without Overlap and late writes the balance is exactly what was put in  *)
(* less what was taken out, after every failure and crash.                 *)
CreditsConserved ==
  \A m \in Members : Amount(credits[m]) = granted[m] - spent[m]

(* place_order_success.feature: "my order is confirmed and my credits are  *)
(* deducted".  Once all requests are over, the credits spent on orders are *)
(* gone from the balance.                                                  *)
ConfirmedOrdersAreDeducted ==
  Quiescent => \A m \in Members : Amount(credits[m]) + spent[m] <= granted[m]

(* A request that is being served is answered or dies with the API, even   *)
(* if the database never answers.                                          *)
RequestsAreSettled ==
  \A r \in Requests : pc[r] \in InFlight ~> pc[r] \in Settled

=============================================================================
