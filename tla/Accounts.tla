------------------------------ MODULE Accounts ------------------------------
(***************************************************************************)
(* Accounts and sign-in: the requests under /api/auth against the users    *)
(* collection, the tokens the API signs, and their life.                   *)
(*                                                                         *)
(* A registration looks nothing up: it inserts the account and leaves it   *)
(* to the unique index on the e-mail address to turn it down.  Accounts    *)
(* are never changed or removed.  A token carries the member and the role  *)
(* of the account as they were when it was signed, and the signing key     *)
(* comes from the environment, so that it outlives a restart of the API.   *)
(*                                                                         *)
(* The two manager roles have the same rights and are one here; a fresh    *)
(* member id is the identity of the request that made it; a domain query   *)
(* is the set of the addresses that it matches.                            *)
(***************************************************************************)
EXTENDS Naturals, FiniteSets

CONSTANTS
  Requests,    (* the HTTP requests that are made; bounds the model *)
  Emails, Passwords,
  Inputs,      (* what a request may ask, a subset of RequestType *)
  Seeded,      (* the accounts in the collection when the API starts *)
  Balances,    (* the balances a member may have, 0 among them *)
  SelfAssign,  (* AUTH_ALLOW_SELF_ASSIGN_ROLES *)
  Faults,      (* which of FaultKinds can happen *)
  None         (* no token *)

Roles == {"MEMBER", "MANAGER"}
FaultKinds == {"error", "timeout", "crash"}

(* "defect" is a body that does not parse, an invalid address, a short     *)
(* password, an unknown role or an invalid domain.                         *)
RequestType ==
  [kind : {"register", "login", "me", "members"},
   email : Emails, password : Passwords, role : Roles,
   among : SUBSET Emails,
   defect : BOOLEAN]

Members == Requests \union {u.member : u \in Seeded}
UserType == [member : Members, email : Emails, password : Passwords, role : Roles]
TokenType == [by : Requests, member : Members, role : Roles]

ASSUME AccountsAssumption ==
  /\ Inputs \subseteq RequestType
  /\ 0 \in Balances /\ Balances \subseteq Nat
  /\ SelfAssign \in BOOLEAN /\ Faults \subseteq FaultKinds
  /\ Seeded \subseteq [member : {u.member : u \in Seeded}, email : Emails,
                       password : Passwords, role : Roles]
  /\ \A u, v \in Seeded : u.email = v.email \/ u.member = v.member => u = v
  /\ \A u \in Seeded : u.member \notin Requests
  /\ None \notin TokenType

VARIABLES
  req,      (* req[r]: what request r asks                                  *)
  pc,       (* pc[r]: where the goroutine serving r is                      *)
  auth,     (* auth[r]: the token that r was let in with, or None           *)
  found,    (* found[r]: the accounts whose balance is still to be read     *)
  shown,    (* shown[r]: the accounts in the answer, with their balances    *)
  code,     (* code[r]: the status r is answered with, 0 before             *)
  users,    (* the users collection                                         *)
  balance,  (* balance[m]: the member's credits                             *)
  issued,   (* the tokens signed                                            *)
  expired,  (* those whose time is over                                     *)
  pending   (* inserts that the server may still perform: their call timed  *)
            (* out or their caller died                                     *)

handling == <<req, pc, auth, found, shown, code>>
signing == <<issued, expired>>
vars == <<handling, users, balance, signing, pending>>

InFlight == {"create", "find", "credits", "reply"}
Settled == {"done", "lost"}

Init ==
  /\ req \in [Requests -> Inputs]
  /\ pc = [r \in Requests |-> "idle"]
  /\ auth = [r \in Requests |-> None]
  /\ found = [r \in Requests |-> {}]
  /\ shown = [r \in Requests |-> {}]
  /\ code = [r \in Requests |-> 0]
  /\ users = Seeded
  /\ balance = [m \in Members |-> 0]
  /\ issued = {}
  /\ expired = {}
  /\ pending = {}

Goto(r, step) == pc' = [pc EXCEPT ![r] = step] /\ UNCHANGED code

Answer(r, status) ==
  /\ pc' = [pc EXCEPT ![r] = "reply"]
  /\ code' = [code EXCEPT ![r] = status]

-----------------------------------------------------------------------------
(* Validation and authentication *)

(* The account that a registration asks for. *)
NewUser(r) ==
  [member |-> r, email |-> req[r].email, password |-> req[r].password, role |-> req[r].role]

(* Variant: the role is not looked at. *)
RestrictedNever(q) == FALSE

(* role != RoleMember && !c.allowSelfAssignRoles *)
Restricted(q) == q.role # "MEMBER" /\ ~SelfAssign

Register(r) ==
  /\ pc[r] = "idle" /\ req[r].kind = "register"
  /\ IF req[r].defect THEN Answer(r, 400)
     ELSE IF Restricted(req[r]) THEN Answer(r, 403)
     ELSE Goto(r, "create")
  /\ UNCHANGED <<req, auth, found, shown, users, balance, signing, pending>>

Login(r) ==
  /\ pc[r] = "idle" /\ req[r].kind = "login"
  /\ IF req[r].defect THEN Answer(r, 400) ELSE Goto(r, "find")
  /\ UNCHANGED <<req, auth, found, shown, users, balance, signing, pending>>

(* The tokens that clients hold: those that they were answered with. *)
Held == {t \in issued : pc[t.by] = "done"}

(* parseToken *)
Valid(t) == t \in Held \ expired

(* RequireRoles: a token that is missing, expired or not of this API is    *)
(* answered 401.                                                           *)
Unauthenticated(r) ==
  /\ pc[r] = "idle" /\ req[r].kind \in {"me", "members"}
  /\ Answer(r, 401)
  /\ UNCHANGED <<req, auth, found, shown, users, balance, signing, pending>>

(* The role is the token's, not the account's. *)
Authenticated(r, t) ==
  /\ pc[r] = "idle" /\ req[r].kind \in {"me", "members"}
  /\ Valid(t)
  /\ auth' = [auth EXCEPT ![r] = t]
  /\ IF req[r].kind = "members" /\ t.role # "MANAGER" THEN Answer(r, 403)
     ELSE IF req[r].kind = "members" /\ req[r].defect THEN Answer(r, 400)
     ELSE Goto(r, "find")
  /\ UNCHANGED <<req, found, shown, users, balance, signing, pending>>

-----------------------------------------------------------------------------
(* The users collection *)

Token(r, u) == [by |-> r, member |-> u.member, role |-> u.role]

(* A session for account u: its token is signed and its balance read. *)
StartSession(r, u) ==
  /\ issued' = issued \union {Token(r, u)}
  /\ found' = [found EXCEPT ![r] = {u}]
  /\ Goto(r, "credits")
  /\ UNCHANGED expired

(* Variant: the index on the e-mail addresses is not unique. *)
TakenNever(email) == FALSE

(* The unique index on the e-mail addresses. *)
Taken(email) == \E u \in users : u.email = email

(* Variant: an account is replaced by a later registration. *)
CreateUserUpserts(r) ==
  /\ pc[r] = "create"
  /\ users' = {u \in users : u.email # req[r].email} \union {NewUser(r)}
  /\ StartSession(r, NewUser(r))
  /\ UNCHANGED <<req, auth, shown, balance, pending>>

CreateUser(r) ==
  /\ pc[r] = "create"
  /\ IF Taken(req[r].email)
     THEN Answer(r, 409) /\ UNCHANGED <<users, found, signing>>
     ELSE users' = users \union {NewUser(r)} /\ StartSession(r, NewUser(r))
  /\ UNCHANGED <<req, auth, shown, balance, pending>>

(* FindUserByEmail and CompareHashAndPassword *)
Matches(q) == {u \in users : u.email = q.email /\ u.password = q.password}

FindUserByEmail(r) ==
  /\ pc[r] = "find" /\ req[r].kind = "login"
  /\ \/ Matches(req[r]) = {} /\ Answer(r, 401) /\ UNCHANGED <<found, signing>>
     \/ \E u \in Matches(req[r]) : StartSession(r, u)
  /\ UNCHANGED <<req, auth, shown, users, balance, pending>>

FindUserByMemberID(r) ==
  /\ pc[r] = "find" /\ req[r].kind = "me"
  /\ LET profile == {u \in users : u.member = auth[r].member} IN
     /\ found' = [found EXCEPT ![r] = profile]
     /\ IF profile = {} THEN Answer(r, 401) ELSE Goto(r, "credits")
  /\ UNCHANGED <<req, auth, shown, users, balance, signing, pending>>

(* Variant: the list leaves out accounts without credits. *)
ListUsersWithCredits(r) ==
  /\ pc[r] = "find" /\ req[r].kind = "members"
  /\ found' = [found EXCEPT ![r] =
                 {u \in users : u.email \in req[r].among /\ balance[u.member] > 0}]
  /\ Goto(r, "credits")
  /\ UNCHANGED <<req, auth, shown, users, balance, signing, pending>>

ListUsers(r) ==
  /\ pc[r] = "find" /\ req[r].kind = "members"
  /\ found' = [found EXCEPT ![r] = {u \in users : u.email \in req[r].among}]
  /\ Goto(r, "credits")
  /\ UNCHANGED <<req, auth, shown, users, balance, signing, pending>>

(* Puts account u with a balance into the answer. *)
Show(r, u, amount) ==
  /\ found' = [found EXCEPT ![r] = @ \ {u}]
  /\ shown' = [shown EXCEPT ![r] = @ \union {[user |-> u, credits |-> amount]}]
  /\ UNCHANGED <<req, pc, auth, code, users, balance, signing, pending>>

(* loadCredits: one read for each account, after the accounts were read. *)
LoadCredits(r) ==
  /\ pc[r] = "credits"
  /\ \E u \in found[r] : Show(r, u, balance[u.member])

(* An error of that read is shown as an empty balance. *)
LoadCreditsFails(r) ==
  /\ Faults \intersect {"error", "timeout"} # {}
  /\ pc[r] = "credits"
  /\ \E u \in found[r] : Show(r, u, 0)

Respond(r) ==
  /\ pc[r] = "credits" /\ found[r] = {}
  /\ Answer(r, IF req[r].kind = "register" THEN 201 ELSE 200)
  /\ UNCHANGED <<req, auth, found, shown, users, balance, signing, pending>>

Reply(r) ==
  /\ pc[r] = "reply"
  /\ Goto(r, "done")
  /\ UNCHANGED <<req, auth, found, shown, users, balance, signing, pending>>

-----------------------------------------------------------------------------
(* Failures and the world around *)

(* Also a password that bcrypt finds too long. *)
StoreError(r) ==
  /\ "error" \in Faults
  /\ pc[r] \in {"create", "find"}
  /\ Answer(r, 500)
  /\ UNCHANGED <<req, auth, found, shown, users, balance, signing, pending>>

(* Variants: only CreateUser times out; its timeout is taken for a duplicate. *)
StoreTimeoutOfCreate(r) ==
  /\ "timeout" \in Faults
  /\ pc[r] = "create"
  /\ Answer(r, 500)
  /\ pending' = pending \union {NewUser(r)}
  /\ UNCHANGED <<req, auth, found, shown, users, balance, signing>>

StoreTimeoutConflicts(r) ==
  /\ "timeout" \in Faults
  /\ pc[r] \in {"create", "find"}
  /\ Answer(r, IF pc[r] = "create" THEN 409 ELSE 500)
  /\ pending' = IF pc[r] = "create" THEN pending \union {NewUser(r)} ELSE pending
  /\ UNCHANGED <<req, auth, found, shown, users, balance, signing>>

StoreTimeout(r) ==
  /\ "timeout" \in Faults
  /\ pc[r] \in {"create", "find"}
  /\ Answer(r, 500)
  /\ pending' = IF pc[r] = "create" THEN pending \union {NewUser(r)} ELSE pending
  /\ UNCHANGED <<req, auth, found, shown, users, balance, signing>>

(* The server performs the insert after all, unless the address is taken. *)
LateInsert(u) ==
  /\ u \in pending
  /\ users' = IF Taken(u.email) THEN users ELSE users \union {u}
  /\ pending' = pending \ {u}
  /\ UNCHANGED <<handling, balance, signing>>

LostInsert(u) ==
  /\ u \in pending
  /\ pending' = pending \ {u}
  /\ UNCHANGED <<handling, users, balance, signing>>

(* A grant or an order changes a balance. *)
Move(m) ==
  /\ \E amount \in Balances \ {balance[m]} : balance' = [balance EXCEPT ![m] = amount]
  /\ UNCHANGED <<handling, users, signing, pending>>

Expire(t) ==
  /\ t \in issued \ expired
  /\ expired' = expired \union {t}
  /\ UNCHANGED <<handling, users, balance, issued, pending>>

(* The API dies and is restarted.  An insert that was under way is with    *)
(* the server like one that timed out.                                     *)
Crash ==
  /\ "crash" \in Faults
  /\ \E r \in Requests : pc[r] \in InFlight
  /\ pc' = [r \in Requests |-> IF pc[r] \in InFlight THEN "lost" ELSE pc[r]]
  /\ \E left \in SUBSET {r \in Requests : pc[r] = "create"} :
       /\ left # {} => "timeout" \in Faults
       /\ pending' = pending \union {NewUser(r) : r \in left}
  /\ UNCHANGED <<req, auth, found, shown, code, users, balance, signing>>

(* Every request is over and the API waits for more. *)
Quiescent ==
  /\ \A r \in Requests : pc[r] \in Settled
  /\ pending = {}

Serve(r) ==
  \/ Register(r) \/ Login(r) \/ Unauthenticated(r)
  \/ \E t \in issued : Authenticated(r, t)
  \/ CreateUser(r) \/ FindUserByEmail(r) \/ FindUserByMemberID(r) \/ ListUsers(r)
  \/ LoadCredits(r) \/ LoadCreditsFails(r) \/ Respond(r) \/ Reply(r)
  \/ StoreError(r) \/ StoreTimeout(r)

Next ==
  \/ \E r \in Requests : Serve(r)
  \/ \E u \in pending : LateInsert(u) \/ LostInsert(u)
  \/ \E m \in Members : Move(m)
  \/ \E t \in issued : Expire(t)
  \/ Crash
  \/ Quiescent /\ UNCHANGED vars

Spec == Init /\ [][Next]_vars

(* As in Ordering: only the timeouts and the goroutine's own steps are     *)
(* fair, not the database.                                                 *)
GoesOn(r) ==
  /\ WF_vars(StoreTimeout(r)) /\ WF_vars(LoadCreditsFails(r))
  /\ WF_vars(Respond(r)) /\ WF_vars(Reply(r))

FairSpec == Spec /\ \A r \in Requests : GoesOn(r)

-----------------------------------------------------------------------------
(* Properties *)

(* Every variable has its type. *)
TypeOK ==
  /\ req \in [Requests -> Inputs]
  /\ pc \in [Requests -> {"idle"} \union InFlight \union Settled]
  /\ auth \in [Requests -> TokenType \union {None}]
  /\ found \in [Requests -> SUBSET UserType]
  /\ shown \in [Requests -> SUBSET [user : UserType, credits : Balances]]
  /\ code \in [Requests -> {0, 200, 201, 400, 401, 403, 409, 500}]
  /\ users \subseteq UserType
  /\ balance \in [Members -> Balances]
  /\ issued \subseteq TokenType
  /\ expired \subseteq issued
  /\ pending \subseteq UserType

(* Registrations of one address that race, time out and are performed late *)
(* leave one account, and every session, crash or not, is one of it: its   *)
(* token names a stored account with the role that is stored.              *)
SessionsAreBacked ==
  /\ \A u, v \in users : u.email = v.email => u = v
  /\ \A t \in issued : \E u \in users : u.member = t.member /\ u.role = t.role

(* Nobody becomes a manager by registering (auth_controller.go line 81):   *)
(* unless roles may be chosen, whoever is shown the members holds a token  *)
(* of a manager who was there before.                                      *)
ManagersAreAppointed ==
  ~SelfAssign =>
    \A r \in Requests : req[r].kind = "members" /\ shown[r] # {} =>
      \E u \in Seeded : u.member = auth[r].member /\ u.role = "MANAGER"

(* What the status of a registration tells is true, late inserts included: *)
(* 201 that the account is this request's, 409 that it is another's, 400   *)
(* and 403 that there is none and never will be.                           *)
AnswersMatchUsers ==
  \A r \in Requests : req[r].kind = "register" =>
    /\ code[r] = 201 => NewUser(r) \in users
    /\ code[r] = 409 => \E u \in users : u.email = req[r].email /\ u.member # r
    /\ code[r] \in {400, 403, 409} => NewUser(r) \notin users \union pending

(* A retry after a timeout is not locked out: an address that only one     *)
(* password was ever registered with opens with that password, as soon as  *)
(* any of its registrations was answered 201 or 409.                       *)
OwnersAreLetIn ==
  \A r \in Requests :
    (req[r].kind = "register" /\ code[r] \in {201, 409}
       /\ \A s \in Requests : req[s].kind = "register" /\ req[s].email = req[r].email
                                => req[s].password = req[r].password
       /\ \A u \in Seeded : u.email = req[r].email => u.password = req[r].password)
    => Matches(req[r]) # {}

(* A token that parseToken accepts finds its account, however long ago and *)
(* before however many restarts it was signed: /me turns no one away who   *)
(* was let in.                                                             *)
TokensStayGood ==
  \A r \in Requests : req[r].kind = "me" /\ auth[r] # None => code[r] # 401

(* The members' list holds each account of the query that was confirmed    *)
(* before the accounts were read, seeded or registered, exactly once, and  *)
(* no other, however many balances are read, or fail to be, in between.    *)
ListIsComplete ==
  [][\A r \in Requests : req[r].kind = "members" =>
       LET asked == {u \in users : u.email \in req[r].among}
           listed == {s.user : s \in shown[r]}
           confirmed == Seeded \union {NewUser(s) : s \in {x \in Requests : code[x] = 201}}
       IN /\ pc[r] = "find" /\ pc'[r] = "credits" => confirmed \intersect asked \subseteq found'[r]
          /\ pc[r] = "credits" =>
               {s.user : s \in shown'[r]} \union found'[r] = listed \union found[r]
          /\ code'[r] = 200 /\ code[r] = 0 =>
               listed \subseteq asked /\ Cardinality(listed) = Cardinality(shown[r])]_vars

(* Every request is answered or dies with the API, also one that reads a   *)
(* balance for each account of a long list while the database is silent.   *)
RequestsAreSettled ==
  \A r \in Requests : pc[r] \in InFlight ~> pc[r] \in Settled
=============================================================================
