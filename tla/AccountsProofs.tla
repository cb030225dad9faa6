--------------------------- MODULE AccountsProofs ---------------------------
(***************************************************************************)
(* Proofs about Accounts for every set of requests, addresses, passwords,  *)
(* inputs and seeded accounts, either setting of SelfAssign, and every     *)
(* combination of faults.                                                  *)
(***************************************************************************)
EXTENDS AccountsRefinement, FiniteSetTheorems, TLAPS

(* The accounts that are stored or may be stored yet. *)
Possible == users \union pending

(* An account was seeded or comes from a registration, and then it has the *)
(* identity and the data of that request.                                  *)
Origin ==
  \A u \in Possible :
    u \in Seeded \/ \E r \in Requests : req[r].kind = "register" /\ u = NewUser(r)

(* Who the collection takes for a manager was there before. *)
NoNewManagers ==
  ~SelfAssign => \A u \in Possible : u.role = "MANAGER" => u \in Seeded

(* Where a registration stands. *)
RegisterInv ==
  \A r \in Requests :
    /\ pc[r] = "create" => req[r].kind = "register" /\ ~Restricted(req[r])
    /\ NewUser(r) \in pending => /\ pc[r] \in {"reply", "done", "lost"}
                                 /\ code[r] = 500 \/ (code[r] = 0 /\ pc[r] = "lost")
    /\ NewUser(r) \in users =>
         pc[r] \in {"credits", "reply", "done", "lost"} /\ code[r] \in {0, 201, 500}
    /\ pc[r] = "credits" /\ req[r].kind = "register" => NewUser(r) \in users
    /\ code[r] = 201 => req[r].kind = "register"

(* Where a request with a token stands. *)
SessionInv ==
  \A r \in Requests :
    /\ pc[r] \in {"idle", "create", "find", "credits"} => code[r] = 0
    /\ pc[r] = "idle" => auth[r] = None
    /\ auth[r] # None => auth[r] \in issued
    /\ req[r].kind = "me" /\ pc[r] = "find" => auth[r] # None
    /\ req[r].kind = "members" /\ (pc[r] \in {"find", "credits"} \/ shown[r] # {})
         => auth[r] # None /\ auth[r].role = "MANAGER"

IInv ==
  /\ TypeOK
  /\ Origin
  /\ NoNewManagers
  /\ RegisterInv
  /\ SessionInv
  /\ SessionsAreBacked
  /\ AnswersMatchUsers
  /\ TokensStayGood

-----------------------------------------------------------------------------
(* The inputs, unfolded for the provers. *)
LEMMA RequestFacts ==
  ASSUME TypeOK, NEW r \in Requests
  PROVE  /\ req[r] \in RequestType
         /\ req[r].kind \in {"register", "login", "me", "members"}
         /\ NewUser(r) \in UserType /\ NewUser(r).member = r
  BY AccountsAssumption DEF TypeOK, RequestType, UserType, NewUser, Members

(* Nobody's account is a seeded one, and no two requests have the same. *)
LEMMA NewUsersDiffer ==
  ASSUME TypeOK
  PROVE  /\ \A r \in Requests : NewUser(r) \notin Seeded
         /\ \A r, s \in Requests : NewUser(r) = NewUser(s) => r = s
  BY RequestFacts, AccountsAssumption

(* A token of an account that is stored. *)
LEMMA TokenFacts ==
  ASSUME NEW r \in Requests, NEW u \in UserType
  PROVE  /\ Token(r, u) \in TokenType
         /\ Token(r, u).member = u.member /\ Token(r, u).role = u.role
  BY DEF Token, TokenType, UserType

(* What does not depend on the requests' progress is kept while the        *)
(* accounts, stored and pending, and the tokens stay as they are.          *)
LEMMA FrameInv ==
  ASSUME IInv, req' = req, users' = users, pending' = pending, issued' = issued
  PROVE  Origin' /\ NoNewManagers' /\ SessionsAreBacked'
  BY DEF IInv, Origin, NoNewManagers, SessionsAreBacked, Possible, NewUser

(* The API starts in a good state. *)
LEMMA InitInv == Init => IInv
<1> SUFFICES ASSUME Init PROVE IInv
  OBVIOUS
<1>1. Seeded \subseteq UserType
  BY AccountsAssumption DEF UserType, Members
<1>2. TypeOK
  <2>1. req \in [Requests -> Inputs] /\ users \subseteq UserType /\ pending \subseteq UserType
    BY <1>1 DEF Init
  <2>2. balance \in [Members -> Balances]
    BY AccountsAssumption DEF Init
  <2>3. issued \subseteq TokenType /\ expired \subseteq issued
    BY DEF Init
  <2>4. pc \in [Requests -> {"idle"} \union InFlight \union Settled]
        /\ code \in [Requests -> {0, 200, 201, 400, 401, 403, 409, 500}]
        /\ auth \in [Requests -> TokenType \union {None}]
    BY DEF Init
  <2>5. found \in [Requests -> SUBSET UserType]
        /\ shown \in [Requests -> SUBSET [user : UserType, credits : Balances]]
    BY DEF Init
  <2> QED
    BY <2>1, <2>2, <2>3, <2>4, <2>5 DEF TypeOK
<1>3. \A r \in Requests : NewUser(r) \notin users \union pending
  BY <1>2, NewUsersDiffer DEF Init
<1>4. Origin /\ NoNewManagers /\ SessionsAreBacked
  BY AccountsAssumption DEF Init, Origin, NoNewManagers, SessionsAreBacked, Possible
<1>5. RegisterInv /\ SessionInv /\ AnswersMatchUsers /\ TokensStayGood
  BY <1>3 DEF Init, RegisterInv, SessionInv, AnswersMatchUsers, TokensStayGood
<1> QED
  BY <1>2, <1>4, <1>5 DEF IInv

-----------------------------------------------------------------------------
(* Steps that neither write an account nor sign a token *)

LEMMA RegisterStep ==
  ASSUME IInv, NEW r \in Requests, Register(r) PROVE IInv'
<1> USE DEF IInv, Register, Goto, Answer, signing
<1>1. TypeOK'
  BY DEF TypeOK, InFlight
<1>2. \A s \in Requests : NewUser(s)' = NewUser(s)
  BY DEF NewUser
<1>3. NewUser(r) \notin users \union pending
  BY DEF RegisterInv
<1>4. RegisterInv'
  BY <1>2, <1>3 DEF TypeOK, RegisterInv, Restricted
<1>5. SessionInv' /\ TokensStayGood'
  BY DEF TypeOK, SessionInv, TokensStayGood
<1>6. AnswersMatchUsers'
  BY <1>2, <1>3 DEF TypeOK, AnswersMatchUsers
<1> QED
  BY <1>1, <1>4, <1>5, <1>6, FrameInv

LEMMA LoginStep ==
  ASSUME IInv, NEW r \in Requests, Login(r) PROVE IInv'
<1> USE DEF IInv, Login, Goto, Answer, signing
<1>1. TypeOK'
  BY DEF TypeOK, InFlight
<1>2. \A s \in Requests : NewUser(s)' = NewUser(s)
  BY DEF NewUser
<1>3. NewUser(r) \notin users \union pending
  BY DEF RegisterInv
<1>4. RegisterInv'
  BY <1>2, <1>3 DEF TypeOK, RegisterInv, Restricted
<1>5. SessionInv' /\ TokensStayGood'
  BY DEF TypeOK, SessionInv, TokensStayGood
<1>6. AnswersMatchUsers'
  BY <1>2 DEF TypeOK, AnswersMatchUsers
<1> QED
  BY <1>1, <1>4, <1>5, <1>6, FrameInv

LEMMA UnauthenticatedStep ==
  ASSUME IInv, NEW r \in Requests, Unauthenticated(r) PROVE IInv'
<1> USE DEF IInv, Unauthenticated, Goto, Answer, signing
<1>1. TypeOK'
  BY DEF TypeOK, InFlight
<1>2. \A s \in Requests : NewUser(s)' = NewUser(s)
  BY DEF NewUser
<1>3. NewUser(r) \notin users \union pending
  BY DEF RegisterInv
<1>4. RegisterInv'
  BY <1>2, <1>3 DEF TypeOK, RegisterInv, Restricted
<1>5. SessionInv' /\ TokensStayGood'
  BY DEF TypeOK, SessionInv, TokensStayGood
<1>6. AnswersMatchUsers'
  BY <1>2 DEF TypeOK, AnswersMatchUsers
<1> QED
  BY <1>1, <1>4, <1>5, <1>6, FrameInv

LEMMA AuthenticatedStep ==
  ASSUME IInv, NEW r \in Requests, NEW t \in issued, Authenticated(r, t) PROVE IInv'
<1> USE DEF IInv, Authenticated, Goto, Answer, signing
<1>1. TypeOK'
  BY DEF TypeOK, InFlight
<1>2. \A s \in Requests : NewUser(s)' = NewUser(s)
  BY DEF NewUser
<1>3. NewUser(r) \notin users \union pending
  BY DEF RegisterInv
<1>4. RegisterInv'
  BY <1>2, <1>3 DEF TypeOK, RegisterInv, Restricted
<1>5. t # None
  BY AccountsAssumption DEF TypeOK
<1>6. SessionInv' /\ TokensStayGood'
  BY <1>5 DEF TypeOK, SessionInv, TokensStayGood
<1>7. AnswersMatchUsers'
  BY <1>2 DEF TypeOK, AnswersMatchUsers
<1> QED
  BY <1>1, <1>4, <1>6, <1>7, FrameInv

(* The profile of a token that was let in is there. *)
LEMMA FindUserByMemberIDStep ==
  ASSUME IInv, NEW r \in Requests, FindUserByMemberID(r) PROVE IInv'
<1> DEFINE profile == {u \in users : u.member = auth[r].member}
<1> USE DEF IInv, FindUserByMemberID, Goto, Answer, signing
<1>1. profile # {}
  BY DEF SessionInv, SessionsAreBacked
<1>2. pc' = [pc EXCEPT ![r] = "credits"] /\ code' = code
  BY <1>1
<1>3. TypeOK'
  BY <1>2 DEF TypeOK, InFlight
<1>4. \A s \in Requests : NewUser(s)' = NewUser(s)
  BY DEF NewUser
<1>5. RegisterInv'
  BY <1>2, <1>4 DEF TypeOK, RegisterInv, Restricted
<1>6. SessionInv' /\ TokensStayGood'
  BY <1>2 DEF TypeOK, SessionInv, TokensStayGood
<1>7. AnswersMatchUsers'
  BY <1>2, <1>4 DEF TypeOK, AnswersMatchUsers
<1> QED
  BY <1>3, <1>5, <1>6, <1>7, FrameInv

LEMMA ListUsersStep ==
  ASSUME IInv, NEW r \in Requests, ListUsers(r) PROVE IInv'
<1> USE DEF IInv, ListUsers, Goto, signing
<1>1. TypeOK'
  BY DEF TypeOK, InFlight
<1>2. \A s \in Requests : NewUser(s)' = NewUser(s)
  BY DEF NewUser
<1>3. RegisterInv'
  BY <1>2 DEF TypeOK, RegisterInv, Restricted
<1>4. SessionInv' /\ TokensStayGood'
  BY DEF TypeOK, SessionInv, TokensStayGood
<1>5. AnswersMatchUsers'
  BY <1>2 DEF TypeOK, AnswersMatchUsers
<1> QED
  BY <1>1, <1>3, <1>4, <1>5, FrameInv

LEMMA ShowStep ==
  ASSUME IInv, NEW r \in Requests, pc[r] = "credits",
         NEW u \in found[r], NEW amount \in Balances, Show(r, u, amount)
  PROVE  IInv'
<1> USE DEF IInv, Show, signing
<1>1. TypeOK'
  <2>1. [user |-> u, credits |-> amount] \in [user : UserType, credits : Balances]
    BY DEF TypeOK
  <2> QED
    BY <2>1 DEF TypeOK
<1>2. \A s \in Requests : NewUser(s)' = NewUser(s)
  BY DEF NewUser
<1>3. RegisterInv'
  BY <1>2 DEF RegisterInv, Restricted
<1>4. SessionInv' /\ TokensStayGood'
  BY DEF TypeOK, SessionInv, TokensStayGood
<1>5. AnswersMatchUsers'
  BY <1>2 DEF AnswersMatchUsers
<1> QED
  BY <1>1, <1>3, <1>4, <1>5, FrameInv

LEMMA LoadCreditsStep ==
  ASSUME IInv, NEW r \in Requests, LoadCredits(r) \/ LoadCreditsFails(r) PROVE IInv'
<1>1. CASE LoadCredits(r)
  <2>1. PICK u \in found[r] : pc[r] = "credits" /\ Show(r, u, balance[u.member])
    BY <1>1 DEF LoadCredits
  <2>2. balance[u.member] \in Balances
    BY DEF IInv, TypeOK, UserType
  <2> QED
    BY <2>1, <2>2, ShowStep
<1>2. CASE LoadCreditsFails(r)
  BY <1>2, ShowStep, AccountsAssumption DEF LoadCreditsFails
<1> QED
  BY <1>1, <1>2

LEMMA RespondStep ==
  ASSUME IInv, NEW r \in Requests, Respond(r) PROVE IInv'
<1> USE DEF IInv, Respond, Answer, signing
<1>1. TypeOK'
  BY DEF TypeOK, InFlight
<1>2. \A s \in Requests : NewUser(s)' = NewUser(s)
  BY DEF NewUser
<1>3. RegisterInv'
  <2>1. NewUser(r) \notin pending
    BY DEF RegisterInv
  <2>2. NewUser(r) \in users => req[r].kind = "register"
    <3>1. ASSUME NewUser(r) \in users PROVE req[r].kind = "register"
      <4>1. NewUser(r) \notin Seeded
        BY NewUsersDiffer
      <4>2. PICK s \in Requests : req[s].kind = "register" /\ NewUser(r) = NewUser(s)
        BY <3>1, <4>1 DEF Origin, Possible
      <4> QED
        BY <4>2, NewUsersDiffer
    <3> QED
      BY <3>1
  <2> QED
    BY <1>2, <2>1, <2>2 DEF TypeOK, RegisterInv, Restricted
<1>4. SessionInv' /\ TokensStayGood'
  BY DEF TypeOK, SessionInv, TokensStayGood
<1>5. AnswersMatchUsers'
  BY <1>2 DEF TypeOK, AnswersMatchUsers, RegisterInv
<1> QED
  BY <1>1, <1>3, <1>4, <1>5, FrameInv

LEMMA ReplyStep ==
  ASSUME IInv, NEW r \in Requests, Reply(r) PROVE IInv'
<1> USE DEF IInv, Reply, Goto, signing
<1>1. TypeOK'
  BY DEF TypeOK, Settled
<1>2. \A s \in Requests : NewUser(s)' = NewUser(s)
  BY DEF NewUser
<1>3. RegisterInv'
  BY <1>2 DEF TypeOK, RegisterInv, Restricted
<1>4. SessionInv' /\ TokensStayGood'
  BY DEF TypeOK, SessionInv, TokensStayGood
<1>5. AnswersMatchUsers'
  BY <1>2 DEF TypeOK, AnswersMatchUsers
<1> QED
  BY <1>1, <1>3, <1>4, <1>5, FrameInv

LEMMA StoreErrorStep ==
  ASSUME IInv, NEW r \in Requests, StoreError(r) PROVE IInv'
<1> USE DEF IInv, StoreError, Answer, signing
<1>1. TypeOK'
  BY DEF TypeOK, InFlight
<1>2. \A s \in Requests : NewUser(s)' = NewUser(s)
  BY DEF NewUser
<1>3. RegisterInv'
  BY <1>2 DEF TypeOK, RegisterInv, Restricted
<1>4. SessionInv' /\ TokensStayGood'
  BY DEF TypeOK, SessionInv, TokensStayGood
<1>5. AnswersMatchUsers'
  BY <1>2 DEF TypeOK, AnswersMatchUsers
<1> QED
  BY <1>1, <1>3, <1>4, <1>5, FrameInv

(* Balances and the clock play no part. *)
LEMMA WorldStep ==
  ASSUME IInv, (\E m \in Members : Move(m)) \/ (\E t \in issued : Expire(t)) PROVE IInv'
<1> USE DEF IInv
<1>1. /\ UNCHANGED <<handling, users, pending, issued>>
      /\ balance' \in [Members -> Balances] /\ expired' \subseteq issued
  BY DEF Move, Expire, TypeOK, handling, signing
<1>2. TypeOK'
  BY <1>1 DEF TypeOK, handling
<1>3. \A s \in Requests : NewUser(s)' = NewUser(s)
  BY <1>1 DEF NewUser, handling
<1>4. RegisterInv' /\ SessionInv' /\ TokensStayGood' /\ AnswersMatchUsers'
  BY <1>1, <1>3 DEF RegisterInv, SessionInv, TokensStayGood, AnswersMatchUsers, handling, Restricted
<1> QED
  BY <1>1, <1>2, <1>4, FrameInv DEF handling

-----------------------------------------------------------------------------
(* Steps that write an account, sign a token or leave an insert pending *)

(* An account with the identity of a request is that request's account. *)
LEMMA IdentityFacts ==
  ASSUME IInv, NEW r \in Requests, NEW u \in Possible, u.member = r
  PROVE  u = NewUser(r)
<1>1. u \notin Seeded
  BY AccountsAssumption
<1>2. PICK s \in Requests : u = NewUser(s)
  BY <1>1 DEF IInv, Origin
<1> QED
  BY <1>2, RequestFacts DEF IInv

(* A request that creates an account has none yet, stored or pending. *)
LEMMA CreatorFacts ==
  ASSUME IInv, NEW r \in Requests, pc[r] = "create"
  PROVE  /\ NewUser(r) \notin Possible
         /\ req[r].kind = "register" /\ ~Restricted(req[r]) /\ code[r] = 0
         /\ \A u \in Possible : u.member # r
<1>1. NewUser(r) \notin Possible
  BY DEF IInv, RegisterInv, Possible
<1> QED
  BY <1>1, IdentityFacts DEF IInv, RegisterInv, SessionInv

(* The address is taken: another's account has it. *)
LEMMA DuplicateStep ==
  ASSUME IInv, NEW r \in Requests, CreateUser(r), Taken(req[r].email) PROVE IInv'
<1> USE DEF IInv, CreateUser, Answer, signing
<1>1. TypeOK'
  BY DEF TypeOK, InFlight
<1>2. \A s \in Requests : NewUser(s)' = NewUser(s)
  BY DEF NewUser
<1>3. /\ NewUser(r) \notin users \union pending /\ req[r].kind = "register"
      /\ \E u \in users : u.email = req[r].email /\ u.member # r
  BY CreatorFacts DEF Possible, Taken
<1>4. RegisterInv'
  BY <1>2, <1>3 DEF TypeOK, RegisterInv, Restricted
<1>5. SessionInv' /\ TokensStayGood'
  BY <1>3 DEF TypeOK, SessionInv, TokensStayGood
<1>6. AnswersMatchUsers'
  BY <1>2, <1>3 DEF TypeOK, AnswersMatchUsers
<1> QED
  BY <1>1, <1>4, <1>5, <1>6, FrameInv

(* The account is stored and a session of it started. *)
LEMMA InsertStep ==
  ASSUME IInv, NEW r \in Requests, CreateUser(r), ~Taken(req[r].email) PROVE IInv'
<1> DEFINE u == NewUser(r)
<1> USE DEF IInv
<1>1. /\ pc[r] = "create" /\ pc' = [pc EXCEPT ![r] = "credits"]
      /\ users' = users \union {u} /\ issued' = issued \union {Token(r, u)}
      /\ found' = [found EXCEPT ![r] = {u}]
      /\ UNCHANGED <<req, auth, shown, code, balance, expired, pending>>
  BY DEF CreateUser, StartSession, Goto
<1>2. /\ u \notin Possible /\ req[r].kind = "register"
      /\ ~Restricted(req[r]) /\ code[r] = 0
  BY <1>1, CreatorFacts
<1>3. u \in UserType /\ u.role = req[r].role /\ u.email = req[r].email
  BY RequestFacts DEF NewUser
<1>4. /\ Token(r, u) \in TokenType
      /\ Token(r, u).member = u.member /\ Token(r, u).role = u.role
  BY <1>3, TokenFacts
<1>5. \A s \in Requests : NewUser(s)' = NewUser(s)
  BY <1>1 DEF NewUser
<1>6. \A s \in Requests : NewUser(s) \in users' => NewUser(s) \in users \/ s = r
  BY <1>1, NewUsersDiffer
<1> HIDE DEF u
<1>7. TypeOK'
  BY <1>1, <1>3, <1>4 DEF TypeOK, InFlight
<1>8. Origin'
  BY <1>1, <1>2, <1>5 DEF Origin, Possible, u
<1>9. NoNewManagers'
  BY <1>1, <1>2, <1>3 DEF NoNewManagers, Possible, Restricted
<1>10. RegisterInv'
  BY <1>1, <1>2, <1>5, <1>6 DEF TypeOK, RegisterInv, Restricted, Possible, u
<1>11. SessionInv' /\ TokensStayGood'
  BY <1>1, <1>2 DEF TypeOK, SessionInv, TokensStayGood
<1>12. SessionsAreBacked'
  <2>1. \A v, w \in users' : v.email = w.email => v = w
    BY <1>1, <1>3 DEF CreateUser, Taken, SessionsAreBacked
  <2>2. \A t \in issued' : \E v \in users' : v.member = t.member /\ v.role = t.role
    BY <1>1, <1>4 DEF SessionsAreBacked
  <2> QED
    BY <2>1, <2>2 DEF SessionsAreBacked
<1>13. AnswersMatchUsers'
  <2> SUFFICES ASSUME NEW s \in Requests, req[s].kind = "register"
               PROVE  /\ code[s] = 201 => NewUser(s) \in users'
                      /\ code[s] = 409 => \E v \in users' : v.email = req[s].email /\ v.member # s
                      /\ code[s] \in {400, 403, 409} => NewUser(s) \notin users' \union pending
    BY <1>1, <1>5 DEF AnswersMatchUsers
  <2> QED
    BY <1>1, <1>2, <1>6 DEF AnswersMatchUsers
<1> QED
  BY <1>7, <1>8, <1>9, <1>10, <1>11, <1>12, <1>13

(* A sign-in starts a session of a stored account. *)
LEMMA FindUserByEmailStep ==
  ASSUME IInv, NEW r \in Requests, FindUserByEmail(r) PROVE IInv'
<1> USE DEF IInv
<1>0. /\ pc[r] = "find" /\ req[r].kind = "login"
      /\ UNCHANGED <<req, auth, shown, users, balance, pending>>
  BY DEF FindUserByEmail
<1>1. \A s \in Requests : NewUser(s)' = NewUser(s)
  BY <1>0 DEF NewUser
<1>2. NewUser(r) \notin users \union pending
  BY <1>0 DEF RegisterInv
<1>3. CASE Answer(r, 401) /\ UNCHANGED <<found, signing>>
  <2> USE DEF Answer, signing
  <2>1. TypeOK'
    BY <1>0, <1>3 DEF TypeOK, InFlight
  <2>2. RegisterInv'
    BY <1>0, <1>1, <1>2, <1>3 DEF TypeOK, RegisterInv, Restricted
  <2>3. SessionInv' /\ TokensStayGood'
    BY <1>0, <1>3 DEF TypeOK, SessionInv, TokensStayGood
  <2>4. AnswersMatchUsers'
    BY <1>0, <1>1, <1>3 DEF TypeOK, AnswersMatchUsers
  <2> QED
    BY <1>0, <1>3, <2>1, <2>2, <2>3, <2>4, FrameInv
<1>4. CASE \E u \in Matches(req[r]) : StartSession(r, u)
  <2>1. PICK u \in Matches(req[r]) : StartSession(r, u)
    BY <1>4
  <2>2. u \in users /\ u \in UserType
    BY DEF Matches, TypeOK
  <2>3. /\ Token(r, u) \in TokenType
        /\ Token(r, u).member = u.member /\ Token(r, u).role = u.role
    BY <2>2, TokenFacts
  <2>4. /\ issued' = issued \union {Token(r, u)} /\ expired' = expired
        /\ found' = [found EXCEPT ![r] = {u}]
        /\ pc' = [pc EXCEPT ![r] = "credits"] /\ code' = code
    BY <2>1 DEF StartSession, Goto
  <2>5. TypeOK'
    BY <1>0, <2>2, <2>3, <2>4 DEF TypeOK, InFlight
  <2>6. Origin' /\ NoNewManagers'
    BY <1>0 DEF Origin, NoNewManagers, Possible, NewUser
  <2>7. RegisterInv'
    BY <1>0, <1>1, <1>2, <2>4 DEF TypeOK, RegisterInv, Restricted
  <2>8. SessionInv' /\ TokensStayGood'
    BY <1>0, <2>4 DEF TypeOK, SessionInv, TokensStayGood
  <2>9. SessionsAreBacked'
    BY <1>0, <2>2, <2>3, <2>4 DEF SessionsAreBacked
  <2>10. AnswersMatchUsers'
    BY <1>0, <1>1, <2>4 DEF AnswersMatchUsers
  <2> QED
    BY <2>5, <2>6, <2>7, <2>8, <2>9, <2>10
<1> QED
  BY <1>3, <1>4 DEF FindUserByEmail

(* A timeout may leave the insert of a registration pending. *)
LEMMA StoreTimeoutStep ==
  ASSUME IInv, NEW r \in Requests, StoreTimeout(r) PROVE IInv'
<1> USE DEF IInv
<1>1. /\ pc[r] \in {"create", "find"}
      /\ pc' = [pc EXCEPT ![r] = "reply"] /\ code' = [code EXCEPT ![r] = 500]
      /\ UNCHANGED <<req, auth, found, shown, users, balance, issued, expired>>
  BY DEF StoreTimeout, Answer, signing
<1>2. \/ pending' = pending
      \/ pc[r] = "create" /\ pending' = pending \union {NewUser(r)}
  BY DEF StoreTimeout
<1>3. NewUser(r) \in UserType /\ NewUser(r).role = req[r].role
  BY RequestFacts DEF NewUser
<1>4. \A s \in Requests : NewUser(s)' = NewUser(s)
  BY <1>1 DEF NewUser
<1>5. \A s \in Requests : NewUser(s) \in pending' => NewUser(s) \in pending \/ s = r
  BY <1>2, NewUsersDiffer
<1>6. NewUser(r) \notin users
  BY <1>1 DEF RegisterInv
<1>7. pending' # pending => req[r].kind = "register" /\ ~Restricted(req[r])
  BY <1>2, CreatorFacts
<1>8. TypeOK'
  BY <1>1, <1>2, <1>3 DEF TypeOK, InFlight
<1>9. Origin'
  BY <1>1, <1>2, <1>4, <1>7 DEF Origin, Possible
<1>10. NoNewManagers'
  BY <1>1, <1>2, <1>3, <1>7 DEF NoNewManagers, Possible, Restricted
<1>11. RegisterInv'
  BY <1>1, <1>4, <1>5, <1>6 DEF TypeOK, RegisterInv, Restricted
<1>12. SessionInv' /\ TokensStayGood'
  BY <1>1 DEF TypeOK, SessionInv, TokensStayGood
<1>13. SessionsAreBacked'
  BY <1>1 DEF SessionsAreBacked
<1>14. AnswersMatchUsers'
  BY <1>1, <1>4, <1>5 DEF TypeOK, AnswersMatchUsers
<1> QED
  BY <1>8, <1>9, <1>10, <1>11, <1>12, <1>13, <1>14

(* Which inserts a crash may leave with the server. *)
LEMMA CrashFacts ==
  ASSUME IInv, Crash
  PROVE  /\ UNCHANGED <<req, auth, found, shown, code, users, balance, issued, expired>>
         /\ pc' = [s \in Requests |-> IF pc[s] \in InFlight THEN "lost" ELSE pc[s]]
         /\ \A u \in pending' : u \in pending \/ \E s \in Requests : pc[s] = "create" /\ u = NewUser(s)
         /\ \A s \in Requests : NewUser(s)' = NewUser(s)
         /\ \A s \in Requests : NewUser(s) \in pending' => NewUser(s) \in pending \/ pc[s] = "create"
<1>1. PICK left \in SUBSET {s \in Requests : pc[s] = "create"} :
        pending' = pending \union {NewUser(s) : s \in left}
  BY DEF Crash
<1>2. /\ UNCHANGED <<req, auth, found, shown, code, users, balance, issued, expired>>
      /\ pc' = [s \in Requests |-> IF pc[s] \in InFlight THEN "lost" ELSE pc[s]]
  BY DEF Crash, signing
<1>3. \A u \in pending' : u \in pending \/ \E s \in Requests : pc[s] = "create" /\ u = NewUser(s)
  BY <1>1
<1>4. \A s \in Requests : NewUser(s)' = NewUser(s)
  BY <1>2 DEF NewUser
<1>5. \A s \in Requests : NewUser(s) \in pending' => NewUser(s) \in pending \/ pc[s] = "create"
  BY <1>3, NewUsersDiffer DEF IInv
<1> QED
  BY <1>2, <1>3, <1>4, <1>5

LEMMA CrashStep ==
  ASSUME IInv, Crash PROVE IInv'
<1> USE DEF IInv
<1>1. /\ UNCHANGED <<req, auth, found, shown, code, users, balance, issued, expired>>
      /\ pc' = [s \in Requests |-> IF pc[s] \in InFlight THEN "lost" ELSE pc[s]]
      /\ \A u \in pending' : u \in pending \/ \E s \in Requests : pc[s] = "create" /\ u = NewUser(s)
      /\ \A s \in Requests : NewUser(s)' = NewUser(s)
      /\ \A s \in Requests : NewUser(s) \in pending' => NewUser(s) \in pending \/ pc[s] = "create"
  BY CrashFacts
<1>2. \A s \in Requests : pc[s] = "create" =>
        /\ req[s].kind = "register" /\ ~Restricted(req[s]) /\ code[s] = 0
        /\ NewUser(s) \notin users /\ NewUser(s) \in UserType /\ NewUser(s).role = req[s].role
  BY RequestFacts DEF RegisterInv, SessionInv, NewUser
<1>3. TypeOK'
  BY <1>1, <1>2 DEF TypeOK, Settled
<1>4. Origin'
  <2> SUFFICES ASSUME NEW u \in Possible'
               PROVE  u \in Seeded \/ \E s \in Requests : req'[s].kind = "register" /\ u = NewUser(s)'
    BY DEF Origin
  <2>1. u \in Possible \/ \E s \in Requests : pc[s] = "create" /\ u = NewUser(s)
    BY <1>1 DEF Possible
  <2> QED
    BY <1>1, <1>2, <2>1 DEF Origin
<1>5. NoNewManagers'
  BY <1>1, <1>2 DEF NoNewManagers, Possible, Restricted
<1>6. RegisterInv'
  BY <1>1, <1>2 DEF TypeOK, RegisterInv, Restricted, InFlight, Settled
<1>7. SessionInv' /\ TokensStayGood'
  BY <1>1 DEF TypeOK, SessionInv, TokensStayGood, InFlight
<1>8. SessionsAreBacked'
  BY <1>1 DEF SessionsAreBacked
<1>9. AnswersMatchUsers'
  BY <1>1, <1>2 DEF AnswersMatchUsers
<1> QED
  BY <1>3, <1>4, <1>5, <1>6, <1>7, <1>8, <1>9

(* A pending insert is performed, turned down by the index, or lost. *)
LEMMA PendingStep ==
  ASSUME IInv, NEW u \in pending, LateInsert(u) \/ LostInsert(u) PROVE IInv'
<1> USE DEF IInv
<1>1. /\ pending' = pending \ {u} /\ users \subseteq users'
      /\ users' \subseteq users \union {u}
      /\ UNCHANGED <<req, pc, auth, found, shown, code, balance, issued, expired>>
  BY DEF LateInsert, LostInsert, handling, signing
<1>2. \A s \in Requests : NewUser(s)' = NewUser(s)
  BY <1>1 DEF NewUser
<1>3. Possible' \subseteq Possible
  BY <1>1 DEF Possible
<1>4. TypeOK'
  BY <1>1 DEF TypeOK
<1>5. Origin' /\ NoNewManagers'
  BY <1>1, <1>2, <1>3 DEF Origin, NoNewManagers
<1>6. RegisterInv'
  BY <1>1, <1>2 DEF RegisterInv, Restricted
<1>7. SessionInv' /\ TokensStayGood'
  BY <1>1 DEF SessionInv, TokensStayGood
<1>8. SessionsAreBacked'
  <2>1. \A v, w \in users' : v.email = w.email => v = w
    <3>1. users' = users \/ (users' = users \union {u} /\ ~Taken(u.email))
      BY DEF LateInsert, LostInsert
    <3> QED
      BY <3>1 DEF Taken, SessionsAreBacked
  <2> QED
    BY <1>1, <2>1 DEF SessionsAreBacked
<1>9. AnswersMatchUsers'
  BY <1>1, <1>2 DEF AnswersMatchUsers
<1> QED
  BY <1>4, <1>5, <1>6, <1>7, <1>8, <1>9

-----------------------------------------------------------------------------
(* The theorems *)

(* Every step keeps the invariant. *)
LEMMA NextInv == IInv /\ [Next]_vars => IInv'
<1> SUFFICES ASSUME IInv, [Next]_vars PROVE IInv'
  OBVIOUS
<1>1. CASE UNCHANGED vars
  BY <1>1 DEF vars, handling, signing, IInv, TypeOK, Origin, NoNewManagers, RegisterInv,
    SessionInv, SessionsAreBacked, AnswersMatchUsers, TokensStayGood, Possible, NewUser, Restricted
<1>2. ASSUME NEW r \in Requests, Serve(r) PROVE IInv'
  BY <1>2, RegisterStep, LoginStep, UnauthenticatedStep, AuthenticatedStep, DuplicateStep,
    InsertStep, FindUserByEmailStep, FindUserByMemberIDStep, ListUsersStep, LoadCreditsStep,
    RespondStep, ReplyStep, StoreErrorStep, StoreTimeoutStep DEF Serve
<1>3. ASSUME NEW u \in pending, LateInsert(u) \/ LostInsert(u) PROVE IInv'
  BY <1>3, PendingStep
<1> QED
  BY <1>1, <1>2, <1>3, WorldStep, CrashStep DEF Next

(* The inductive invariant holds in every state: where each registration   *)
(* and each session stands explains what is stored and what was answered.  *)
THEOREM Invariance == Spec => []IInv
  BY InitInv, NextInv, PTL DEF Spec

(* Every variable keeps its type. *)
THEOREM TypeCorrect == Spec => []TypeOK
<1>1. IInv => TypeOK
  BY DEF IInv
<1> QED
  BY <1>1, Invariance, PTL

(* CreateUser: one account to an address, and every token signed names a   *)
(* stored account and its role, also after late inserts and crashes.       *)
THEOREM Backed == Spec => []SessionsAreBacked
<1>1. IInv => SessionsAreBacked
  BY DEF IInv
<1> QED
  BY <1>1, Invariance, PTL

(* Register: what 201, 409, 400 and 403 say of the account stays true. *)
THEOREM Answered == Spec => []AnswersMatchUsers
<1>1. IInv => AnswersMatchUsers
  BY DEF IInv
<1> QED
  BY <1>1, Invariance, PTL

(* parseToken and Me: a token that is accepted finds its account. *)
THEOREM Usable == Spec => []TokensStayGood
<1>1. IInv => TokensStayGood
  BY DEF IInv
<1> QED
  BY <1>1, Invariance, PTL

(* RequireRoles and Register: unless roles may be chosen, whoever is shown *)
(* the members was a manager before the API started.                       *)
THEOREM Appointed == Spec => []ManagersAreAppointed
<1>1. IInv => ManagersAreAppointed
  <2> SUFFICES ASSUME IInv, ~SelfAssign, NEW r \in Requests,
                      req[r].kind = "members", shown[r] # {}
               PROVE  \E u \in Seeded : u.member = auth[r].member /\ u.role = "MANAGER"
    BY DEF ManagersAreAppointed
  <2>1. auth[r] \in issued /\ auth[r].role = "MANAGER"
    BY DEF IInv, SessionInv
  <2>2. PICK u \in users : u.member = auth[r].member /\ u.role = "MANAGER"
    BY <2>1 DEF IInv, SessionsAreBacked
  <2> QED
    BY <2>2 DEF IInv, NoNewManagers, Possible
<1> QED
  BY <1>1, Invariance, PTL

(* Login after Register: who repeats a registration with one password is   *)
(* let in once any of its registrations was answered 201 or 409.           *)
THEOREM LetIn == Spec => []OwnersAreLetIn
<1>1. IInv => OwnersAreLetIn
  <2> SUFFICES ASSUME IInv, NEW r \in Requests,
                      req[r].kind = "register", code[r] \in {201, 409},
                      \A s \in Requests : req[s].kind = "register" /\ req[s].email = req[r].email
                                            => req[s].password = req[r].password,
                      \A u \in Seeded : u.email = req[r].email => u.password = req[r].password
               PROVE  Matches(req[r]) # {}
    BY DEF OwnersAreLetIn
  <2>1. \E u \in users : u.email = req[r].email
    <3>1. NewUser(r).email = req[r].email
      BY DEF NewUser
    <3>2. CASE code[r] = 201
      BY <3>1, <3>2 DEF IInv, AnswersMatchUsers
    <3>3. CASE code[r] = 409
      BY <3>3 DEF IInv, AnswersMatchUsers
    <3> QED
      BY <3>2, <3>3
  <2>2. PICK u \in users : u.email = req[r].email
    BY <2>1
  <2>3. u.password = req[r].password
    <3>1. CASE u \in Seeded
      BY <2>2, <3>1
    <3>2. ASSUME NEW s \in Requests, req[s].kind = "register", u = NewUser(s)
          PROVE  u.password = req[r].password
      BY <2>2, <3>2 DEF NewUser
    <3> QED
      BY <3>1, <3>2 DEF IInv, Origin, Possible
  <2> QED
    BY <2>2, <2>3 DEF Matches
<1> QED
  BY <1>1, Invariance, PTL

-----------------------------------------------------------------------------
(* The list of members *)

Listed(r) == {s.user : s \in shown[r]}
Asked(r) == {u \in users : u.email \in req[r].among}

(* An account of the query is either in the answer, once, or its balance   *)
(* is still to be read.                                                    *)
ListInv ==
  \A r \in Requests : req[r].kind = "members" =>
    /\ pc[r] \in {"idle", "find"} => shown[r] = {}
    /\ Listed(r) \union found[r] \subseteq Asked(r)
    /\ Listed(r) \intersect found[r] = {}
    /\ IsFiniteSet(shown[r]) /\ IsFiniteSet(Listed(r))
    /\ Cardinality(Listed(r)) = Cardinality(shown[r])

(* What a step may do to a request for the list.                           *)
LEMMA ListSteps ==
  ASSUME IInv, Next, NEW r \in Requests, req[r].kind = "members"
  PROVE  /\ req' = req /\ users \subseteq users'
         /\ \/ /\ found'[r] = found[r] /\ shown'[r] = shown[r]
               /\ pc'[r] \in {"idle", "find"} => pc[r] \in {"idle", "find"}
               /\ ~(pc[r] = "find" /\ pc'[r] = "credits")
               /\ code[r] = 0 /\ code'[r] = 200 => pc[r] = "credits"
            \/ ListUsers(r)
            \/ \E u \in found[r] : \E amount \in Nat : pc[r] = "credits" /\ Show(r, u, amount)
<1> USE DEF IInv, TypeOK, Goto, Answer, handling, signing
<1> DEFINE Same == /\ found'[r] = found[r] /\ shown'[r] = shown[r]
                   /\ pc'[r] \in {"idle", "find"} => pc[r] \in {"idle", "find"}
                   /\ ~(pc[r] = "find" /\ pc'[r] = "credits")
                   /\ code[r] = 0 /\ code'[r] = 200 => pc[r] = "credits"
<1>2. ASSUME NEW q \in Requests, Register(q) \/ Login(q) \/ Unauthenticated(q)
      PROVE  req' = req /\ users' = users /\ Same
  BY <1>2 DEF Register, Login, Unauthenticated
<1>3. ASSUME NEW q \in Requests, NEW t \in issued, Authenticated(q, t)
      PROVE  req' = req /\ users' = users /\ Same
  BY <1>3 DEF Authenticated
<1>4. ASSUME NEW q \in Requests, CreateUser(q) PROVE req' = req /\ users \subseteq users' /\ Same
  <2>1. q # r /\ req' = req /\ users \subseteq users'
    BY <1>4 DEF CreateUser, RegisterInv
  <2> QED
    BY <1>4, <2>1 DEF CreateUser, StartSession
<1>5. ASSUME NEW q \in Requests, FindUserByEmail(q) PROVE req' = req /\ users' = users /\ Same
  <2>1. q # r /\ req' = req /\ users' = users
    BY <1>5 DEF FindUserByEmail
  <2> QED
    BY <1>5, <2>1 DEF FindUserByEmail, StartSession
<1>6. ASSUME NEW q \in Requests, FindUserByMemberID(q) PROVE req' = req /\ users' = users /\ Same
  BY <1>6 DEF FindUserByMemberID
<1>7. ASSUME NEW q \in Requests, ListUsers(q)
      PROVE  req' = req /\ users' = users /\ (Same \/ ListUsers(r))
  <2>1. req' = req /\ users' = users
    BY <1>7 DEF ListUsers
  <2>2. CASE q # r
    BY <1>7, <2>2 DEF ListUsers
  <2>3. CASE q = r
    BY <1>7, <2>1, <2>3
  <2> QED
    BY <2>1, <2>2, <2>3
<1>8. ASSUME NEW q \in Requests, LoadCredits(q) \/ LoadCreditsFails(q)
      PROVE  /\ req' = req /\ users' = users
             /\ Same \/ \E u \in found[r] : \E amount \in Nat : pc[r] = "credits" /\ Show(r, u, amount)
  <2>1. PICK u \in found[q], amount \in Nat : pc[q] = "credits" /\ Show(q, u, amount)
    <3>1. CASE LoadCredits(q)
      <4>1. PICK u \in found[q] : pc[q] = "credits" /\ Show(q, u, balance[u.member])
        BY <3>1 DEF LoadCredits
      <4>2. balance[u.member] \in Nat
        BY AccountsAssumption DEF UserType
      <4> QED
        BY <4>1, <4>2
    <3>2. CASE LoadCreditsFails(q)
      BY <3>2 DEF LoadCreditsFails
    <3> QED
      BY <1>8, <3>1, <3>2
  <2>2. CASE q = r
    BY <2>1, <2>2 DEF Show
  <2>3. CASE q # r
    BY <2>1, <2>3 DEF Show
  <2> QED
    BY <2>2, <2>3
<1>9. ASSUME NEW q \in Requests, Respond(q) \/ Reply(q) \/ StoreError(q) \/ StoreTimeout(q)
      PROVE  req' = req /\ users' = users /\ Same
  BY <1>9 DEF Respond, Reply, StoreError, StoreTimeout
<1>10. ASSUME NEW u \in pending, LateInsert(u) \/ LostInsert(u)
       PROVE  req' = req /\ users \subseteq users' /\ Same
  BY <1>10 DEF LateInsert, LostInsert
<1>11. ASSUME NEW m \in Members, Move(m) PROVE req' = req /\ users' = users /\ Same
  BY <1>11 DEF Move
<1>12. ASSUME NEW t \in issued, Expire(t) PROVE req' = req /\ users' = users /\ Same
  BY <1>12 DEF Expire
<1>13. CASE Crash
  <2>1. req' = req /\ users' = users /\ Same
    BY <1>13 DEF Crash
  <2> QED
    BY <2>1
<1>14. CASE UNCHANGED vars
  <2>1. req' = req /\ users' = users /\ Same
    BY <1>14 DEF vars
  <2> QED
    BY <2>1
<1> QED
  <2> USE DEF Same
  <2> HIDE DEF IInv, TypeOK, Goto, Answer, handling, signing
  <2> QED
    BY <1>2, <1>3, <1>4, <1>5, <1>6, <1>7, <1>8, <1>9, <1>10, <1>11, <1>12, <1>13, <1>14
       DEF Next, Serve

(* A balance that was read moves its account into the answer.              *)
LEMMA ShowFacts ==
  ASSUME IInv, ListInv, NEW r \in Requests, req[r].kind = "members",
         NEW u \in found[r], NEW amount \in Nat, Show(r, u, amount)
  PROVE  /\ found'[r] = found[r] \ {u} /\ Listed(r)' = Listed(r) \union {u}
         /\ IsFiniteSet(shown'[r]) /\ IsFiniteSet(Listed(r)')
         /\ Cardinality(Listed(r)') = Cardinality(shown'[r])
<1>1. /\ found'[r] = found[r] \ {u}
      /\ shown'[r] = shown[r] \union {[user |-> u, credits |-> amount]}
  BY DEF Show, IInv, TypeOK
<1> DEFINE x == [user |-> u, credits |-> amount]
<1>2. Listed(r)' = Listed(r) \union {u}
  <2>1. Listed(r)' = {s.user : s \in shown[r] \union {x}}
    BY <1>1 DEF Listed
  <2>2. \A v : v \in {s.user : s \in shown[r] \union {x}} <=> v \in {s.user : s \in shown[r]} \/ v = x.user
    BY ZenonT(20)
  <2>3. x.user = u
    OBVIOUS
  <2> QED
    <3> HIDE DEF x
    <3> QED
      BY <2>1, <2>2, <2>3 DEF Listed
<1>3. u \notin Listed(r) /\ x \notin shown[r]
  <2>1. u \notin Listed(r)
    BY DEF ListInv
  <2>2. x.user = u
    OBVIOUS
  <2>3. \A s \in shown[r] : s.user \in Listed(r)
    BY DEF Listed
  <2> QED
    <3> HIDE DEF x
    <3> QED
      BY <2>1, <2>2, <2>3
<1>4. /\ IsFiniteSet(shown'[r]) /\ IsFiniteSet(Listed(r)')
      /\ Cardinality(shown'[r]) = Cardinality(shown[r]) + 1
      /\ Cardinality(Listed(r)') = Cardinality(Listed(r)) + 1
  <2> HIDE DEF x
  <2>1. IsFiniteSet(shown[r]) /\ IsFiniteSet(Listed(r))
    BY DEF ListInv
  <2>2. IsFiniteSet(shown[r] \union {x}) /\ Cardinality(shown[r] \union {x}) = Cardinality(shown[r]) + 1
    BY <1>3, <2>1, FS_AddElement
  <2>3. /\ IsFiniteSet(Listed(r) \union {u})
        /\ Cardinality(Listed(r) \union {u}) = Cardinality(Listed(r)) + 1
    BY <1>3, <2>1, FS_AddElement
  <2>4. shown'[r] = shown[r] \union {x}
    BY <1>1 DEF x
  <2> QED
    BY <1>2, <2>2, <2>3, <2>4
<1>5. Cardinality(Listed(r)) = Cardinality(shown[r])
  BY DEF ListInv
<1> QED
  BY <1>1, <1>2, <1>4, <1>5

LEMMA ListInit == Init => ListInv
<1> SUFFICES ASSUME Init, NEW r \in Requests
             PROVE  /\ shown[r] = {} /\ Listed(r) = {} /\ found[r] = {}
                    /\ IsFiniteSet({}) /\ Cardinality(Listed(r)) = Cardinality(shown[r])
  BY DEF ListInv
<1> QED
  BY FS_EmptySet DEF Init, Listed

LEMMA ListStep == IInv /\ ListInv /\ [Next]_vars => ListInv'
<1> SUFFICES ASSUME IInv, ListInv, [Next]_vars PROVE ListInv'
  OBVIOUS
<1>1. CASE UNCHANGED vars
  BY <1>1 DEF vars, handling, ListInv, Listed, Asked
<1>2. CASE Next
  <2> SUFFICES ASSUME NEW r \in Requests, req'[r].kind = "members"
               PROVE  /\ pc'[r] \in {"idle", "find"} => shown'[r] = {}
                      /\ Listed(r)' \union found'[r] \subseteq Asked(r)'
                      /\ Listed(r)' \intersect found'[r] = {}
                      /\ IsFiniteSet(shown'[r]) /\ IsFiniteSet(Listed(r)')
                      /\ Cardinality(Listed(r)') = Cardinality(shown'[r])
    BY DEF ListInv
  <2>1. req[r].kind = "members" /\ req' = req
    <3>1. req' = req
      BY <1>2 DEF Next, Serve, Register, Login, Unauthenticated, Authenticated, CreateUser,
         FindUserByEmail, FindUserByMemberID, ListUsers, LoadCredits, LoadCreditsFails, Show,
         Respond, Reply, StoreError, StoreTimeout, LateInsert, LostInsert, Move, Expire, Crash,
         handling, vars
    <3> QED
      BY <3>1
  <2>2. /\ pc[r] \in {"idle", "find"} => shown[r] = {}
        /\ Listed(r) \union found[r] \subseteq Asked(r)
        /\ Listed(r) \intersect found[r] = {}
        /\ IsFiniteSet(shown[r]) /\ IsFiniteSet(Listed(r))
        /\ Cardinality(Listed(r)) = Cardinality(shown[r])
    BY <2>1 DEF ListInv
  <2>3. users \subseteq users' /\ Asked(r) \subseteq Asked(r)'
    BY <1>2, <2>1, ListSteps DEF Asked
  <2>4. CASE /\ found'[r] = found[r] /\ shown'[r] = shown[r]
             /\ pc'[r] \in {"idle", "find"} => pc[r] \in {"idle", "find"}
    <3>1. Listed(r)' = Listed(r)
      BY <2>4 DEF Listed
    <3> QED
      BY <2>2, <2>3, <2>4, <3>1
  <2>5. CASE ListUsers(r)
    <3>1. /\ found'[r] = Asked(r) /\ shown' = shown /\ pc'[r] = "credits" /\ pc[r] = "find"
      BY <2>5 DEF ListUsers, Goto, Asked, IInv, TypeOK
    <3>2. Listed(r)' = Listed(r) /\ Listed(r) = {}
      BY <2>2, <3>1 DEF Listed
    <3> QED
      BY <2>2, <2>3, <3>1, <3>2
  <2>6. CASE \E u \in found[r] : \E amount \in Nat : pc[r] = "credits" /\ Show(r, u, amount)
    <3>1. PICK u \in found[r], amount \in Nat : pc[r] = "credits" /\ Show(r, u, amount)
      BY <2>6
    <3>2. /\ found'[r] = found[r] \ {u} /\ Listed(r)' = Listed(r) \union {u}
          /\ IsFiniteSet(shown'[r]) /\ IsFiniteSet(Listed(r)')
          /\ Cardinality(Listed(r)') = Cardinality(shown'[r])
      BY <2>1, <3>1, ShowFacts
    <3>3. pc'[r] = "credits"
      BY <3>1 DEF Show
    <3> QED
      BY <2>2, <2>3, <3>2, <3>3
  <2> QED
    BY <1>2, <2>1, <2>4, <2>5, <2>6, ListSteps
<1> QED
  BY <1>1, <1>2

(* ListMembersByDomain: a list that is answered has every account of the   *)
(* query that was confirmed when the accounts were read, each once, and    *)
(* nothing else, although the balances are read one by one after it.       *)
THEOREM ListComplete == Spec => ListIsComplete
<1> DEFINE confirmed == Seeded \union {NewUser(s) : s \in {x \in Requests : code[x] = 201}}
           A(r) == /\ pc[r] = "find" /\ pc'[r] = "credits" =>
                        confirmed \intersect Asked(r) \subseteq found'[r]
                   /\ pc[r] = "credits" => Listed(r)' \union found'[r] = Listed(r) \union found[r]
                   /\ code'[r] = 200 /\ code[r] = 0 =>
                        Listed(r) \subseteq Asked(r) /\ Cardinality(Listed(r)) = Cardinality(shown[r])
<1>1. ASSUME IInv, ListInv, Next, NEW r \in Requests, req[r].kind = "members" PROVE A(r)
  <2>1. CASE /\ found'[r] = found[r] /\ shown'[r] = shown[r]
             /\ ~(pc[r] = "find" /\ pc'[r] = "credits")
    BY <1>1, <2>1 DEF ListInv, Listed
  <2>2. CASE ListUsers(r)
    <3>1. /\ found'[r] = Asked(r) /\ pc[r] = "find" /\ code' = code
      BY <1>1, <2>2 DEF ListUsers, Goto, Asked, IInv, TypeOK
    <3> QED
      BY <3>1
  <2>3. CASE \E u \in found[r] : \E amount \in Nat : pc[r] = "credits" /\ Show(r, u, amount)
    <3>1. PICK u \in found[r], amount \in Nat : pc[r] = "credits" /\ Show(r, u, amount)
      BY <2>3
    <3>2. found'[r] = found[r] \ {u} /\ Listed(r)' = Listed(r) \union {u}
      BY <1>1, <3>1, ShowFacts
    <3>3. code' = code
      BY <3>1 DEF Show
    <3> QED
      BY <3>1, <3>2, <3>3
  <2> QED
    BY <1>1, <2>1, <2>2, <2>3, ListSteps
<1>2. IInv /\ ListInv /\ [Next]_vars =>
        [\A r \in Requests : req[r].kind = "members" =>
           LET asked == {u \in users : u.email \in req[r].among}
               listed == {s.user : s \in shown[r]}
               appointed == Seeded \union {NewUser(s) : s \in {x \in Requests : code[x] = 201}}
           IN /\ pc[r] = "find" /\ pc'[r] = "credits" => appointed \intersect asked \subseteq found'[r]
              /\ pc[r] = "credits" =>
                   {s.user : s \in shown'[r]} \union found'[r] = listed \union found[r]
              /\ code'[r] = 200 /\ code[r] = 0 =>
                   listed \subseteq asked /\ Cardinality(listed) = Cardinality(shown[r])]_vars
  BY <1>1 DEF Listed, Asked
<1> HIDE DEF A
<1> QED
  BY <1>2, ListInit, ListStep, Invariance, PTL DEF Spec, ListIsComplete

-----------------------------------------------------------------------------
(* The directory *)

outcomes == [r \in Requests |-> Outcome(r)]
seens == [r \in Requests |-> Seen(r)]
directory == <<req, users, issued, auth, outcomes, seens>>

(* What a request that is to be performed, now or late, may ask; who was   *)
(* there stays; and nothing is shown before something was found.           *)
SoundInv ==
  /\ Seeded \subseteq users
  /\ \A r \in Requests :
       /\ pc[r] = "create" \/ NewUser(r) \in pending => ~req[r].defect
       /\ pc[r] = "find" /\ req[r].kind = "login" => ~req[r].defect
       /\ pc[r] \in {"idle", "create", "find"} => shown[r] = {}

LEMMA SoundInit == Init => SoundInv
  BY DEF Init, SoundInv

LEMMA SoundStep == IInv /\ SoundInv /\ [Next]_vars => SoundInv'
<1> SUFFICES ASSUME IInv, SoundInv, [Next]_vars PROVE SoundInv'
  OBVIOUS
<1> USE DEF SoundInv, Goto, Answer, handling, signing
<1>1. TypeOK
  BY DEF IInv
<1>2. CASE UNCHANGED vars
  BY <1>2 DEF vars, NewUser
<1>3. ASSUME NEW r \in Requests, UNCHANGED <<req, users, pending>>,
             \A s \in Requests : s # r => pc'[s] = pc[s] /\ shown'[s] = shown[s],
             \/ pc'[r] \in {"credits", "reply", "done"}
             \/ /\ shown' = shown /\ pc[r] = "idle" /\ ~req[r].defect
                /\ pc'[r] \in {"create", "find"}
             \/ /\ shown' = shown /\ pc[r] = "idle" /\ req[r].kind # "login" /\ pc'[r] = "find"
      PROVE  SoundInv'
  BY <1>3 DEF NewUser
<1>4. ASSUME NEW r \in Requests, Register(r) \/ Login(r) \/ Unauthenticated(r)
      PROVE  SoundInv'
  BY <1>1, <1>3, <1>4 DEF Register, Login, Unauthenticated, TypeOK
<1>5. ASSUME NEW r \in Requests, NEW t \in issued, Authenticated(r, t) PROVE SoundInv'
  BY <1>1, <1>3, <1>5 DEF Authenticated, TypeOK
<1>6. ASSUME NEW r \in Requests, CreateUser(r) PROVE SoundInv'
  <2>1. /\ UNCHANGED <<req, shown, pending>> /\ users \subseteq users'
        /\ \A s \in Requests : s # r => pc'[s] = pc[s]
        /\ pc'[r] \in {"credits", "reply"}
    BY <1>1, <1>6 DEF CreateUser, StartSession, TypeOK
  <2> QED
    BY <2>1 DEF NewUser
<1>7. ASSUME NEW r \in Requests, FindUserByEmail(r) PROVE SoundInv'
  BY <1>1, <1>3, <1>7 DEF FindUserByEmail, StartSession, TypeOK
<1>8. ASSUME NEW r \in Requests, FindUserByMemberID(r) \/ ListUsers(r) \/ Respond(r) \/ Reply(r) \/ StoreError(r)
      PROVE  SoundInv'
  BY <1>1, <1>3, <1>8 DEF FindUserByMemberID, ListUsers, Respond, Reply, StoreError, TypeOK
<1>9. ASSUME NEW r \in Requests, LoadCredits(r) \/ LoadCreditsFails(r) PROVE SoundInv'
  BY <1>1, <1>3, <1>9 DEF LoadCredits, LoadCreditsFails, Show, TypeOK
<1>10. ASSUME NEW r \in Requests, StoreTimeout(r) PROVE SoundInv'
  <2>1. /\ UNCHANGED <<req, users, shown>>
        /\ \A s \in Requests : s # r => pc'[s] = pc[s]
        /\ pc'[r] = "reply"
        /\ pending' = pending \/ (pc[r] = "create" /\ pending' = pending \union {NewUser(r)})
    BY <1>1, <1>10 DEF StoreTimeout, TypeOK
  <2>2. \A s \in Requests : NewUser(s)' = NewUser(s)
    BY <2>1 DEF NewUser
  <2>3. \A s \in Requests : NewUser(s) \in pending' => NewUser(s) \in pending \/ (s = r /\ pc[r] = "create")
    BY <1>1, <2>1, NewUsersDiffer
  <2> QED
    BY <2>1, <2>2, <2>3
<1>11. ASSUME NEW u \in pending, LateInsert(u) \/ LostInsert(u) PROVE SoundInv'
  BY <1>11 DEF LateInsert, LostInsert, NewUser
<1>12. ASSUME NEW m \in Members, Move(m) PROVE SoundInv'
  BY <1>12 DEF Move, NewUser
<1>13. ASSUME NEW t \in issued, Expire(t) PROVE SoundInv'
  BY <1>13 DEF Expire, NewUser
<1>14. CASE Crash
  <2>1. /\ UNCHANGED <<req, users, shown>>
        /\ \A r \in Requests : pc'[r] = "lost" \/ pc'[r] = pc[r]
        /\ \A r \in Requests : NewUser(r)' = NewUser(r)
        /\ \A r \in Requests : NewUser(r) \in pending' => NewUser(r) \in pending \/ pc[r] = "create"
    BY <1>14, CrashFacts
  <2> QED
    BY <2>1
<1> QED
  <2> HIDE DEF SoundInv, Goto, Answer, handling, signing
  <2> QED
    BY <1>2, <1>4, <1>5, <1>6, <1>7, <1>8, <1>9, <1>10, <1>11, <1>12, <1>13, <1>14 DEF Next, Serve

(* A step of one request changes what has become of that one.              *)
LEMMA OneOutcome ==
  ASSUME NEW r \in Requests, NEW what, Outcome(r)' = what,
         \A s \in Requests : s # r => pc'[s] = pc[s] /\ code'[s] = code[s]
  PROVE  outcomes' = [outcomes EXCEPT ![r] = what]
<1>1. \A s \in Requests : s # r => Outcome(s)' = Outcome(s)
  BY DEF Outcome
<1> QED
  BY <1>1 DEF outcomes

LEMMA SameOutcomes ==
  ASSUME \A r \in Requests : Outcome(r)' = Outcome(r)
  PROVE  outcomes' = outcomes
  BY DEF outcomes

(* A step that finds the accounts F for a request shows those and no other. *)
LEMMA OneSeen ==
  ASSUME NEW r \in Requests, NEW F, shown[r] = {}, UNCHANGED shown,
         found'[r] = F, \A s \in Requests : s # r => found'[s] = found[s]
  PROVE  seens' = [seens EXCEPT ![r] = F]
<1>1. Seen(r)' = F
  BY DEF Seen
<1>2. \A s \in Requests : s # r => Seen(s)' = Seen(s)
  BY DEF Seen
<1> QED
  BY <1>1, <1>2 DEF seens

LEMMA SameSeens ==
  ASSUME UNCHANGED <<found, shown>>
  PROVE  seens' = seens
  BY DEF seens, Seen

(* As long as the users collection was not asked, nothing is decided.      *)
LEMMA Undecided ==
  ASSUME IInv, SoundInv, NEW r \in Requests, pc[r] \in {"idle", "create", "find"}
  PROVE  /\ Outcome(r) = "open" /\ outcomes[r] = "open"
         /\ code[r] = 0 /\ shown[r] = {}
  BY DEF IInv, SessionInv, SoundInv, Outcome, outcomes

(* The roles that may be asked for. *)
LEMMA ProperFacts ==
  ASSUME NEW r \in Requests
  PROVE  /\ D!Proper(r) <=> ~req[r].defect /\ ~Restricted(req[r])
         /\ D!Account(r) = NewUser(r)
         /\ D!Free(req[r].email) <=> ~Taken(req[r].email)
         /\ D!Known(r) = Matches(req[r])
  BY DEF D!Proper, D!Account, D!Free, D!Known, Restricted, NewUser, Taken, Matches

(* What is turned down before the collection is asked. *)
LEMMA DenyStep ==
  ASSUME IInv, SoundInv, NEW r \in Requests, pc[r] \in {"idle", "find"},
         NEW status \in {400, 401, 403}, Answer(r, status),
         \/ req[r].kind = "register" /\ ~D!Proper(r)
         \/ req[r].kind = "login" /\ (req[r].defect \/ D!Known(r) = {})
         \/ req[r].kind \in {"me", "members"} /\ auth[r] = None,
         UNCHANGED <<req, auth, found, shown, users, issued>>
  PROVE  D!Next
<1>1. Outcome(r)' = "denied"
  BY DEF Answer, Outcome, IInv, TypeOK
<1>2. outcomes' = [outcomes EXCEPT ![r] = "denied"]
  BY <1>1, OneOutcome DEF Answer, IInv, TypeOK
<1>3. D!Deny(r)
  BY <1>2, Undecided, SameSeens DEF D!Deny, D!Becomes, outcomes, seens
<1> QED
  BY <1>3 DEF D!Next, D!Serve

(* A request that goes on to the collection has not changed the directory. *)
LEMMA GoesOnStep ==
  ASSUME IInv, SoundInv, NEW r \in Requests, pc[r] = "idle", NEW step \in {"create", "find"},
         Goto(r, step), UNCHANGED <<req, auth, found, shown, users, issued>>
  PROVE  UNCHANGED directory
<1>1. Outcome(r)' = Outcome(r)
  BY Undecided DEF Goto, Outcome, IInv, TypeOK
<1>2. \A s \in Requests : Outcome(s)' = Outcome(s)
  BY <1>1 DEF Goto, Outcome, IInv, TypeOK
<1> QED
  BY <1>2, SameOutcomes, SameSeens DEF directory

LEMMA BeginDirectory ==
  ASSUME IInv, SoundInv, NEW r \in Requests, Register(r) \/ Login(r) \/ Unauthenticated(r)
  PROVE  D!Next \/ UNCHANGED directory
<1>1. CASE Register(r)
  BY <1>1, ProperFacts, DenyStep, GoesOnStep DEF Register, signing
<1>2. CASE Login(r)
  BY <1>2, ProperFacts, DenyStep, GoesOnStep DEF Login, signing
<1>3. CASE Unauthenticated(r)
  BY <1>3, DenyStep DEF Unauthenticated, signing, IInv, SessionInv
<1> QED
  BY <1>1, <1>2, <1>3

LEMMA EnterStep ==
  ASSUME IInv, SoundInv, NEW r \in Requests, NEW t \in issued, Authenticated(r, t)
  PROVE  D!Next
<1> DEFINE what == IF req[r].kind = "members" /\ (t.role # "MANAGER" \/ req[r].defect)
                   THEN "denied" ELSE "open"
<1>1. /\ pc[r] = "idle" /\ auth[r] = None /\ req[r].kind \in {"me", "members"}
      /\ auth' = [auth EXCEPT ![r] = t]
      /\ UNCHANGED <<req, found, shown, users, issued>>
  BY DEF Authenticated, IInv, SessionInv, signing
<1>2. /\ pc' = [pc EXCEPT ![r] = IF what = "denied" THEN "reply" ELSE "find"]
      /\ \A s \in Requests : s # r => code'[s] = code[s]
      /\ what = "denied" => code'[r] \in {400, 403}
      /\ what = "open" => code'[r] = code[r]
  BY DEF Authenticated, Goto, Answer, IInv, TypeOK
<1>3. Outcome(r)' = what
  BY <1>1, <1>2, Undecided DEF Outcome, IInv, TypeOK
<1>4. outcomes' = [outcomes EXCEPT ![r] = what]
  BY <1>2, <1>3, OneOutcome DEF IInv, TypeOK
<1>5. D!Enter(r)
  BY <1>1, <1>4, Undecided, SameSeens DEF D!Enter, D!Becomes, outcomes, seens
<1> QED
  BY <1>5 DEF D!Next, D!Serve

(* A session that is started shows its account. *)
LEMMA StartStep ==
  ASSUME IInv, SoundInv, NEW r \in Requests, pc[r] \in {"create", "find"},
         NEW u, StartSession(r, u), UNCHANGED <<req, auth, shown>>
  PROVE  D!Start(r, u)
<1>1. /\ pc' = [pc EXCEPT ![r] = "credits"] /\ code' = code
      /\ found' = [found EXCEPT ![r] = {u}] /\ issued' = issued \union {Token(r, u)}
  BY DEF StartSession, Goto
<1>2. Outcome(r)' = "granted"
  BY <1>1, Undecided DEF Outcome, IInv, TypeOK
<1>3. outcomes' = [outcomes EXCEPT ![r] = "granted"]
  BY <1>1, <1>2, OneOutcome DEF IInv, TypeOK
<1>4. seens' = [seens EXCEPT ![r] = {u}]
  <2> DEFINE F == {u}
  <2>1. found'[r] = F /\ \A s \in Requests : s # r => found'[s] = found[s]
    BY <1>1 DEF IInv, TypeOK
  <2> HIDE DEF F
  <2>2. seens' = [seens EXCEPT ![r] = F]
    BY <2>1, Undecided, OneSeen
  <2> QED
    BY <2>2 DEF F
<1> QED
  BY <1>1, <1>3, <1>4, Undecided DEF D!Start, D!Becomes, outcomes, seens, Token

(* The insert is where a registration takes effect, or finds the address taken. *)
LEMMA CreateDirectory ==
  ASSUME IInv, SoundInv, NEW r \in Requests, CreateUser(r)
  PROVE  D!Next
<1>1. /\ pc[r] = "create" /\ req[r].kind = "register" /\ D!Proper(r)
      /\ \A u \in users : u.member # r
      /\ UNCHANGED <<req, auth, shown>>
  BY CreatorFacts, ProperFacts DEF CreateUser, SoundInv, Possible
<1>2. CASE Taken(req[r].email)
  <2>1. Answer(r, 409) /\ UNCHANGED <<users, found, issued>>
    BY <1>2 DEF CreateUser, signing
  <2>2. Outcome(r)' = "conflict"
    BY <2>1 DEF Answer, Outcome, IInv, TypeOK
  <2>3. outcomes' = [outcomes EXCEPT ![r] = "conflict"]
    BY <2>1, <2>2, OneOutcome DEF Answer, IInv, TypeOK
  <2>4. \E u \in users : u.email = req[r].email /\ u.member # r
    BY <1>1, <1>2 DEF Taken
  <2>5. D!Conflict(r)
    BY <1>1, <2>1, <2>3, <2>4, Undecided, SameSeens DEF D!Conflict, D!Becomes, outcomes, seens
  <2> QED
    BY <2>5 DEF D!Next, D!Serve
<1>3. CASE ~Taken(req[r].email)
  <2>1. users' = users \union {NewUser(r)} /\ StartSession(r, NewUser(r))
    BY <1>3 DEF CreateUser
  <2>2. D!Start(r, NewUser(r))
    BY <1>1, <2>1, StartStep
  <2>3. D!Register(r)
    BY <1>1, <1>3, <2>1, <2>2, ProperFacts DEF D!Register, D!Open
  <2> QED
    BY <2>3 DEF D!Next, D!Serve
<1> QED
  BY <1>2, <1>3

(* So is the read for a login, a profile and a list. *)
LEMMA SignInDirectory ==
  ASSUME IInv, SoundInv, NEW r \in Requests, FindUserByEmail(r)
  PROVE  D!Next
<1>1. /\ pc[r] = "find" /\ req[r].kind = "login" /\ ~req[r].defect
      /\ UNCHANGED <<req, auth, shown, users>>
  BY DEF FindUserByEmail, SoundInv
<1>2. CASE Matches(req[r]) = {} /\ Answer(r, 401) /\ UNCHANGED <<found, signing>>
  BY <1>1, <1>2, ProperFacts, DenyStep DEF signing
<1>3. CASE \E u \in Matches(req[r]) : StartSession(r, u)
  <2>1. PICK u \in Matches(req[r]) : StartSession(r, u)
    BY <1>3
  <2>2. D!Start(r, u)
    BY <1>1, <2>1, StartStep
  <2>3. D!SignIn(r)
    BY <1>1, <2>2, ProperFacts DEF D!SignIn
  <2> QED
    BY <2>3 DEF D!Next, D!Serve
<1> QED
  BY <1>2, <1>3 DEF FindUserByEmail

LEMMA LookUpDirectory ==
  ASSUME IInv, SoundInv, NEW r \in Requests, FindUserByMemberID(r) \/ ListUsers(r)
  PROVE  D!Next
<1> DEFINE F == IF req[r].kind = "me" THEN D!Profile(r)
                ELSE {u \in users : u.email \in req[r].among}
<1>1. /\ pc[r] = "find" /\ req[r].kind \in {"me", "members"}
      /\ found' = [found EXCEPT ![r] = F]
      /\ UNCHANGED <<req, auth, shown, users, issued>>
  BY DEF FindUserByMemberID, ListUsers, signing, D!Profile
<1>2. auth[r] # None
  BY <1>1 DEF IInv, SessionInv
<1>3. req[r].kind = "me" => D!Profile(r) # {}
  BY <1>2 DEF IInv, SessionInv, SessionsAreBacked, D!Profile
<1>4. pc' = [pc EXCEPT ![r] = "credits"] /\ code' = code
  BY <1>3 DEF FindUserByMemberID, ListUsers, Goto, D!Profile
<1>5. Outcome(r)' = "granted"
  BY <1>1, <1>4, Undecided DEF Outcome, IInv, TypeOK
<1>6. outcomes' = [outcomes EXCEPT ![r] = "granted"]
  BY <1>4, <1>5, OneOutcome DEF IInv, TypeOK
<1>7. seens' = [seens EXCEPT ![r] = F]
  <2> HIDE DEF F
  <2> QED
    BY <1>1, Undecided, OneSeen DEF IInv, TypeOK
<1>8. D!LookUp(r)
  BY <1>1, <1>2, <1>3, <1>6, <1>7, Undecided DEF D!LookUp, D!Becomes, outcomes, seens
<1> QED
  BY <1>8 DEF D!Next, D!Serve

(* The balances are read and the answer is written after the fact. *)
LEMMA TellDirectory ==
  ASSUME IInv, SoundInv, NEW r \in Requests,
         LoadCredits(r) \/ LoadCreditsFails(r) \/ Respond(r) \/ Reply(r)
  PROVE  UNCHANGED directory
<1>1. CASE LoadCredits(r) \/ LoadCreditsFails(r)
  <2>1. PICK u \in found[r] : \E amount : Show(r, u, amount)
    BY <1>1 DEF LoadCredits, LoadCreditsFails
  <2>2. PICK amount : Show(r, u, amount)
    BY <2>1
  <2>3. /\ found' = [found EXCEPT ![r] = @ \ {u}]
        /\ shown' = [shown EXCEPT ![r] = @ \union {[user |-> u, credits |-> amount]}]
        /\ UNCHANGED <<req, pc, auth, code, users, issued>>
    BY <2>2 DEF Show, signing
  <2>4. Seen(r)' = Seen(r)
    <3> DEFINE x == [user |-> u, credits |-> amount]
    <3>1. found'[r] = found[r] \ {u} /\ shown'[r] = shown[r] \union {x} /\ x.user = u
      BY <2>3 DEF IInv, TypeOK
    <3> HIDE DEF x
    <3>2. \A v : v \in {s.user : s \in shown[r] \union {x}} <=> v \in {s.user : s \in shown[r]} \/ v = u
      BY <3>1, ZenonT(20)
    <3>3. \A v : v \in Seen(r)' <=> v \in Seen(r)
      <4>1. {s.user : s \in shown'[r]} = {s.user : s \in shown[r] \union {x}}
        BY <3>1
      <4> QED
        BY <2>1, <3>1, <3>2, <4>1 DEF Seen
    <3> QED
      BY <3>3 DEF Seen
  <2>5. \A s \in Requests : s # r => Seen(s)' = Seen(s)
    BY <2>3 DEF Seen, IInv, TypeOK
  <2>6. seens' = seens
    BY <2>4, <2>5 DEF seens
  <2>7. outcomes' = outcomes
    BY <2>3 DEF outcomes, Outcome
  <2> QED
    BY <2>3, <2>6, <2>7 DEF directory
<1>2. CASE Respond(r) \/ Reply(r)
  <2>1. /\ \A s \in Requests : Outcome(s)' = Outcome(s)
        /\ UNCHANGED <<req, auth, found, shown, users, issued>>
    <3>1. CASE Respond(r)
      BY <3>1 DEF Respond, Answer, signing, Outcome, IInv, TypeOK, SessionInv
    <3>2. CASE Reply(r)
      BY <3>2 DEF Reply, Goto, signing, Outcome, IInv, TypeOK
    <3> QED
      BY <1>2, <3>1, <3>2
  <2> QED
    BY <2>1, SameOutcomes, SameSeens DEF directory
<1> QED
  BY <1>1, <1>2

(* Those whose outcome becomes "failed" were not told of any other. *)
LEMMA FailStep ==
  ASSUME NEW R \in SUBSET Requests,
         \A r \in R : Outcome(r) \in {"open", "granted"} /\ Outcome(r)' = "failed",
         \A r \in Requests \ R : Outcome(r)' = Outcome(r),
         UNCHANGED <<req, auth, found, shown, users, issued>>
  PROVE  D!Next
<1>1. R \in SUBSET {r \in Requests : outcomes[r] \in {"open", "granted"}}
  BY DEF outcomes
<1>2. outcomes' = [r \in Requests |-> IF r \in R THEN "failed" ELSE outcomes[r]]
  BY DEF outcomes
<1>3. D!Fail
  BY <1>1, <1>2, SameSeens DEF D!Fail, outcomes, seens
<1> QED
  BY <1>3 DEF D!Next

LEMMA FailDirectory ==
  ASSUME IInv, SoundInv, (\E r \in Requests : StoreError(r) \/ StoreTimeout(r)) \/ Crash
  PROVE  D!Next
<1>1. ASSUME NEW r \in Requests, StoreError(r) \/ StoreTimeout(r) PROVE D!Next
  <2>1. /\ pc[r] \in {"create", "find"} /\ Answer(r, 500)
        /\ UNCHANGED <<req, auth, found, shown, users, issued>>
    BY <1>1 DEF StoreError, StoreTimeout, signing
  <2>2. Outcome(r)' = "failed" /\ \A s \in Requests \ {r} : Outcome(s)' = Outcome(s)
    BY <2>1 DEF Answer, Outcome, IInv, TypeOK
  <2>3. \A s \in {r} : Outcome(s) \in {"open", "granted"} /\ Outcome(s)' = "failed"
    BY <2>1, <2>2, Undecided
  <2> QED
    BY <2>1, <2>2, <2>3, FailStep
<1>2. CASE Crash
  <2> DEFINE R == {r \in Requests : pc[r] \in InFlight /\ code[r] = 0}
  <2>1. /\ UNCHANGED <<req, auth, found, shown, code, users, issued>>
        /\ \A r \in Requests : pc'[r] = IF pc[r] \in InFlight THEN "lost" ELSE pc[r]
    BY <1>2 DEF Crash, signing
  <2>2. \A r \in R : Outcome(r) \in {"open", "granted"} /\ Outcome(r)' = "failed"
    BY <2>1 DEF Outcome, InFlight
  <2>3. \A r \in Requests \ R : Outcome(r)' = Outcome(r)
    BY <2>1 DEF Outcome, InFlight, IInv, TypeOK
  <2> HIDE DEF R
  <2> QED
    <3>1. R \in SUBSET Requests
      BY DEF R
    <3> QED
      BY <2>1, <2>2, <2>3, <3>1, FailStep
<1> QED
  BY <1>1, <1>2

(* An insert that is performed late opens the account of a registration    *)
(* that failed, or the index on the addresses stops it.                    *)
LEMMA PendingDirectory ==
  ASSUME IInv, SoundInv, NEW u \in pending, LateInsert(u) \/ LostInsert(u)
  PROVE  D!Next \/ UNCHANGED directory
<1>1. UNCHANGED <<req, pc, auth, found, shown, code, issued>>
  BY DEF LateInsert, LostInsert, handling, signing
<1>2. UNCHANGED <<outcomes, seens>>
  BY <1>1, SameOutcomes, SameSeens DEF Outcome
<1>3. CASE users' = users
  BY <1>1, <1>2, <1>3 DEF directory
<1>4. CASE users' # users
  <2>1. users' = users \union {u} /\ ~Taken(u.email)
    BY <1>4 DEF LateInsert, LostInsert
  <2>2. u \notin Seeded
    BY <2>1 DEF SoundInv, Taken
  <2>3. PICK r \in Requests : req[r].kind = "register" /\ u = NewUser(r)
    BY <2>2 DEF IInv, Origin, Possible
  <2>4. (code[r] = 500 \/ (code[r] = 0 /\ pc[r] = "lost")) /\ ~req[r].defect
    BY <2>3 DEF IInv, RegisterInv, SoundInv
  <2>5. ~Restricted(req[r])
    <3>1. u.role = req[r].role /\ req[r].role \in {"MEMBER", "MANAGER"}
      BY <2>3, AccountsAssumption DEF NewUser, IInv, TypeOK, RequestType, Roles
    <3> QED
      BY <2>2, <3>1 DEF Restricted, IInv, NoNewManagers, Possible
  <2>6. outcomes[r] = "failed"
    BY <2>4 DEF outcomes, Outcome
  <2>7. u.email = req[r].email
    BY <2>3 DEF NewUser
  <2>8. D!RegisterLate(r)
    BY <1>1, <1>2, <2>1, <2>3, <2>4, <2>5, <2>6, <2>7, ProperFacts
       DEF D!RegisterLate, D!Open, outcomes, seens
  <2> QED
    BY <2>8 DEF D!Next, D!Serve
<1> QED
  BY <1>3, <1>4

(* Balances, time and waiting are not the directory's. *)
LEMMA WorldDirectory ==
  ASSUME (\E m \in Members : Move(m)) \/ (\E t \in issued : Expire(t)) \/ UNCHANGED vars
  PROVE  UNCHANGED directory
<1>1. UNCHANGED <<handling, users, issued>>
  BY DEF Move, Expire, vars, signing
<1> QED
  BY <1>1, SameOutcomes, SameSeens DEF directory, handling, Outcome

LEMMA StepDirectory ==
  ASSUME IInv, SoundInv, [Next]_vars PROVE D!Next \/ UNCHANGED directory
<1>1. ASSUME NEW r \in Requests, Serve(r) PROVE D!Next \/ UNCHANGED directory
  BY <1>1, BeginDirectory, EnterStep, CreateDirectory, SignInDirectory, LookUpDirectory,
     TellDirectory, FailDirectory DEF Serve
<1>2. ASSUME NEW u \in pending, LateInsert(u) \/ LostInsert(u)
      PROVE  D!Next \/ UNCHANGED directory
  BY <1>2, PendingDirectory
<1> QED
  BY <1>1, <1>2, WorldDirectory, FailDirectory DEF Next

(* Register, Login, Me and ListMembersByDomain act like atomic operations  *)
(* of one directory, whatever overlaps, fails, comes late or crashes.      *)
THEOREM Directs == Spec => ImplementsDirectory
<1>1. Init => D!Init
  <2> SUFFICES ASSUME Init PROVE D!Init
    OBVIOUS
  <2>1. \A r \in Requests : Outcome(r) = "open" /\ Seen(r) = {}
    BY DEF Init, Outcome, Seen
  <2> QED
    BY <2>1 DEF Init, D!Init
<1>2. UNCHANGED directory <=>
        UNCHANGED <<req, users, issued, auth,
                    [r \in Requests |-> Outcome(r)], [r \in Requests |-> Seen(r)]>>
  BY DEF directory, outcomes, seens
<1>3. IInv /\ SoundInv /\ [Next]_vars => D!Next \/ UNCHANGED directory
  BY StepDirectory
<1> QED
  BY <1>1, <1>2, <1>3, SoundInit, SoundStep, Invariance, PTL DEF Spec, ImplementsDirectory, D!Spec

-----------------------------------------------------------------------------
(* Liveness *)

Asks(r) == pc[r] \in {"create", "find"}
Reads(r) == pc[r] = "credits" /\ found[r] # {}
Tells(r) == pc[r] = "credits" /\ found[r] = {}
Answers(r) == pc[r] = "reply"
Over(r) == pc[r] \in Settled

(* One balance less to read. *)
OneRead(r) == \E u \in found[r] : found'[r] = found[r] \ {u}

(* Only a session of one account, or a list, has balances to read.         *)
SingleInv ==
  \A r \in Requests : pc[r] = "credits" /\ req[r].kind # "members" =>
    \A u, v \in found[r] : u = v

(* No two accounts have one member. *)
LEMMA MembersDiffer ==
  ASSUME IInv, NEW u \in users, NEW v \in users, u.member = v.member PROVE u = v
<1>1. CASE u \in Seeded /\ v \in Seeded
  BY <1>1, AccountsAssumption
<1>2. ASSUME NEW w \in users, NEW x \in users, w.member = x.member,
             NEW r \in Requests, w = NewUser(r)
      PROVE  w = x
  <2>1. w.member = r
    BY <1>2 DEF NewUser
  <2> QED
    BY <1>2, <2>1, IdentityFacts DEF Possible
<1> QED
  BY <1>1, <1>2 DEF IInv, Origin, Possible

(* What a step may do to a request that is being served.                   *)
Moved(r) ==
  /\ req' = req
  /\ Asks(r) => \/ Asks(r)' \/ Answers(r)' \/ Over(r)'
                \/ /\ pc'[r] = "credits"
                   /\ req[r].kind # "members" => \A u, v \in found'[r] : u = v
  /\ pc[r] = "credits" => \/ pc'[r] = "credits" /\ (found'[r] = found[r] \/ OneRead(r))
                          \/ Tells(r) /\ Answers(r)'
                          \/ Over(r)'
  /\ Answers(r) => Answers(r)' \/ Over(r)'
  /\ pc'[r] = "credits" => Asks(r) \/ pc[r] = "credits"

LEMMA Moves == ASSUME IInv, [Next]_vars, NEW r \in Requests PROVE Moved(r)
<1>1. TypeOK
  BY DEF IInv
<1>2. ASSUME req' = req, pc'[r] = pc[r], found'[r] = found[r] PROVE Moved(r)
  BY <1>2 DEF Moved, Asks, Tells, Answers, Over
<1>3. ASSUME NEW s \in Requests, s # r, Serve(s) PROVE Moved(r)
  <2>1. req' = req /\ pc'[r] = pc[r] /\ found'[r] = found[r]
    BY <1>1, <1>3 DEF Serve, Register, Login, Unauthenticated, Authenticated, CreateUser,
       FindUserByEmail, FindUserByMemberID, ListUsers, LoadCredits, LoadCreditsFails, Show,
       Respond, Reply, StoreError, StoreTimeout, StartSession, Goto, Answer, TypeOK
  <2> QED
    BY <1>2, <2>1
<1>4. CASE Serve(r)
  <2> USE DEF Moved, Asks, Reads, Tells, Answers, Over, Goto, Answer, Settled, OneRead
  <2>1. CASE Register(r) \/ Login(r) \/ Unauthenticated(r)
    BY <1>1, <2>1 DEF Register, Login, Unauthenticated, TypeOK
  <2>2. CASE \E t \in issued : Authenticated(r, t)
    BY <1>1, <2>2 DEF Authenticated, TypeOK
  <2>3. CASE CreateUser(r) \/ FindUserByEmail(r)
    <3>1. Asks(r) /\ req' = req
      BY <2>3 DEF CreateUser, FindUserByEmail
    <3>2. Answers(r)' \/ \E u : pc'[r] = "credits" /\ found'[r] = {u}
      <4>1. ASSUME NEW u, StartSession(r, u) PROVE pc'[r] = "credits" /\ found'[r] = {u}
        BY <1>1, <4>1 DEF StartSession, TypeOK
      <4>2. (\E u : StartSession(r, u)) \/ \E status : Answer(r, status)
        <5> HIDE DEF Answer
        <5> QED
          BY <2>3 DEF CreateUser, FindUserByEmail
      <4>3. (\E status : Answer(r, status)) => Answers(r)'
        BY <1>1 DEF TypeOK
      <4> QED
        BY <4>1, <4>2, <4>3
    <3> QED
      BY <3>1, <3>2
  <2>4. CASE FindUserByMemberID(r)
    <3>1. Asks(r) /\ req' = req /\ pc'[r] \in {"credits", "reply"}
          /\ found'[r] = {u \in users : u.member = auth[r].member}
      BY <1>1, <2>4 DEF FindUserByMemberID, TypeOK
    <3> QED
      BY <3>1, MembersDiffer
  <2>5. CASE ListUsers(r)
    BY <1>1, <2>5 DEF ListUsers, TypeOK
  <2>6. CASE LoadCredits(r) \/ LoadCreditsFails(r)
    BY <1>1, <2>6 DEF LoadCredits, LoadCreditsFails, Show, TypeOK
  <2>7. CASE Respond(r) \/ Reply(r) \/ StoreError(r) \/ StoreTimeout(r)
    BY <1>1, <2>7 DEF Respond, Reply, StoreError, StoreTimeout, TypeOK
  <2> QED
    <3> HIDE DEF Asks, Reads, Tells, Answers, Over, Goto, Answer, Settled, OneRead, Moved
    <3> QED
      BY <1>4, <2>1, <2>2, <2>3, <2>4, <2>5, <2>6, <2>7 DEF Serve
<1>5. ASSUME NEW u \in pending, LateInsert(u) \/ LostInsert(u) PROVE Moved(r)
  BY <1>2, <1>5 DEF LateInsert, LostInsert, handling
<1>6. CASE (\E m \in Members : Move(m)) \/ (\E t \in issued : Expire(t)) \/ UNCHANGED vars
  BY <1>2, <1>6 DEF Move, Expire, vars, handling
<1>7. CASE Crash
  <2>1. /\ req' = req /\ found' = found
        /\ pc'[r] = IF pc[r] \in InFlight THEN "lost" ELSE pc[r]
    BY <1>7 DEF Crash
  <2> QED
    BY <2>1 DEF Moved, Asks, Tells, Answers, Over, InFlight, Settled
<1> QED
  BY <1>3, <1>4, <1>5, <1>6, <1>7 DEF Next

LEMMA Single == Spec => []SingleInv
<1>1. Init => SingleInv
  BY DEF Init, SingleInv
<1>2. IInv /\ SingleInv /\ [Next]_vars => SingleInv'
  <2> SUFFICES ASSUME IInv, SingleInv, [Next]_vars, NEW r \in Requests,
                      pc'[r] = "credits", req'[r].kind # "members"
               PROVE  \A u, v \in found'[r] : u = v
    BY DEF SingleInv
  <2>1. Moved(r)
    BY Moves
  <2> QED
    BY <2>1 DEF Moved, Asks, Answers, Over, Tells, Settled, OneRead, SingleInv
<1> QED
  BY <1>1, <1>2, Invariance, PTL DEF Spec

(* The goroutine's own step out of each place that a request waits in.     *)
LEMMA Leaves ==
  ASSUME IInv, NEW r \in Requests
  PROVE  /\ Asks(r) /\ StoreTimeout(r) => Answers(r)'
         /\ LoadCreditsFails(r) => req' = req /\ pc'[r] = pc[r] /\ OneRead(r)
         /\ Respond(r) => Answers(r)'
         /\ Reply(r) => Over(r)'
<1> USE DEF IInv, TypeOK, Answers, Over, Settled, Answer, Goto
<1>1. Asks(r) /\ StoreTimeout(r) => Answers(r)'
  BY DEF StoreTimeout
<1>2. LoadCreditsFails(r) => req' = req /\ pc'[r] = pc[r] /\ OneRead(r)
  BY DEF LoadCreditsFails, Show, OneRead
<1>3. (Respond(r) => Answers(r)') /\ (Reply(r) => Over(r)')
  BY DEF Respond, Reply
<1> QED
  BY <1>1, <1>2, <1>3

(* A step whose guard holds is ENABLED, which no installed prover knows:   *)
(* the hypothesis of the theorems below.                                   *)
CanGoOn(r) ==
  /\ pc[r] \in {"create", "find"} => ENABLED <<StoreTimeout(r)>>_vars
  /\ pc[r] = "credits" /\ found[r] # {} => ENABLED <<LoadCreditsFails(r)>>_vars
  /\ pc[r] = "credits" /\ found[r] = {} => ENABLED <<Respond(r)>>_vars
  /\ pc[r] = "reply" => ENABLED <<Reply(r)>>_vars

GuardsEnable == \A r \in Requests : CanGoOn(r)

(* Whatever else than the list is asked for (Register, Login and Me of the *)
(* AuthController) comes to an end although no step of the database is     *)
(* fair: the one balance of a session is read, or its read is given up.    *)
THEOREM SettlesUnlessList ==
  FairSpec /\ []GuardsEnable =>
    \A r \in Requests :
      pc[r] \in InFlight /\ req[r].kind # "members" ~> pc[r] \in Settled
<1> SUFFICES ASSUME NEW r \in Requests
             PROVE  FairSpec /\ []GuardsEnable =>
                      (pc[r] \in InFlight /\ req[r].kind # "members" ~> pc[r] \in Settled)
  OBVIOUS
<1> DEFINE One == req[r].kind # "members"
           Ask == Asks(r) /\ One
           Read == Reads(r) /\ One
           Tell == Tells(r)
           End == Answers(r)
           Done == Over(r)
<1>1. FairSpec => Spec /\ GoesOn(r)
  BY DEF FairSpec
<1>2. GuardsEnable => /\ Ask => ENABLED <<StoreTimeout(r)>>_vars
                      /\ Read => ENABLED <<LoadCreditsFails(r)>>_vars
                      /\ Tell => ENABLED <<Respond(r)>>_vars
                      /\ End => ENABLED <<Reply(r)>>_vars
  <2>1. GuardsEnable => CanGoOn(r)
    BY DEF GuardsEnable
  <2> QED
    BY <2>1 DEF CanGoOn, Asks, Reads, Tells, Answers
<1>3. IInv /\ Ask /\ [Next]_vars => Ask' \/ Read' \/ Tell' \/ End' \/ Done'
  BY Moves DEF Moved, Reads, Tells
<1>4. IInv /\ Ask /\ <<StoreTimeout(r)>>_vars => End'
  BY Leaves
<1>5. IInv /\ Read /\ [Next]_vars => Read' \/ Tell' \/ Done'
  BY Moves DEF Moved, Reads, Tells
<1>6. IInv /\ SingleInv /\ Read /\ <<LoadCreditsFails(r)>>_vars => Tell'
  BY Leaves DEF Reads, Tells, SingleInv, OneRead
<1>7. IInv /\ Tell /\ [Next]_vars => Tell' \/ End' \/ Done'
  BY Moves DEF Moved, Tells, OneRead
<1>8. IInv /\ Tell /\ <<Respond(r)>>_vars => End'
  BY Leaves
<1>9. IInv /\ End /\ [Next]_vars => End' \/ Done'
  BY Moves DEF Moved
<1>10. IInv /\ End /\ <<Reply(r)>>_vars => Done'
  BY Leaves
<1>11. /\ pc[r] \in InFlight /\ req[r].kind # "members" => Ask \/ Read \/ Tell \/ End
       /\ Done => pc[r] \in Settled
  BY DEF InFlight, Asks, Reads, Tells, Answers, Over
<1> HIDE DEF Ask, Read, Tell, End, Done
<1> QED
  BY <1>1, <1>2, <1>3, <1>4, <1>5, <1>6, <1>7, <1>8, <1>9, <1>10, <1>11, Invariance, Single,
     PTL DEF Spec, GoesOn

(* A list (ListMembersByDomain with its loadCredits) makes progress: of    *)
(* whatever balances are to be read one is read, or given up, or the API   *)
(* crashes.  How long the list is only TLC counts.                         *)
THEOREM ListsAdvance ==
  ASSUME NEW r \in Requests, NEW left, left # {}
  PROVE  FairSpec /\ []GuardsEnable =>
           ((pc[r] = "credits" /\ found[r] = left) ~>
              \/ pc[r] = "credits" /\ \E u \in left : found[r] = left \ {u}
              \/ pc[r] \in Settled)
<1> DEFINE Before == pc[r] = "credits" /\ found[r] = left
           After == pc[r] = "credits" /\ \E u \in left : found[r] = left \ {u}
           Done == pc[r] \in Settled
<1>1. FairSpec => Spec /\ GoesOn(r)
  BY DEF FairSpec
<1>2. GuardsEnable /\ Before => ENABLED <<LoadCreditsFails(r)>>_vars
  <2>1. GuardsEnable => CanGoOn(r)
    BY DEF GuardsEnable
  <2> QED
    BY <2>1 DEF CanGoOn
<1>3. IInv /\ Before /\ [Next]_vars => Before' \/ After' \/ Done'
  BY Moves DEF Moved, Tells, OneRead, Over
<1>4. IInv /\ Before /\ <<LoadCreditsFails(r)>>_vars => After'
  BY Leaves DEF OneRead
<1>5. /\ pc[r] = "credits" /\ found[r] = left => Before
      /\ After => pc[r] = "credits" /\ \E u \in left : found[r] = left \ {u}
      /\ Done => pc[r] \in Settled
  OBVIOUS
<1> HIDE DEF Before, After, Done
<1> QED
  BY <1>1, <1>2, <1>3, <1>4, <1>5, Invariance, PTL DEF Spec, GoesOn
=============================================================================
