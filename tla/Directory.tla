------------------------------ MODULE Directory ------------------------------
(***************************************************************************)
(* What the API promises about accounts and sign-in, without saying how:   *)
(* a directory whose operations are atomic.  A registration opens its      *)
(* account if the address is free; a login finds the account of address    *)
(* and password; a profile and a list of members show the directory as it  *)
(* is at one moment.  Each request takes effect at most once or is turned  *)
(* down for a reason that is true at that moment; one that fails has taken *)
(* no effect that its client was told of, and only a registration may      *)
(* still take it, once, as long as the address is free.                    *)
(***************************************************************************)
CONSTANTS
  Requests,
  Inputs,       (* what a request may ask *)
  Seeded,       (* the accounts that are there from the start *)
  SelfAssign,   (* whether roles may be chosen *)
  None          (* no session *)

VARIABLES
  asks,         (* asks[r]: what request r asks *)
  accounts,     (* the accounts that are open *)
  sessions,     (* the sessions that were started *)
  acting,       (* acting[r]: the session that r is made in *)
  outcome,      (* outcome[r]: open, granted, conflict, denied or failed *)
  seen          (* seen[r]: the accounts that the answer to r shows *)

Init ==
  /\ asks \in [Requests -> Inputs]
  /\ accounts = Seeded
  /\ sessions = {}
  /\ acting = [r \in Requests |-> None]
  /\ outcome = [r \in Requests |-> "open"]
  /\ seen = [r \in Requests |-> {}]

(* The account that registration r is for. *)
Account(r) ==
  [member |-> r, email |-> asks[r].email, password |-> asks[r].password, role |-> asks[r].role]

Proper(r) == ~asks[r].defect /\ (asks[r].role = "MEMBER" \/ SelfAssign)

Free(email) == \A a \in accounts : a.email # email

Known(r) == {a \in accounts : a.email = asks[r].email /\ a.password = asks[r].password}

Becomes(r, what) ==
  /\ outcome[r] = "open"
  /\ outcome' = [outcome EXCEPT ![r] = what]

(* A session of account a, which the answer shows. *)
Start(r, a) ==
  /\ Becomes(r, "granted")
  /\ sessions' = sessions \union {[by |-> r, member |-> a.member, role |-> a.role]}
  /\ seen' = [seen EXCEPT ![r] = {a}]
  /\ UNCHANGED <<asks, acting>>

Open(r) ==
  /\ asks[r].kind = "register" /\ Proper(r)
  /\ Free(asks[r].email)
  /\ accounts' = accounts \union {Account(r)}

Register(r) == Open(r) /\ Start(r, Account(r))

(* A registration that failed opens its account after all. *)
RegisterLate(r) ==
  /\ outcome[r] = "failed"
  /\ Open(r)
  /\ UNCHANGED <<asks, sessions, acting, outcome, seen>>

(* Another has the address. *)
Conflict(r) ==
  /\ asks[r].kind = "register" /\ Proper(r)
  /\ \E a \in accounts : a.email = asks[r].email /\ a.member # r
  /\ Becomes(r, "conflict")
  /\ UNCHANGED <<asks, accounts, sessions, acting, seen>>

SignIn(r) ==
  /\ asks[r].kind = "login" /\ ~asks[r].defect
  /\ \E a \in Known(r) : Start(r, a)
  /\ UNCHANGED accounts

(* What asks for nothing that can be granted, and what shows no session.   *)
Deny(r) ==
  /\ \/ asks[r].kind = "register" /\ ~Proper(r)
     \/ asks[r].kind = "login" /\ (asks[r].defect \/ Known(r) = {})
     \/ asks[r].kind \in {"me", "members"} /\ acting[r] = None
  /\ Becomes(r, "denied")
  /\ UNCHANGED <<asks, accounts, sessions, acting, seen>>

(* A session is shown; the list is for managers. *)
Enter(r) ==
  /\ asks[r].kind \in {"me", "members"}
  /\ acting[r] = None
  /\ \E s \in sessions :
       /\ acting' = [acting EXCEPT ![r] = s]
       /\ Becomes(r, IF asks[r].kind = "members" /\ (s.role # "MANAGER" \/ asks[r].defect)
                     THEN "denied" ELSE "open")
  /\ UNCHANGED <<asks, accounts, sessions, seen>>

Profile(r) == {a \in accounts : a.member = acting[r].member}

(* The profile of a session is always there. *)
LookUp(r) ==
  /\ acting[r] # None
  /\ \/ asks[r].kind = "me" /\ Profile(r) # {} /\ seen' = [seen EXCEPT ![r] = Profile(r)]
     \/ /\ asks[r].kind = "members"
        /\ seen' = [seen EXCEPT ![r] = {a \in accounts : a.email \in asks[r].among}]
  /\ Becomes(r, "granted")
  /\ UNCHANGED <<asks, accounts, sessions, acting>>

(* One request fails, or a crash fails all that are not answered yet. *)
Fail ==
  /\ \E R \in SUBSET {r \in Requests : outcome[r] \in {"open", "granted"}} :
       outcome' = [r \in Requests |-> IF r \in R THEN "failed" ELSE outcome[r]]
  /\ UNCHANGED <<asks, accounts, sessions, acting, seen>>

Serve(r) ==
  \/ Register(r) \/ RegisterLate(r) \/ Conflict(r)
  \/ SignIn(r) \/ Deny(r) \/ Enter(r) \/ LookUp(r)

Next == (\E r \in Requests : Serve(r)) \/ Fail

Spec == Init /\ [][Next]_<<asks, accounts, sessions, acting, outcome, seen>>
=============================================================================
