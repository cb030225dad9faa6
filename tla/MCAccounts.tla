----------------------------- MODULE MCAccounts -----------------------------
(***************************************************************************)
(* Instances of Accounts for TLC: the inputs of its runs.                  *)
(***************************************************************************)
EXTENDS AccountsRefinement, TLC

CONSTANTS ann, ben, boss, p, q

Ask(kind, email, password, role, among, defect) ==
  [kind |-> kind, email |-> email, password |-> password, role |-> role,
   among |-> among, defect |-> defect]

SignUp(email, password, role) == Ask("register", email, password, role, {}, FALSE)
SignIn(email, password) == Ask("login", email, password, "MEMBER", {}, FALSE)
Me == Ask("me", ann, p, "MEMBER", {}, FALSE)
List(among) == Ask("members", ann, p, "MEMBER", among, FALSE)

Manager == [member |-> "m0", email |-> boss, password |-> p, role |-> "MANAGER"]
Appointed == {Manager}
Nobody == {}

(* One address, right and wrong passwords, a session and its use. *)
SignUpInputs ==
  {SignUp(ann, p, "MEMBER"), SignUp(ann, q, "MEMBER"), SignIn(ann, p), Me,
   Ask("register", ann, p, "MEMBER", {}, TRUE)}

(* A manager who was there before, members who would like to be one. *)
ListInputs ==
  {SignUp(ann, p, "MANAGER"), SignUp(ann, p, "MEMBER"), SignIn(boss, p), SignIn(boss, q),
   SignIn(ann, p),
   List({ann, boss}), List({ann}), Ask("members", ann, p, "MEMBER", {}, TRUE),
   Ask("login", ann, p, "MEMBER", {}, TRUE)}

(* The same without the requests that are turned down at once. *)
AppointInputs ==
  {SignUp(ann, p, "MANAGER"), SignUp(ann, p, "MEMBER"), SignIn(boss, p), SignIn(ann, p),
   List({ann, boss})}

RequestSymmetry == Permutations(Requests)
=============================================================================
