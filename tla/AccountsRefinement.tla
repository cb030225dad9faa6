------------------------- MODULE AccountsRefinement -------------------------
(***************************************************************************)
(* The abstract specification that Accounts implements: Directory.  An     *)
(* operation takes effect when the database performs its one write or      *)
(* read of the users collection; what follows it, a token that is signed,  *)
(* balances that are read one by one, the answer, only tells of it.        *)
(***************************************************************************)
EXTENDS Accounts

(* What has become of a request.  A crash takes away what was granted but  *)
(* not yet decided to be answered.                                         *)
Outcome(r) ==
  CASE code[r] \in {200, 201} \/ (code[r] = 0 /\ pc[r] = "credits") -> "granted"
    [] code[r] = 409 -> "conflict"
    [] code[r] \in {400, 401, 403} -> "denied"
    [] code[r] = 500 \/ (code[r] = 0 /\ pc[r] = "lost") -> "failed"
    [] OTHER -> "open"

(* The accounts in the answer and those whose balance is still to be read. *)
Seen(r) == found[r] \union {s.user : s \in shown[r]}

D == INSTANCE Directory WITH
       asks <- req,
       accounts <- users,
       sessions <- issued,
       acting <- auth,
       outcome <- [r \in Requests |-> Outcome(r)],
       seen <- [r \in Requests |-> Seen(r)]

(* Registrations that race, time out and are performed late, logins,       *)
(* profiles and lists whose balances are read one by one act like atomic   *)
(* operations of one directory: no address has two accounts, no token is   *)
(* without one, nothing is refused for a reason that does not hold.        *)
ImplementsDirectory == D!Spec
=============================================================================
