------------------------------- MODULE Ledger -------------------------------
(***************************************************************************)
(* The credit accounts as a caller who is alone would see them: a grant    *)
(* and a charge are one atomic change of the balance as it is, within the  *)
(* cap and never below zero.                                               *)
(***************************************************************************)
EXTENDS Integers

CONSTANTS
  Members,    (* the accounts' owners *)
  Cap,        (* the most an account may hold *)
  Amounts     (* the amounts that are moved *)

VARIABLES balance, granted, spent

Init ==
  /\ balance \in [Members -> 0..Cap]
  /\ granted = balance
  /\ spent = [m \in Members |-> 0]

Grant(m, a) ==
  /\ a > 0
  /\ balance[m] + a <= Cap
  /\ balance' = [balance EXCEPT ![m] = @ + a]
  /\ granted' = [granted EXCEPT ![m] = @ + a]
  /\ UNCHANGED spent

Charge(m, a) ==
  /\ 0 <= a /\ a <= balance[m]
  /\ balance' = [balance EXCEPT ![m] = @ - a]
  /\ spent' = [spent EXCEPT ![m] = @ + a]
  /\ UNCHANGED granted

Next == \E m \in Members, a \in Amounts : Grant(m, a) \/ Charge(m, a)

Spec == Init /\ [][Next]_<<balance, granted, spent>>
=============================================================================
