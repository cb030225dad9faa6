----------------------------- MODULE MCOrdering -----------------------------
(***************************************************************************)
(* Instances of Ordering for TLC: the inputs of its runs.                  *)
(***************************************************************************)
EXTENDS OrderingRefinement, FiniteSetsExt, TLC

CONSTANTS alice, bob

Request(kind, role, self, member, amount, defect) ==
  [kind |-> kind, role |-> role, self |-> self, member |-> member,
   amount |-> amount, defect |-> defect]

Order(m, total) == Request("order", "MEMBER", m, m, total, "none")
Grant(m, amount) == Request("grant", "MANAGER", m, m, amount, "none")
History(m) == Request("history", "MEMBER", m, m, 0, "none")
Credits(m) == Request("credits", "MEMBER", m, m, 0, "none")

(* One member, orders and grants that compete for the balance. *)
RaceInputs == {Order(alice, 0), Order(alice, 2), Grant(alice, 1), Grant(alice, 2)}

(* Every kind of request and every way to be turned down before the first  *)
(* repository call.                                                        *)
MixedInputs ==
  {Order(alice, 1), Grant(alice, 1), History(alice), Credits(alice),
   Request("order", "MANAGER", bob, alice, 2, "none"),
   Request("order", "none", alice, alice, 1, "none"),
   Request("order", "MEMBER", bob, alice, 1, "none"),
   Request("order", "MEMBER", alice, alice, 1, "body"),
   Request("order", "MEMBER", alice, alice, 1, "items"),
   Request("grant", "MEMBER", alice, alice, 1, "none"),
   Request("grant", "MANAGER", bob, alice, 0, "none"),
   Request("history", "MEMBER", bob, alice, 0, "none")}

(* Two members whose requests interleave. *)
PairInputs == {Order(alice, 1), Order(bob, 2), Grant(alice, 2), Grant(bob, 1)}

OpeningBalances == {NoAccount, 0, 2}
NoAccounts == {NoAccount}

(* mongodb.go on EventsByAggregate: "replay this slice to rebuild the       *)
(* aggregate's current state".  Replayed from nothing, a member's events   *)
(* add up to the member's balance once all requests are over.              *)
ReplayRebuildsBalance ==
  Quiescent => \A m \in Members :
    Amount(credits[m]) =
      MapThenSumSet(LAMBDA e : IF req[e].kind = "grant" THEN req[e].amount ELSE -req[e].amount,
                    EventsByAggregate(m))

RequestSymmetry == Permutations(Requests)
=============================================================================
