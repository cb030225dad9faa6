------------------------- MODULE OrderingRefinement -------------------------
(***************************************************************************)
(* The two abstract specifications that Ordering implements: Booking with  *)
(* every overlap and failure, Ledger when the requests about one member    *)
(* are served one after the other and no write is performed late.          *)
(***************************************************************************)
EXTENDS Ordering

(* The number of writes that a request consists of. *)
WritesOf(q) ==
  CASE q.kind = "order" -> 3
    [] q.kind = "grant" -> 2
    [] OTHER -> 0

(* How far its writes have come, read off the collections. *)
Written(r) ==
  IF r \in events THEN WritesOf(req[r])
  ELSE IF r \in orders THEN 2
  ELSE IF r \in applied THEN 1
  ELSE 0

(* What the client of a request has been told. *)
Told(r) ==
  CASE pc[r] = "done" /\ code[r] \in Success -> "confirmed"
    [] pc[r] = "done" /\ code[r] \in Refusals -> "refused"
    [] (pc[r] = "done" /\ code[r] = 500) \/ pc[r] = "lost" -> "failed"
    [] OTHER -> "open"

B == INSTANCE Booking WITH
       length <- [r \in Requests |-> WritesOf(req[r])],
       written <- [r \in Requests |-> Written(r)],
       answer <- [r \in Requests |-> Told(r)]

L == INSTANCE Ledger WITH
       Cap <- MaxCredits,
       Amounts <- {q.amount : q \in Inputs},
       balance <- [m \in Members |-> Amount(credits[m])]

(* Every request keeps the promise of Booking, whatever overlaps, fails,   *)
(* comes late or dies with the API.                                        *)
ImplementsBooking == B!Spec

(* Served one after the other, the three repository calls of a request act *)
(* on the balance like one atomic grant or charge.                         *)
ImplementsLedger == L!Spec
=============================================================================
