------------------------------- MODULE Booking -------------------------------
(***************************************************************************)
(* What the API promises about one request, without saying how: its writes *)
(* take effect one by one in the order charge, store, log, each at most    *)
(* once; it is confirmed only when all of them have; a request that was    *)
(* turned down has none, and never will; one that failed may have stopped  *)
(* anywhere, and the write it stopped at may still take effect.            *)
(***************************************************************************)
EXTENDS Integers

CONSTANT Requests

VARIABLES
  length,     (* length[r]: the number of writes that r consists of *)
  written,    (* written[r]: how many of them have taken effect *)
  answer      (* answer[r]: what the client of r knows *)

Answers == {"open", "confirmed", "refused", "failed"}

Init ==
  /\ length \in [Requests -> 0..3]
  /\ written = [r \in Requests |-> 0]
  /\ answer = [r \in Requests |-> "open"]

Write(r) ==
  /\ answer[r] \in {"open", "failed"}
  /\ written[r] < length[r]
  /\ written' = [written EXCEPT ![r] = @ + 1]
  /\ UNCHANGED <<length, answer>>

Confirm(r) ==
  /\ written[r] = length[r]
  /\ answer[r] = "open"
  /\ answer' = [answer EXCEPT ![r] = "confirmed"]
  /\ UNCHANGED <<length, written>>

TurnDown(r) ==
  /\ written[r] = 0
  /\ answer[r] = "open"
  /\ answer' = [answer EXCEPT ![r] = "refused"]
  /\ UNCHANGED <<length, written>>

(* One request fails, or a crash fails all that are under way. *)
Fail ==
  /\ \E R \in SUBSET {r \in Requests : answer[r] = "open"} :
       answer' = [r \in Requests |-> IF r \in R THEN "failed" ELSE answer[r]]
  /\ UNCHANGED <<length, written>>

Next ==
  \/ \E r \in Requests : Write(r) \/ Confirm(r) \/ TurnDown(r)
  \/ Fail

Spec == Init /\ [][Next]_<<length, written, answer>>
=============================================================================
