------------------------------- MODULE FanOut -------------------------------
(***************************************************************************)
(* What a fan-out to the vendors promises its caller, without goroutines   *)
(* and channels: it asks the adapters that were registered at one moment,  *)
(* and returns exactly one result for each: a menu or an error if it was   *)
(* asked for menus, a yes, a no or an error if it submits orders.          *)
(***************************************************************************)
CONSTANTS Calls, Submits, Services, Versions, None

VARIABLES
  registry,  (* registry[s]: the adapter registered under id s, or None *)
  asked,     (* asked[c]: the adapters that call c asks *)
  results,   (* results[c]: the pairs of adapter and result it returns *)
  phase      (* phase[c] *)

Init ==
  /\ registry \in [Services -> Versions \union {None}]
  /\ asked = [c \in Calls |-> {}]
  /\ results = [c \in Calls |-> {}]
  /\ phase = [c \in Calls |-> "idle"]

Register ==
  /\ \E s \in Services, v \in Versions : registry' = [registry EXCEPT ![s] = v]
  /\ UNCHANGED <<asked, results, phase>>

(* All of the registered adapters, or those under the ids that are wanted. *)
Ask(c) ==
  /\ phase[c] = "idle"
  /\ \E wanted \in SUBSET Services :
       asked' = [asked EXCEPT ![c] =
                   {<<s, registry[s]>> : s \in {x \in wanted : registry[x] # None}}]
  /\ phase' = [phase EXCEPT ![c] = "asked"]
  /\ UNCHANGED <<registry, results>>

Possible(c) ==
  {"error"} \union IF c \in Submits THEN {"confirmed", "declined"} ELSE {"menu"}

Return(c) ==
  /\ phase[c] = "asked"
  /\ \E f \in [asked[c] -> Possible(c)] :
       results' = [results EXCEPT ![c] = {<<a, f[a]>> : a \in asked[c]}]
  /\ phase' = [phase EXCEPT ![c] = "returned"]
  /\ UNCHANGED <<registry, asked>>

Next == Register \/ \E c \in Calls : Ask(c) \/ Return(c)

(* Every call that was made returns. *)
Spec ==
  /\ Init /\ [][Next]_<<registry, asked, results, phase>>
  /\ \A c \in Calls : WF_<<registry, asked, results, phase>>(Return(c))
=============================================================================
