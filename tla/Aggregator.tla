----------------------------- MODULE Aggregator -----------------------------
(***************************************************************************)
(* The vendor aggregator: a registry of adapters behind an RWMutex, and    *)
(* the fan-out / fan-in of FetchAllMenus and SubmitToVendors.              *)
(*                                                                         *)
(* A call copies the adapters it wants under the read lock, starts one     *)
(* goroutine per adapter that sends one result into a channel, starts one  *)
(* more that closes the channel when all are done, and drains the channel. *)
(* The two functions differ only in what they copy and what the adapter    *)
(* does, so they share the module: the calls in Submits are calls of       *)
(* SubmitToVendors, the others of FetchAllMenus.                           *)
(*                                                                         *)
(* An adapter is a pair of its service id and a version, so that one that  *)
(* was replaced can be told from its successor.  The WaitGroup's counter   *)
(* is kept as the set of goroutines it counts.                             *)
(***************************************************************************)
EXTENDS Naturals, FiniteSets

CONSTANTS
  Calls,     (* the fan-out calls; bounds the model *)
  Submits,   (* those that submit orders *)
  Services,  (* the vendors' service ids *)
  Versions,  (* the adapters that can be registered under one id *)
  None       (* no adapter registered *)

ASSUME AggregatorAssumption == Submits \subseteq Calls /\ None \notin Versions

VARIABLES
  registry,   (* a.adapters *)
  readers,    (* the calls that hold a.mu for reading *)
  pc,         (* pc[c]: where the caller's goroutine is *)
  todo,       (* todo[c]: the service ids it has still to look at *)
  tasks,      (* tasks[c]: the adapters it has copied *)
  worker,     (* worker[c][a]: where the goroutine for adapter a is *)
  outcome,    (* outcome[c][a]: what the adapter returned *)
  wg,         (* wg[c]: the goroutines that the WaitGroup counts *)
  chan,       (* chan[c]: the results in the channel's buffer *)
  closed,     (* closed[c]: is the channel closed? *)
  collected   (* collected[c]: the results received *)

Adapters == Services \X Versions

registering == <<registry, readers>>
copying == <<todo, tasks>>
working == <<worker, outcome, wg>>
collecting == <<chan, closed, collected>>
vars == <<registering, pc, copying, working, collecting>>

Init ==
  /\ registry \in [Services -> Versions \union {None}]
  /\ readers = {}
  /\ pc = [c \in Calls |-> "idle"]
  /\ todo = [c \in Calls |-> {}]
  /\ tasks = [c \in Calls |-> {}]
  /\ worker = [c \in Calls |-> [a \in Adapters |-> "none"]]
  /\ outcome = [c \in Calls |-> [a \in Adapters |-> "none"]]
  /\ wg = [c \in Calls |-> {}]
  /\ chan = [c \in Calls |-> {}]
  /\ closed = [c \in Calls |-> FALSE]
  /\ collected = [c \in Calls |-> {}]

Goto(c, step) == pc' = [pc EXCEPT ![c] = step]

-----------------------------------------------------------------------------
(* The registry *)

(* Variant: Register does not take the lock. *)
RegisterUnlocked(s, v) ==
  /\ registry' = [registry EXCEPT ![s] = v]
  /\ UNCHANGED <<readers, pc, copying, working, collecting>>

Register(s, v) ==
  /\ readers = {}
  /\ registry' = [registry EXCEPT ![s] = v]
  /\ UNCHANGED <<readers, pc, copying, working, collecting>>

(* A call takes the read lock.  FetchAllMenus ranges over the registry,    *)
(* SubmitToVendors over the ids its caller has orders for.                 *)
RLock(c) ==
  /\ pc[c] = "idle"
  /\ readers' = readers \union {c}
  /\ IF c \in Submits
     THEN \E ids \in SUBSET Services : todo' = [todo EXCEPT ![c] = ids]
     ELSE todo' = [todo EXCEPT ![c] = {s \in Services : registry[s] # None}]
  /\ Goto(c, "copy")
  /\ UNCHANGED <<registry, tasks, working, collecting>>

(* One round of the loop: an id without an adapter is skipped. *)
Copy(c) ==
  /\ pc[c] = "copy"
  /\ \E s \in todo[c] :
       /\ todo' = [todo EXCEPT ![c] = @ \ {s}]
       /\ tasks' = IF registry[s] = None THEN tasks
                   ELSE [tasks EXCEPT ![c] = @ \union {<<s, registry[s]>>}]
  /\ UNCHANGED <<registering, pc, working, collecting>>

RUnlock(c) ==
  /\ pc[c] = "copy"
  /\ todo[c] = {}
  /\ readers' = readers \ {c}
  /\ Goto(c, "spawn")
  /\ UNCHANGED <<registry, copying, working, collecting>>

-----------------------------------------------------------------------------
(* Fan-out *)

SetWorker(c, a, step) == worker' = [worker EXCEPT ![c][a] = step]

(* Variant: the WaitGroup does not count a goroutine when it is started. *)
SpawnUncounted(c, a) ==
  /\ pc[c] = "spawn"
  /\ a \in tasks[c]
  /\ worker[c][a] = "none"
  /\ SetWorker(c, a, "running")
  /\ UNCHANGED <<registering, pc, copying, outcome, wg, collecting>>

(* wg.Add(1); go ... *)
Spawn(c, a) ==
  /\ pc[c] = "spawn"
  /\ a \in tasks[c]
  /\ worker[c][a] = "none"
  /\ wg' = [wg EXCEPT ![c] = @ \union {a}]
  /\ SetWorker(c, a, "running")
  /\ UNCHANGED <<registering, pc, copying, outcome, collecting>>

(* What an adapter returns without an error: a menu, or the vendor's       *)
(* answer to the order, which confirms it or does not.                     *)
Answers(c) == IF c \in Submits THEN {"confirmed", "declined"} ELSE {"menu"}

Outcomes == {"menu", "confirmed", "declined", "error"}

Succeed(c, a) ==
  /\ worker[c][a] = "running"
  /\ \E answer \in Answers(c) : outcome' = [outcome EXCEPT ![c][a] = answer]
  /\ SetWorker(c, a, "send")
  /\ UNCHANGED <<registering, pc, copying, wg, collecting>>

(* A refused connection, an unexpected status, a body that does not parse, *)
(* a cancelled context or the client's ten second timeout: the adapter     *)
(* returns an error, which does not tell whether the vendor has the order. *)
Fail(c, a) ==
  /\ worker[c][a] = "running"
  /\ outcome' = [outcome EXCEPT ![c][a] = "error"]
  /\ SetWorker(c, a, "send")
  /\ UNCHANGED <<registering, pc, copying, wg, collecting>>

(* A channel as large as the number of tasks takes the result at once.     *)
(* Sending into a closed channel would end the process.                    *)
HasRoom(c) == Cardinality(chan[c]) < Cardinality(tasks[c])

(* Variant: a result can only be sent when the one before was received.    *)
SendOneAtATime(c, a) ==
  /\ worker[c][a] = "send"
  /\ chan[c] = {}
  /\ chan' = [chan EXCEPT ![c] = @ \union {a}]
  /\ SetWorker(c, a, "sent")
  /\ UNCHANGED <<registering, pc, copying, outcome, wg, closed, collected>>

Send(c, a) ==
  /\ worker[c][a] = "send"
  /\ HasRoom(c)
  /\ chan' = [chan EXCEPT ![c] = @ \union {a}]
  /\ SetWorker(c, a, "sent")
  /\ UNCHANGED <<registering, pc, copying, outcome, wg, closed, collected>>

(* Variant: wg.Done() is not deferred and an error returns before it. *)
DoneUnlessFailed(c, a) ==
  /\ worker[c][a] = "sent"
  /\ wg' = IF outcome[c][a] = "error" THEN wg ELSE [wg EXCEPT ![c] = @ \ {a}]
  /\ SetWorker(c, a, "done")
  /\ UNCHANGED <<registering, pc, copying, outcome, collecting>>

(* defer wg.Done() *)
Done(c, a) ==
  /\ worker[c][a] = "sent"
  /\ wg' = [wg EXCEPT ![c] = @ \ {a}]
  /\ SetWorker(c, a, "done")
  /\ UNCHANGED <<registering, pc, copying, outcome, collecting>>

-----------------------------------------------------------------------------
(* Fan-in *)

(* go func() { wg.Wait(); close(ch) }() *)
StartCloser(c) ==
  /\ pc[c] = "spawn"
  /\ \A a \in tasks[c] : worker[c][a] # "none"
  /\ Goto(c, "collect")
  /\ UNCHANGED <<registering, copying, working, collecting>>

Close(c) ==
  /\ pc[c] = "collect"
  /\ wg[c] = {}
  /\ ~closed[c]
  /\ closed' = [closed EXCEPT ![c] = TRUE]
  /\ UNCHANGED <<registering, pc, copying, working, chan, collected>>

Receive(c) ==
  /\ pc[c] = "collect"
  /\ \E a \in chan[c] :
       /\ chan' = [chan EXCEPT ![c] = @ \ {a}]
       /\ collected' = [collected EXCEPT ![c] = @ \union {<<a, outcome[c][a]>>}]
  /\ UNCHANGED <<registering, pc, copying, working, closed>>

(* Variant: the caller leaves as soon as it finds the channel closed. *)
ReturnWhenClosed(c) ==
  /\ pc[c] = "collect"
  /\ closed[c]
  /\ Goto(c, "done")
  /\ UNCHANGED <<registering, copying, working, collecting>>

Return(c) ==
  /\ pc[c] = "collect"
  /\ closed[c] /\ chan[c] = {}
  /\ Goto(c, "done")
  /\ UNCHANGED <<registering, copying, working, collecting>>

(* The steps of the caller's goroutine, of a worker's and of the closer's. *)
Caller(c) == RLock(c) \/ Copy(c) \/ RUnlock(c) \/ StartCloser(c) \/ Receive(c) \/ Return(c)
Worker(c, a) == Succeed(c, a) \/ Fail(c, a) \/ Send(c, a) \/ Done(c, a)

Next ==
  \/ \E s \in Services, v \in Versions : Register(s, v)
  \/ \E c \in Calls :
       \/ Caller(c)
       \/ Close(c)
       \/ \E a \in Adapters : Spawn(c, a) \/ Worker(c, a)

(* A goroutine that can go on does: the scheduler is fair, and an adapter  *)
(* call comes back after ten seconds at the latest.                        *)
CallGoesOn(c) == WF_vars(pc[c] # "idle" /\ Caller(c)) /\ WF_vars(Close(c))

WorkerGoesOn(c, a) == WF_vars(Spawn(c, a)) /\ WF_vars(Worker(c, a))

Fairness == \A c \in Calls : CallGoesOn(c) /\ \A a \in Adapters : WorkerGoesOn(c, a)

Spec == Init /\ [][Next]_vars /\ Fairness

-----------------------------------------------------------------------------
(* Properties *)

(* Every variable has its type. *)
TypeOK ==
  /\ registry \in [Services -> Versions \union {None}]
  /\ readers \subseteq Calls
  /\ pc \in [Calls -> {"idle", "copy", "spawn", "collect", "done"}]
  /\ todo \in [Calls -> SUBSET Services]
  /\ tasks \in [Calls -> SUBSET Adapters]
  /\ worker \in [Calls -> [Adapters -> {"none", "running", "send", "sent", "done"}]]
  /\ outcome \in [Calls -> [Adapters -> {"none"} \union Outcomes]]
  /\ wg \in [Calls -> SUBSET Adapters]
  /\ chan \in [Calls -> SUBSET Adapters]
  /\ closed \in [Calls -> BOOLEAN]
  /\ collected \in [Calls -> SUBSET (Adapters \X Outcomes)]

(* No goroutine of a fan-out can hit a closed channel, which would end the *)
(* process, or has to wait for the caller to make room: the channel is     *)
(* closed only when every worker has sent, and has a place for every       *)
(* worker (FetchAllMenus lines 88-110).                                    *)
SendsAreSafe ==
  \A c \in Calls, a \in Adapters :
    worker[c][a] \in {"running", "send"} => ~closed[c] /\ HasRoom(c)

(* Partial failure stays partial: a call that has returned holds exactly   *)
(* one result for every adapter it copied, that adapter's own, and no      *)
(* goroutine of it is left behind except on its way out.                   *)
OneResultPerAdapter ==
  \A c \in Calls : pc[c] = "done" =>
    /\ collected[c] = {<<a, outcome[c][a]>> : a \in tasks[c]}
    /\ \A a \in tasks[c] : worker[c][a] = "done"

(* FanOut's view of the state.  While the copy is being made the rest of   *)
(* it can be read off the registry, which the read lock protects.          *)
F == INSTANCE FanOut WITH
       asked <- [c \in Calls |->
                   tasks[c] \union
                     {<<s, registry[s]>> : s \in {x \in todo[c] : registry[x] # None}}],
       results <- [c \in Calls |-> IF pc[c] = "done" THEN collected[c] ELSE {}],
       phase <- [c \in Calls |->
                   CASE pc[c] = "idle" -> "idle"
                     [] pc[c] = "done" -> "returned"
                     [] OTHER -> "asked"]

(* A call asks a point-in-time copy of the registry however often adapters *)
(* are replaced meanwhile, and always returns with one result for each.    *)
ImplementsFanOut == F!Spec

(* No worker ever waits for the caller, for the closer or for another      *)
(* worker: one that is to be started can be, and one that was started can  *)
(* go on, also while a vendor is silent and when the caller reads nothing. *)
WorkerCanGoOn(c, a) ==
  /\ pc[c] = "spawn" /\ a \in tasks[c] /\ worker[c][a] = "none" => ENABLED <<Spawn(c, a)>>_vars
  /\ worker[c][a] \in {"running", "send", "sent"} => ENABLED <<Worker(c, a)>>_vars

(* Nor does the caller while it copies the registry, whoever registers     *)
(* meanwhile; and when no worker is left running, either the caller or the *)
(* closer has something to do: they never wait for each other.             *)
CallCanGoOn(c) ==
  /\ pc[c] = "copy" => ENABLED <<pc[c] # "idle" /\ Caller(c)>>_vars
  /\ (\A a \in tasks[c] : worker[c][a] = "done") =>
       /\ pc[c] = "spawn" => ENABLED <<pc[c] # "idle" /\ Caller(c)>>_vars
       /\ pc[c] = "collect" /\ ~closed[c] => ENABLED <<Close(c)>>_vars
       /\ pc[c] = "collect" /\ closed[c] => ENABLED <<pc[c] # "idle" /\ Caller(c)>>_vars

NobodyIsStuck == \A c \in Calls : CallCanGoOn(c) /\ \A a \in Adapters : WorkerCanGoOn(c, a)

(* No goroutine leaks: every worker that was started and the closer end.   *)
GoroutinesEnd ==
  \A c \in Calls :
    pc[c] = "spawn" ~> closed[c] /\ \A a \in tasks[c] : worker[c][a] = "done"
=============================================================================
