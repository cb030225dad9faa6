-------------------------- MODULE AggregatorProofs --------------------------
(***************************************************************************)
(* Proofs about Aggregator for any number of calls, services and versions. *)
(***************************************************************************)
EXTENDS Aggregator, FiniteSetTheorems, TLAPS

(* A goroutine belongs to an adapter that was copied, and is counted until *)
(* it has sent.                                                            *)
WorkerInv(c, a) ==
  /\ worker[c][a] # "none" => a \in tasks[c] /\ pc[c] \in {"spawn", "collect", "done"}
  /\ worker[c][a] \in {"running", "send", "sent"} => a \in wg[c]
  /\ worker[c][a] \in {"send", "sent", "done"} => outcome[c][a] # "none"
  /\ pc[c] \in {"collect", "done"} /\ a \in tasks[c] => worker[c][a] # "none"

(* A result is sent once, and is in the channel until it is received.      *)
ResultInv(c, a) ==
  /\ a \in chan[c] => worker[c][a] \in {"sent", "done"}
  /\ worker[c][a] \in {"sent", "done"} => a \in chan[c] \/ <<a, outcome[c][a]>> \in collected[c]
  /\ \A o \in Outcomes : <<a, o>> \in collected[c] =>
       worker[c][a] \in {"sent", "done"} /\ o = outcome[c][a]

(* A menu is only an answer to FetchAllMenus, a yes or a no to an order.    *)
KindInv(c, a) == outcome[c][a] \in {"none", "error"} \union Answers(c)

CallInv(c) ==
  /\ IsFiniteSet(tasks[c])
  /\ closed[c] => pc[c] \in {"collect", "done"} /\ wg[c] = {}
  /\ pc[c] = "done" => closed[c] /\ chan[c] = {}

IInv ==
  /\ TypeOK
  /\ \A c \in Calls :
       /\ CallInv(c)
       /\ \A a \in Adapters : WorkerInv(c, a) /\ ResultInv(c, a) /\ KindInv(c, a)

-----------------------------------------------------------------------------
(* No call has begun.                                                      *)
LEMMA InitInv == Init => IInv
<1> SUFFICES ASSUME Init PROVE IInv
  OBVIOUS
<1>1. TypeOK
  BY DEF Init, TypeOK
<1>2. \A c \in Calls : CallInv(c)
  BY FS_EmptySet DEF Init, CallInv
<1>3. \A c \in Calls, a \in Adapters : WorkerInv(c, a) /\ ResultInv(c, a) /\ KindInv(c, a)
  BY DEF Init, WorkerInv, ResultInv, KindInv
<1> QED
  BY <1>1, <1>2, <1>3 DEF IInv

(* A step of one call leaves the others alone.                             *)
LEMMA StepOfCall ==
  ASSUME IInv, TypeOK', NEW c \in Calls,
         \A d \in Calls \ {c} :
           /\ pc'[d] = pc[d] /\ tasks'[d] = tasks[d] /\ worker'[d] = worker[d]
           /\ outcome'[d] = outcome[d] /\ wg'[d] = wg[d]
           /\ chan'[d] = chan[d] /\ closed'[d] = closed[d] /\ collected'[d] = collected[d],
         CallInv(c)',
         \A a \in Adapters : WorkerInv(c, a)' /\ ResultInv(c, a)' /\ KindInv(c, a)'
  PROVE  IInv'
<1>1. ASSUME NEW d \in Calls \ {c}
      PROVE  /\ CallInv(d)'
             /\ \A a \in Adapters : WorkerInv(d, a)' /\ ResultInv(d, a)' /\ KindInv(d, a)'
  BY <1>1 DEF IInv, CallInv, WorkerInv, ResultInv, KindInv
<1> QED
  BY <1>1 DEF IInv

-----------------------------------------------------------------------------
(* Copying the registry *)

LEMMA RegisterStep ==
  ASSUME IInv, NEW s \in Services, NEW v \in Versions, Register(s, v) PROVE IInv'
BY DEF IInv, Register, TypeOK, CallInv, WorkerInv, ResultInv, KindInv, copying, working, collecting

LEMMA LockStep ==
  ASSUME IInv, NEW c \in Calls, RLock(c) \/ RUnlock(c) PROVE IInv'
<1> USE DEF RLock, RUnlock, Goto, copying, working, collecting
<1>1. TypeOK'
  <2>1. CASE RLock(c)
    <3>1. todo \in [Calls -> SUBSET Services]
      BY DEF IInv, TypeOK
    <3>2. PICK ids \in SUBSET Services : todo' = [todo EXCEPT ![c] = ids]
      <4> DEFINE all == {s \in Services : registry[s] # None}
      <4>1. all \in SUBSET Services
        OBVIOUS
      <4>2. \/ \E ids \in SUBSET Services : todo' = [todo EXCEPT ![c] = ids]
            \/ todo' = [todo EXCEPT ![c] = all]
        BY <2>1
      <4> HIDE DEF all
      <4> QED
        BY <4>1, <4>2
    <3>3. todo' \in [Calls -> SUBSET Services]
      BY <3>1, <3>2
    <3> QED
      BY <2>1, <3>3 DEF IInv, TypeOK
  <2>2. CASE RUnlock(c)
    BY <2>2 DEF IInv, TypeOK
  <2> QED
    BY <2>1, <2>2
<1>2. CallInv(c)'
  BY DEF IInv, TypeOK, CallInv
<1>3. ASSUME NEW a \in Adapters PROVE WorkerInv(c, a)' /\ ResultInv(c, a)' /\ KindInv(c, a)'
  <2>1. /\ pc[c] \in {"idle", "copy"} /\ pc'[c] \in {"copy", "spawn"}
        /\ UNCHANGED <<tasks, working, collecting>>
    BY DEF IInv, TypeOK
  <2> HIDE DEF RLock, RUnlock
  <2>2. WorkerInv(c, a) /\ ResultInv(c, a) /\ KindInv(c, a)
    BY DEF IInv
  <2> QED
    BY <2>1, <2>2 DEF WorkerInv, ResultInv, KindInv
<1> QED
  BY <1>1, <1>2, <1>3, StepOfCall DEF IInv, TypeOK

LEMMA CopyStep ==
  ASSUME IInv, NEW c \in Calls, Copy(c) PROVE IInv'
<1> USE DEF Copy, registering, working, collecting
<1>1. PICK s \in todo[c] :
        /\ todo' = [todo EXCEPT ![c] = @ \ {s}]
        /\ tasks' = IF registry[s] = None THEN tasks
                    ELSE [tasks EXCEPT ![c] = @ \union {<<s, registry[s]>>}]
  OBVIOUS
<1>2. s \in Services /\ (registry[s] # None => <<s, registry[s]>> \in Adapters)
  BY <1>1 DEF IInv, TypeOK, Adapters
<1>3. /\ tasks' \in [Calls -> SUBSET Adapters] /\ tasks[c] \subseteq tasks'[c]
      /\ \A d \in Calls \ {c} : tasks'[d] = tasks[d]
      /\ tasks'[c] = tasks[c] \/ tasks'[c] = tasks[c] \union {<<s, registry[s]>>}
  <2>1. tasks \in [Calls -> SUBSET Adapters]
    BY DEF IInv, TypeOK
  <2>2. CASE registry[s] = None
    BY <1>1, <2>1, <2>2
  <2>3. CASE registry[s] # None
    <3> DEFINE x == <<s, registry[s]>>
    <3>1. tasks' = [tasks EXCEPT ![c] = @ \union {x}] /\ x \in Adapters
      BY <1>1, <1>2, <2>3
    <3> HIDE DEF x
    <3>2. /\ tasks' \in [Calls -> SUBSET Adapters] /\ tasks'[c] = tasks[c] \union {x}
          /\ \A d \in Calls \ {c} : tasks'[d] = tasks[d]
      BY <2>1, <3>1
    <3> QED
      BY <3>2 DEF x
  <2> QED
    BY <2>2, <2>3
<1>4. TypeOK'
  BY <1>1, <1>3 DEF IInv, TypeOK
<1>5. CallInv(c)'
  <2>1. CallInv(c)
    BY DEF IInv
  <2>2. IsFiniteSet(tasks'[c])
    <3>1. PICK x : tasks'[c] = tasks[c] \/ tasks'[c] = tasks[c] \union {x}
      BY <1>3
    <3>2. IsFiniteSet(tasks[c]) /\ IsFiniteSet(tasks[c] \union {x})
      BY <2>1, FS_AddElement DEF CallInv
    <3> QED
      BY <3>1, <3>2
  <2> QED
    BY <2>1, <2>2 DEF CallInv
<1>6. \A a \in Adapters : WorkerInv(c, a)' /\ ResultInv(c, a)' /\ KindInv(c, a)'
  BY <1>3 DEF IInv, TypeOK, WorkerInv, ResultInv, KindInv
<1> QED
  BY <1>3, <1>4, <1>5, <1>6, StepOfCall

-----------------------------------------------------------------------------
(* The goroutines of a fan-out *)

(* A step of the goroutine for a leaves the others of the call alone.      *)
LEMMA StepOfWorker ==
  ASSUME IInv, TypeOK', NEW c \in Calls, NEW a \in Adapters,
         UNCHANGED <<pc, tasks, closed, collected>>,
         \A d \in Calls \ {c} :
           /\ worker'[d] = worker[d] /\ outcome'[d] = outcome[d]
           /\ wg'[d] = wg[d] /\ chan'[d] = chan[d],
         \A b \in Adapters \ {a} :
           /\ worker'[c][b] = worker[c][b] /\ outcome'[c][b] = outcome[c][b]
           /\ b \in wg'[c] <=> b \in wg[c]
           /\ b \in chan'[c] <=> b \in chan[c],
         CallInv(c)', WorkerInv(c, a)', ResultInv(c, a)', KindInv(c, a)'
  PROVE  IInv'
<1>1. ASSUME NEW b \in Adapters \ {a}
      PROVE  WorkerInv(c, b)' /\ ResultInv(c, b)' /\ KindInv(c, b)'
  BY <1>1 DEF IInv, WorkerInv, ResultInv, KindInv
<1> QED
  BY <1>1, StepOfCall

(* It is counted when it is started.                                       *)
LEMMA SpawnStep ==
  ASSUME IInv, NEW c \in Calls, NEW a \in Adapters, Spawn(c, a) PROVE IInv'
<1> USE DEF Spawn, SetWorker, registering, copying, collecting
<1>1. TypeOK'
  BY DEF IInv, TypeOK
<1>2. UNCHANGED <<pc, tasks, closed, collected>>
  OBVIOUS
<1>3. /\ \A d \in Calls \ {c} :
           /\ worker'[d] = worker[d] /\ outcome'[d] = outcome[d]
           /\ wg'[d] = wg[d] /\ chan'[d] = chan[d]
      /\ \A b \in Adapters \ {a} :
           /\ worker'[c][b] = worker[c][b] /\ outcome'[c][b] = outcome[c][b]
           /\ b \in wg'[c] <=> b \in wg[c]
           /\ b \in chan'[c] <=> b \in chan[c]
  BY DEF IInv, TypeOK
<1>4. /\ pc[c] = "spawn" /\ a \in tasks[c] /\ worker[c][a] = "none"
      /\ worker'[c][a] = "running" /\ a \in wg'[c]
      /\ UNCHANGED <<outcome, chan>>
  BY DEF IInv, TypeOK
<1> HIDE DEF Spawn
<1>5. CallInv(c)'
  BY <1>2, <1>4 DEF IInv, CallInv, WorkerInv
<1>6. WorkerInv(c, a)' /\ ResultInv(c, a)' /\ KindInv(c, a)'
  BY <1>2, <1>4 DEF IInv, WorkerInv, ResultInv, KindInv
<1> QED
  BY <1>1, <1>2, <1>3, <1>5, <1>6, StepOfWorker

(* The adapter returns an answer of its kind, or an error.                 *)
LEMMA ReturnStep ==
  ASSUME IInv, NEW c \in Calls, NEW a \in Adapters, Succeed(c, a) \/ Fail(c, a) PROVE IInv'
<1> USE DEF Succeed, Fail, SetWorker, registering, copying, collecting
<1>1. TypeOK'
  <2>1. CASE Succeed(c, a)
    BY <2>1 DEF IInv, TypeOK, Answers, Outcomes
  <2>2. CASE Fail(c, a)
    BY <2>2 DEF IInv, TypeOK, Outcomes
  <2> QED
    BY <2>1, <2>2
<1>2. UNCHANGED <<pc, tasks, closed, collected>>
  OBVIOUS
<1>3. /\ \A d \in Calls \ {c} :
           /\ worker'[d] = worker[d] /\ outcome'[d] = outcome[d]
           /\ wg'[d] = wg[d] /\ chan'[d] = chan[d]
      /\ \A b \in Adapters \ {a} :
           /\ worker'[c][b] = worker[c][b] /\ outcome'[c][b] = outcome[c][b]
           /\ b \in wg'[c] <=> b \in wg[c]
           /\ b \in chan'[c] <=> b \in chan[c]
  BY DEF IInv, TypeOK
<1>4. /\ worker[c][a] = "running" /\ worker'[c][a] = "send" /\ outcome'[c][a] \in {"error"} \union Answers(c)
      /\ outcome'[c][a] # "none"
      /\ UNCHANGED <<wg, chan>>
  BY DEF IInv, TypeOK, Answers
<1> HIDE DEF Succeed, Fail
<1>5. CallInv(c)'
  BY <1>2, <1>4 DEF IInv, CallInv, WorkerInv
<1>6. WorkerInv(c, a)' /\ ResultInv(c, a)' /\ KindInv(c, a)'
  BY <1>2, <1>4 DEF IInv, WorkerInv, ResultInv, KindInv
<1> QED
  BY <1>1, <1>2, <1>3, <1>5, <1>6, StepOfWorker

(* The result goes into the channel.                                       *)
LEMMA SendStep ==
  ASSUME IInv, NEW c \in Calls, NEW a \in Adapters, Send(c, a) PROVE IInv'
<1> USE DEF Send, SetWorker, registering, copying, collecting
<1>1. TypeOK'
  BY DEF IInv, TypeOK
<1>2. UNCHANGED <<pc, tasks, closed, collected>>
  OBVIOUS
<1>3. /\ \A d \in Calls \ {c} :
           /\ worker'[d] = worker[d] /\ outcome'[d] = outcome[d]
           /\ wg'[d] = wg[d] /\ chan'[d] = chan[d]
      /\ \A b \in Adapters \ {a} :
           /\ worker'[c][b] = worker[c][b] /\ outcome'[c][b] = outcome[c][b]
           /\ b \in wg'[c] <=> b \in wg[c]
           /\ b \in chan'[c] <=> b \in chan[c]
  BY DEF IInv, TypeOK
<1>4. /\ worker[c][a] = "send" /\ worker'[c][a] = "sent" /\ a \in chan'[c]
      /\ UNCHANGED <<outcome, wg>>
  BY DEF IInv, TypeOK
<1> HIDE DEF Send
<1>5. CallInv(c)'
  BY <1>2, <1>4 DEF IInv, CallInv, WorkerInv
<1>6. WorkerInv(c, a)' /\ ResultInv(c, a)' /\ KindInv(c, a)'
  BY <1>2, <1>4 DEF IInv, WorkerInv, ResultInv, KindInv
<1> QED
  BY <1>1, <1>2, <1>3, <1>5, <1>6, StepOfWorker

(* A goroutine that has sent is not counted any more.                      *)
LEMMA DoneStep ==
  ASSUME IInv, NEW c \in Calls, NEW a \in Adapters, Done(c, a) PROVE IInv'
<1> USE DEF Done, SetWorker, registering, copying, collecting
<1>1. TypeOK'
  BY DEF IInv, TypeOK
<1>2. UNCHANGED <<pc, tasks, closed, collected>>
  OBVIOUS
<1>3. /\ \A d \in Calls \ {c} :
           /\ worker'[d] = worker[d] /\ outcome'[d] = outcome[d]
           /\ wg'[d] = wg[d] /\ chan'[d] = chan[d]
      /\ \A b \in Adapters \ {a} :
           /\ worker'[c][b] = worker[c][b] /\ outcome'[c][b] = outcome[c][b]
           /\ b \in wg'[c] <=> b \in wg[c]
           /\ b \in chan'[c] <=> b \in chan[c]
  BY DEF IInv, TypeOK
<1>4. /\ worker[c][a] = "sent" /\ worker'[c][a] = "done" /\ a \in wg[c]
      /\ UNCHANGED <<outcome, chan>>
  BY DEF IInv, TypeOK, WorkerInv
<1> HIDE DEF Done
<1>5. CallInv(c)'
  BY <1>2, <1>4 DEF IInv, CallInv, WorkerInv
<1>6. WorkerInv(c, a)' /\ ResultInv(c, a)' /\ KindInv(c, a)'
  BY <1>2, <1>4 DEF IInv, WorkerInv, ResultInv, KindInv
<1> QED
  BY <1>1, <1>2, <1>3, <1>5, <1>6, StepOfWorker

-----------------------------------------------------------------------------
(* Collecting the results *)

LEMMA CollectStep ==
  ASSUME IInv, NEW c \in Calls, StartCloser(c) \/ Close(c) \/ Return(c) PROVE IInv'
<1> USE DEF StartCloser, Close, Return, Goto, registering, copying, working, collecting
<1>1. TypeOK'
  BY DEF IInv, TypeOK
<1>2. CallInv(c)'
  BY DEF IInv, TypeOK, CallInv
<1>3. ASSUME NEW a \in Adapters PROVE WorkerInv(c, a)' /\ ResultInv(c, a)' /\ KindInv(c, a)'
  <2>1. /\ UNCHANGED <<tasks, worker, outcome, wg, chan, collected>>
        /\ \/ pc'[c] = pc[c]
           \/ pc[c] = "collect" /\ pc'[c] = "done"
           \/ /\ pc[c] = "spawn" /\ pc'[c] = "collect"
              /\ \A b \in tasks[c] : worker[c][b] # "none"
    <3>1. pc \in [Calls -> {"idle", "copy", "spawn", "collect", "done"}]
      BY DEF IInv, TypeOK
    <3>2. CASE StartCloser(c)
      BY <3>1, <3>2
    <3>3. CASE Close(c)
      BY <3>3
    <3>4. CASE Return(c)
      BY <3>1, <3>4
    <3> QED
      BY <3>2, <3>3, <3>4
  <2> HIDE DEF StartCloser, Close, Return
  <2>2. WorkerInv(c, a) /\ ResultInv(c, a) /\ KindInv(c, a)
    BY DEF IInv
  <2>3. WorkerInv(c, a)'
    BY <2>1, <2>2 DEF WorkerInv
  <2> QED
    BY <2>1, <2>2, <2>3 DEF ResultInv, KindInv
<1> QED
  BY <1>1, <1>2, <1>3, StepOfCall DEF IInv, TypeOK

LEMMA ReceiveStep ==
  ASSUME IInv, NEW c \in Calls, Receive(c) PROVE IInv'
<1> USE DEF Receive, registering, copying, working
<1>1. PICK a \in chan[c] :
        /\ chan' = [chan EXCEPT ![c] = @ \ {a}]
        /\ collected' = [collected EXCEPT ![c] = @ \union {<<a, outcome[c][a]>>}]
  OBVIOUS
<1>2. a \in Adapters /\ worker[c][a] \in {"sent", "done"} /\ outcome[c][a] \in Outcomes
  <2>1. a \in Adapters /\ outcome[c][a] \in {"none"} \union Outcomes
    BY <1>1 DEF IInv, TypeOK
  <2>2. WorkerInv(c, a) /\ ResultInv(c, a)
    BY <2>1 DEF IInv
  <2> QED
    BY <1>1, <2>1, <2>2 DEF ResultInv, WorkerInv
<1>3. TypeOK'
  BY <1>1, <1>2 DEF IInv, TypeOK
<1>4. CallInv(c)'
  BY <1>1 DEF IInv, TypeOK, CallInv
<1>5. ASSUME NEW b \in Adapters PROVE WorkerInv(c, b)' /\ ResultInv(c, b)' /\ KindInv(c, b)'
  <2>1. WorkerInv(c, b)' /\ KindInv(c, b)'
    BY DEF IInv, WorkerInv, KindInv
  <2>2. ResultInv(c, b)'
    BY <1>1, <1>2 DEF IInv, TypeOK, ResultInv
  <2> QED
    BY <2>1, <2>2
<1> QED
  BY <1>1, <1>3, <1>4, <1>5, StepOfCall DEF IInv, TypeOK

-----------------------------------------------------------------------------
(* IInv holds after every step, since each action keeps it.                *)
LEMMA StepInv == IInv /\ [Next]_vars => IInv'
<1> SUFFICES ASSUME IInv, [Next]_vars PROVE IInv'
  OBVIOUS
<1>1. CASE \E s \in Services, v \in Versions : Register(s, v)
  BY <1>1, RegisterStep
<1>2. ASSUME NEW c \in Calls, Caller(c) \/ Close(c) PROVE IInv'
  BY <1>2, LockStep, CopyStep, CollectStep, ReceiveStep DEF Caller
<1>3. ASSUME NEW c \in Calls, NEW a \in Adapters, Spawn(c, a) \/ Worker(c, a)
      PROVE  IInv'
  BY <1>3, SpawnStep, ReturnStep, SendStep, DoneStep DEF Worker
<1>4. CASE UNCHANGED vars
  BY <1>4 DEF vars, registering, copying, working, collecting, IInv, TypeOK, CallInv,
              WorkerInv, ResultInv, KindInv
<1> QED
  BY <1>1, <1>2, <1>3, <1>4 DEF Next

(* The results of a call whose channel is closed and has been drained.     *)
LEMMA ResultsAreWhole ==
  ASSUME IInv, NEW c \in Calls, closed[c], chan[c] = {}
  PROVE  /\ collected[c] = {<<a, outcome[c][a]>> : a \in tasks[c]}
         /\ \A a \in tasks[c] : worker[c][a] = "done"
<1>1. \A a \in tasks[c] : a \in Adapters /\ worker[c][a] = "done"
  BY DEF IInv, TypeOK, CallInv, WorkerInv
<1>2. \A a \in tasks[c] : <<a, outcome[c][a]>> \in collected[c]
  BY <1>1 DEF IInv, CallInv, ResultInv
<1>3. ASSUME NEW r \in collected[c] PROVE \E a \in tasks[c] : r = <<a, outcome[c][a]>>
  <2>1. PICK a \in Adapters, o \in Outcomes : r = <<a, o>>
    BY DEF IInv, TypeOK
  <2> QED
    <3>1. WorkerInv(c, a) /\ ResultInv(c, a)
      BY DEF IInv
    <3>2. worker[c][a] \in {"sent", "done"} /\ o = outcome[c][a]
      BY <2>1, <3>1 DEF ResultInv
    <3> QED
      BY <2>1, <3>1, <3>2 DEF WorkerInv
<1> QED
  BY <1>1, <1>2, <1>3

(* The invariant holds in every state of the aggregator.                   *)
THEOREM Invariance == Spec => []IInv
<1> QED
  BY InitInv, StepInv, PTL DEF Spec

(* Every variable keeps its type, whatever is registered and fails.        *)
THEOREM TypeCorrect == Spec => []TypeOK
<1>1. IInv => TypeOK
  BY DEF IInv
<1> QED
  BY <1>1, Invariance, PTL

(* No goroutine sends into a closed channel or has to wait for room, for   *)
(* any number of vendors (the fan-out of FetchAllMenus, SubmitToVendors).  *)
THEOREM Safe == Spec => []SendsAreSafe
<1>1. IInv => SendsAreSafe
  <2> SUFFICES ASSUME IInv, NEW c \in Calls, NEW a \in Adapters, worker[c][a] \in {"running", "send"}
               PROVE  ~closed[c] /\ HasRoom(c)
    BY DEF SendsAreSafe
  <2>1. ~closed[c]
    BY DEF IInv, CallInv, WorkerInv
  <2>2. chan[c] \subseteq tasks[c] /\ a \in tasks[c] /\ a \notin chan[c] /\ IsFiniteSet(tasks[c])
    BY DEF IInv, TypeOK, CallInv, WorkerInv, ResultInv
  <2>3. HasRoom(c)
    BY <2>2, FS_Subset, FS_CardinalityType DEF HasRoom
  <2> QED
    BY <2>1, <2>3
<1> QED
  BY <1>1, Invariance, PTL

(* A call that has returned holds one result of each adapter it copied,    *)
(* that adapter's own, and no goroutine of it is left to send.             *)
THEOREM Complete == Spec => []OneResultPerAdapter
<1>1. IInv => OneResultPerAdapter
  BY ResultsAreWhole DEF IInv, CallInv, OneResultPerAdapter
<1> QED
  BY <1>1, Invariance, PTL

-----------------------------------------------------------------------------
(* Aggregator implements FanOut *)

(* Who copies holds the lock, and nobody else has something left to copy.  *)
LockInv ==
  \A c \in Calls :
    /\ pc[c] = "copy" => c \in readers
    /\ pc[c] # "copy" => todo[c] = {}
    /\ pc[c] = "idle" => tasks[c] = {}

LEMMA InitLock == Init => LockInv
BY DEF Init, LockInv

LEMMA StepLock == TypeOK /\ LockInv /\ [Next]_vars => LockInv'
<1> SUFFICES ASSUME TypeOK, LockInv, [Next]_vars PROVE LockInv'
  OBVIOUS
<1> USE DEF registering, copying, working, collecting, Goto
<1>1. CASE \E s \in Services, v \in Versions : Register(s, v)
  BY <1>1 DEF Register, LockInv
<1>2. ASSUME NEW c \in Calls, RLock(c) PROVE LockInv'
  <2>1. \A d \in Calls \ {c} : pc'[d] = pc[d] /\ todo'[d] = todo[d] /\ tasks'[d] = tasks[d]
    BY <1>2 DEF RLock, TypeOK
  <2>2. pc'[c] = "copy" /\ c \in readers' /\ readers \subseteq readers'
    BY <1>2 DEF RLock, TypeOK
  <2> QED
    BY <2>1, <2>2 DEF LockInv
<1>3. ASSUME NEW c \in Calls, Copy(c) PROVE LockInv'
  <2>1. \A d \in Calls \ {c} : todo'[d] = todo[d] /\ tasks'[d] = tasks[d]
    BY <1>3 DEF Copy, TypeOK
  <2>2. pc[c] = "copy" /\ UNCHANGED <<pc, readers>>
    BY <1>3 DEF Copy
  <2> QED
    BY <2>1, <2>2 DEF LockInv
<1>4. ASSUME NEW c \in Calls, RUnlock(c) PROVE LockInv'
  BY <1>4 DEF RUnlock, TypeOK, LockInv
<1>5. ASSUME NEW c \in Calls, StartCloser(c) \/ Receive(c) \/ Return(c) \/ Close(c) PROVE LockInv'
  BY <1>5 DEF StartCloser, Receive, Return, Close, TypeOK, LockInv
<1>6. ASSUME NEW c \in Calls, NEW a \in Adapters, Spawn(c, a) \/ Worker(c, a)
      PROVE  LockInv'
  BY <1>6 DEF Spawn, Worker, Succeed, Fail, Send, Done, LockInv
<1>7. CASE UNCHANGED vars
  BY <1>7 DEF vars, LockInv
<1> QED
  BY <1>1, <1>2, <1>3, <1>4, <1>5, <1>6, <1>7 DEF Next, Caller

(* What FanOut sees of a call.                                             *)
Wanted(ids) == {<<s, registry[s]>> : s \in {x \in ids : registry[x] # None}}
Asked == [c \in Calls |-> tasks[c] \union Wanted(todo[c])]
Results == [c \in Calls |-> IF pc[c] = "done" THEN collected[c] ELSE {}]
Phase ==
  [c \in Calls |-> CASE pc[c] = "idle" -> "idle" [] pc[c] = "done" -> "returned" [] OTHER -> "asked"]
seen == <<registry, Asked, Results, Phase>>

LEMMA InitAsked == Init => F!Init
<1> SUFFICES ASSUME Init PROVE F!Init
  OBVIOUS
<1>1. \A c \in Calls : pc[c] = "idle" /\ tasks[c] = {} /\ todo[c] = {}
  BY DEF Init
<1> QED
  BY <1>1 DEF Init, F!Init

(* The registry changes only while nobody copies it.                       *)
LEMMA RegisterMaps ==
  ASSUME LockInv, NEW s \in Services, NEW v \in Versions, Register(s, v)
  PROVE  F!Register
<1>1. \A c \in Calls : todo[c] = {}
  BY DEF LockInv, Register
<1> QED
  BY <1>1 DEF Register, F!Register, copying, working, collecting

(* Taking the lock fixes what is asked.                                    *)
LEMMA LockMaps ==
  ASSUME TypeOK, LockInv, NEW c \in Calls, RLock(c)
  PROVE  F!Ask(c)
<1> USE DEF RLock, Goto, working, collecting
<1>1. PICK ids \in SUBSET Services : todo' = [todo EXCEPT ![c] = ids]
  OBVIOUS
<1>2. /\ pc[c] = "idle" /\ pc'[c] = "copy" /\ tasks[c] = {} /\ todo'[c] = ids
      /\ \A d \in Calls \ {c} : pc'[d] = pc[d] /\ todo'[d] = todo[d]
      /\ UNCHANGED <<registry, tasks, collected>>
  BY <1>1 DEF TypeOK, LockInv
<1> HIDE DEF RLock
<1>3. Asked' = [Asked EXCEPT ![c] = Wanted(ids)]
  BY <1>2 DEF Asked, Wanted
<1>4. Phase' = [Phase EXCEPT ![c] = "asked"] /\ Phase[c] = "idle" /\ Results' = Results
  BY <1>2 DEF Phase, Results
<1> QED
  BY <1>2, <1>3, <1>4 DEF F!Ask, Asked, Wanted, Phase, Results

(* Copying moves an adapter from what is left to what is copied.           *)
LEMMA CopyMaps ==
  ASSUME TypeOK, NEW c \in Calls, Copy(c)
  PROVE  UNCHANGED seen
<1> USE DEF Copy, registering, working, collecting
<1>1. PICK s \in todo[c] :
        /\ todo' = [todo EXCEPT ![c] = @ \ {s}]
        /\ tasks' = IF registry[s] = None THEN tasks
                    ELSE [tasks EXCEPT ![c] = @ \union {<<s, registry[s]>>}]
  OBVIOUS
<1>2. tasks'[c] \union Wanted(todo'[c]) = tasks[c] \union Wanted(todo[c])
  BY <1>1 DEF TypeOK, Wanted
<1>3. \A d \in Calls \ {c} : tasks'[d] = tasks[d] /\ todo'[d] = todo[d]
  BY <1>1 DEF TypeOK
<1>4. Asked' = Asked
  BY <1>2, <1>3 DEF Asked, Wanted
<1> QED
  BY <1>4 DEF seen, Results, Phase

(* The caller goes on, without having returned.                            *)
LEMMA CallerMaps ==
  ASSUME TypeOK, LockInv, NEW c \in Calls,
         RUnlock(c) \/ StartCloser(c) \/ Receive(c) \/ Close(c)
  PROVE  UNCHANGED seen
<1> USE DEF RUnlock, StartCloser, Receive, Close, Goto, registering, copying, working, collecting
<1>1. /\ UNCHANGED <<registry, tasks, todo>>
      /\ \A d \in Calls \ {c} : pc'[d] = pc[d] /\ collected'[d] = collected[d]
      /\ pc[c] \in {"copy", "spawn", "collect"} /\ pc'[c] \in {"copy", "spawn", "collect"}
  BY DEF TypeOK
<1> QED
  BY <1>1 DEF seen, Asked, Wanted, Results, Phase

(* A call returns one result of each adapter it was to ask.                *)
LEMMA ReturnMaps ==
  ASSUME IInv, LockInv, NEW c \in Calls, Return(c)
  PROVE  F!Return(c)
<1> USE DEF Return, Goto, registering, copying, working, collecting
<1>1. /\ pc[c] = "collect" /\ pc'[c] = "done" /\ todo[c] = {}
      /\ \A d \in Calls \ {c} : pc'[d] = pc[d]
      /\ UNCHANGED <<registry, tasks, todo, collected, outcome>>
  BY DEF IInv, TypeOK, LockInv
<1>2. collected[c] = {<<a, outcome[c][a]>> : a \in tasks[c]}
  BY ResultsAreWhole
<1>3. Asked[c] = tasks[c] /\ Asked' = Asked
  BY <1>1 DEF Asked, Wanted
<1> DEFINE f == [a \in Asked[c] |-> outcome[c][a]]
<1>4. f \in [Asked[c] -> F!Possible(c)]
  <2>1. ASSUME NEW a \in tasks[c] PROVE outcome[c][a] \in F!Possible(c)
    BY <1>1 DEF IInv, TypeOK, WorkerInv, CallInv, KindInv, Answers, F!Possible
  <2> QED
    BY <1>3, <2>1
<1>5. Results' = [Results EXCEPT ![c] = {<<a, f[a]>> : a \in Asked[c]}]
  <2>1. collected[c] = {<<a, f[a]>> : a \in Asked[c]}
    BY <1>2, <1>3
  <2> HIDE DEF f
  <2> QED
    BY <1>1, <2>1 DEF Results
<1>6. Phase' = [Phase EXCEPT ![c] = "returned"] /\ Phase[c] = "asked"
  BY <1>1 DEF Phase
<1> HIDE DEF f
<1> QED
  BY <1>1, <1>3, <1>4, <1>5, <1>6 DEF F!Return, Asked, Wanted, Phase, Results

(* Every step of the goroutines is a step of FanOut or changes nothing     *)
(* that the caller can see.                                                *)
LEMMA StepMaps ==
  IInv /\ LockInv /\ [Next]_vars => F!Next \/ UNCHANGED seen
<1> SUFFICES ASSUME IInv, LockInv, [Next]_vars PROVE F!Next \/ UNCHANGED seen
  OBVIOUS
<1> USE DEF F!Next
<1>0. TypeOK
  BY DEF IInv
<1>1. CASE \E s \in Services, v \in Versions : Register(s, v)
  BY <1>1, RegisterMaps
<1>2. ASSUME NEW c \in Calls, RLock(c) PROVE F!Next
  BY <1>0, <1>2, LockMaps
<1>3. ASSUME NEW c \in Calls, Copy(c) \/ RUnlock(c) \/ StartCloser(c) \/ Receive(c) \/ Close(c)
      PROVE  UNCHANGED seen
  BY <1>0, <1>3, CopyMaps, CallerMaps
<1>4. ASSUME NEW c \in Calls, Return(c) PROVE F!Next
  BY <1>4, ReturnMaps
<1>5. ASSUME NEW c \in Calls, NEW a \in Adapters, Spawn(c, a) \/ Worker(c, a)
      PROVE  UNCHANGED seen
  BY <1>5 DEF Spawn, Worker, Succeed, Fail, Send, Done, registering, copying, collecting,
              seen, Asked, Wanted, Results, Phase
<1>6. CASE UNCHANGED vars
  BY <1>6 DEF vars, registering, copying, working, collecting, seen, Asked, Wanted, Results, Phase
<1> QED
  BY <1>1, <1>2, <1>3, <1>4, <1>5, <1>6 DEF Next, Caller

(* The safety part of ImplementsFanOut: whatever the goroutines interleave *)
(* with and whatever is registered meanwhile, a call asks the adapters of  *)
(* one moment and returns one result of each (the read lock and the        *)
(* channel of FetchAllMenus and SubmitToVendors).                          *)
THEOREM FansOut == Spec => F!Init /\ [][F!Next]_seen
<1>1. Spec => []LockInv
  <2>1. IInv => TypeOK
    BY DEF IInv
  <2> QED
    BY <2>1, InitLock, StepLock, Invariance, PTL DEF Spec
<1> QED
  BY <1>1, InitAsked, StepMaps, Invariance, PTL DEF Spec

-----------------------------------------------------------------------------
(* The step of one worker: where it stands, and where it goes.             *)
Follows(w, x) == <<w, x>> \in {<<"none", "running">>, <<"running", "send">>, <<"send", "sent">>,
                               <<"sent", "done">>}

LEMMA WorkerSteps ==
  ASSUME TypeOK, NEW d \in Calls, NEW b \in Adapters, Spawn(d, b) \/ Worker(d, b)
  PROVE  /\ UNCHANGED <<pc, tasks>>
         /\ Follows(worker[d][b], worker'[d][b])
         /\ \A c \in Calls, a \in Adapters : <<c, a>> # <<d, b>> => worker'[c][a] = worker[c][a]
<1>1. worker \in [Calls -> [Adapters -> {"none", "running", "send", "sent", "done"}]]
  BY DEF TypeOK
<1>2. /\ UNCHANGED <<pc, tasks>>
      /\ \E x \in {"running", "send", "sent", "done"} :
           Follows(worker[d][b], x) /\ SetWorker(d, b, x)
  BY DEF Follows, Spawn, Worker, Succeed, Fail, Send, Done, registering, copying
<1> QED
  BY <1>1, <1>2 DEF SetWorker

(* A worker is started once, works, sends and is done.                     *)
LEMMA WorkerMoves ==
  ASSUME IInv, [Next]_vars, NEW c \in Calls, NEW a \in Adapters
  PROVE  \/ /\ worker'[c][a] = worker[c][a]
            /\ pc[c] = "spawn" /\ a \in tasks[c] /\ worker[c][a] = "none" =>
                 pc'[c] = "spawn" /\ a \in tasks'[c]
         \/ worker[c][a] = "none" /\ worker'[c][a] = "running"
         \/ worker[c][a] = "running" /\ worker'[c][a] = "send"
         \/ worker[c][a] = "send" /\ worker'[c][a] = "sent"
         \/ worker[c][a] = "sent" /\ worker'[c][a] = "done"
<1> USE DEF IInv, registering, copying, working, collecting, Goto
<1>1. TypeOK
  OBVIOUS
<1>2. CASE (\E s \in Services, v \in Versions : Register(s, v)) \/ UNCHANGED vars
  BY <1>2 DEF Register, vars
<1>3. ASSUME NEW d \in Calls, Caller(d) \/ Close(d)
      PROVE  /\ worker' = worker
             /\ pc[c] = "spawn" /\ a \in tasks[c] /\ worker[c][a] = "none" =>
                  pc'[c] = "spawn" /\ a \in tasks'[c]
  BY <1>1, <1>3 DEF TypeOK, Caller, RLock, Copy, RUnlock, StartCloser, Receive, Return, Close
<1>4. ASSUME NEW d \in Calls, NEW b \in Adapters,
             Spawn(d, b) \/ Worker(d, b)
      PROVE  /\ UNCHANGED <<pc, tasks>>
             /\ \/ worker'[c][a] = worker[c][a]
                \/ worker[c][a] = "none" /\ worker'[c][a] = "running"
                \/ worker[c][a] = "running" /\ worker'[c][a] = "send"
                \/ worker[c][a] = "send" /\ worker'[c][a] = "sent"
                \/ worker[c][a] = "sent" /\ worker'[c][a] = "done"
  BY <1>1, <1>4, WorkerSteps DEF Worker, Follows
<1> QED
  BY <1>2, <1>3, <1>4 DEF Next

(* No worker of FetchAllMenus or SubmitToVendors leaks: each one that is   *)
(* to be started is started and comes to its end, whether its vendor       *)
(* answers or not and whatever the caller, the closer and the other        *)
(* workers do.  (GoroutinesEnd says that they all do, and the closer.)     *)
WorkersEnd ==
  \A c \in Calls : \A a \in Adapters :
    pc[c] = "spawn" /\ a \in tasks[c] ~> worker[c][a] = "done"

THEOREM NoWorkerLeaks == Spec /\ []NobodyIsStuck => WorkersEnd
<1> SUFFICES ASSUME NEW c \in Calls, NEW a \in Adapters
             PROVE  Spec /\ []NobodyIsStuck =>
                      (pc[c] = "spawn" /\ a \in tasks[c] ~> worker[c][a] = "done")
  BY DEF WorkersEnd
<1> DEFINE Due == pc[c] = "spawn" /\ a \in tasks[c]
           Unstarted == Due /\ worker[c][a] = "none"
           Running == worker[c][a] = "running"
           Sending == worker[c][a] = "send"
           Sent == worker[c][a] = "sent"
           Ended == worker[c][a] = "done"
<1>1. Fairness => WorkerGoesOn(c, a)
  BY DEF Fairness
<1>2. NobodyIsStuck => /\ Unstarted => ENABLED <<Spawn(c, a)>>_vars
                       /\ Running \/ Sending \/ Sent => ENABLED <<Worker(c, a)>>_vars
  <2>1. NobodyIsStuck => WorkerCanGoOn(c, a)
    BY DEF NobodyIsStuck
  <2> QED
    BY <2>1 DEF WorkerCanGoOn
<1>3. IInv /\ [Next]_vars => /\ Unstarted => Unstarted' \/ Running'
                             /\ Running => Running' \/ Sending'
                             /\ Sending => Sending' \/ Sent'
                             /\ Sent => Sent' \/ Ended'
  BY WorkerMoves
<1>4. IInv /\ Unstarted /\ <<Spawn(c, a)>>_vars => Running'
  BY DEF IInv, TypeOK, Spawn, SetWorker
<1>5. /\ IInv /\ Running /\ <<Worker(c, a)>>_vars => Sending'
      /\ IInv /\ Sending /\ <<Worker(c, a)>>_vars => Sent'
      /\ IInv /\ Sent /\ <<Worker(c, a)>>_vars => Ended'
  BY DEF IInv, TypeOK, Worker, Succeed, Fail, Send, Done, SetWorker
<1>6. IInv /\ Due => Unstarted \/ Running \/ Sending \/ Sent \/ Ended
  BY DEF IInv, TypeOK
<1> HIDE DEF Due, Unstarted, Running, Sending, Sent, Ended
<1>7. Spec /\ []NobodyIsStuck => (Due ~> Ended)
  BY <1>1, <1>2, <1>3, <1>4, <1>5, <1>6, Invariance, PTL DEF Spec, WorkerGoesOn
<1> QED
  BY <1>7 DEF Due, Ended

-----------------------------------------------------------------------------
(* The WaitGroup counts no goroutine that has called Done.                 *)
CountInv == \A c \in Calls : \A a \in wg[c] : a \in tasks[c] /\ worker[c][a] # "done"

LEMMA CountedRun == Spec => []CountInv
<1>1. Init => CountInv
  BY DEF Init, CountInv
<1>2. IInv /\ CountInv /\ [Next]_vars => CountInv'
  <2> SUFFICES ASSUME IInv, CountInv, [Next]_vars, NEW c \in Calls, NEW a \in wg'[c]
               PROVE  a \in tasks'[c] /\ worker'[c][a] # "done"
    BY DEF CountInv
  <2> USE DEF registering, copying, working, collecting, Goto, SetWorker
  <2>1. TypeOK
    BY DEF IInv
  <2>2. CASE (\E s \in Services, v \in Versions : Register(s, v)) \/ UNCHANGED vars
    BY <2>2 DEF Register, vars, CountInv
  <2>3. ASSUME NEW d \in Calls, Caller(d) \/ Close(d)
        PROVE  a \in tasks'[c] /\ worker'[c][a] # "done"
    <3>1. wg' = wg /\ worker' = worker
      BY <2>3 DEF Caller, RLock, Copy, RUnlock, StartCloser, Receive, Return, Close
    <3>2. a \in tasks[c] /\ worker[c][a] # "done"
      BY <3>1 DEF CountInv
    <3>3. a \in tasks'[c]
      <4>1. CASE Copy(d)
        BY <2>1, <3>2, <4>1 DEF TypeOK, Copy
      <4>2. CASE ~Copy(d)
        BY <2>3, <3>2, <4>2 DEF Caller, RLock, RUnlock, StartCloser, Receive, Return, Close
      <4> QED
        BY <4>1, <4>2
    <3> QED
      BY <3>1, <3>2, <3>3
  <2>4. ASSUME NEW d \in Calls, NEW b \in Adapters, Spawn(d, b)
        PROVE  a \in tasks'[c] /\ worker'[c][a] # "done"
    BY <2>1, <2>4 DEF TypeOK, CountInv, Spawn
  <2>5. ASSUME NEW d \in Calls, NEW b \in Adapters, Done(d, b)
        PROVE  a \in tasks'[c] /\ worker'[c][a] # "done"
    BY <2>1, <2>5 DEF TypeOK, CountInv, Done
  <2>6. ASSUME NEW d \in Calls, NEW b \in Adapters,
               Succeed(d, b) \/ Fail(d, b) \/ Send(d, b)
        PROVE  a \in tasks'[c] /\ worker'[c][a] # "done"
    <3>1. UNCHANGED <<tasks, wg>>
      BY <2>6 DEF Succeed, Fail, Send
    <3>2. a \in Adapters /\ worker[c][a] # "done"
      BY <2>1, <3>1 DEF TypeOK, CountInv
    <3>3. worker'[c][a] # "done"
      <4>1. worker \in [Calls -> [Adapters -> {"none", "running", "send", "sent", "done"}]]
        BY <2>1 DEF TypeOK
      <4>2. worker' = worker \/ \E w \in {"send", "sent"} : worker' = [worker EXCEPT ![d][b] = w]
        BY <2>6 DEF Succeed, Fail, Send
      <4> QED
        BY <3>2, <4>1, <4>2
    <3> QED
      BY <3>1, <3>3 DEF CountInv
  <2> QED
    BY <2>2, <2>3, <2>4, <2>5, <2>6 DEF Next, Worker
<1> QED
  BY <1>1, <1>2, Invariance, PTL DEF Spec

(* What a state must have for each goroutine to have a step: the guards of *)
(* Spawn, Fail, Send, Done, Copy, RUnlock, StartCloser, Close, Receive and *)
(* Return.  That a step is ENABLED where its guard holds is what none of   *)
(* the provers knows.                                                      *)
GuardsEnable ==
  \A c \in Calls :
    /\ \A a \in Adapters :
         /\ pc[c] = "spawn" /\ a \in tasks[c] /\ worker[c][a] = "none" =>
              ENABLED <<Spawn(c, a)>>_vars
         /\ worker[c][a] \in {"running", "sent"} => ENABLED <<Worker(c, a)>>_vars
         /\ worker[c][a] = "send" /\ HasRoom(c) => ENABLED <<Worker(c, a)>>_vars
    /\ \/ pc[c] = "copy"
       \/ pc[c] = "spawn" /\ \A a \in tasks[c] : worker[c][a] # "none"
       \/ pc[c] = "collect" /\ (chan[c] # {} \/ closed[c])
       => ENABLED <<pc[c] # "idle" /\ Caller(c)>>_vars
    /\ pc[c] = "collect" /\ wg[c] = {} /\ ~closed[c] => ENABLED <<Close(c)>>_vars

(* Nobody waits for anybody, for any number of adapters: the channel that  *)
(* make gave a place for each task always has room for a worker's result,  *)
(* and no counted goroutine is left when the workers have ended.           *)
THEOREM Unstuck == Spec /\ []GuardsEnable => []NobodyIsStuck
<1>1. IInv /\ CountInv /\ SendsAreSafe /\ GuardsEnable => NobodyIsStuck
  <2> SUFFICES ASSUME IInv, CountInv, SendsAreSafe, GuardsEnable, NEW c \in Calls
               PROVE  CallCanGoOn(c) /\ \A a \in Adapters : WorkerCanGoOn(c, a)
    BY DEF NobodyIsStuck
  <2>1. ASSUME NEW a \in Adapters PROVE WorkerCanGoOn(c, a)
    <3>1. worker[c][a] = "send" => HasRoom(c)
      BY DEF SendsAreSafe
    <3> QED
      BY <3>1 DEF GuardsEnable, WorkerCanGoOn
  <2>2. (\A a \in tasks[c] : worker[c][a] = "done") => wg[c] = {}
    BY DEF CountInv
  <2>3. CallCanGoOn(c)
    BY <2>2 DEF GuardsEnable, CallCanGoOn
  <2> QED
    BY <2>1, <2>3
<1> QED
  BY <1>1, Invariance, CountedRun, Safe, PTL

(* What is left of GoroutinesEnd when the workers have ended: the caller   *)
(* starts the closer and the closer closes the channel, whether the caller *)
(* has read the results or not (the last goroutine of FetchAllMenus).      *)
Drained(c) == \A a \in tasks[c] : worker[c][a] = "done"

CloserEnds ==
  \A c \in Calls : pc[c] \in {"spawn", "collect"} /\ Drained(c) ~> closed[c]

(* A step with no worker left.                                             *)
LEMMA DrainedMoves ==
  ASSUME IInv, [Next]_vars, NEW c \in Calls, Drained(c)
  PROVE  /\ pc[c] = "spawn" => pc'[c] \in {"spawn", "collect"} /\ Drained(c)'
         /\ pc[c] = "collect" /\ ~closed[c] => closed'[c] \/ (pc'[c] = "collect" /\ Drained(c)')
<1> USE DEF IInv, registering, copying, working, collecting, Goto, Drained
<1>1. TypeOK
  OBVIOUS
<1>2. CASE (\E s \in Services, v \in Versions : Register(s, v)) \/ UNCHANGED vars
  BY <1>2 DEF Register, vars
<1>3. ASSUME NEW d \in Calls, Caller(d) \/ Close(d), pc[c] \in {"spawn", "collect"}
      PROVE  /\ Drained(c)'
             /\ pc[c] = "spawn" => pc'[c] \in {"spawn", "collect"}
             /\ pc[c] = "collect" /\ ~closed[c] => pc'[c] = "collect"
  BY <1>1, <1>3 DEF TypeOK, Caller, RLock, Copy, RUnlock, StartCloser, Receive, Return, Close
<1>4. ASSUME NEW d \in Calls, NEW b \in Adapters,
             Spawn(d, b) \/ Worker(d, b)
      PROVE  UNCHANGED <<pc, tasks>> /\ Drained(c)'
  <2>1. UNCHANGED <<pc, tasks>>
    BY <1>4 DEF Spawn, Worker, Succeed, Fail, Send, Done
  <2>2. ASSUME NEW a \in tasks[c] PROVE worker'[c][a] = "done"
    <3>1. a \in Adapters /\ worker[c][a] = "done"
      BY <1>1 DEF TypeOK
    <3>2. <<c, a>> # <<d, b>>
      BY <1>1, <1>4, <3>1, WorkerSteps DEF Follows
    <3> QED
      BY <1>1, <1>4, <3>1, <3>2, WorkerSteps
  <2> QED
    BY <2>1, <2>2
<1> QED
  BY <1>2, <1>3, <1>4 DEF Next

(* However the workers of a call have ended, the goroutine that waits for  *)
(* the WaitGroup closes the channel.                                       *)
THEOREM CloserFollows == Spec /\ []NobodyIsStuck => CloserEnds
<1> SUFFICES ASSUME NEW c \in Calls
             PROVE  Spec /\ []NobodyIsStuck =>
                      (pc[c] \in {"spawn", "collect"} /\ Drained(c) ~> closed[c])
  BY DEF CloserEnds
<1> DEFINE Due == pc[c] \in {"spawn", "collect"} /\ Drained(c)
           Starting == pc[c] = "spawn" /\ Drained(c)
           Closing == pc[c] = "collect" /\ Drained(c) /\ ~closed[c]
           Closed == closed[c]
<1>1. Fairness => CallGoesOn(c)
  BY DEF Fairness
<1>2. NobodyIsStuck => /\ Starting => ENABLED <<pc[c] # "idle" /\ Caller(c)>>_vars
                       /\ Closing => ENABLED <<Close(c)>>_vars
  <2>1. NobodyIsStuck => CallCanGoOn(c)
    BY DEF NobodyIsStuck
  <2> QED
    BY <2>1 DEF CallCanGoOn, Drained
<1>3. IInv /\ [Next]_vars => /\ Starting => Starting' \/ Closing' \/ Closed'
                             /\ Closing => Closing' \/ Closed'
  BY DrainedMoves
<1>4. IInv /\ Starting /\ <<pc[c] # "idle" /\ Caller(c)>>_vars => Closing' \/ Closed'
  <2> SUFFICES ASSUME IInv, Starting, Caller(c) PROVE Closing' \/ Closed'
    OBVIOUS
  <2>1. StartCloser(c)
    BY DEF Caller, RLock, Copy, RUnlock, Receive, Return
  <2> QED
    BY <2>1 DEF StartCloser, Goto, working, copying, Drained, IInv, TypeOK
<1>5. Closing /\ IInv /\ <<Close(c)>>_vars => Closed'
  BY DEF Close, IInv, TypeOK
<1>6. IInv /\ Due => Starting \/ Closing \/ Closed
  BY DEF IInv, TypeOK
<1> HIDE DEF Due, Starting, Closing, Closed
<1>7. Spec /\ []NobodyIsStuck => (Due ~> Closed)
  BY <1>1, <1>2, <1>3, <1>4, <1>5, <1>6, Invariance, PTL DEF Spec, CallGoesOn
<1> QED
  BY <1>7 DEF Due, Closed
=============================================================================
