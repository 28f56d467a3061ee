----------------------------- MODULE WorkerPool -----------------------------
(***************************************************************************)
(* The shared worker pool (packages/worker/src/pool.ts) with the runtime   *)
(* that answers it inside each worker (packages/worker/src/runtime.ts),    *)
(* connected by two message channels per worker.                           *)
(*                                                                         *)
(* Every callback of the pool runs to completion: a call of the host, a    *)
(* message or error event of a worker, a timer, a fallback's promise.  All *)
(* of them end in #schedule, which is the last part of the action here.    *)
(*                                                                         *)
(* Abstractions.  Task n is the n-th valid submission, so task ids are     *)
(* their own sequence numbers.  What a submission asks for is its kind.    *)
(* Time is left to the timers, which may fire whenever they are armed, and *)
(* to the ages of queued tasks, of which only the order matters.  A worker *)
(* whose postMessage throws is one that crashes right afterwards.  Tasks   *)
(* carry no time-out of their own, so the worker arms no second timer.     *)
(* Progress messages, diagnostics and messages of the wrong shape, protocol*)
(* or document context are left out; the factory, the fallback and the     *)
(* diagnostic sink are taken not to call the pool back.                    *)
(***************************************************************************)
EXTENDS Integers, FiniteSets, SequencesExt

CONSTANTS
  MaxTasks,            \* bound on submissions
  Instance,            \* values of instanceId
  Key,                 \* values of mergeKey
  NoKey,               \* no mergeKey
  NoKind,              \* the kind of a task not submitted yet
  Kinds,               \* what a submission may ask for
  Slot,                \* the places of the pool: poolSize is their number
  NoSlot,              \* no slot
  MaxQueuedTasks,      \* #maxQueuedTasks
  MaxTasksPerInstance, \* #maxTasksPerInstance
  MaxRestarts,         \* #maxRestarts
  MaxCrashes,          \* bound on crashes of loaded workers
  Hosts                \* what a host may offer the pool

Task == 1 .. MaxTasks
NoTask == 0

Priorities == 0 .. 2
KindType == [instance : Instance, key : Key \cup {NoKey},
             priority : Priorities, replayable : BOOLEAN]

ASSUME NumbersAssumption ==
  /\ {MaxTasks, MaxRestarts, MaxCrashes} \subseteq Nat
  /\ {MaxQueuedTasks, MaxTasksPerInstance} \subseteq Nat \ {0}
ASSUME SlotsAssumption == IsFiniteSet(Slot) /\ Slot # {} /\ NoSlot \notin Slot
ASSUME KindsAssumption ==
  Kinds \subseteq KindType /\ NoKind \notin Kinds /\ NoKey \notin Key

(* The factory of a host: there is none (no Worker global), it works, or   *)
(* it may throw.  A new worker loads its script or not.  There is a        *)
(* main-thread fallback or not.                                            *)
HostType == [factory : {"none", "works", "flaky"}, loads : BOOLEAN,
             fallback : BOOLEAN]
ASSUME HostsAssumption == Hosts \subseteq HostType

VARIABLES
  host,         \* #factory, #fallback and what the factory makes
  destroyed,    \* #destroyed
  submitted,    \* #taskSequence: the newest task
  task,         \* InternalTask, for each task
  queue,        \* #queue
  slot,         \* WorkerSlot, for each place
  stats,        \* InstanceStats, for each instance
  lastInstance, \* #lastInstance, as a set of at most one
  worker,       \* the worker in each slot: its channels and its running tasks
  crashes       \* how many loaded workers have crashed

vars == <<host, destroyed, submitted, task, queue, slot, stats, lastInstance, worker,
          crashes>>

TaskStates == {"new", "queued", "running", "settled"}
Results == {"open", "value", "error", "refused"}

TaskRecords ==
  [state : TaskStates, kind : Kinds \cup {NoKind}, slot : Slot \cup {NoSlot},
   fallback : BOOLEAN, timeout : BOOLEAN, grace : BOOLEAN,
   cancelling : BOOLEAN, replays : 0 .. MaxRestarts,
   starts : Nat,        \* history: how often a worker started it
   accepted : {"open", "ok", "failed"}, result : Results]

SlotRecords == [present : BOOLEAN, ready : BOOLEAN, busy : Task \cup {NoTask}]

Message(type, t) == [type |-> type, task |-> t]
ToWorker == [type : {"handshake", "task", "cancelTask"}, task : Task \cup {NoTask}]
FromWorker == [type : {"handshakeResult", "taskAccepted", "taskSucceeded",
                       "taskFailed", "taskCancelled"},
               task : Task \cup {NoTask}]
WorkerRecords == [inbox : Seq(ToWorker), outbox : Seq(FromWorker),
                  runs : SUBSET Task, aborted : SUBSET Task]

TypeOK ==
  /\ host \in Hosts
  /\ destroyed \in BOOLEAN
  /\ submitted \in 0 .. MaxTasks
  /\ task \in [Task -> TaskRecords]
  /\ queue \in Seq(Task)
  /\ slot \in [Slot -> SlotRecords]
  /\ stats \in [Instance -> [queued : Nat, running : Nat]]
  /\ lastInstance \subseteq Instance /\ Cardinality(lastInstance) <= 1
  /\ worker \in [Slot -> WorkerRecords]
  /\ crashes \in 0 .. MaxCrashes

NewTask == [state |-> "new", kind |-> NoKind, slot |-> NoSlot,
            fallback |-> FALSE, timeout |-> FALSE, grace |-> FALSE,
            cancelling |-> FALSE, replays |-> 0, starts |-> 0,
            accepted |-> "open", result |-> "open"]
NoWorker == [inbox |-> <<>>, outbox |-> <<>>, runs |-> {}, aborted |-> {}]
EmptySlot == [present |-> FALSE, ready |-> FALSE, busy |-> NoTask]

Init ==
  /\ host \in Hosts
  /\ destroyed = FALSE
  /\ submitted = 0
  /\ task = [t \in Task |-> NewTask]
  /\ queue = <<>>
  /\ slot = [s \in Slot |-> EmptySlot]
  /\ stats = [i \in Instance |-> [queued |-> 0, running |-> 0]]
  /\ lastInstance = {}
  /\ worker = [s \in Slot |-> NoWorker]
  /\ crashes = 0

-----------------------------------------------------------------------------
(* Helpers on the pool's records.  An operation first works out what       *)
(* becomes of the tasks (T), the queue (q), the slots (S), the counts (C)  *)
(* and the workers (W), and hands these to schedule.                       *)

minus(n, m) == IF n > m THEN n - m ELSE 0

(* The tasks in F that belong to instance i.                               *)
ofInstance(F, i) == {t \in F : task[t].kind.instance = i}

(* q with the tasks in F spliced out.                                      *)
without(q, F) ==
  LET rest[i \in 0 .. Len(q)] ==
        IF i = 0 THEN <<>>
        ELSE IF q[i] \in F THEN rest[i - 1] ELSE Append(rest[i - 1], q[i])
  IN rest[Len(q)]

(* #finishTask: both promises of the task are settled, its timers cleared, *)
(* and the pool forgets it.                                                *)
settled(record, result) ==
  [NewTask EXCEPT !.state = "settled", !.result = result,
                  !.accepted = IF record.accepted = "ok" THEN "ok" ELSE "failed"]

(* #finishTask, for a running task t.                                      *)
finishedTasks(t, result) == [task EXCEPT ![t] = settled(@, result)]

finishedSlots(t) ==
  [s \in Slot |-> IF slot[s].busy = t /\ task[t].slot = s
                    THEN [slot[s] EXCEPT !.busy = NoTask] ELSE slot[s]]

finishedStats(t) ==
  [stats EXCEPT ![task[t].kind.instance].running = minus(@, 1)]

-----------------------------------------------------------------------------
(* #schedule.                                                              *)

(* #ensureWorkerSlots: a factory that throws leaves places empty.          *)
creations(S) ==
  LET missing == {s \in Slot : ~S[s].present} IN
  CASE host.factory = "none"  -> {{}}
    [] host.factory = "works" -> {missing}
    [] host.factory = "flaky" -> SUBSET missing

createdSlots(S, new) ==
  [s \in Slot |-> IF s \in new THEN [EmptySlot EXCEPT !.present = TRUE] ELSE S[s]]

createdWorkers(W, new) ==
  [s \in Slot |-> IF s \in new
                    THEN [NoWorker EXCEPT !.inbox = <<Message("handshake", NoTask)>>]
                    ELSE W[s]]

(* taskScore: priority, then age in steps of the aging interval.  Tasks    *)
(* stand in q in the order in which they were queued, so the ages fall     *)
(* along q; cuts holds the places after which the age is a step less.      *)
taskScore(T, q, cuts, i) ==
  T[q[i]].kind.priority * (Len(q) + 1) + Cardinality({c \in cuts : i <= c})

(* Mutant: between equals, the last instance goes first again.             *)
nextOfSameInstance(T, q, last, cuts) ==
  LET score(i) == taskScore(T, q, cuts, i)
      stale(i) == T[q[i]].kind.instance \in last
      overtakes(i, best) ==
        \/ score(i) > score(best)
        \/ score(i) = score(best) /\ ~stale(best) /\ stale(i)
  IN FoldLeft(LAMBDA best, i : IF overtakes(i, best) THEN i ELSE best,
              1, [i \in DOMAIN q |-> i])

(* #takeNextTask: the place in q of the task that goes next.  Of tasks     *)
(* with one score, those of another instance than the last one go first.   *)
nextTask(T, q, last, cuts) ==
  LET score(i) == taskScore(T, q, cuts, i)
      fresh(i) == T[q[i]].kind.instance \notin last
      overtakes(i, best) ==
        \/ score(i) > score(best)
        \/ score(i) = score(best) /\ ~fresh(best) /\ fresh(i)
        \/ score(i) = score(best) /\ q[i] < q[best] /\ fresh(best)
  IN FoldLeft(LAMBDA best, i : IF overtakes(i, best) THEN i ELSE best,
              1, [i \in DOMAIN q |-> i])

(* taken is a sequence of tasks in which #takeNextTask may empty q.        *)
takenInOrder(T, q, taken) ==
  \A i \in DOMAIN taken :
    LET earlier == {taken[j] : j \in 1 .. i - 1}
        rest    == without(q, earlier)
        last    == IF i = 1 THEN lastInstance
                            ELSE {T[taken[i - 1]].kind.instance}
    IN \E cuts \in SUBSET DOMAIN rest :
         taken[i] = rest[nextTask(T, rest, last, cuts)]

fallbackRunning(T) == {t \in Task : T[t].state = "running" /\ T[t].fallback}

idleSlots(S) == {s \in Slot : S[s].ready /\ S[s].busy = NoTask}

(* Mutant: the fallback is for hosts without workers, not for pools that   *)
(* have none.                                                              *)
roomWithoutFactory(T, S) ==
  IF idleSlots(S) # {} THEN Cardinality(idleSlots(S))
  ELSE IF host.fallback /\ host.factory = "none"
         THEN minus(Cardinality(Slot), Cardinality(fallbackRunning(T)))
         ELSE 0

(* The number of tasks #schedule can start: one for each idle slot, or, if *)
(* there are no workers, up to poolSize fallbacks.                         *)
room(T, S) ==
  IF idleSlots(S) # {} THEN Cardinality(idleSlots(S))
  ELSE IF host.fallback /\ \A s \in Slot : ~S[s].present
         THEN minus(Cardinality(Slot), Cardinality(fallbackRunning(T)))
         ELSE 0

(* #dispatchWorker and #dispatchFallback of the tasks in the range of      *)
(* taken; place gives the slot of each, or NoSlot for the fallback.         *)
dispatched(T, q, S, C, W, taken, place) ==
  LET F == ToSet(taken)
      at(s) == {t \in F : place[t] = s}
  IN
  /\ task' = [t \in Task |->
       IF t \notin F THEN T[t]
       ELSE IF place[t] = NoSlot
         THEN [T[t] EXCEPT !.state = "running", !.fallback = TRUE,
                           !.timeout = TRUE, !.accepted = "ok"]
         ELSE [T[t] EXCEPT !.state = "running", !.slot = place[t],
                           !.timeout = TRUE]]
  /\ queue' = without(q, F)
  /\ slot' = [s \in Slot |-> IF at(s) = {} THEN S[s]
                ELSE [S[s] EXCEPT !.busy = CHOOSE t \in at(s) : TRUE]]
  /\ worker' = [s \in Slot |-> IF at(s) = {} THEN W[s]
                  ELSE [W[s] EXCEPT !.inbox =
                          Append(@, Message("task", CHOOSE t \in at(s) : TRUE))]]
  /\ stats' = [i \in Instance |->
       LET n == Cardinality({t \in F : T[t].kind.instance = i}) IN
       [queued |-> minus(C[i].queued, n), running |-> C[i].running + n]]
  /\ lastInstance' = IF taken = <<>> THEN lastInstance
                     ELSE {T[Last(taken)].kind.instance}

dispatches(T, q, S, C, W) ==
  LET n == Min({room(T, S), Len(q)}) IN
  \E taken \in {f \in [1 .. n -> ToSet(q)] : IsInjective(f)} :
    /\ takenInOrder(T, q, taken)
    /\ \E place \in [ToSet(taken) ->
                      IF idleSlots(S) # {} THEN idleSlots(S) ELSE {NoSlot}] :
         /\ idleSlots(S) # {} => IsInjective(place)
         /\ dispatched(T, q, S, C, W, taken, place)

(* Without workers and without a fallback every queued task fails; it      *)
(* stays in the queue and in the counts.                                   *)
failsAll(T, q, S, C, W) ==
  /\ task' = [t \in Task |-> IF t \in ToSet(q) /\ T[t].state = "queued"
                               THEN settled(T[t], "error") ELSE T[t]]
  /\ queue' = q /\ slot' = S /\ stats' = C /\ worker' = W
  /\ UNCHANGED lastInstance

schedule(T, q, S, C, W) ==
  \/ /\ destroyed
     /\ task' = T /\ queue' = q /\ slot' = S /\ stats' = C /\ worker' = W
     /\ UNCHANGED lastInstance
  \/ /\ ~destroyed
     /\ IF host.factory = "none" /\ ~host.fallback
          THEN failsAll(T, q, S, C, W)
          ELSE \E new \in creations(S) :
                 dispatches(T, q, createdSlots(S, new), C, createdWorkers(W, new))

-----------------------------------------------------------------------------
(* #cancelTask, for each task in F that is not settled.                    *)

queuedOf(F) == {t \in F : task[t].state = "queued"}
runningOf(F) == {t \in F : task[t].state = "running" /\ ~task[t].cancelling}

(* Mutant: a running task gets no grace timer.                             *)
cancelledWithoutGrace(F) ==
  [t \in Task |->
    CASE t \in queuedOf(F)  -> settled(task[t], "error")
      [] t \in runningOf(F) -> [task[t] EXCEPT !.cancelling = TRUE]
      [] OTHER -> task[t]]

cancelledTasks(F) ==
  [t \in Task |->
    CASE t \in queuedOf(F)  -> settled(task[t], "error")
      [] t \in runningOf(F) -> [task[t] EXCEPT !.cancelling = TRUE, !.grace = TRUE]
      [] OTHER -> task[t]]

cancelledQueue(F) == without(queue, queuedOf(F))

cancelledStats(F) ==
  [i \in Instance |->
    [stats[i] EXCEPT !.queued = minus(@, Cardinality(ofInstance(queuedOf(F), i)))]]

(* Mutant: the worker is told only of a task that it has accepted.         *)
cancelsAccepted(F) ==
  [s \in Slot |->
    IF \E t \in runningOf(F) : task[t].slot = s /\ task[t].accepted = "ok"
      THEN [worker[s] EXCEPT !.inbox =
              Append(@, Message("cancelTask",
                                CHOOSE t \in runningOf(F) : task[t].slot = s))]
      ELSE worker[s]]

cancelledWorkers(F) ==
  [s \in Slot |->
    IF \E t \in runningOf(F) : task[t].slot = s
      THEN [worker[s] EXCEPT !.inbox =
              Append(@, Message("cancelTask",
                                CHOOSE t \in runningOf(F) : task[t].slot = s))]
      ELSE worker[s]]

(* Mutant: a cancelled task gives its slot back at once.                   *)
cancelsAndFrees(F) ==
  schedule(cancelledTasks(F), cancelledQueue(F),
           [s \in Slot |-> IF slot[s].busy \in F
                             THEN [slot[s] EXCEPT !.busy = NoTask] ELSE slot[s]],
           cancelledStats(F), cancelledWorkers(F))

(* #finishTask ends in #schedule, which a running task does not reach.     *)
cancels(F) ==
  \/ /\ queuedOf(F) # {}
     /\ schedule(cancelledTasks(F), cancelledQueue(F), slot, cancelledStats(F),
                 cancelledWorkers(F))
  \/ /\ queuedOf(F) = {}
     /\ task' = cancelledTasks(F) /\ worker' = cancelledWorkers(F)
     /\ UNCHANGED <<queue, slot, stats, lastInstance>>

-----------------------------------------------------------------------------
(* The operations of the pool.                                             *)

(* submit(): an older task of the same instance and merge key is           *)
(* superseded; it does not count against the limits.                       *)
mergeCandidates(kind) ==
  {t \in Task : /\ task[t].state \in {"queued", "running"}
                /\ kind.key # NoKey
                /\ task[t].kind.instance = kind.instance
                /\ task[t].kind.key = kind.key}

hasRoom(kind) ==
  LET count == stats[kind.instance]
      merged == mergeCandidates(kind)
  IN
  /\ count.queued + count.running - Cardinality(merged) < MaxTasksPerInstance
  /\ Len(queue) - Cardinality(queuedOf(merged)) < MaxQueuedTasks

refused(t, kind, result) ==
  /\ task' = [task EXCEPT ![t] = [settled(@, result) EXCEPT !.kind = kind]]
  /\ UNCHANGED <<queue, slot, stats, lastInstance, worker>>

accepted(t, kind) ==
  LET F == mergeCandidates(kind) IN
  schedule([cancelledTasks(F) EXCEPT ![t] = [NewTask EXCEPT !.state = "queued",
                                                            !.kind = kind]],
           Append(cancelledQueue(F), t),
           slot,
           [cancelledStats(F) EXCEPT ![kind.instance].queued = @ + 1],
           cancelledWorkers(F))

Submit(kind) ==
  LET t == submitted + 1 IN
  /\ t \in Task
  /\ submitted' = t
  /\ \/ destroyed /\ refused(t, kind, "error")
     \/ ~destroyed /\ ~hasRoom(kind) /\ refused(t, kind, "refused")
     \/ ~destroyed /\ hasRoom(kind) /\ accepted(t, kind)
  /\ UNCHANGED <<host, destroyed, crashes>>

live == {t \in Task : task[t].state \in {"queued", "running"}}

(* cancel() of the pool or the handle, or the caller's AbortSignal.        *)
Cancel(t) ==
  /\ t \in live
  /\ cancels({t})
  /\ UNCHANGED <<host, destroyed, submitted, crashes>>

DisposeInstance(i) ==
  LET F == ofInstance(live, i) IN
  /\ F # {}
  /\ cancels(F)
  /\ UNCHANGED <<host, destroyed, submitted, crashes>>

(* destroy(): all workers are terminated; the records of their slots keep  *)
(* the tasks they were busy with.                                          *)
Destroy ==
  /\ ~destroyed
  /\ destroyed' = TRUE
  /\ task' = cancelledTasks(live)
  /\ queue' = <<>>
  /\ stats' = cancelledStats(live)
  /\ slot' = [s \in Slot |-> [EmptySlot EXCEPT !.busy = slot[s].busy]]
  /\ worker' = [s \in Slot |-> NoWorker]
  /\ UNCHANGED <<host, submitted, lastInstance, crashes>>

(* The timer of #armTimeout.                                               *)
TimeoutFires(t) ==
  /\ task[t].timeout
  /\ task' = [cancelledTasks({t}) EXCEPT ![t].timeout = FALSE]
  /\ worker' = cancelledWorkers({t})
  /\ UNCHANGED <<host, destroyed, submitted, queue, slot, stats, lastInstance, crashes>>

-----------------------------------------------------------------------------
(* #handleSlotFailure: the worker is terminated and, unless the pool is    *)
(* destroyed, replaced; its task is replayed if it may be.                 *)
mayReplay(t) ==
  task[t].kind.replayable /\ ~task[t].cancelling /\ task[t].replays < MaxRestarts

replayedTasks(t) ==
  [task EXCEPT ![t] = [task[t] EXCEPT !.state = "queued", !.slot = NoSlot,
                                      !.timeout = FALSE, !.grace = FALSE,
                                      !.replays = @ + 1]]

(* Mutant: the slot keeps its task.                                        *)
failedSlotKept(s) == [slot EXCEPT ![s].ready = FALSE]

failedSlots(s) == [slot EXCEPT ![s] = EmptySlot]
failedWorkers(s) == [worker EXCEPT ![s] = NoWorker]

slotFails(s) ==
  LET t == slot[s].busy IN
  \/ /\ t = NoTask
     /\ schedule(task, queue, failedSlots(s), stats, failedWorkers(s))
  \/ /\ t # NoTask /\ mayReplay(t)
     /\ schedule(replayedTasks(t), Append(queue, t), failedSlots(s),
                 finishedStats(t), failedWorkers(s))
  \/ /\ t # NoTask /\ ~mayReplay(t)
     /\ schedule(finishedTasks(t, "error"), queue, failedSlots(s),
                 finishedStats(t), failedWorkers(s))

(* A worker reports an error, or crashes.                                  *)
WorkerCrashes(s) ==
  /\ slot[s].present
  /\ host.loads /\ crashes < MaxCrashes
  /\ crashes' = crashes + 1
  /\ slotFails(s)
  /\ UNCHANGED <<host, destroyed, submitted>>

(* Its script cannot be loaded, or speaks another protocol.                *)
WorkerDoesNotLoad(s) ==
  /\ slot[s].present /\ ~slot[s].ready
  /\ ~host.loads
  /\ slotFails(s)
  /\ UNCHANGED <<host, destroyed, submitted, crashes>>

(* The grace timer of #cancelTask.                                         *)
GraceFires(t) ==
  /\ task[t].grace
  /\ \/ /\ task[t].slot # NoSlot /\ ~destroyed
        /\ slotFails(task[t].slot)
     \/ /\ task[t].slot # NoSlot /\ destroyed
        /\ task' = [task EXCEPT ![t].grace = FALSE]
        /\ UNCHANGED <<queue, slot, stats, lastInstance, worker>>
     \/ /\ task[t].slot = NoSlot
        /\ schedule(finishedTasks(t, "error"), queue, slot, finishedStats(t),
                    worker)
  /\ UNCHANGED <<host, destroyed, submitted, crashes>>

-----------------------------------------------------------------------------
(* #handleMessage.                                                         *)
outcomeOf(type) == IF type = "taskSucceeded" THEN "value" ELSE "error"

MessageArrives(s) ==
  /\ slot[s].present /\ worker[s].outbox # <<>>
  /\ LET m == Head(worker[s].outbox)
         W == [worker EXCEPT ![s].outbox = Tail(@)]
         t == slot[s].busy
     IN
     \/ /\ m.type = "handshakeResult"
        /\ schedule(task, queue, [slot EXCEPT ![s].ready = TRUE], stats, W)
     \/ /\ m.type # "handshakeResult"
        /\ t = NoTask \/ m.task # t
        /\ worker' = W
        /\ UNCHANGED <<task, queue, slot, stats, lastInstance>>
     \/ /\ m.type = "taskAccepted" /\ t # NoTask /\ m.task = t
        /\ task' = [task EXCEPT ![t].accepted = IF @ = "open" THEN "ok" ELSE @]
        /\ worker' = W
        /\ UNCHANGED <<queue, slot, stats, lastInstance>>
     \/ /\ m.type \in {"taskSucceeded", "taskFailed", "taskCancelled"}
        /\ t # NoTask /\ m.task = t
        /\ schedule(finishedTasks(t, outcomeOf(m.type)), queue, finishedSlots(t),
                    finishedStats(t), W)
  /\ UNCHANGED <<host, destroyed, submitted, crashes>>

(* The fallback's promise settles, before or after a cancellation.         *)
FallbackReturns(t) ==
  /\ t \in fallbackRunning(task)
  /\ \E result \in {"value", "error"} :
       schedule(finishedTasks(t, result), queue, slot, finishedStats(t), worker)
  /\ UNCHANGED <<host, destroyed, submitted, crashes>>

-----------------------------------------------------------------------------
(* The worker's end (runtime.ts).                                          *)
answered(w, type, t) == [w EXCEPT !.outbox = Append(@, Message(type, t))]

(* handleMessage: a task is accepted and starts; a task without a handler  *)
(* or with the id of a running one fails; a cancellation aborts the signal *)
(* of the task it names, if that is running.                               *)
receives(w, m) ==
  CASE m.type = "handshake"  -> {answered(w, "handshakeResult", NoTask)}
    [] m.type = "cancelTask" -> {[w EXCEPT !.aborted = @ \cup (w.runs \cap {m.task})]}
    [] m.type = "task" ->
         {answered(w, "taskFailed", m.task)} \cup
         IF m.task \in w.runs THEN {}
           ELSE {answered([w EXCEPT !.runs = @ \cup {m.task}],
                          "taskAccepted", m.task)}

WorkerReceives(s) ==
  /\ host.loads /\ worker[s].inbox # <<>>
  /\ LET m == Head(worker[s].inbox)
         w == [worker[s] EXCEPT !.inbox = Tail(@)]
     IN \E new \in receives(w, m) :
          /\ worker' = [worker EXCEPT ![s] = new]
          /\ task' = [t \in Task |-> IF t \in new.runs \ w.runs
                                       THEN [task[t] EXCEPT !.starts = @ + 1]
                                       ELSE task[t]]
  /\ UNCHANGED <<host, destroyed, submitted, queue, slot, stats, lastInstance, crashes>>

(* The handler's promise settles; what it says no longer counts once its   *)
(* signal is aborted.                                                      *)
HandlerReturns(s, t) ==
  /\ t \in worker[s].runs
  /\ \E type \in {"taskSucceeded", "taskFailed", "taskCancelled"} :
       /\ type = "taskCancelled" <=> t \in worker[s].aborted
       /\ worker' = [worker EXCEPT ![s] =
            answered([worker[s] EXCEPT !.runs = @ \ {t}, !.aborted = @ \ {t}],
                     type, t)]
  /\ UNCHANGED <<host, destroyed, submitted, task, queue, slot, stats, lastInstance,
                 crashes>>

-----------------------------------------------------------------------------
Next ==
  \/ \E kind \in Kinds : Submit(kind)
  \/ \E t \in Task : Cancel(t)
  \/ \E i \in Instance : DisposeInstance(i)
  \/ Destroy
  \/ \E t \in Task : TimeoutFires(t)
  \/ \E t \in Task : GraceFires(t)
  \/ \E t \in Task : FallbackReturns(t)
  \/ \E s \in Slot : MessageArrives(s)
  \/ \E s \in Slot : WorkerCrashes(s)
  \/ \E s \in Slot : WorkerDoesNotLoad(s)
  \/ \E s \in Slot : WorkerReceives(s)
  \/ \E s \in Slot, t \in Task : HandlerReturns(s, t)

Spec == Init /\ [][Next]_vars

(* Armed timers fire, messages arrive, and a script that cannot be loaded  *)
(* is reported.  A handler, a fallback or a host need never do anything.   *)
Fairness ==
  /\ \A t \in Task : WF_vars(TimeoutFires(t)) /\ WF_vars(GraceFires(t))
  /\ \A s \in Slot :
       /\ WF_vars(MessageArrives(s))
       /\ WF_vars(WorkerReceives(s))
       /\ WF_vars(WorkerDoesNotLoad(s))

FairSpec == Spec /\ Fairness

-----------------------------------------------------------------------------
(* Safety.                                                                 *)

runningTasks == {t \in Task : task[t].state = "running"}
queuedTasks == {t \in Task : task[t].state = "queued"}

(* Where there is neither Worker nor fallback, failed tasks stay queued.    *)
canRun == host.factory # "none" \/ host.fallback

(* The counts of an instance, kept by hand on every path through the pool, *)
(* are those of its tasks.  Not so once a task was replayed, which is then *)
(* queued uncounted, or where tasks fail for want of a worker.             *)
isReplayed(i) == \E kind \in Kinds : kind.instance = i /\ kind.replayable

CountsConsistent ==
  \A i \in Instance : canRun /\ ~isReplayed(i) =>
    /\ stats[i].queued  = Cardinality(ofInstance(queuedTasks, i))
    /\ stats[i].running = Cardinality(ofInstance(runningTasks, i))

(* Such an instance never has more live tasks than its quota, those aside  *)
(* that are being cancelled (maxTasksPerInstance, read by submit from the  *)
(* counts).  Replayed tasks are not counted and may fill it up once more.  *)
QuotaHolds ==
  \A i \in Instance : ~isReplayed(i) =>
    Cardinality({t \in ofInstance(live, i) : ~task[t].cancelling})
      <= MaxTasksPerInstance

(* A live task is in one place: a queued one stands in the queue once, a   *)
(* running one is the fallback's or occupies the slot it names, alone, and *)
(* nothing else stands in the queue or occupies a slot (#takeNextTask,     *)
(* #finishTask and #handleSlotFailure move tasks between these places);    *)
(* what is counted of an instance is what is there, and within its quota.  *)
PlacementConsistent ==
  /\ TypeOK /\ CountsConsistent /\ QuotaHolds
  /\ IsInjective(queue) /\ queuedTasks \subseteq ToSet(queue)
  /\ canRun => ToSet(queue) = queuedTasks
  /\ \A t \in runningTasks :
       IF task[t].fallback THEN task[t].slot = NoSlot
                           ELSE {s \in Slot : slot[s].busy = t} = {task[t].slot}
  /\ \A s \in Slot : slot[s].busy # NoTask => slot[s].busy \in runningTasks

(* No task waits while a worker is ready and idle or, where there are no   *)
(* workers, while the fallback has room: every path that frees room ends   *)
(* in #schedule.                                                           *)
WorkConserving ==
  queuedTasks # {} /\ ~destroyed =>
    /\ idleSlots(slot) = {}
    /\ host.fallback /\ (\A s \in Slot : ~slot[s].present)
         => Cardinality(fallbackRunning(task)) >= Cardinality(Slot)

(* Workers start a task once, or once more for each replay of a task that  *)
(* its host declared replayable (whitepaper 7.3).                          *)
StartsOnce ==
  \A t \in live :
    task[t].starts <= 1 + (IF task[t].kind.replayable THEN MaxRestarts ELSE 0)

(* A worker runs nothing but the task its slot is busy with, and has       *)
(* nothing else in its inbox: a slot is not given away while its worker    *)
(* may still be at the last task, nor a task to more workers than it may   *)
(* be replayed to.                                                         *)
WorkerRunsItsTask ==
  /\ StartsOnce
  /\ \A s \in Slot :
    /\ worker[s].runs \subseteq {slot[s].busy}
    /\ \A i \in DOMAIN worker[s].inbox :
         worker[s].inbox[i].type = "task" => worker[s].inbox[i].task = slot[s].busy

(* A worker that runs a cancelled task knows, or its cancelTask message is *)
(* on the way.                                                             *)
CancelIsDelivered ==
  \A s \in Slot : \A t \in worker[s].runs :
    task[t].cancelling =>
      \/ t \in worker[s].aborted
      \/ Message("cancelTask", t) \in ToSet(worker[s].inbox)

(* An instance gets two turns in a row only if the second task has a       *)
(* higher priority, or waited longer, than every task of another instance  *)
(* that stays behind (#takeNextTask).  A replayed task may jump the turn:  *)
(* it stands at the end of the queue with the sequence it had before.      *)
waitedLonger(u, t) ==
  \E i \in DOMAIN queue : queue[i] = u /\ t \notin {queue[j] : j \in 1 .. i}

FairTurns ==
  [][\A t \in Task :
       {u \in Task : task[u].state # "running" /\ task'[u].state = "running"} = {t}
       /\ lastInstance = {task'[t].kind.instance} /\ task'[t].replays = 0
       => \A u \in queuedTasks :
            /\ task'[u].state = "queued"
            /\ task[u].kind.instance # task'[t].kind.instance
            /\ task[u].kind.priority >= task'[t].kind.priority
            => ~waitedLonger(u, t)]_vars

-----------------------------------------------------------------------------
(* Liveness.                                                               *)

(* Unless the pool is destroyed, a task that was accepted settles, whether *)
(* or not its handler ever returns: its time-out and the grace period of   *)
(* the cancellation see to it, and a worker that is terminated is replaced *)
(* for the tasks behind it (whitepaper 7.3).                               *)
TaskSettles ==
  \A t \in Task :
    (t \in live) ~> (task[t].state = "settled" \/ destroyed)

(* Whitepaper 7.3 of a worker that crashes, and REQ-07-005 of the pool:    *)
(* every promise of a running task settles, here also after destroy().     *)
RunningSettles ==
  \A t \in Task : (t \in runningTasks) ~> (task[t].state = "settled")

(* Whitepaper 7.3: where the worker's URL cannot be loaded, tasks fall     *)
(* back to the main thread.                                                *)
LoadFailureFallsBack ==
  \A t \in Task : (t \in queuedTasks) ~> (t \notin queuedTasks)
=============================================================================
