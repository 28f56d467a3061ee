-------------------------- MODULE WorkerPool_proofs --------------------------
(***************************************************************************)
(* Proofs about WorkerPool: the inductive invariant, and what keeps it     *)
(* (the parts that the pool's operations are made of, up to #schedule);    *)
(* then each operation prepares tasks, queue, slots, counts and workers    *)
(* that fit together, and #schedule keeps them so.                         *)
(***************************************************************************)
EXTENDS WorkerPool, SequenceLemmas, FiniteSetTheorems

-----------------------------------------------------------------------------
(* The inductive invariant, of any tasks T, queue q, slots S, counts C and *)
(* workers W: an operation prepares these before #schedule sees them, and  *)
(* they fit together then already.  h is the host, d whether the pool is   *)
(* destroyed, n the newest task.                                           *)
CanRun(h) == h.factory # "none" \/ h.fallback

Queued(T) == {t \in Task : T[t].state = "queued"}
Running(T) == {t \in Task : T[t].state = "running"}
Live(T) == {t \in Task : T[t].state \in {"queued", "running"}}
Fallbacks(T) == {t \in Task : T[t].state = "running" /\ T[t].fallback}
Idle(S) == {s \in Slot : S[s].ready /\ S[s].busy = NoTask}

TypesFit(T, q, S, C, W) ==
  /\ T \in [Task -> TaskRecords]
  /\ q \in Seq(Task)
  /\ S \in [Slot -> SlotRecords]
  /\ C \in [Instance -> [queued : Nat, running : Nat]]
  /\ W \in [Slot -> WorkerRecords]

(* What a task's record says of itself.                                    *)
RecordFits(r) ==
  /\ r.state \in {"queued", "running"} => r.kind \in Kinds
  /\ r.state # "running" =>
       r.slot = NoSlot /\ ~r.fallback /\ ~r.timeout /\ ~r.grace /\ ~r.cancelling
  /\ r.replays > 0 => r.kind.replayable
  /\ r.state = "queued" => r.starts <= r.replays
  /\ r.state = "running" => r.starts <= r.replays + 1

TasksFit(n, T) ==
  \A t \in Task : RecordFits(T[t]) /\ (t > n => T[t] = NewTask)

(* The queue and the slots hold what the tasks say they hold.              *)
PlacesFit(h, T, q, S) ==
  /\ IsInjective(q)
  /\ Queued(T) \subseteq ToSet(q)
  /\ \A t \in ToSet(q) : T[t].state = "queued" \/ (T[t].state = "settled" /\ ~CanRun(h))
  /\ \A t \in Running(T) :
       /\ CanRun(h)
       /\ IF T[t].fallback THEN T[t].slot = NoSlot
                           ELSE T[t].slot \in Slot /\ S[T[t].slot].busy = t
  /\ \A s \in Slot : S[s].busy # NoTask =>
       /\ T[S[s].busy].state = "running"
       /\ ~T[S[s].busy].fallback
       /\ T[S[s].busy].slot = s

SlotsFit(d, T, S) ==
  /\ \A s \in Slot : S[s].ready => S[s].present
  /\ ~d => \A s \in Slot : S[s].busy # NoTask => S[s].present
  /\ d => Queued(T) = {} /\ \A s \in Slot : ~S[s].present

(* A worker w of a slot that is busy with b.                               *)
FinalTypes == {"taskSucceeded", "taskFailed", "taskCancelled"}
hasFinal(w, b) == \E type \in FinalTypes : Message(type, b) \in ToSet(w.outbox)

(* The message that makes it start b, at place i of its inbox: nothing has *)
(* come of b yet, and a cancellation of b stands behind it.                *)
StartFits(b, T, w, i) ==
  /\ w.inbox[i].task = b /\ b # NoTask
  /\ w.runs = {} /\ ~hasFinal(w, b)
  /\ \A j \in DOMAIN w.inbox : w.inbox[j].type = "task" => j = i
  /\ T[b].starts <= T[b].replays
  /\ T[b].cancelling => \E j \in DOMAIN w.inbox :
                           j > i /\ w.inbox[j] = Message("cancelTask", b)

WorkerFits(b, T, w) ==
  /\ w.runs \subseteq {b}
  /\ \A i \in DOMAIN w.inbox : w.inbox[i].type = "task" => StartFits(b, T, w, i)
  /\ b # NoTask /\ hasFinal(w, b) => w.runs = {}
  /\ b \in w.runs /\ T[b].cancelling =>
       b \in w.aborted \/ Message("cancelTask", b) \in ToSet(w.inbox)
  /\ \A m \in ToSet(w.inbox) \cup ToSet(w.outbox) :
       m.task \in {NoTask, b} \/ T[m.task].state = "settled"

WorkersFit(T, S, W) == \A s \in Slot : WorkerFits(S[s].busy, T, W[s])

(* The counts and quotas of instances without replayable tasks.            *)
Of(F, T, i) == {t \in F : T[t].kind.instance = i}

CountsFit(h, T, C) ==
  \A i \in Instance : CanRun(h) /\ ~isReplayed(i) =>
    /\ C[i].queued = Cardinality(Of(Queued(T), T, i))
    /\ C[i].running = Cardinality(Of(Running(T), T, i))

QuotaFits(T) ==
  \A i \in Instance : ~isReplayed(i) =>
    Cardinality({t \in Of(Live(T), T, i) : ~T[t].cancelling}) <= MaxTasksPerInstance

Fits(h, d, n, T, q, S, C, W) ==
  /\ TypesFit(T, q, S, C, W)
  /\ TasksFit(n, T)
  /\ PlacesFit(h, T, q, S)
  /\ SlotsFit(d, T, S)
  /\ WorkersFit(T, S, W)
  /\ CountsFit(h, T, C)
  /\ QuotaFits(T)

(* What #schedule leaves behind.                                           *)
NothingWaits(h, d, T, S) ==
  Queued(T) # {} =>
    /\ CanRun(h)
    /\ ~d => /\ Idle(S) = {}
             /\ h.fallback /\ (\A s \in Slot : ~S[s].present)
                  => Cardinality(Fallbacks(T)) >= Cardinality(Slot)

OthersFit ==
  /\ host \in Hosts
  /\ destroyed \in BOOLEAN
  /\ submitted \in 0 .. MaxTasks
  /\ lastInstance \subseteq Instance /\ Cardinality(lastInstance) <= 1
  /\ crashes \in 0 .. MaxCrashes

IInv ==
  /\ OthersFit
  /\ Fits(host, destroyed, submitted, task, queue, slot, stats, worker)
  /\ NothingWaits(host, destroyed, task, slot)

-----------------------------------------------------------------------------
(* Splicing tasks out of the queue.                                        *)

(* The recursion of without, up to place k.                                *)
Splices(q, F, k, g) ==
  g = [i \in 0 .. k |->
        IF i = 0 THEN <<>>
        ELSE IF q[i] \in F THEN g[i - 1] ELSE Append(g[i - 1], q[i])]

LEMMA SplicesExists ==
  ASSUME NEW q, NEW F, NEW n \in Nat
  PROVE  \E g : Splices(q, F, n, g)
<1>. DEFINE B == {k \in Nat : ~ \E g : Splices(q, F, k, g)}
<1>1. ASSUME B # {}
      PROVE  FALSE
  <2>1. PICK k \in B : \A m \in B : k <= m
    BY <1>1, LeastNatural
  <2>2. CASE k = 0
    <3>. DEFINE g == [i \in 0 .. 0 |-> <<>>]
    <3>1. g = [i \in 0 .. 0 |->
                IF i = 0 THEN <<>>
                ELSE IF q[i] \in F THEN g[i - 1] ELSE Append(g[i - 1], q[i])]
      OBVIOUS
    <3>2. Splices(q, F, 0, g)
      BY <3>1 DEF Splices
    <3>. QED
      BY <2>1, <2>2, <3>2
  <2>3. CASE k # 0
    <3>1. k - 1 \in Nat /\ k - 1 \notin B
      BY <2>1, <2>3
    <3>2. PICK g : Splices(q, F, k - 1, g)
      BY <3>1
    <3>. DEFINE new == IF q[k] \in F THEN g[k - 1] ELSE Append(g[k - 1], q[k])
                f == [i \in 0 .. k |-> IF i = k THEN new ELSE g[i]]
    <3>3. \A i \in 0 .. k - 1 :
            g[i] = IF i = 0 THEN <<>>
                   ELSE IF q[i] \in F THEN g[i - 1] ELSE Append(g[i - 1], q[i])
      BY <3>2 DEF Splices
    <3>4. \A i \in 0 .. k :
            f[i] = IF i = 0 THEN <<>>
                   ELSE IF q[i] \in F THEN f[i - 1] ELSE Append(f[i - 1], q[i])
      <4>1. TAKE i \in 0 .. k
      <4>2. CASE i = 0
        BY <2>3, <3>1, <3>3, <4>2
      <4>3. CASE i # 0 /\ i # k
        <5>1. i \in 0 .. k - 1 /\ i - 1 \in 0 .. k - 1 /\ i - 1 \in 0 .. k /\ i - 1 # k
          BY <3>1, <4>3
        <5>2. f[i] = g[i] /\ f[i - 1] = g[i - 1]
          BY <4>3, <5>1
        <5>. QED
          BY <3>3, <4>3, <5>1, <5>2
      <4>4. CASE i = k
        <5>1. k - 1 \in 0 .. k /\ k - 1 # k /\ k \in 0 .. k
          BY <3>1
        <5>2. f[k] = new /\ f[k - 1] = g[k - 1]
          BY <5>1
        <5>. QED
          BY <2>3, <4>4, <5>2
      <4>. QED
        BY <4>2, <4>3, <4>4
    <3>5. f = [i \in 0 .. k |-> f[i]]
      OBVIOUS
    <3>. HIDE DEF f
    <3>6. Splices(q, F, k, f)
      BY <3>4, <3>5 DEF Splices
    <3>. QED
      BY <2>1, <3>6
  <2>. QED
    BY <2>2, <2>3
<1>. QED
  BY <1>1

LEMMA WithoutFacts ==
  ASSUME NEW A, NEW q \in Seq(A), NEW F
  PROVE  /\ without(q, F) \in Seq(A)
         /\ ToSet(without(q, F)) = ToSet(q) \ F
         /\ IsInjective(q) => IsInjective(without(q, F))
<1>. DEFINE rest == CHOOSE g : g = [i \in 0 .. Len(q) |->
                      IF i = 0 THEN <<>>
                      ELSE IF q[i] \in F THEN g[i - 1] ELSE Append(g[i - 1], q[i])]
<1>1. without(q, F) = rest[Len(q)]
  BY DEF without
<1>2. Len(q) \in Nat /\ DOMAIN q = 1 .. Len(q)
  BY ToSetFacts
<1>3. PICK f : Splices(q, F, Len(q), f)
  BY <1>2, SplicesExists
<1>4. rest = [i \in 0 .. Len(q) |->
                IF i = 0 THEN <<>>
                ELSE IF q[i] \in F THEN rest[i - 1] ELSE Append(rest[i - 1], q[i])]
  BY <1>3 DEF Splices
<1>. HIDE DEF rest
<1>. DEFINE seen(k) == {q[i] : i \in 1 .. k}
            good(k) == /\ rest[k] \in Seq(A)
                       /\ ToSet(rest[k]) = seen(k) \ F
                       /\ IsInjective(q) => IsInjective(rest[k])
            B == {k \in 0 .. Len(q) : ~good(k)}
<1>5. good(0)
  <2>1. rest[0] = <<>> /\ seen(0) = {}
    BY <1>2, <1>4
  <2>2. ToSet(<<>>) = {} /\ IsInjective(<<>>) /\ <<>> \in Seq(A)
    BY DEF ToSet, IsInjective
  <2>. QED
    BY <2>1, <2>2
<1>6. ASSUME NEW k \in 1 .. Len(q), good(k - 1)
      PROVE  good(k)
  <2>1. q[k] \in A /\ seen(k) = seen(k - 1) \cup {q[k]} /\ k \in 0 .. Len(q) /\ k # 0
    <3>1. q[k] \in A
      BY ElementOfSeq
    <3>2. 1 .. k = (1 .. k - 1) \cup {k}
      BY <1>2
    <3>. QED
      BY <1>2, <3>1, <3>2
  <2>2. rest[k] = IF q[k] \in F THEN rest[k - 1] ELSE Append(rest[k - 1], q[k])
    BY <1>4, <2>1
  <2>. HIDE DEF seen
  <2>3. CASE q[k] \in F
    BY <1>6, <2>1, <2>2, <2>3
  <2>4. CASE q[k] \notin F
    <3>1. rest[k] \in Seq(A) /\ ToSet(rest[k]) = ToSet(rest[k - 1]) \cup {q[k]}
      BY <1>6, <2>1, <2>2, <2>4, AppendSet
    <3>2. ToSet(rest[k]) = seen(k) \ F
      BY <1>6, <2>1, <2>4, <3>1
    <3>3. ASSUME IsInjective(q)
          PROVE  IsInjective(rest[k])
      <4>1. q[k] \notin seen(k - 1)
        BY <1>2, <3>3 DEF IsInjective, seen
      <4>2. q[k] \notin ToSet(rest[k - 1])
        BY <1>6, <4>1
      <4>. QED
        BY <1>6, <2>1, <2>2, <2>4, <3>3, <4>2, AppendFacts
    <3>. QED
      BY <3>1, <3>2, <3>3
  <2>. QED
    BY <2>3, <2>4
<1>7. ASSUME B # {}
      PROVE  FALSE
  <2>. HIDE DEF good
  <2>1. B \in SUBSET Nat
    BY <1>2
  <2>2. PICK k \in B : \A m \in B : k <= m
    BY <1>7, <2>1, LeastNatural
  <2>3. k \in 1 .. Len(q) /\ k - 1 \in 0 .. Len(q) /\ ~(k <= k - 1)
    BY <1>2, <1>5, <2>2
  <2>4. good(k - 1)
    BY <2>2, <2>3
  <2>. QED
    BY <1>6, <2>2, <2>3, <2>4
<1>8. good(Len(q))
  <2>. HIDE DEF good
  <2>. QED
    BY <1>2, <1>7
<1>9. seen(Len(q)) = ToSet(q)
  BY <1>2 DEF ToSet
<1>. QED
  BY <1>1, <1>8, <1>9

-----------------------------------------------------------------------------
(* One worker: what its messages and tasks have to do with its slot.       *)

LEMMA NoTaskIsNoTask == NoTask \notin Task
BY NumbersAssumption DEF Task, NoTask

LEMMA WorkerIsTyped ==
  ASSUME NEW w \in WorkerRecords
  PROVE  /\ w.inbox \in Seq(ToWorker) /\ w.outbox \in Seq(FromWorker)
         /\ w.runs \subseteq Task /\ w.aborted \subseteq Task
         /\ \A m \in ToSet(w.inbox) \cup ToSet(w.outbox) : m.task \in Task \cup {NoTask}
         /\ DOMAIN w.inbox = 1 .. Len(w.inbox) /\ Len(w.inbox) \in Nat
         /\ NoTask \notin Task
<1>1. /\ w.inbox \in Seq(ToWorker) /\ w.outbox \in Seq(FromWorker)
      /\ w.runs \subseteq Task /\ w.aborted \subseteq Task
  BY DEF WorkerRecords
<1>2. ToSet(w.inbox) \subseteq ToWorker /\ ToSet(w.outbox) \subseteq FromWorker
  <2>1. /\ ToSet(w.inbox) = {w.inbox[i] : i \in 1 .. Len(w.inbox)}
        /\ ToSet(w.outbox) = {w.outbox[i] : i \in 1 .. Len(w.outbox)}
    BY <1>1, ToSetFacts
  <2>. QED
    BY <1>1, <2>1, ElementOfSeq
<1>3. \A m \in ToSet(w.inbox) \cup ToSet(w.outbox) : m.task \in Task \cup {NoTask}
  BY <1>2 DEF ToWorker, FromWorker
<1>4. DOMAIN w.inbox = 1 .. Len(w.inbox) /\ Len(w.inbox) \in Nat
  BY <1>1, ToSetFacts
<1>5. NoTask \notin Task
  BY NumbersAssumption DEF Task, NoTask
<1>. QED
  BY <1>1, <1>3, <1>4, <1>5

(* Other tasks' records may change, and settled tasks stay settled.        *)
Unsettles(T, T2) == \E t \in Task : T[t].state = "settled" /\ T2[t].state # "settled"
SameProgress(r, r2) ==
  r2.starts = r.starts /\ r2.replays = r.replays /\ r2.cancelling = r.cancelling

LEMMA WorkerKept ==
  ASSUME NEW b, NEW T, NEW T2, NEW w \in WorkerRecords, WorkerFits(b, T, w),
         b \in Task => SameProgress(T[b], T2[b]), b \in Task \cup {NoTask},
         ~Unsettles(T, T2)
  PROVE  WorkerFits(b, T2, w)
<1>1. b \in w.runs => b \in Task
  BY WorkerIsTyped
<1>2. ASSUME NEW i \in DOMAIN w.inbox, w.inbox[i].type = "task"
      PROVE  StartFits(b, T2, w, i)
  <2>1. StartFits(b, T, w, i)
    BY <1>2 DEF WorkerFits
  <2>. QED
    BY <2>1 DEF StartFits, SameProgress
<1>3. \A m \in ToSet(w.inbox) \cup ToSet(w.outbox) :
        m.task \in {NoTask, b} \/ T2[m.task].state = "settled"
  <2>1. \A m \in ToSet(w.inbox) \cup ToSet(w.outbox) :
          m.task \in {NoTask, b} \/ (m.task \in Task /\ T[m.task].state = "settled")
    BY WorkerIsTyped DEF WorkerFits
  <2>. QED
    BY <2>1 DEF Unsettles
<1>4. b \in w.runs /\ T2[b].cancelling =>
        b \in w.aborted \/ Message("cancelTask", b) \in ToSet(w.inbox)
  BY <1>1 DEF WorkerFits, SameProgress
<1>. QED
  BY <1>2, <1>3, <1>4 DEF WorkerFits

(* A worker just made, or gone.                                            *)
FreshWorker == [NoWorker EXCEPT !.inbox = <<Message("handshake", NoTask)>>]

LEMMA NoWorkerFits ==
  ASSUME NEW b, NEW T
  PROVE  /\ NoWorker \in WorkerRecords /\ FreshWorker \in WorkerRecords
         /\ WorkerFits(b, T, NoWorker) /\ WorkerFits(b, T, FreshWorker)
<1>. DEFINE m == Message("handshake", NoTask)
<1>1. /\ NoWorker.inbox = <<>> /\ NoWorker.outbox = <<>>
      /\ NoWorker.runs = {} /\ NoWorker.aborted = {}
      /\ FreshWorker.inbox = <<m>> /\ FreshWorker.outbox = <<>>
      /\ FreshWorker.runs = {} /\ FreshWorker.aborted = {}
  BY DEF NoWorker, FreshWorker
<1>2. m \in ToWorker /\ m.type # "task" /\ m.task = NoTask
  BY DEF Message, ToWorker
<1>3. ToSet(<<>>) = {} /\ DOMAIN <<>> = {}
  BY DEF ToSet
<1>4. <<>> \in Seq(ToWorker) /\ <<>> \in Seq(FromWorker)
  OBVIOUS
<1>5. <<m>> \in Seq(ToWorker)
  BY <1>2
<1>6. DOMAIN <<m>> = {1} /\ <<m>>[1] = m /\ ToSet(<<m>>) = {m}
  BY DEF ToSet
<1>7. NoWorker \in WorkerRecords
  BY <1>4 DEF NoWorker, WorkerRecords
<1>8. FreshWorker \in WorkerRecords
  <2>. HIDE DEF m
  <2>1. FreshWorker = [NoWorker EXCEPT !.inbox = <<m>>]
    BY DEF FreshWorker, m
  <2>2. FreshWorker = [inbox |-> <<m>>, outbox |-> NoWorker.outbox,
                       runs |-> NoWorker.runs, aborted |-> NoWorker.aborted]
    BY <1>7, <2>1 DEF WorkerRecords
  <2>. QED
    BY <1>1, <1>4, <1>5, <2>2 DEF WorkerRecords
<1>. HIDE DEF m
<1>9. WorkerFits(b, T, NoWorker)
  BY <1>1, <1>3 DEF WorkerFits, hasFinal
<1>10. WorkerFits(b, T, FreshWorker)
  BY <1>1, <1>2, <1>3, <1>6 DEF WorkerFits, hasFinal
<1>. QED
  BY <1>7, <1>8, <1>9, <1>10

(* An idle worker is given a task that no message names.                   *)
LEMMA WorkerStarts ==
  ASSUME NEW T, NEW T2, NEW w \in WorkerRecords, WorkerFits(NoTask, T, w),
         NEW t \in Task, T[t].state # "settled",
         T2[t].starts <= T2[t].replays, ~T2[t].cancelling, ~Unsettles(T, T2),
         NEW v, v = [w EXCEPT !.inbox = Append(@, Message("task", t))]
  PROVE  v \in WorkerRecords /\ WorkerFits(t, T2, v)
<1>. DEFINE m == Message("task", t)
<1>1. m \in ToWorker /\ m.type = "task" /\ m.task = t
  BY DEF Message, ToWorker
<1>2. PICK u : u = Append(w.inbox, m)
  OBVIOUS
<1>3. /\ u \in Seq(ToWorker) /\ Len(u) = Len(w.inbox) + 1
      /\ \A i \in 1 .. Len(w.inbox) : u[i] = w.inbox[i]
      /\ u[Len(w.inbox) + 1] = m
  BY <1>1, <1>2, WorkerIsTyped, AppendProperties
<1>4. ToSet(u) = ToSet(w.inbox) \cup {m}
  BY <1>1, <1>2, WorkerIsTyped, AppendSet
<1>5. DOMAIN u = 1 .. Len(w.inbox) + 1 /\ Len(w.inbox) \in Nat /\ DOMAIN w.inbox = 1 .. Len(w.inbox)
  BY <1>3, ToSetFacts, WorkerIsTyped
<1>6. /\ v.inbox = u /\ v.outbox = w.outbox /\ v.runs = w.runs /\ v.aborted = w.aborted
      /\ v = [inbox |-> u, outbox |-> w.outbox, runs |-> w.runs, aborted |-> w.aborted]
  BY <1>2 DEF WorkerRecords
<1>7. v \in WorkerRecords
  BY <1>3, <1>6, WorkerIsTyped DEF WorkerRecords
<1>8. w.runs = {}
  BY WorkerIsTyped DEF WorkerFits
<1>9. \A x \in ToSet(w.inbox) \cup ToSet(w.outbox) : x.task # t
  BY WorkerIsTyped DEF WorkerFits
<1>10. ~hasFinal(v, t)
  <2>1. \A type \in FinalTypes : Message(type, t).task = t
    BY DEF Message
  <2>. QED
    BY <1>6, <1>9, <2>1 DEF hasFinal
<1>11. \A i \in DOMAIN u : u[i].type = "task" => i = Len(w.inbox) + 1
  <2>1. \A i \in DOMAIN w.inbox : w.inbox[i].type # "task"
    BY DEF WorkerFits, StartFits
  <2>. QED
    BY <1>3, <1>5, <2>1
<1>12. ASSUME NEW i \in DOMAIN u, u[i].type = "task"
       PROVE  StartFits(t, T2, v, i)
  <2>1. i = Len(w.inbox) + 1 /\ u[i] = m
    BY <1>3, <1>11, <1>12
  <2>2. t # NoTask
    BY WorkerIsTyped
  <2>. HIDE DEF m
  <2>. QED
    BY <1>1, <1>6, <1>8, <1>10, <1>11, <1>12, <2>1, <2>2 DEF StartFits
<1>13. \A x \in ToSet(v.inbox) \cup ToSet(v.outbox) :
         x.task \in {NoTask, t} \/ T2[x.task].state = "settled"
  <2>1. \A x \in ToSet(w.inbox) \cup ToSet(w.outbox) :
          x.task = NoTask \/ (x.task \in Task /\ T[x.task].state = "settled")
    BY WorkerIsTyped DEF WorkerFits
  <2>. HIDE DEF m
  <2>. QED
    BY <1>1, <1>4, <1>6, <2>1 DEF Unsettles
<1>. HIDE DEF m
<1>14. WorkerFits(t, T2, v)
  BY <1>6, <1>8, <1>10, <1>12, <1>13 DEF WorkerFits
<1>. QED
  BY <1>7, <1>14

(* Its task is over, in the worker too.                                    *)
LEMMA WorkerFreed ==
  ASSUME NEW T, NEW T2, NEW w \in WorkerRecords, NEW b \in Task, WorkerFits(b, T, w),
         hasFinal(w, b), T2[b].state = "settled", ~Unsettles(T, T2)
  PROVE  WorkerFits(NoTask, T2, w)
<1>1. w.runs = {} /\ b # NoTask
  BY WorkerIsTyped DEF WorkerFits
<1>2. \A i \in DOMAIN w.inbox : w.inbox[i].type # "task"
  BY DEF WorkerFits, StartFits
<1>3. \A m \in ToSet(w.inbox) \cup ToSet(w.outbox) :
        m.task \in {NoTask, b} \/ (m.task \in Task /\ T[m.task].state = "settled")
  BY WorkerIsTyped DEF WorkerFits
<1>4. \A m \in ToSet(w.inbox) \cup ToSet(w.outbox) :
        m.task = NoTask \/ T2[m.task].state = "settled"
  BY <1>3 DEF Unsettles
<1>. QED
  BY <1>1, <1>2, <1>4 DEF WorkerFits

(* It is told of a cancellation.                                           *)
LEMMA WorkerTold ==
  ASSUME NEW T, NEW T2, NEW w \in WorkerRecords, NEW b \in Task, WorkerFits(b, T, w),
         T2[b].starts = T[b].starts, T2[b].replays = T[b].replays, ~Unsettles(T, T2),
         NEW v, v = [w EXCEPT !.inbox = Append(@, Message("cancelTask", b))]
  PROVE  v \in WorkerRecords /\ WorkerFits(b, T2, v)
<1>. DEFINE m == Message("cancelTask", b)
<1>1. m \in ToWorker /\ m.type # "task" /\ m.task = b
  BY DEF Message, ToWorker
<1>2. PICK u : u = Append(w.inbox, m)
  OBVIOUS
<1>3. /\ u \in Seq(ToWorker) /\ Len(u) = Len(w.inbox) + 1
      /\ \A i \in 1 .. Len(w.inbox) : u[i] = w.inbox[i]
      /\ u[Len(w.inbox) + 1] = m
  BY <1>1, <1>2, WorkerIsTyped, AppendProperties
<1>4. ToSet(u) = ToSet(w.inbox) \cup {m}
  BY <1>1, <1>2, WorkerIsTyped, AppendSet
<1>5. DOMAIN u = 1 .. Len(w.inbox) + 1 /\ Len(w.inbox) \in Nat /\ DOMAIN w.inbox = 1 .. Len(w.inbox)
  BY <1>3, ToSetFacts, WorkerIsTyped
<1>6. /\ v.inbox = u /\ v.outbox = w.outbox /\ v.runs = w.runs /\ v.aborted = w.aborted
      /\ v = [inbox |-> u, outbox |-> w.outbox, runs |-> w.runs, aborted |-> w.aborted]
  BY <1>2 DEF WorkerRecords
<1>7. v \in WorkerRecords
  BY <1>3, <1>6, WorkerIsTyped DEF WorkerRecords
<1>8. hasFinal(v, b) <=> hasFinal(w, b)
  BY <1>6 DEF hasFinal
<1>9. \A i \in DOMAIN u : u[i].type = "task" => i \in DOMAIN w.inbox /\ u[i] = w.inbox[i]
  BY <1>1, <1>3, <1>5
<1>10. ASSUME NEW i \in DOMAIN u, u[i].type = "task"
       PROVE  StartFits(b, T2, v, i)
  <2>1. i \in DOMAIN w.inbox /\ u[i] = w.inbox[i] /\ StartFits(b, T, w, i)
    BY <1>9, <1>10 DEF WorkerFits
  <2>2. Len(w.inbox) + 1 > i /\ Len(w.inbox) + 1 \in DOMAIN u
    BY <1>5, <2>1
  <2>3. \E j \in DOMAIN u : j > i /\ u[j] = m
    BY <1>3, <2>2
  <2>4. \A j \in DOMAIN u : u[j].type = "task" => j = i
    BY <1>9, <2>1 DEF StartFits
  <2>. QED
    BY <1>6, <1>8, <2>1, <2>3, <2>4 DEF StartFits
<1>11. \A x \in ToSet(v.inbox) \cup ToSet(v.outbox) :
         x.task \in {NoTask, b} \/ T2[x.task].state = "settled"
  <2>1. \A x \in ToSet(w.inbox) \cup ToSet(w.outbox) :
          x.task \in {NoTask, b} \/ (x.task \in Task /\ T[x.task].state = "settled")
    BY WorkerIsTyped DEF WorkerFits
  <2>. HIDE DEF m
  <2>. QED
    BY <1>1, <1>4, <1>6, <2>1 DEF Unsettles
<1>12. m \in ToSet(v.inbox)
  BY <1>4, <1>6
<1>13. /\ v.runs \subseteq {b}
       /\ b # NoTask /\ hasFinal(v, b) => v.runs = {}
  BY <1>6, <1>8 DEF WorkerFits
<1>14. WorkerFits(b, T2, v)
  BY <1>6, <1>10, <1>11, <1>12, <1>13 DEF WorkerFits
<1>. QED
  BY <1>7, <1>14

LEMMA OutboxRead ==
  ASSUME NEW b, NEW T, NEW w \in WorkerRecords, WorkerFits(b, T, w), w.outbox # <<>>,
         NEW v, v = [w EXCEPT !.outbox = Tail(@)]
  PROVE  v \in WorkerRecords /\ WorkerFits(b, T, v)
<1>1. PICK u : u = Tail(w.outbox)
  OBVIOUS
<1>2. u \in Seq(FromWorker) /\ Len(u) = Len(w.outbox) - 1 /\ Len(w.outbox) \in Nat
      /\ \A i \in 1 .. Len(u) : u[i] = w.outbox[i + 1]
  BY <1>1, WorkerIsTyped, HeadTailProperties, ToSetFacts
<1>3. ToSet(u) \subseteq ToSet(w.outbox)
  <2>1. /\ ToSet(u) = {u[i] : i \in 1 .. Len(u)}
        /\ ToSet(w.outbox) = {w.outbox[i] : i \in 1 .. Len(w.outbox)}
    BY <1>2, WorkerIsTyped, ToSetFacts
  <2>2. \A i \in 1 .. Len(u) : i + 1 \in 1 .. Len(w.outbox)
    BY <1>2
  <2>. QED
    BY <1>2, <2>1, <2>2
<1>4. /\ v.inbox = w.inbox /\ v.outbox = u /\ v.runs = w.runs /\ v.aborted = w.aborted
      /\ v = [inbox |-> w.inbox, outbox |-> u, runs |-> w.runs, aborted |-> w.aborted]
  BY <1>1 DEF WorkerRecords
<1>5. v \in WorkerRecords
  BY <1>2, <1>4, WorkerIsTyped DEF WorkerRecords
<1>6. hasFinal(v, b) => hasFinal(w, b)
  BY <1>3, <1>4 DEF hasFinal
<1>7. ASSUME NEW i \in DOMAIN v.inbox, v.inbox[i].type = "task"
      PROVE  StartFits(b, T, v, i)
  <2>1. StartFits(b, T, w, i)
    BY <1>4, <1>7 DEF WorkerFits
  <2>. QED
    BY <1>4, <1>6, <2>1 DEF StartFits
<1>8. \A m \in ToSet(v.inbox) \cup ToSet(v.outbox) :
        m.task \in {NoTask, b} \/ T[m.task].state = "settled"
  BY <1>3, <1>4 DEF WorkerFits
<1>9. WorkerFits(b, T, v)
  BY <1>4, <1>6, <1>7, <1>8 DEF WorkerFits
<1>. QED
  BY <1>5, <1>9

(* It answers.                                                             *)
Answers == {"handshakeResult", "taskAccepted"} \cup FinalTypes

LEMMA AnsweredFacts ==
  ASSUME NEW w \in WorkerRecords, NEW t \in Task \cup {NoTask},
         NEW type \in Answers
  PROVE  LET v == answered(w, type, t) IN
         /\ v \in WorkerRecords
         /\ v.inbox = w.inbox /\ v.runs = w.runs /\ v.aborted = w.aborted
         /\ ToSet(v.outbox) = ToSet(w.outbox) \cup {Message(type, t)}
         /\ \A b : hasFinal(v, b) <=> hasFinal(w, b) \/ (type \in FinalTypes /\ t = b)
<1>. DEFINE m == Message(type, t)
<1>0. PICK v : v = answered(w, type, t)
  OBVIOUS
<1>1. m \in FromWorker /\ m.task = t /\ m.type = type
  BY DEF Message, FromWorker, FinalTypes, Answers
<1>2. PICK u : u = Append(w.outbox, m)
  OBVIOUS
<1>3. u \in Seq(FromWorker) /\ ToSet(u) = ToSet(w.outbox) \cup {m}
  BY <1>1, <1>2, WorkerIsTyped, AppendSet
<1>4. v = [w EXCEPT !.outbox = u]
  BY <1>0, <1>2 DEF answered
<1>5. /\ v.inbox = w.inbox /\ v.outbox = u /\ v.runs = w.runs /\ v.aborted = w.aborted
      /\ v = [inbox |-> w.inbox, outbox |-> u, runs |-> w.runs, aborted |-> w.aborted]
  BY <1>4 DEF WorkerRecords
<1>6. v \in WorkerRecords
  BY <1>3, <1>5, WorkerIsTyped DEF WorkerRecords
<1>7. \A b, ty : Message(ty, b) = m <=> ty = type /\ b = t
  <2>1. \A b, ty : Message(ty, b).type = ty /\ Message(ty, b).task = b
    BY DEF Message
  <2>. QED
    BY <1>1, <2>1
<1>8. \A b : hasFinal(v, b) <=> hasFinal(w, b) \/ (type \in FinalTypes /\ t = b)
  <2>. HIDE DEF m
  <2>. QED
    BY <1>3, <1>5, <1>7 DEF hasFinal
<1>. QED
  BY <1>0, <1>3, <1>5, <1>6, <1>8

LEMMA LastAnswer ==
  ASSUME NEW b \in Task, NEW T, NEW w \in WorkerRecords, w.runs = {},
         \A i \in DOMAIN w.inbox : w.inbox[i].type # "task",
         \A m \in ToSet(w.inbox) \cup ToSet(w.outbox) :
           m.task \in {NoTask, b} \/ T[m.task].state = "settled",
         NEW type \in FinalTypes
  PROVE  LET v == answered(w, type, b) IN v \in WorkerRecords /\ WorkerFits(b, T, v)
<1>. DEFINE v == answered(w, type, b)
<1>1. type \in Answers /\ b \in Task \cup {NoTask}
  BY DEF Answers
<1>2. /\ v \in WorkerRecords
      /\ v.inbox = w.inbox /\ v.runs = w.runs /\ v.aborted = w.aborted
      /\ ToSet(v.outbox) = ToSet(w.outbox) \cup {Message(type, b)}
  BY <1>1, AnsweredFacts
<1>3. Message(type, b).task = b
  BY DEF Message
<1>. HIDE DEF v
<1>4. \A m \in ToSet(v.inbox) \cup ToSet(v.outbox) :
        m.task \in {NoTask, b} \/ T[m.task].state = "settled"
  BY <1>2, <1>3
<1>5. WorkerFits(b, T, v)
  BY <1>2, <1>4 DEF WorkerFits
<1>. QED
  BY <1>2, <1>5 DEF v

LEMMA HandlerAnswers ==
  ASSUME NEW b, NEW T, NEW w \in WorkerRecords, WorkerFits(b, T, w),
         NEW t \in w.runs, NEW type \in FinalTypes, NEW v,
         v = answered([w EXCEPT !.runs = @ \ {t}, !.aborted = @ \ {t}], type, t)
  PROVE  v \in WorkerRecords /\ WorkerFits(b, T, v)
<1>1. PICK x : x = [w EXCEPT !.runs = @ \ {t}, !.aborted = @ \ {t}]
  OBVIOUS
<1>2. /\ x.inbox = w.inbox /\ x.outbox = w.outbox
      /\ x.runs = w.runs \ {t} /\ x.aborted = w.aborted \ {t}
      /\ x = [inbox |-> w.inbox, outbox |-> w.outbox,
              runs |-> w.runs \ {t}, aborted |-> w.aborted \ {t}]
  BY <1>1 DEF WorkerRecords
<1>3. x \in WorkerRecords
  BY <1>2, WorkerIsTyped DEF WorkerRecords
<1>4. t = b /\ t \in Task /\ x.runs = {}
  BY <1>2, WorkerIsTyped DEF WorkerFits
<1>5. \A i \in DOMAIN w.inbox : w.inbox[i].type # "task"
  BY DEF WorkerFits, StartFits
<1>6. v = answered(x, type, b)
  BY <1>1, <1>4
<1>7. \A m \in ToSet(x.inbox) \cup ToSet(x.outbox) :
        m.task \in {NoTask, b} \/ T[m.task].state = "settled"
  BY <1>2 DEF WorkerFits
<1>8. b \in Task /\ \A i \in DOMAIN x.inbox : x.inbox[i].type # "task"
  BY <1>2, <1>4, <1>5
<1>9. answered(x, type, b) \in WorkerRecords /\ WorkerFits(b, T, answered(x, type, b))
  BY <1>3, <1>4, <1>7, <1>8, LastAnswer
<1>. QED
  BY <1>6, <1>9

(* It reads a message.                                                     *)
read(w) == [w EXCEPT !.inbox = Tail(@)]

LEMMA InboxRead ==
  ASSUME NEW w \in WorkerRecords, w.inbox # <<>>
  PROVE  LET v == read(w) IN
         /\ v \in WorkerRecords
         /\ v.outbox = w.outbox /\ v.runs = w.runs /\ v.aborted = w.aborted
         /\ DOMAIN v.inbox \subseteq Nat /\ DOMAIN w.inbox \subseteq Nat
         /\ Head(w.inbox) = w.inbox[1] /\ 1 \in DOMAIN w.inbox
         /\ \A i \in DOMAIN v.inbox : i + 1 \in DOMAIN w.inbox /\ v.inbox[i] = w.inbox[i + 1]
         /\ \A i \in DOMAIN w.inbox :
              i > 1 => i - 1 \in DOMAIN v.inbox /\ v.inbox[i - 1] = w.inbox[i]
         /\ ToSet(w.inbox) = ToSet(v.inbox) \cup {Head(w.inbox)}
<1>0. PICK v : v = read(w)
  OBVIOUS
<1>1. PICK u : u = Tail(w.inbox)
  OBVIOUS
<1>2. u \in Seq(ToWorker) /\ Len(u) = Len(w.inbox) - 1 /\ Len(w.inbox) \in Nat \ {0}
      /\ (\A i \in 1 .. Len(u) : u[i] = w.inbox[i + 1])
      /\ Head(w.inbox) = w.inbox[1]
  BY <1>1, WorkerIsTyped, HeadTailProperties, HeadIsFirst
<1>3. /\ v.inbox = u /\ v.outbox = w.outbox /\ v.runs = w.runs /\ v.aborted = w.aborted
      /\ v = [inbox |-> u, outbox |-> w.outbox, runs |-> w.runs, aborted |-> w.aborted]
  BY <1>0, <1>1 DEF WorkerRecords, read
<1>4. v \in WorkerRecords
  BY <1>2, <1>3, WorkerIsTyped DEF WorkerRecords
<1>5. DOMAIN u = 1 .. Len(w.inbox) - 1 /\ DOMAIN w.inbox = 1 .. Len(w.inbox)
  BY <1>2, WorkerIsTyped, ToSetFacts
<1>6. /\ \A i \in DOMAIN u : i + 1 \in DOMAIN w.inbox /\ u[i] = w.inbox[i + 1]
      /\ \A i \in DOMAIN w.inbox : i > 1 => i - 1 \in DOMAIN u /\ u[i - 1] = w.inbox[i]
      /\ 1 \in DOMAIN w.inbox /\ DOMAIN u \subseteq Nat /\ DOMAIN w.inbox \subseteq Nat
  BY <1>2, <1>5
<1>7. \A i \in DOMAIN w.inbox : i > 1 \/ i = 1
  BY <1>2, <1>5
<1>8. ToSet(w.inbox) = ToSet(u) \cup {Head(w.inbox)}
  <2>1. ToSet(w.inbox) = {w.inbox[i] : i \in DOMAIN w.inbox} /\ ToSet(u) = {u[i] : i \in DOMAIN u}
    BY DEF ToSet
  <2>2. ToSet(w.inbox) \subseteq ToSet(u) \cup {Head(w.inbox)}
    BY <1>2, <1>6, <1>7, <2>1
  <2>3. ToSet(u) \cup {Head(w.inbox)} \subseteq ToSet(w.inbox)
    BY <1>2, <1>6, <2>1
  <2>. QED
    BY <2>2, <2>3
<1>. QED
  BY <1>0, <1>2, <1>3, <1>4, <1>6, <1>8

(* T2 counts the tasks that new, but not v, runs as started once more.     *)
Starts(T, v, new) ==
  [t \in Task |-> IF t \in new.runs \ v.runs THEN [T[t] EXCEPT !.starts = @ + 1] ELSE T[t]]

StartsOnly(T, b, T2) ==
  \A t \in Task :
    T2[t] = T[t] \/ (/\ t = b /\ T[t].starts <= T[t].replays
                     /\ T2[t] = [T[t] EXCEPT !.starts = @ + 1])

LEMMA WorkerReads ==
  ASSUME NEW b \in Task \cup {NoTask}, NEW T \in [Task -> TaskRecords],
         NEW w \in WorkerRecords, WorkerFits(b, T, w), w.inbox # <<>>,
         NEW v, v = read(w),
         NEW new \in receives(v, Head(w.inbox)),
         NEW T2, T2 = Starts(T, v, new)
  PROVE  /\ new \in WorkerRecords
         /\ WorkerFits(b, T2, new)
         /\ StartsOnly(T, b, T2)
<1>. DEFINE m == Head(w.inbox)
<1>1. /\ v \in WorkerRecords
      /\ v.outbox = w.outbox /\ v.runs = w.runs /\ v.aborted = w.aborted
      /\ DOMAIN v.inbox \subseteq Nat /\ DOMAIN w.inbox \subseteq Nat
      /\ m = w.inbox[1] /\ 1 \in DOMAIN w.inbox
      /\ \A i \in DOMAIN v.inbox : i + 1 \in DOMAIN w.inbox /\ v.inbox[i] = w.inbox[i + 1]
      /\ \A i \in DOMAIN w.inbox :
           i > 1 => i - 1 \in DOMAIN v.inbox /\ v.inbox[i - 1] = w.inbox[i]
      /\ ToSet(w.inbox) = ToSet(v.inbox) \cup {m}
  BY InboxRead
<1>2. m \in ToWorker /\ m.task \in Task \cup {NoTask}
      /\ m.type \in {"handshake", "task", "cancelTask"}
  <2>1. m \in ToWorker
    BY <1>1, WorkerIsTyped, ElementOfSeq
  <2>. HIDE DEF m
  <2>. QED
    BY <2>1 DEF ToWorker
<1>0. {"handshakeResult", "taskAccepted", "taskFailed"} \subseteq Answers
      /\ FinalTypes = {"taskSucceeded", "taskFailed", "taskCancelled"}
  BY DEF Answers, FinalTypes
<1>3. hasFinal(v, b) <=> hasFinal(w, b)
  BY <1>1 DEF hasFinal
<1>4. \A x \in ToSet(v.inbox) \cup ToSet(v.outbox) :
        x.task \in {NoTask, b} \/ T[x.task].state = "settled"
  BY <1>1 DEF WorkerFits
<1>. HIDE DEF m
<1>5. ASSUME m.type # "task", NEW i \in DOMAIN v.inbox, v.inbox[i].type = "task"
      PROVE  /\ v.inbox[i].task = b /\ b # NoTask /\ w.runs = {} /\ ~hasFinal(w, b)
             /\ \A j \in DOMAIN v.inbox : v.inbox[j].type = "task" => j = i
             /\ T[b].starts <= T[b].replays
             /\ T[b].cancelling => \E j \in DOMAIN v.inbox :
                                      j > i /\ v.inbox[j] = Message("cancelTask", b)
  <2>1. StartFits(b, T, w, i + 1) /\ i \in Nat /\ i + 1 \in DOMAIN w.inbox /\ v.inbox[i] = w.inbox[i + 1]
    BY <1>1, <1>5 DEF WorkerFits
  <2>2. \A j \in DOMAIN v.inbox : v.inbox[j].type = "task" => j = i
    <3>1. TAKE j \in DOMAIN v.inbox
    <3>2. HAVE v.inbox[j].type = "task"
    <3>3. j + 1 \in DOMAIN w.inbox /\ w.inbox[j + 1].type = "task" /\ j \in Nat
      BY <1>1, <3>2
    <3>4. j + 1 = i + 1
      BY <2>1, <3>3 DEF StartFits
    <3>. QED
      BY <2>1, <3>3, <3>4
  <2>3. ASSUME T[b].cancelling
        PROVE  \E j \in DOMAIN v.inbox : j > i /\ v.inbox[j] = Message("cancelTask", b)
    <3>1. PICK j \in DOMAIN w.inbox : j > i + 1 /\ w.inbox[j] = Message("cancelTask", b)
      BY <2>1, <2>3 DEF StartFits
    <3>2. j \in Nat /\ j > 1 /\ j - 1 > i
      BY <1>1, <2>1, <3>1
    <3>3. j - 1 \in DOMAIN v.inbox /\ v.inbox[j - 1] = w.inbox[j]
      BY <1>1, <3>2
    <3>. QED
      BY <3>1, <3>2, <3>3
  <2>. QED
    BY <2>1, <2>2, <2>3 DEF StartFits
<1>6. ASSUME new.runs \ v.runs = {}
      PROVE  T2 = T
  BY <1>6 DEF Starts
<1>7. CASE m.type = "handshake"
  <2>1. new = answered(v, "handshakeResult", NoTask)
    BY <1>7 DEF receives, m
  <2>2. /\ new \in WorkerRecords
        /\ new.inbox = v.inbox /\ new.runs = v.runs /\ new.aborted = v.aborted
        /\ ToSet(new.outbox) = ToSet(v.outbox) \cup {Message("handshakeResult", NoTask)}
        /\ hasFinal(new, b) <=> hasFinal(v, b)
    <3>1. v \in WorkerRecords /\ NoTask \in Task \cup {NoTask}
          /\ "handshakeResult" \in Answers /\ "handshakeResult" \notin FinalTypes
      BY <1>0, <1>1
    <3>. QED
      BY <2>1, <3>1, AnsweredFacts
  <2>3. T2 = T
    BY <1>6, <2>2
  <2>4. \A i \in DOMAIN new.inbox : new.inbox[i].type = "task" => StartFits(b, T, new, i)
    BY <1>1, <1>3, <1>5, <1>7, <2>2 DEF StartFits
  <2>5. Message("handshakeResult", NoTask).task = NoTask /\ Message("cancelTask", b).type = "cancelTask"
    BY DEF Message
  <2>6. \A x \in ToSet(new.inbox) \cup ToSet(new.outbox) :
          x.task \in {NoTask, b} \/ T[x.task].state = "settled"
    BY <1>4, <2>2, <2>5
  <2>7. b \in new.runs /\ T[b].cancelling =>
          b \in new.aborted \/ Message("cancelTask", b) \in ToSet(new.inbox)
    BY <1>1, <1>7, <2>2, <2>5 DEF WorkerFits
  <2>8. WorkerFits(b, T, new)
    BY <1>1, <1>3, <2>2, <2>4, <2>6, <2>7 DEF WorkerFits
  <2>. QED
    BY <2>2, <2>3, <2>8 DEF StartsOnly
<1>8. CASE m.type = "cancelTask"
  <2>1. new = [v EXCEPT !.aborted = @ \cup (v.runs \cap {m.task})]
    BY <1>8 DEF receives, m
  <2>2. /\ new.inbox = v.inbox /\ new.outbox = v.outbox
        /\ new.runs = v.runs /\ new.aborted = v.aborted \cup (v.runs \cap {m.task})
        /\ new = [inbox |-> v.inbox, outbox |-> v.outbox, runs |-> v.runs,
                  aborted |-> v.aborted \cup (v.runs \cap {m.task})]
    BY <1>1, <2>1 DEF WorkerRecords
  <2>3. new \in WorkerRecords
    BY <1>1, <2>2, WorkerIsTyped DEF WorkerRecords
  <2>4. T2 = T
    BY <1>6, <2>2
  <2>5. hasFinal(new, b) <=> hasFinal(v, b)
    BY <2>2 DEF hasFinal
  <2>6. \A i \in DOMAIN new.inbox : new.inbox[i].type = "task" => StartFits(b, T, new, i)
    BY <1>1, <1>3, <1>5, <1>8, <2>2, <2>5 DEF StartFits
  <2>7. b \in new.runs /\ T[b].cancelling =>
          b \in new.aborted \/ Message("cancelTask", b) \in ToSet(new.inbox)
    <3>1. Message("cancelTask", b).task = b
      BY DEF Message
    <3>. QED
      BY <1>1, <2>2, <3>1 DEF WorkerFits
  <2>8. WorkerFits(b, T, new)
    BY <1>1, <1>3, <1>4, <2>2, <2>5, <2>6, <2>7 DEF WorkerFits
  <2>. QED
    BY <2>3, <2>4, <2>8 DEF StartsOnly
<1>9. CASE m.type = "task"
  <2>1. StartFits(b, T, w, 1) /\ m.task = b /\ b # NoTask /\ b \in Task
    BY <1>1, <1>9 DEF WorkerFits, StartFits
  <2>2. \A i \in DOMAIN v.inbox : v.inbox[i].type # "task"
    <3>1. TAKE i \in DOMAIN v.inbox
    <3>2. i \in Nat /\ i + 1 \in DOMAIN w.inbox /\ v.inbox[i] = w.inbox[i + 1] /\ i + 1 # 1
      <4>1. i \in Nat /\ i + 1 \in DOMAIN w.inbox /\ v.inbox[i] = w.inbox[i + 1] /\ i \in DOMAIN v.inbox
        BY <1>1, <3>1
      <4>2. i # 0
        BY <1>1, <4>1, WorkerIsTyped
      <4>. QED
        BY <4>1, <4>2
    <3>. QED
      BY <2>1, <3>2 DEF StartFits
  <2>3. v.runs = {} /\ ~hasFinal(v, b)
    BY <1>1, <1>3, <2>1 DEF StartFits
  <2>4. CASE new = answered(v, "taskFailed", b)
    <3>1. WorkerFits(b, T, new) /\ new \in WorkerRecords
      BY <1>0, <1>1, <1>4, <2>1, <2>2, <2>3, <2>4, LastAnswer
    <3>2. new.runs = v.runs
      BY <1>1, <2>4 DEF answered, WorkerRecords
    <3>3. T2 = T
      BY <1>6, <3>2
    <3>. QED
      BY <3>1, <3>3 DEF StartsOnly
  <2>5. CASE new = answered([v EXCEPT !.runs = @ \cup {b}], "taskAccepted", b)
    <3>1. PICK x : x = [v EXCEPT !.runs = @ \cup {b}]
      OBVIOUS
    <3>2. /\ x.inbox = v.inbox /\ x.outbox = v.outbox
          /\ x.runs = {b} /\ x.aborted = v.aborted
          /\ x = [inbox |-> v.inbox, outbox |-> v.outbox, runs |-> {b},
                  aborted |-> v.aborted]
      BY <1>1, <2>3, <3>1 DEF WorkerRecords
    <3>3. x \in WorkerRecords
      BY <1>1, <2>1, <3>2, WorkerIsTyped DEF WorkerRecords
    <3>4. new = answered(x, "taskAccepted", b)
      BY <2>5, <3>1
    <3>6. /\ new \in WorkerRecords
          /\ new.inbox = x.inbox /\ new.runs = x.runs /\ new.aborted = x.aborted
          /\ ToSet(new.outbox) = ToSet(x.outbox) \cup {Message("taskAccepted", b)}
          /\ hasFinal(new, b) <=> hasFinal(x, b)
      <4>1. "taskAccepted" \in Answers /\ "taskAccepted" \notin FinalTypes
        BY <1>0
      <4>. QED
        BY <3>3, <3>4, <4>1, AnsweredFacts
    <3>7. /\ new \in WorkerRecords
          /\ new.inbox = v.inbox /\ new.runs = {b}
          /\ ToSet(new.outbox) = ToSet(v.outbox) \cup {Message("taskAccepted", b)}
          /\ ~hasFinal(new, b)
      <4>1. ~hasFinal(x, b)
        BY <2>3, <3>2 DEF hasFinal
      <4>. QED
        BY <3>2, <3>6, <4>1
    <3>8. /\ \A t \in Task \ {b} : T2[t] = T[t]
          /\ T2[b] = [T[b] EXCEPT !.starts = @ + 1]
      BY <2>1, <2>3, <3>7 DEF Starts
    <3>9. T[b] \in TaskRecords /\ T[b].starts <= T[b].replays
      BY <2>1 DEF StartFits
    <3>10. /\ T2[b].state = T[b].state /\ T2[b].cancelling = T[b].cancelling
      BY <3>8, <3>9 DEF TaskRecords
    <3>11. Message("taskAccepted", b).task = b
      BY DEF Message
    <3>12. \A z \in ToSet(new.inbox) \cup ToSet(new.outbox) :
             z.task \in {NoTask, b} \/ T2[z.task].state = "settled"
      <4>1. \A z \in ToSet(v.inbox) \cup ToSet(v.outbox) :
              z.task \in {NoTask, b} \/ (z.task \in Task \ {b} /\ T[z.task].state = "settled")
        BY <1>1, <1>4, WorkerIsTyped
      <4>. QED
        BY <3>7, <3>8, <3>11, <4>1
    <3>13. T2[b].cancelling => Message("cancelTask", b) \in ToSet(new.inbox)
      <4>1. SUFFICES ASSUME T[b].cancelling
                     PROVE  Message("cancelTask", b) \in ToSet(v.inbox)
        BY <3>7, <3>10
      <4>2. PICK j \in DOMAIN w.inbox : j > 1 /\ w.inbox[j] = Message("cancelTask", b)
        BY <2>1, <4>1 DEF StartFits
      <4>3. j - 1 \in DOMAIN v.inbox /\ v.inbox[j - 1] = Message("cancelTask", b)
        BY <1>1, <4>2
      <4>. QED
        BY <4>3 DEF ToSet
    <3>14. WorkerFits(b, T2, new)
      BY <2>2, <3>7, <3>12, <3>13 DEF WorkerFits
    <3>. QED
      BY <3>7, <3>8, <3>9, <3>14 DEF StartsOnly
  <2>6. \/ new = answered(v, "taskFailed", b)
        \/ new = answered([v EXCEPT !.runs = @ \cup {b}], "taskAccepted", b)
    BY <1>9, <2>1 DEF receives, m
  <2>. QED
    BY <2>4, <2>5, <2>6
<1>. QED
  BY <1>2, <1>7, <1>8, <1>9 DEF StartsOnly

-----------------------------------------------------------------------------
(* Finite sets of tasks and slots.                                         *)

LEMMA TasksAreFinite ==
  ASSUME NEW F \in SUBSET Task
  PROVE  IsFiniteSet(F) /\ Cardinality(F) \in Nat
<1>1. IsFiniteSet(Task)
  BY NumbersAssumption, FS_Interval DEF Task
<1>. QED
  BY <1>1, FS_Subset, FS_CardinalityType

LEMMA SlotsAreFinite ==
  ASSUME NEW P \in SUBSET Slot
  PROVE  IsFiniteSet(P) /\ Cardinality(P) \in Nat
BY SlotsAssumption, FS_Subset, FS_CardinalityType

LEMMA InjectiveCardinality ==
  ASSUME NEW n \in Nat, NEW A, NEW f \in [1 .. n -> A], IsInjective(f)
  PROVE  IsFiniteSet(ToSet(f)) /\ Cardinality(ToSet(f)) = n
<1>1. IsFiniteSet(1 .. n) /\ Cardinality(1 .. n) = n
  BY FS_Interval
<1>2. f \in Bijection(1 .. n, ToSet(f))
  <2>1. DOMAIN f = 1 .. n /\ ToSet(f) = {f[i] : i \in 1 .. n}
    BY DEF ToSet
  <2>2. f \in [1 .. n -> ToSet(f)]
    BY <2>1
  <2>3. \A x \in ToSet(f) : \E i \in 1 .. n : f[i] = x
    BY <2>1
  <2>. QED
    BY <2>1, <2>2, <2>3 DEF Bijection, Injection, Surjection, IsInjective
<1>3. ExistsBijection(1 .. n, ToSet(f))
  BY <1>2 DEF ExistsBijection
<1>. QED
  BY <1>1, <1>3, FS_Bijection

-----------------------------------------------------------------------------
(* What #dispatchWorker and #dispatchFallback leave of the tasks in F.     *)

GivenToWorkers(T, q, S, W, F, place, T2, q2, S2, W2) ==
  /\ q2 = without(q, F)
  /\ T2 \in [Task -> TaskRecords]
  /\ \A t \in Task \ F : T2[t] = T[t]
  /\ \A t \in F : T2[t] = [T[t] EXCEPT !.state = "running", !.slot = place[t],
                                       !.timeout = TRUE]
  /\ S2 \in [Slot -> SlotRecords]
  /\ \A s \in Slot : (\A t \in F : place[t] # s) => S2[s] = S[s] /\ W2[s] = W[s]
  /\ \A t \in F :
       /\ S2[place[t]] = [S[place[t]] EXCEPT !.busy = t]
       /\ W2[place[t]] = [W[place[t]] EXCEPT !.inbox = Append(@, Message("task", t))]
  /\ W2 = [s \in Slot |-> W2[s]]

GivenToFallback(T, q, S, W, F, T2, q2, S2, W2) ==
  /\ q2 = without(q, F)
  /\ T2 \in [Task -> TaskRecords]
  /\ \A t \in Task \ F : T2[t] = T[t]
  /\ \A t \in F : T2[t] = [T[t] EXCEPT !.state = "running", !.fallback = TRUE,
                                       !.timeout = TRUE, !.accepted = "ok"]
  /\ S2 = S /\ W2 = W

LEMMA DispatchedToWorkers ==
  ASSUME NEW T, NEW q, NEW S, NEW C, NEW W, TypesFit(T, q, S, C, W),
         NEW taken, NEW F \in SUBSET Task, F = ToSet(taken),
         NEW place \in [F -> Slot], IsInjective(place),
         dispatched(T, q, S, C, W, taken, place)
  PROVE  GivenToWorkers(T, q, S, W, F, place, task', queue', slot', worker')
<1>. DEFINE at(s) == {t \in F : place[t] = s}
<1>1. \A t \in F : place[t] \in Slot /\ place[t] # NoSlot
  BY SlotsAssumption
<1>2. \A t \in F : at(place[t]) = {t} /\ (CHOOSE u \in at(place[t]) : TRUE) = t
  <2>1. \A t \in F : at(place[t]) = {t}
    BY DEF IsInjective
  <2>. QED
    BY <2>1
<1>3. /\ queue' = without(q, F)
      /\ task' = [t \in Task |->
           IF t \notin F THEN T[t]
           ELSE IF place[t] = NoSlot
             THEN [T[t] EXCEPT !.state = "running", !.fallback = TRUE,
                               !.timeout = TRUE, !.accepted = "ok"]
             ELSE [T[t] EXCEPT !.state = "running", !.slot = place[t],
                               !.timeout = TRUE]]
      /\ slot' = [s \in Slot |-> IF at(s) = {} THEN S[s]
                    ELSE [S[s] EXCEPT !.busy = CHOOSE t \in at(s) : TRUE]]
      /\ worker' = [s \in Slot |-> IF at(s) = {} THEN W[s]
                      ELSE [W[s] EXCEPT !.inbox =
                              Append(@, Message("task", CHOOSE t \in at(s) : TRUE))]]
  BY DEF dispatched
<1>4. /\ \A t \in Task \ F : task'[t] = T[t]
      /\ \A t \in F : task'[t] = [T[t] EXCEPT !.state = "running", !.slot = place[t],
                                              !.timeout = TRUE]
  BY <1>1, <1>3
<1>5. task' \in [Task -> TaskRecords]
  <2>1. ASSUME NEW t \in Task
        PROVE  task'[t] \in TaskRecords
    <3>1. T[t] \in TaskRecords
      BY DEF TypesFit
    <3>2. CASE t \in F
      BY <1>1, <1>4, <3>1, <3>2 DEF TaskRecords, TaskStates
    <3>. QED
      BY <1>4, <3>1, <3>2
  <2>. QED
    BY <1>3, <2>1
<1>6. \A s \in Slot : (\A t \in F : place[t] # s) => slot'[s] = S[s] /\ worker'[s] = W[s]
  <2>1. \A s \in Slot : (\A t \in F : place[t] # s) => at(s) = {}
    OBVIOUS
  <2>. HIDE DEF at
  <2>. QED
    BY <1>3, <2>1
<1>7. \A t \in F :
        /\ slot'[place[t]] = [S[place[t]] EXCEPT !.busy = t]
        /\ worker'[place[t]] = [W[place[t]] EXCEPT !.inbox = Append(@, Message("task", t))]
  <2>. HIDE DEF at
  <2>. QED
    BY <1>1, <1>2, <1>3
<1>8. slot' \in [Slot -> SlotRecords]
  <2>1. ASSUME NEW s \in Slot
        PROVE  slot'[s] \in SlotRecords
    <3>1. S[s] \in SlotRecords
      BY DEF TypesFit
    <3>2. ASSUME NEW t \in F, place[t] = s
          PROVE  slot'[s] \in SlotRecords
      <4>1. slot'[s] = [S[s] EXCEPT !.busy = t] /\ t \in Task
        BY <1>7, <3>2
      <4>. QED
        BY <3>1, <4>1 DEF SlotRecords
    <3>. QED
      BY <1>6, <3>1, <3>2
  <2>2. slot' = [s \in Slot |-> slot'[s]]
    <3>. HIDE DEF at
    <3>. QED
      BY <1>3
  <2>. QED
    BY <2>1, <2>2
<1>9. worker' = [s \in Slot |-> worker'[s]]
  <2>. HIDE DEF at
  <2>. QED
    BY <1>3
<1>. QED
  BY <1>3, <1>4, <1>5, <1>6, <1>7, <1>8, <1>9 DEF GivenToWorkers

LEMMA FallbackRecord ==
  ASSUME NEW r \in TaskRecords
  PROVE  [r EXCEPT !.state = "running", !.fallback = TRUE, !.timeout = TRUE,
                   !.accepted = "ok"] \in TaskRecords
<1>1. [r EXCEPT !.state = "running"] \in TaskRecords
  BY DEF TaskRecords, TaskStates
<1>2. \A x \in TaskRecords : [x EXCEPT !.fallback = TRUE] \in TaskRecords
  BY DEF TaskRecords
<1>3. \A x \in TaskRecords : [x EXCEPT !.timeout = TRUE] \in TaskRecords
  BY DEF TaskRecords
<1>4. \A x \in TaskRecords : [x EXCEPT !.accepted = "ok"] \in TaskRecords
  BY DEF TaskRecords
<1>. QED
  BY <1>1, <1>2, <1>3, <1>4

LEMMA DispatchedToFallback ==
  ASSUME NEW T, NEW q, NEW S, NEW C, NEW W, TypesFit(T, q, S, C, W),
         NEW taken, NEW F \in SUBSET Task, F = ToSet(taken),
         NEW place \in [F -> {NoSlot}],
         dispatched(T, q, S, C, W, taken, place)
  PROVE  GivenToFallback(T, q, S, W, F, task', queue', slot', worker')
<1>. DEFINE at(s) == {t \in F : place[t] = s}
<1>1. \A s \in Slot : at(s) = {}
  BY SlotsAssumption
<1>2. /\ queue' = without(q, F)
      /\ task' = [t \in Task |->
           IF t \notin F THEN T[t]
           ELSE IF place[t] = NoSlot
             THEN [T[t] EXCEPT !.state = "running", !.fallback = TRUE,
                               !.timeout = TRUE, !.accepted = "ok"]
             ELSE [T[t] EXCEPT !.state = "running", !.slot = place[t],
                               !.timeout = TRUE]]
      /\ slot' = [s \in Slot |-> IF at(s) = {} THEN S[s]
                    ELSE [S[s] EXCEPT !.busy = CHOOSE t \in at(s) : TRUE]]
      /\ worker' = [s \in Slot |-> IF at(s) = {} THEN W[s]
                      ELSE [W[s] EXCEPT !.inbox =
                              Append(@, Message("task", CHOOSE t \in at(s) : TRUE))]]
  BY DEF dispatched
<1>3. slot' = S /\ worker' = W
  <2>. HIDE DEF at
  <2>. QED
    BY <1>1, <1>2 DEF TypesFit
<1>4. /\ \A t \in Task \ F : task'[t] = T[t]
      /\ \A t \in F : task'[t] = [T[t] EXCEPT !.state = "running", !.fallback = TRUE,
                                              !.timeout = TRUE, !.accepted = "ok"]
  BY <1>2
<1>5. task' \in [Task -> TaskRecords]
  <2>1. ASSUME NEW t \in Task
        PROVE  task'[t] \in TaskRecords
    <3>1. T[t] \in TaskRecords
      BY DEF TypesFit
    <3>2. CASE t \in F
      BY <1>4, <3>1, <3>2, FallbackRecord
    <3>. QED
      BY <1>4, <3>1, <3>2
  <2>. QED
    BY <1>2, <2>1
<1>. QED
  BY <1>2, <1>3, <1>4, <1>5 DEF GivenToFallback

(* The queued tasks in F begin to run.                                     *)
Begins(T, F, T2) ==
  /\ F \subseteq Queued(T)
  /\ \A t \in Task \ F : T2[t] = T[t]
  /\ \A t \in F :
       /\ T2[t].state = "running" /\ T2[t].kind = T[t].kind
       /\ T2[t].replays = T[t].replays /\ T2[t].starts = T[t].starts
       /\ T2[t].cancelling = T[t].cancelling

LEMMA BeginsTasks ==
  ASSUME NEW n, NEW T, NEW F, NEW T2, T \in [Task -> TaskRecords],
         TasksFit(n, T), Begins(T, F, T2)
  PROVE  /\ TasksFit(n, T2)
         /\ ~Unsettles(T, T2)
         /\ \A t \in F : T2[t].starts <= T2[t].replays /\ ~T2[t].cancelling
<1>1. ASSUME NEW t \in F
      PROVE  /\ t \in Task /\ T[t].state = "queued" /\ RecordFits(T[t]) /\ ~(t > n)
             /\ T[t].starts \in Nat /\ T[t].replays \in Nat
  <2>1. t \in Task /\ T[t].state = "queued" /\ RecordFits(T[t])
    BY DEF Begins, Queued, TasksFit
  <2>2. ~(t > n)
    BY <2>1 DEF TasksFit, NewTask
  <2>3. T[t].starts \in Nat /\ T[t].replays \in Nat
    BY <2>1, NumbersAssumption DEF TaskRecords
  <2>. QED
    BY <2>1, <2>2, <2>3
<1>2. \A t \in F : T2[t].starts <= T2[t].replays /\ ~T2[t].cancelling
  BY <1>1 DEF Begins, RecordFits
<1>3. ~Unsettles(T, T2)
  BY <1>1 DEF Begins, Unsettles
<1>4. TasksFit(n, T2)
  <2>1. ASSUME NEW t \in Task
        PROVE  RecordFits(T2[t]) /\ (t > n => T2[t] = NewTask)
    <3>1. CASE t \in F
      <4>1. /\ T2[t].state = "running" /\ T2[t].kind = T[t].kind
            /\ T2[t].replays = T[t].replays /\ T2[t].starts = T[t].starts
        BY <3>1 DEF Begins
      <4>. QED
        BY <1>1, <3>1, <4>1 DEF RecordFits
    <3>2. CASE t \notin F
      BY <3>2 DEF Begins, TasksFit
    <3>. QED
      BY <3>1, <3>2
  <2>. QED
    BY <2>1 DEF TasksFit
<1>. QED
  BY <1>2, <1>3, <1>4

(* The counts of the instances whose tasks F begin to run.                 *)
begunStats(C, T, F) ==
  [i \in Instance |->
    [queued |-> minus(C[i].queued, Cardinality(Of(F, T, i))),
     running |-> C[i].running + Cardinality(Of(F, T, i))]]

LEMMA BeginsCounts ==
  ASSUME NEW h, NEW T, NEW F, NEW T2, NEW C, NEW C2,
         C \in [Instance -> [queued : Nat, running : Nat]],
         CountsFit(h, T, C), QuotaFits(T), Begins(T, F, T2), C2 = begunStats(C, T, F)
  PROVE  /\ C2 \in [Instance -> [queued : Nat, running : Nat]]
         /\ CountsFit(h, T2, C2) /\ QuotaFits(T2)
<1>1. F \subseteq Task /\ F \subseteq Queued(T) /\ \A t \in F : T2[t].state = "running"
  BY DEF Begins, Queued
<1>2. \A t \in Task : T2[t].kind = T[t].kind /\ T2[t].cancelling = T[t].cancelling
  BY DEF Begins
<1>3. Queued(T2) = Queued(T) \ F /\ Running(T2) = Running(T) \cup F /\ Live(T2) = Live(T)
      /\ Running(T) \cap F = {}
  BY <1>1 DEF Begins, Queued, Running, Live
<1>4. ASSUME NEW i \in Instance
      PROVE  /\ Cardinality(Of(F, T, i)) \in Nat
             /\ Cardinality(Of(Queued(T2), T2, i))
                  = Cardinality(Of(Queued(T), T, i)) - Cardinality(Of(F, T, i))
             /\ Cardinality(Of(Running(T2), T2, i))
                  = Cardinality(Of(Running(T), T, i)) + Cardinality(Of(F, T, i))
             /\ Cardinality(Of(Queued(T2), T2, i)) \in Nat
             /\ Cardinality(Of(Queued(T), T, i)) \in Nat
             /\ Cardinality(Of(Running(T), T, i)) \in Nat
  <2>. DEFINE A == Of(F, T, i)
              Q == Of(Queued(T), T, i)
              R == Of(Running(T), T, i)
  <2>1. A \in SUBSET Task /\ Q \in SUBSET Task /\ R \in SUBSET Task
    BY <1>1 DEF Of, Queued, Running
  <2>2. Of(Queued(T2), T2, i) = Q \ A
    BY <1>1, <1>2, <1>3 DEF Of, Queued
  <2>3. Of(Running(T2), T2, i) = R \cup A
    BY <1>1, <1>2, <1>3 DEF Of, Running
  <2>4. Q \cap A = A /\ R \cap A = {}
    BY <1>1, <1>3 DEF Of
  <2>5. IsFiniteSet(A) /\ IsFiniteSet(Q) /\ IsFiniteSet(R)
        /\ Cardinality(A) \in Nat /\ Cardinality(Q) \in Nat /\ Cardinality(R) \in Nat
    BY <2>1, TasksAreFinite
  <2>. HIDE DEF A, Q, R
  <2>6. Cardinality(Q \ A) = Cardinality(Q) - Cardinality(A)
    BY <2>4, <2>5, FS_Difference
  <2>7. Cardinality(R \cup A) = Cardinality(R) + Cardinality(A)
    <3>1. Cardinality(R \cup A) = Cardinality(R) + Cardinality(A) - Cardinality(R \cap A)
      BY <2>5, FS_Union
    <3>2. Cardinality(R \cap A) = 0
      BY <2>4, FS_EmptySet
    <3>. QED
      BY <2>5, <3>1, <3>2
  <2>8. Cardinality(Q \ A) \in Nat
    BY <2>1, TasksAreFinite
  <2>. QED
    BY <2>2, <2>3, <2>5, <2>6, <2>7, <2>8 DEF A, Q, R
<1>5. \A i \in Instance :
        /\ C2[i].queued = minus(C[i].queued, Cardinality(Of(F, T, i)))
        /\ C2[i].running = C[i].running + Cardinality(Of(F, T, i))
  BY DEF begunStats
<1>6. C2 \in [Instance -> [queued : Nat, running : Nat]]
  <2>1. ASSUME NEW i \in Instance
        PROVE  /\ minus(C[i].queued, Cardinality(Of(F, T, i))) \in Nat
               /\ C[i].running + Cardinality(Of(F, T, i)) \in Nat
    <3>1. C[i].queued \in Nat /\ C[i].running \in Nat
      OBVIOUS
    <3>. QED
      BY <1>4, <3>1 DEF minus
  <2>. QED
    BY <2>1 DEF begunStats
<1>7. CountsFit(h, T2, C2)
  <2>1. ASSUME NEW i \in Instance, CanRun(h), ~isReplayed(i)
        PROVE  /\ C2[i].queued = Cardinality(Of(Queued(T2), T2, i))
               /\ C2[i].running = Cardinality(Of(Running(T2), T2, i))
    <3>1. /\ C[i].queued = Cardinality(Of(Queued(T), T, i))
          /\ C[i].running = Cardinality(Of(Running(T), T, i))
      BY <2>1 DEF CountsFit
    <3>. QED
      BY <1>4, <1>5, <3>1 DEF minus
  <2>. QED
    BY <2>1 DEF CountsFit
<1>8. QuotaFits(T2)
  <2>1. \A i \in Instance : {t \in Of(Live(T2), T2, i) : ~T2[t].cancelling}
                              = {t \in Of(Live(T), T, i) : ~T[t].cancelling}
    BY <1>2, <1>3 DEF Of, Live
  <2>. QED
    BY <2>1 DEF QuotaFits
<1>. QED
  BY <1>6, <1>7, <1>8

LEMMA GivenToWorkersFits ==
  ASSUME NEW h, NEW d, NEW n, NEW T, NEW q, NEW S, NEW C, NEW W,
         Fits(h, d, n, T, q, S, C, W), ~d, CanRun(h),
         NEW F \in SUBSET Task, F \subseteq Queued(T),
         NEW place \in [F -> Idle(S)], IsInjective(place),
         NEW T2, NEW q2, NEW S2, NEW C2, NEW W2, C2 = begunStats(C, T, F),
         GivenToWorkers(T, q, S, W, F, place, T2, q2, S2, W2)
  PROVE  Fits(h, d, n, T2, q2, S2, C2, W2)
<1>1. /\ TypesFit(T, q, S, C, W) /\ TasksFit(n, T) /\ PlacesFit(h, T, q, S)
      /\ SlotsFit(d, T, S) /\ WorkersFit(T, S, W) /\ CountsFit(h, T, C) /\ QuotaFits(T)
  BY DEF Fits
<1>2. /\ T \in [Task -> TaskRecords] /\ q \in Seq(Task) /\ S \in [Slot -> SlotRecords]
      /\ C \in [Instance -> [queued : Nat, running : Nat]]
      /\ W \in [Slot -> WorkerRecords]
  BY <1>1 DEF TypesFit
<1>3. Idle(S) \subseteq Slot /\ place \in [F -> Slot]
  BY DEF Idle
<1>4. /\ q2 = without(q, F)
      /\ T2 \in [Task -> TaskRecords]
      /\ \A t \in Task \ F : T2[t] = T[t]
      /\ \A t \in F : T2[t] = [T[t] EXCEPT !.state = "running", !.slot = place[t],
                                              !.timeout = TRUE]
      /\ S2 \in [Slot -> SlotRecords]
      /\ \A s \in Slot : (\A t \in F : place[t] # s) => S2[s] = S[s] /\ W2[s] = W[s]
      /\ \A t \in F :
           /\ S2[place[t]] = [S[place[t]] EXCEPT !.busy = t]
           /\ W2[place[t]] =
                [W[place[t]] EXCEPT !.inbox = Append(@, Message("task", t))]
      /\ W2 = [s \in Slot |-> W2[s]]
  BY DEF GivenToWorkers
<1>5. ASSUME NEW t \in F
      PROVE  /\ T2[t].state = "running" /\ T2[t].slot = place[t]
             /\ T2[t].kind = T[t].kind /\ T2[t].fallback = T[t].fallback
             /\ T2[t].replays = T[t].replays /\ T2[t].starts = T[t].starts
             /\ T2[t].cancelling = T[t].cancelling
  <2>1. T[t] \in TaskRecords
    BY <1>2
  <2>2. T2[t] = [T[t] EXCEPT !.state = "running", !.slot = place[t], !.timeout = TRUE]
    BY <1>4
  <2>. QED
    BY <2>1, <2>2 DEF TaskRecords
<1>6. Begins(T, F, T2)
  BY <1>4, <1>5 DEF Begins
<1>7. /\ TasksFit(n, T2) /\ ~Unsettles(T, T2)
      /\ \A t \in F : T2[t].starts <= T2[t].replays /\ ~T2[t].cancelling
  BY <1>1, <1>2, <1>6, BeginsTasks
<1>8. /\ C2 \in [Instance -> [queued : Nat, running : Nat]]
      /\ CountsFit(h, T2, C2) /\ QuotaFits(T2)
  <2>1. CountsFit(h, T, C) /\ QuotaFits(T)
    BY <1>1
  <2>2. C \in [Instance -> [queued : Nat, running : Nat]]
    BY <1>2
  <2>. QED
    BY <1>6, <2>1, <2>2, BeginsCounts
<1>9. \A t \in F : T[t].state = "queued" /\ ~T[t].fallback /\ t # NoTask
  <2>1. \A t \in F : T[t].state = "queued" /\ RecordFits(T[t])
    BY <1>1 DEF TasksFit, Queued
  <2>. QED
    BY <2>1, NoTaskIsNoTask DEF RecordFits
<1>10. \A s \in Slot : S[s].busy # NoTask => /\ S[s].busy \in Task \ F
                                             /\ \A t \in F : place[t] # s
  BY <1>1, <1>2, <1>9 DEF PlacesFit, SlotRecords, Idle
<1>11. /\ q2 \in Seq(Task) /\ ToSet(q2) = ToSet(q) \ F /\ IsInjective(q2)
       /\ ToSet(q) \subseteq Task
  <2>1. ToSet(q) \subseteq Task
    BY <1>2, ToSetFacts, ElementOfSeq
  <2>2. q2 \in Seq(Task) /\ ToSet(q2) = ToSet(q) \ F /\ IsInjective(q2)
    <3>1. q \in Seq(Task) /\ IsInjective(q)
      BY <1>1, <1>2 DEF PlacesFit
    <3>2. q2 = without(q, F)
      BY <1>4
    <3>. QED
      BY <3>1, <3>2, WithoutFacts
  <2>. QED
    BY <2>1, <2>2
<1>12. ASSUME NEW t \in F
       PROVE  /\ S2[place[t]].busy = t /\ place[t] \in Slot
              /\ S2[place[t]].ready = S[place[t]].ready
              /\ S2[place[t]].present = S[place[t]].present
  <2>1. place[t] \in Slot /\ S[place[t]] \in SlotRecords
    BY <1>2, <1>3
  <2>2. S2[place[t]] = [S[place[t]] EXCEPT !.busy = t]
    BY <1>4
  <2>. QED
    BY <2>1, <2>2 DEF SlotRecords
<1>13. PlacesFit(h, T2, q2, S2)
  <2>1. Queued(T2) \subseteq ToSet(q2)
    <3>1. Queued(T) \subseteq ToSet(q)
      BY <1>1 DEF PlacesFit
    <3>2. Queued(T2) \subseteq Queued(T) \ F
      BY <1>4, <1>5 DEF Queued
    <3>. QED
      BY <1>11, <3>1, <3>2
  <2>2. \A t \in ToSet(q2) :
          T2[t].state = "queued" \/ (T2[t].state = "settled" /\ ~CanRun(h))
    BY <1>1, <1>4, <1>11 DEF PlacesFit
  <2>3. ASSUME NEW t \in Running(T2)
        PROVE  IF T2[t].fallback
                 THEN T2[t].slot = NoSlot
                 ELSE T2[t].slot \in Slot /\ S2[T2[t].slot].busy = t
    <3>1. CASE t \in F
      <4>1. T2[t].slot = place[t] /\ ~T2[t].fallback
        BY <1>5, <1>9, <3>1
      <4>. QED
        BY <1>12, <3>1, <4>1
    <3>2. CASE t \notin F
      <4>1. t \in Task /\ T2[t] = T[t] /\ t \in Running(T) /\ t # NoTask
        <5>1. t \in Task /\ T2[t] = T[t]
          BY <1>4, <3>2 DEF Running
        <5>. QED
          BY <5>1, NoTaskIsNoTask DEF Running
      <4>2. CASE T[t].fallback
        BY <1>1, <4>1, <4>2 DEF PlacesFit
      <4>3. CASE ~T[t].fallback
        <5>1. T[t].slot \in Slot /\ S[T[t].slot].busy = t
          BY <1>1, <4>1, <4>3 DEF PlacesFit
        <5>2. S2[T[t].slot] = S[T[t].slot]
          BY <1>4, <1>10, <4>1, <5>1
        <5>. QED
          BY <4>1, <4>3, <5>1, <5>2
      <4>. QED
        BY <4>2, <4>3
    <3>. QED
      BY <3>1, <3>2
  <2>4. ASSUME NEW s \in Slot, S2[s].busy # NoTask
        PROVE  /\ T2[S2[s].busy].state = "running"
               /\ ~T2[S2[s].busy].fallback
               /\ T2[S2[s].busy].slot = s
    <3>1. CASE \E t \in F : place[t] = s
      BY <1>5, <1>9, <1>12, <3>1
    <3>2. CASE \A t \in F : place[t] # s
      <4>1. S2[s] = S[s]
        BY <1>4, <3>2
      <4>2. T2[S[s].busy] = T[S[s].busy]
        BY <1>4, <1>10, <2>4, <4>1
      <4>. QED
        BY <1>1, <2>4, <4>1, <4>2 DEF PlacesFit
    <3>. QED
      BY <3>1, <3>2
  <2>. QED
    BY <1>11, <2>1, <2>2, <2>3, <2>4 DEF PlacesFit
<1>14. SlotsFit(d, T2, S2)
  <2>1. ASSUME NEW s \in Slot
        PROVE  /\ S2[s].ready => S2[s].present
               /\ S2[s].busy # NoTask => S2[s].present
    <3>1. CASE \E t \in F : place[t] = s
      BY <1>1, <1>12, <3>1 DEF SlotsFit, Idle
    <3>2. CASE \A t \in F : place[t] # s
      BY <1>1, <1>4, <3>2 DEF SlotsFit
    <3>. QED
      BY <3>1, <3>2
  <2>. QED
    BY <2>1 DEF SlotsFit
<1>15. ASSUME NEW s \in Slot
       PROVE  W2[s] \in WorkerRecords /\ WorkerFits(S2[s].busy, T2, W2[s])
  <2>1. W[s] \in WorkerRecords /\ WorkerFits(S[s].busy, T, W[s])
        /\ S[s].busy \in Task \cup {NoTask}
    BY <1>1, <1>2 DEF WorkersFit, SlotRecords
  <2>2. ASSUME NEW t \in F, place[t] = s
        PROVE  W2[s] \in WorkerRecords /\ WorkerFits(S2[s].busy, T2, W2[s])
    <3>1. S[s].busy = NoTask
      BY <2>2 DEF Idle
    <3>2. W2[s] = [W[s] EXCEPT !.inbox = Append(@, Message("task", t))]
      BY <1>4, <2>2
    <3>3. W2[s] \in WorkerRecords /\ WorkerFits(t, T2, W2[s])
      BY <1>7, <1>9, <2>1, <3>1, <3>2, WorkerStarts
    <3>. QED
      BY <1>12, <2>2, <3>3
  <2>3. CASE \A t \in F : place[t] # s
    <3>1. S2[s] = S[s] /\ W2[s] = W[s]
      BY <1>4, <2>3
    <3>2. S[s].busy \in Task => SameProgress(T[S[s].busy], T2[S[s].busy])
      <4>1. S[s].busy \in Task => T2[S[s].busy] = T[S[s].busy]
        BY <1>4, <1>10, NoTaskIsNoTask
      <4>. QED
        BY <4>1 DEF SameProgress
    <3>3. WorkerFits(S[s].busy, T2, W[s])
      BY <1>7, <2>1, <3>2, WorkerKept
    <3>. QED
      BY <2>1, <3>1, <3>3
  <2>. QED
    BY <2>2, <2>3
<1>16. W2 \in [Slot -> WorkerRecords] /\ WorkersFit(T2, S2, W2)
  BY <1>4, <1>15 DEF WorkersFit
<1>17. TypesFit(T2, q2, S2, C2, W2)
  BY <1>4, <1>8, <1>11, <1>16 DEF TypesFit
<1>. QED
  BY <1>7, <1>8, <1>13, <1>14, <1>16, <1>17 DEF Fits

LEMMA GivenToFallbackFits ==
  ASSUME NEW h, NEW d, NEW n, NEW T, NEW q, NEW S, NEW C, NEW W,
         Fits(h, d, n, T, q, S, C, W), ~d, CanRun(h),
         NEW F \in SUBSET Task, F \subseteq Queued(T),
         NEW T2, NEW q2, NEW S2, NEW C2, NEW W2, C2 = begunStats(C, T, F),
         GivenToFallback(T, q, S, W, F, T2, q2, S2, W2)
  PROVE  Fits(h, d, n, T2, q2, S2, C2, W2)
<1>1. /\ TypesFit(T, q, S, C, W) /\ TasksFit(n, T) /\ PlacesFit(h, T, q, S)
      /\ SlotsFit(d, T, S) /\ WorkersFit(T, S, W) /\ CountsFit(h, T, C) /\ QuotaFits(T)
  BY DEF Fits
<1>2. /\ T \in [Task -> TaskRecords] /\ q \in Seq(Task) /\ S \in [Slot -> SlotRecords]
      /\ C \in [Instance -> [queued : Nat, running : Nat]]
      /\ W \in [Slot -> WorkerRecords]
  BY <1>1 DEF TypesFit
<1>3. /\ q2 = without(q, F)
      /\ T2 \in [Task -> TaskRecords]
      /\ \A t \in Task \ F : T2[t] = T[t]
      /\ \A t \in F : T2[t] = [T[t] EXCEPT !.state = "running", !.fallback = TRUE,
                                           !.timeout = TRUE, !.accepted = "ok"]
      /\ S2 = S /\ W2 = W
  BY DEF GivenToFallback
<1>4. ASSUME NEW t \in F
      PROVE  /\ T2[t].state = "running" /\ T2[t].fallback
             /\ T2[t].kind = T[t].kind /\ T2[t].slot = T[t].slot
             /\ T2[t].replays = T[t].replays /\ T2[t].starts = T[t].starts
             /\ T2[t].cancelling = T[t].cancelling
  <2>1. T[t] \in TaskRecords
    BY <1>2
  <2>2. T2[t] = [T[t] EXCEPT !.state = "running", !.fallback = TRUE,
                             !.timeout = TRUE, !.accepted = "ok"]
    BY <1>3
  <2>. QED
    BY <2>1, <2>2 DEF TaskRecords
<1>5. Begins(T, F, T2)
  BY <1>3, <1>4 DEF Begins
<1>6. TasksFit(n, T2) /\ ~Unsettles(T, T2)
  BY <1>1, <1>2, <1>5, BeginsTasks
<1>7. /\ C2 \in [Instance -> [queued : Nat, running : Nat]]
      /\ CountsFit(h, T2, C2) /\ QuotaFits(T2)
  <2>1. CountsFit(h, T, C) /\ QuotaFits(T)
    BY <1>1
  <2>2. C \in [Instance -> [queued : Nat, running : Nat]]
    BY <1>2
  <2>. QED
    BY <1>5, <2>1, <2>2, BeginsCounts
<1>8. \A t \in F : T[t].state = "queued" /\ T[t].slot = NoSlot
  <2>1. \A t \in F : T[t].state = "queued" /\ RecordFits(T[t])
    BY <1>1 DEF TasksFit, Queued
  <2>. QED
    BY <2>1 DEF RecordFits
<1>9. \A s \in Slot : S[s].busy # NoTask =>
        S[s].busy \in Task \ F /\ T2[S[s].busy] = T[S[s].busy]
  <2>1. \A s \in Slot : S[s].busy # NoTask =>
          T[S[s].busy].state = "running" /\ S[s].busy \in Task
    BY <1>1, <1>2 DEF PlacesFit, SlotRecords
  <2>. QED
    BY <1>3, <1>8, <2>1
<1>10. /\ q2 \in Seq(Task) /\ ToSet(q2) = ToSet(q) \ F /\ IsInjective(q2)
       /\ ToSet(q) \subseteq Task
  <2>1. ToSet(q) \subseteq Task
    BY <1>2, ToSetFacts, ElementOfSeq
  <2>2. q2 \in Seq(Task) /\ ToSet(q2) = ToSet(q) \ F /\ IsInjective(q2)
    <3>1. q \in Seq(Task) /\ IsInjective(q)
      BY <1>1, <1>2 DEF PlacesFit
    <3>2. q2 = without(q, F)
      BY <1>3
    <3>. QED
      BY <3>1, <3>2, WithoutFacts
  <2>. QED
    BY <2>1, <2>2
<1>11. PlacesFit(h, T2, q2, S2)
  <2>1. Queued(T2) \subseteq ToSet(q2)
    <3>1. Queued(T) \subseteq ToSet(q)
      BY <1>1 DEF PlacesFit
    <3>2. Queued(T2) \subseteq Queued(T) \ F
      BY <1>3, <1>4 DEF Queued
    <3>. QED
      BY <1>10, <3>1, <3>2
  <2>2. \A t \in ToSet(q2) :
          T2[t].state = "queued" \/ (T2[t].state = "settled" /\ ~CanRun(h))
    BY <1>1, <1>3, <1>10 DEF PlacesFit
  <2>3. ASSUME NEW t \in Running(T2)
        PROVE  IF T2[t].fallback
                 THEN T2[t].slot = NoSlot
                 ELSE T2[t].slot \in Slot /\ S2[T2[t].slot].busy = t
    <3>1. CASE t \in F
      BY <1>4, <1>8, <3>1
    <3>2. CASE t \notin F
      <4>1. t \in Task /\ T2[t] = T[t] /\ t \in Running(T)
        <5>1. t \in Task /\ T2[t] = T[t]
          BY <1>3, <3>2 DEF Running
        <5>. QED
          BY <5>1 DEF Running
      <4>. QED
        BY <1>1, <1>3, <4>1 DEF PlacesFit
    <3>. QED
      BY <3>1, <3>2
  <2>4. ASSUME NEW s \in Slot, S2[s].busy # NoTask
        PROVE  /\ T2[S2[s].busy].state = "running"
               /\ ~T2[S2[s].busy].fallback
               /\ T2[S2[s].busy].slot = s
    <3>1. S2[s].busy = S[s].busy /\ T2[S[s].busy] = T[S[s].busy]
      BY <1>3, <1>9, <2>4
    <3>. QED
      BY <1>1, <2>4, <3>1 DEF PlacesFit
  <2>. QED
    BY <1>10, <2>1, <2>2, <2>3, <2>4 DEF PlacesFit
<1>12. SlotsFit(d, T2, S2)
  BY <1>1, <1>3 DEF SlotsFit
<1>13. ASSUME NEW s \in Slot
       PROVE  WorkerFits(S2[s].busy, T2, W2[s])
  <2>1. W[s] \in WorkerRecords /\ WorkerFits(S[s].busy, T, W[s])
        /\ S[s].busy \in Task \cup {NoTask}
    BY <1>1, <1>2 DEF WorkersFit, SlotRecords
  <2>2. S[s].busy \in Task => SameProgress(T[S[s].busy], T2[S[s].busy])
    BY <1>9, NoTaskIsNoTask DEF SameProgress
  <2>. QED
    BY <1>3, <1>6, <2>1, <2>2, WorkerKept
<1>14. WorkersFit(T2, S2, W2)
  BY <1>13 DEF WorkersFit
<1>15. TypesFit(T2, q2, S2, C2, W2)
  BY <1>2, <1>3, <1>7, <1>10 DEF TypesFit
<1>. QED
  BY <1>6, <1>7, <1>11, <1>12, <1>14, <1>15 DEF Fits

LEMMA EmptySlotFacts ==
  /\ EmptySlot \in SlotRecords
  /\ EmptySlot.present = FALSE /\ EmptySlot.ready = FALSE /\ EmptySlot.busy = NoTask
BY DEF EmptySlot, SlotRecords

(* #ensureWorkerSlots.                                                     *)
LEMMA CreatedFits ==
  ASSUME NEW h, NEW d, NEW n, NEW T, NEW q, NEW S, NEW C, NEW W,
         Fits(h, d, n, T, q, S, C, W), ~d,
         NEW new \in SUBSET {s \in Slot : ~S[s].present}
  PROVE  Fits(h, d, n, T, q, createdSlots(S, new), C, createdWorkers(W, new))
<1>. DEFINE created == [EmptySlot EXCEPT !.present = TRUE]
<1>1. /\ TypesFit(T, q, S, C, W) /\ TasksFit(n, T) /\ PlacesFit(h, T, q, S)
      /\ SlotsFit(d, T, S) /\ WorkersFit(T, S, W) /\ CountsFit(h, T, C) /\ QuotaFits(T)
  BY DEF Fits
<1>2. PICK S2 : S2 = createdSlots(S, new)
  OBVIOUS
<1>3. PICK W2 : W2 = createdWorkers(W, new)
  OBVIOUS
<1>4. /\ created \in SlotRecords
      /\ created.present = TRUE /\ created.ready = FALSE /\ created.busy = NoTask
  BY EmptySlotFacts DEF SlotRecords
<1>. HIDE DEF created
<1>5. \A s \in Slot : S2[s] = IF s \in new THEN created ELSE S[s]
  BY <1>2 DEF createdSlots, created
<1>6. \A s \in Slot : W2[s] = IF s \in new THEN FreshWorker ELSE W[s]
  BY <1>3 DEF createdWorkers, FreshWorker
<1>8. S \in [Slot -> SlotRecords] /\ W \in [Slot -> WorkerRecords]
  BY <1>1 DEF TypesFit
<1>9. S2 \in [Slot -> SlotRecords]
  <2>1. S2 = [s \in Slot |-> S2[s]]
    BY <1>2 DEF createdSlots
  <2>. QED
    BY <1>4, <1>5, <1>8, <2>1
<1>10. W2 \in [Slot -> WorkerRecords]
  <2>1. W2 = [s \in Slot |-> W2[s]]
    BY <1>3 DEF createdWorkers
  <2>2. FreshWorker \in WorkerRecords
    BY NoWorkerFits
  <2>. QED
    BY <1>6, <1>8, <2>1, <2>2
<1>11. \A s \in Slot : S2[s].busy = S[s].busy
  BY <1>1, <1>4, <1>5 DEF SlotsFit
<1>12. PlacesFit(h, T, q, S2)
  BY <1>1, <1>11 DEF PlacesFit
<1>13. SlotsFit(d, T, S2)
  BY <1>1, <1>4, <1>5 DEF SlotsFit
<1>14. WorkersFit(T, S2, W2)
  <2>1. ASSUME NEW s \in Slot
        PROVE  WorkerFits(S2[s].busy, T, W2[s])
    <3>1. CASE s \in new
      BY <1>6, <3>1, NoWorkerFits
    <3>2. CASE s \notin new
      BY <1>1, <1>6, <1>11, <3>2 DEF WorkersFit
    <3>. QED
      BY <3>1, <3>2
  <2>. QED
    BY <2>1 DEF WorkersFit
<1>15. TypesFit(T, q, S2, C, W2)
  BY <1>1, <1>9, <1>10 DEF TypesFit
<1>. QED
  BY <1>1, <1>2, <1>3, <1>12, <1>13, <1>14, <1>15 DEF Fits

LEMMA MinOfTwo ==
  ASSUME NEW a \in Nat, NEW b \in Nat
  PROVE  /\ Min({a, b}) \in Nat /\ Min({a, b}) <= a /\ Min({a, b}) <= b
         /\ Min({a, b}) = a \/ Min({a, b}) = b
<1>1. \E x \in {a, b} : \A y \in {a, b} : x <= y
  OBVIOUS
<1>2. Min({a, b}) \in {a, b} /\ \A y \in {a, b} : Min({a, b}) <= y
  BY <1>1 DEF Min
<1>. QED
  BY <1>2

(* Either the queue is empty then,                                         *)
LEMMA WholeQueueTaken ==
  ASSUME NEW q \in Seq(Task), IsInjective(q), NEW F \in SUBSET ToSet(q),
         Cardinality(F) = Len(q)
  PROVE  F = ToSet(q)
<1>1. q \in [1 .. Len(q) -> Task] /\ Len(q) \in Nat
  OBVIOUS
<1>2. IsFiniteSet(ToSet(q)) /\ Cardinality(ToSet(q)) = Len(q)
  BY <1>1, InjectiveCardinality
<1>. QED
  BY <1>2, FS_Subset

(* or every idle worker has a task,                                        *)
LEMMA WorkersAllTaken ==
  ASSUME NEW d, NEW T, NEW q, NEW S, NEW W, S \in [Slot -> SlotRecords],
         NEW F \in SUBSET Task, NEW place \in [F -> Idle(S)], IsInjective(place),
         NEW T2, NEW q2, NEW S2, NEW W2,
         GivenToWorkers(T, q, S, W, F, place, T2, q2, S2, W2),
         Cardinality(F) = Cardinality(Idle(S))
  PROVE  Idle(S2) = {}
<1>1. Idle(S) \in SUBSET Slot
  BY DEF Idle
<1>2. IsFiniteSet(Idle(S))
  BY <1>1, SlotsAreFinite
<1>3. place \in Injection(F, Idle(S))
  BY DEF Injection, IsInjective
<1>4. place \in Surjection(F, Idle(S))
  BY <1>2, <1>3, FS_Injection
<1>5. \A s \in Idle(S) : \E t \in F : place[t] = s
  BY <1>4 DEF Surjection
<1>6. ASSUME NEW s \in Idle(S2)
      PROVE  FALSE
  <2>1. s \in Slot /\ S2[s].ready /\ S2[s].busy = NoTask
    BY DEF Idle
  <2>2. CASE s \in Idle(S)
    <3>1. PICK t \in F : place[t] = s
      BY <1>5, <2>2
    <3>2. S2[s] = [S[s] EXCEPT !.busy = t] /\ S[s] \in SlotRecords
      BY <2>1, <3>1 DEF GivenToWorkers
    <3>3. S2[s].busy = t
      BY <3>2 DEF SlotRecords
    <3>. QED
      BY <2>1, <3>3, NoTaskIsNoTask
  <2>3. CASE s \notin Idle(S)
    <3>1. \A t \in F : place[t] # s
      BY <2>3
    <3>2. S2[s] = S[s]
      BY <2>1, <3>1 DEF GivenToWorkers
    <3>. QED
      BY <2>1, <2>3, <3>2 DEF Idle
  <2>. QED
    BY <2>2, <2>3
<1>. QED
  BY <1>6

(* and a worker that was idle is there still,                              *)
LEMMA WorkersStay ==
  ASSUME NEW d, NEW T, NEW q, NEW S, NEW W, S \in [Slot -> SlotRecords],
         SlotsFit(d, T, S), Idle(S) # {},
         NEW F \in SUBSET Task, NEW place \in [F -> Idle(S)],
         NEW T2, NEW q2, NEW S2, NEW W2,
         GivenToWorkers(T, q, S, W, F, place, T2, q2, S2, W2)
  PROVE  \E s \in Slot : S2[s].present
<1>1. PICK s \in Idle(S) : TRUE
  OBVIOUS
<1>2. s \in Slot /\ S[s].present /\ S[s] \in SlotRecords
  BY <1>1 DEF Idle, SlotsFit
<1>3. ASSUME NEW t \in F, place[t] = s
      PROVE  S2[s].present
  <2>1. S2[s] = [S[s] EXCEPT !.busy = t]
    BY <1>3 DEF GivenToWorkers
  <2>. QED
    BY <1>2, <2>1 DEF SlotRecords
<1>4. CASE \A t \in F : place[t] # s
  BY <1>2, <1>4 DEF GivenToWorkers
<1>. QED
  BY <1>2, <1>3, <1>4

(* or the fallback has all that it takes.                                  *)
LEMMA FallbackAllTaken ==
  ASSUME NEW T, NEW q, NEW S, NEW W, T \in [Task -> TaskRecords],
         NEW F \in SUBSET Task, F \subseteq Queued(T),
         NEW T2, NEW q2, NEW S2, NEW W2,
         GivenToFallback(T, q, S, W, F, T2, q2, S2, W2),
         Cardinality(F) = minus(Cardinality(Slot), Cardinality(Fallbacks(T)))
  PROVE  Cardinality(Fallbacks(T2)) >= Cardinality(Slot)
<1>1. ASSUME NEW t \in F
      PROVE  T2[t].state = "running" /\ T2[t].fallback
  <2>1. T[t] \in TaskRecords
    OBVIOUS
  <2>2. T2[t] = [T[t] EXCEPT !.state = "running", !.fallback = TRUE,
                             !.timeout = TRUE, !.accepted = "ok"]
    BY DEF GivenToFallback
  <2>. QED
    BY <2>1, <2>2 DEF TaskRecords
<1>2. Fallbacks(T2) = Fallbacks(T) \cup F
  <2>1. \A t \in Task \ F : T2[t] = T[t]
    BY DEF GivenToFallback
  <2>. QED
    BY <1>1, <2>1 DEF Fallbacks
<1>3. Fallbacks(T) \cap F = {}
  BY DEF Fallbacks, Queued
<1>4. Fallbacks(T) \in SUBSET Task
  BY DEF Fallbacks
<1>5. /\ IsFiniteSet(Fallbacks(T)) /\ IsFiniteSet(F)
      /\ Cardinality(Fallbacks(T)) \in Nat /\ Cardinality(F) \in Nat
      /\ Cardinality(Slot) \in Nat
  BY <1>4, TasksAreFinite, SlotsAreFinite
<1>6. Cardinality(Fallbacks(T2)) = Cardinality(Fallbacks(T)) + Cardinality(F)
  <2>1. Cardinality(Fallbacks(T) \cap F) = 0
    BY <1>3, FS_EmptySet
  <2>. QED
    <3>1. Cardinality(Fallbacks(T) \cup F)
            = Cardinality(Fallbacks(T)) + Cardinality(F) - Cardinality(Fallbacks(T) \cap F)
      BY <1>5, FS_Union
    <3>. QED
      BY <1>2, <1>5, <2>1, <3>1
<1>. QED
  BY <1>5, <1>6 DEF minus

LastFits(l) == l \subseteq Instance /\ Cardinality(l) <= 1

LEMMA DispatchesFits ==
  ASSUME NEW n, NEW T, NEW q, NEW S, NEW C, NEW W,
         Fits(host, destroyed, n, T, q, S, C, W), ~destroyed, CanRun(host),
         LastFits(lastInstance), dispatches(T, q, S, C, W)
  PROVE  /\ Fits(host, destroyed, n, task', queue', slot', stats', worker')
         /\ NothingWaits(host, destroyed, task', slot')
         /\ LastFits(lastInstance')
<1>1. /\ TypesFit(T, q, S, C, W) /\ TasksFit(n, T) /\ PlacesFit(host, T, q, S)
      /\ SlotsFit(destroyed, T, S)
  BY DEF Fits
<1>2. /\ T \in [Task -> TaskRecords] /\ q \in Seq(Task) /\ S \in [Slot -> SlotRecords]
  BY <1>1 DEF TypesFit
<1>3. PICK k : k = Min({room(T, S), Len(q)})
  OBVIOUS
<1>4. /\ idleSlots(S) = Idle(S) /\ fallbackRunning(T) = Fallbacks(T)
      /\ Idle(S) \subseteq Slot /\ Fallbacks(T) \subseteq Task
  BY DEF idleSlots, fallbackRunning, Idle, Fallbacks
<1>5. /\ Cardinality(Idle(S)) \in Nat /\ Cardinality(Fallbacks(T)) \in Nat
      /\ Cardinality(Slot) \in Nat
  BY <1>4, TasksAreFinite, SlotsAreFinite
<1>6. room(T, S) \in Nat /\ Len(q) \in Nat
  BY <1>2, <1>4, <1>5, ToSetFacts DEF room, minus
<1>7. k \in Nat /\ k <= room(T, S) /\ k <= Len(q) /\ (k = room(T, S) \/ k = Len(q))
  BY <1>3, <1>6, MinOfTwo
<1>8. PICK taken \in [1 .. k -> ToSet(q)] :
        /\ IsInjective(taken)
        /\ \E place \in [ToSet(taken) ->
                          IF Idle(S) # {} THEN Idle(S) ELSE {NoSlot}] :
             /\ Idle(S) # {} => IsInjective(place)
             /\ dispatched(T, q, S, C, W, taken, place)
  BY <1>3, <1>4 DEF dispatches
<1>9. PICK F : F = ToSet(taken)
  OBVIOUS
<1>10. F \subseteq ToSet(q) /\ F \in SUBSET Task /\ F \subseteq Queued(T)
       /\ Cardinality(F) = k /\ IsInjective(q)
  <2>1. ToSet(q) \subseteq Task
    BY <1>2, ToSetFacts, ElementOfSeq
  <2>2. F \subseteq ToSet(q)
    BY <1>9 DEF ToSet
  <2>3. \A t \in ToSet(q) : T[t].state = "queued"
    BY <1>1 DEF PlacesFit
  <2>4. F \subseteq Queued(T)
    BY <2>1, <2>2, <2>3 DEF Queued
  <2>5. Cardinality(F) = k
    BY <1>7, <1>8, <1>9, InjectiveCardinality
  <2>. QED
    BY <1>1, <2>1, <2>2, <2>4, <2>5 DEF PlacesFit
<1>11. PICK place \in [F -> IF Idle(S) # {} THEN Idle(S) ELSE {NoSlot}] :
         /\ Idle(S) # {} => IsInjective(place)
         /\ dispatched(T, q, S, C, W, taken, place)
  BY <1>8, <1>9
<1>12. stats' = begunStats(C, T, F)
  BY <1>9, <1>11 DEF dispatched, begunStats, Of
<1>13. LastFits(lastInstance')
  <2>1. lastInstance' = IF taken = <<>> THEN lastInstance
                        ELSE {T[Last(taken)].kind.instance}
    BY <1>11 DEF dispatched
  <2>2. CASE taken = <<>>
    BY <2>1, <2>2
  <2>3. CASE taken # <<>>
    <3>1. taken \in Seq(ToSet(q))
      BY <1>7, <1>8
    <3>2. Last(taken) \in ToSet(taken)
      <4>1. Len(taken) \in Nat \ {0} /\ Last(taken) = taken[Len(taken)]
        BY <2>3, <3>1, LastIsElement
      <4>2. ToSet(taken) = {taken[i] : i \in 1 .. Len(taken)}
        BY <3>1, ToSetFacts
      <4>. QED
        BY <4>1, <4>2
    <3>3. PICK t \in F : t = Last(taken)
      BY <1>9, <3>2
    <3>4. T[t].state = "queued" /\ RecordFits(T[t])
      BY <1>1, <1>10 DEF Queued, TasksFit
    <3>5. T[t].kind \in KindType
      BY <3>4, KindsAssumption DEF RecordFits
    <3>6. T[t].kind.instance \in Instance
      BY <3>5 DEF KindType
    <3>7. Cardinality({T[t].kind.instance}) = 1
      BY FS_Singleton
    <3>. QED
      BY <2>1, <2>3, <3>3, <3>6, <3>7 DEF LastFits
  <2>. QED
    BY <2>2, <2>3
<1>14. ASSUME k = Len(q), queue' = without(q, F),
              Fits(host, destroyed, n, task', queue', slot', stats', worker')
       PROVE  NothingWaits(host, destroyed, task', slot')
  <2>1. F = ToSet(q)
    BY <1>2, <1>10, <1>14, WholeQueueTaken
  <2>2. ToSet(queue') = {}
    BY <1>2, <1>14, <2>1, WithoutFacts
  <2>3. Queued(task') \subseteq ToSet(queue')
    BY <1>14 DEF Fits, PlacesFit
  <2>. QED
    BY <2>2, <2>3 DEF NothingWaits
<1>15. CASE Idle(S) # {}
  <2>1. place \in [F -> Idle(S)] /\ IsInjective(place) /\ place \in [F -> Slot]
    BY <1>4, <1>11, <1>15
  <2>2. GivenToWorkers(T, q, S, W, F, place, task', queue', slot', worker')
    BY <1>1, <1>9, <1>10, <1>11, <2>1, DispatchedToWorkers
  <2>3. Fits(host, destroyed, n, task', queue', slot', stats', worker')
    BY <1>10, <1>12, <2>1, <2>2, GivenToWorkersFits
  <2>4. ASSUME k = room(T, S)
        PROVE  NothingWaits(host, destroyed, task', slot')
    <3>1. Cardinality(F) = Cardinality(Idle(S))
      BY <1>4, <1>10, <1>15, <2>4 DEF room
    <3>2. Idle(slot') = {}
      BY <1>2, <1>10, <2>1, <2>2, <3>1, WorkersAllTaken
    <3>3. \E s \in Slot : slot'[s].present
      BY <1>1, <1>2, <1>10, <1>15, <2>1, <2>2, WorkersStay
    <3>. QED
      BY <3>2, <3>3 DEF NothingWaits
  <2>5. queue' = without(q, F)
    BY <2>2 DEF GivenToWorkers
  <2>. QED
    BY <1>7, <1>13, <1>14, <2>3, <2>4, <2>5
<1>16. CASE Idle(S) = {}
  <2>1. place \in [F -> {NoSlot}]
    BY <1>11, <1>16
  <2>2. GivenToFallback(T, q, S, W, F, task', queue', slot', worker')
    BY <1>1, <1>9, <1>10, <1>11, <2>1, DispatchedToFallback
  <2>3. Fits(host, destroyed, n, task', queue', slot', stats', worker')
    BY <1>10, <1>12, <2>2, GivenToFallbackFits
  <2>4. slot' = S /\ queue' = without(q, F)
    BY <2>2 DEF GivenToFallback
  <2>5. ASSUME k = room(T, S), host.fallback, \A s \in Slot : ~slot'[s].present
        PROVE  Cardinality(Fallbacks(task')) >= Cardinality(Slot)
    <3>1. Cardinality(F) = minus(Cardinality(Slot), Cardinality(Fallbacks(T)))
      BY <1>4, <1>10, <1>16, <2>4, <2>5 DEF room
    <3>. QED
      BY <1>2, <1>10, <2>2, <3>1, FallbackAllTaken
  <2>6. ASSUME k = room(T, S)
        PROVE  NothingWaits(host, destroyed, task', slot')
    BY <1>16, <2>4, <2>5, <2>6 DEF NothingWaits
  <2>. QED
    BY <1>7, <1>13, <1>14, <2>3, <2>4, <2>6
<1>. QED
  BY <1>15, <1>16

(* #finishTask leaves nothing of a task but its end.                       *)
LEMMA SettledFacts ==
  ASSUME NEW r, NEW result \in Results
  PROVE  LET v == settled(r, result) IN
         /\ v \in TaskRecords /\ RecordFits(v)
         /\ v.state = "settled" /\ v.kind = NoKind /\ ~v.cancelling
<1>1. NewTask \in TaskRecords
  BY NumbersAssumption DEF NewTask, TaskRecords, TaskStates, Results
<1>2. PICK a : a = IF r.accepted = "ok" THEN "ok" ELSE "failed"
  OBVIOUS
<1>3. a \in {"open", "ok", "failed"}
  BY <1>2
<1>4. PICK v : v = settled(r, result)
  OBVIOUS
<1>5. v = [NewTask EXCEPT !.state = "settled", !.result = result, !.accepted = a]
  BY <1>2, <1>4 DEF settled
<1>6. /\ v.state = "settled" /\ v.kind = NewTask.kind /\ v.slot = NewTask.slot
      /\ v.fallback = NewTask.fallback /\ v.timeout = NewTask.timeout
      /\ v.grace = NewTask.grace /\ v.cancelling = NewTask.cancelling
      /\ v.replays = NewTask.replays /\ v.starts = NewTask.starts
  BY <1>1, <1>5 DEF TaskRecords
<1>7. v \in TaskRecords
  <2>1. [NewTask EXCEPT !.state = "settled"] \in TaskRecords
    BY <1>1 DEF TaskRecords, TaskStates
  <2>2. \A x \in TaskRecords : [x EXCEPT !.result = result] \in TaskRecords
    BY DEF TaskRecords
  <2>3. \A x \in TaskRecords : [x EXCEPT !.accepted = a] \in TaskRecords
    BY <1>3 DEF TaskRecords
  <2>. QED
    BY <1>5, <2>1, <2>2, <2>3
<1>8. /\ NewTask.kind = NoKind /\ NewTask.slot = NoSlot /\ ~NewTask.fallback
      /\ ~NewTask.timeout /\ ~NewTask.grace /\ ~NewTask.cancelling
      /\ NewTask.replays = 0 /\ NewTask.starts = 0
  BY DEF NewTask
<1>9. RecordFits(v)
  BY <1>6, <1>8 DEF RecordFits
<1>. QED
  BY <1>4, <1>6, <1>7, <1>8, <1>9

LEMMA QuotaShrinks ==
  ASSUME NEW T, NEW T2, QuotaFits(T),
         \A t \in Live(T2) : ~T2[t].cancelling =>
            t \in Live(T) /\ ~T[t].cancelling /\ T[t].kind = T2[t].kind
  PROVE  QuotaFits(T2)
<1>1. ASSUME NEW i \in Instance, ~isReplayed(i)
      PROVE  Cardinality({t \in Of(Live(T2), T2, i) : ~T2[t].cancelling})
               <= MaxTasksPerInstance
  <2>. DEFINE A == {t \in Of(Live(T), T, i) : ~T[t].cancelling}
              B == {t \in Of(Live(T2), T2, i) : ~T2[t].cancelling}
  <2>1. B \subseteq A /\ A \in SUBSET Task /\ B \in SUBSET Task
    BY DEF Of, Live
  <2>. HIDE DEF A, B
  <2>2. Cardinality(B) <= Cardinality(A) /\ Cardinality(A) \in Nat /\ Cardinality(B) \in Nat
    BY <2>1, TasksAreFinite, FS_Subset
  <2>3. Cardinality(A) <= MaxTasksPerInstance
    BY <1>1 DEF QuotaFits, A
  <2>4. MaxTasksPerInstance \in Nat
    BY NumbersAssumption
  <2>. QED
    BY <2>2, <2>3, <2>4 DEF B
<1>. QED
  BY <1>1 DEF QuotaFits

(* Without workers and fallback.                                           *)
LEMMA FailsAllFits ==
  ASSUME NEW h, NEW d, NEW n, NEW T, NEW q, NEW S, NEW C, NEW W,
         Fits(h, d, n, T, q, S, C, W), ~CanRun(h),
         NEW T2, T2 = [t \in Task |-> IF t \in ToSet(q) /\ T[t].state = "queued"
                                        THEN settled(T[t], "error") ELSE T[t]]
  PROVE  Fits(h, d, n, T2, q, S, C, W) /\ Queued(T2) = {}
<1>1. /\ TypesFit(T, q, S, C, W) /\ TasksFit(n, T) /\ PlacesFit(h, T, q, S)
      /\ SlotsFit(d, T, S) /\ WorkersFit(T, S, W) /\ QuotaFits(T)
  BY DEF Fits
<1>2. /\ T \in [Task -> TaskRecords] /\ q \in Seq(Task) /\ S \in [Slot -> SlotRecords]
      /\ W \in [Slot -> WorkerRecords]
  BY <1>1 DEF TypesFit
<1>3. "error" \in Results
  BY DEF Results
<1>4. ASSUME NEW t \in Task
      PROVE  /\ T[t].state = "queued" => /\ T2[t] \in TaskRecords /\ RecordFits(T2[t])
                                         /\ T2[t].state = "settled" /\ ~(t > n)
             /\ T[t].state # "queued" => T2[t] = T[t]
  <2>1. T[t].state = "queued" => T2[t] = settled(T[t], "error") /\ ~(t > n)
    BY <1>1 DEF PlacesFit, Queued, TasksFit, NewTask
  <2>2. T[t].state # "queued" => T2[t] = T[t]
    OBVIOUS
  <2>. QED
    BY <1>3, <2>1, <2>2, SettledFacts
<1>5. T2 \in [Task -> TaskRecords]
  <2>1. \A t \in Task : T2[t] \in TaskRecords
    BY <1>2, <1>4
  <2>2. T2 = [t \in Task |-> T2[t]]
    OBVIOUS
  <2>. QED
    BY <2>1, <2>2
<1>6. TasksFit(n, T2)
  BY <1>1, <1>4 DEF TasksFit
<1>7. Queued(T2) = {} /\ Running(T2) = Running(T) /\ ~Unsettles(T, T2)
  BY <1>4 DEF Queued, Running, Unsettles
<1>8. \A s \in Slot : S[s].busy # NoTask =>
        S[s].busy \in Task /\ T2[S[s].busy] = T[S[s].busy]
  BY <1>1, <1>2, <1>4 DEF PlacesFit, SlotRecords
<1>9. PlacesFit(h, T2, q, S)
  <2>1. ToSet(q) \subseteq Task
    BY <1>2, ToSetFacts, ElementOfSeq
  <2>2. \A t \in ToSet(q) : T2[t].state = "settled"
    BY <1>1, <1>4, <2>1 DEF PlacesFit
  <2>3. \A t \in Running(T2) :
          /\ CanRun(h)
          /\ IF T2[t].fallback THEN T2[t].slot = NoSlot
                               ELSE T2[t].slot \in Slot /\ S[T2[t].slot].busy = t
    BY <1>1, <1>7 DEF PlacesFit
  <2>4. \A s \in Slot : S[s].busy # NoTask =>
          /\ T2[S[s].busy].state = "running"
          /\ ~T2[S[s].busy].fallback
          /\ T2[S[s].busy].slot = s
    BY <1>1, <1>8 DEF PlacesFit
  <2>. QED
    BY <1>1, <1>7, <2>2, <2>3, <2>4 DEF PlacesFit
<1>10. SlotsFit(d, T2, S)
  BY <1>1, <1>7 DEF SlotsFit
<1>11. WorkersFit(T2, S, W)
  <2>1. ASSUME NEW s \in Slot
        PROVE  WorkerFits(S[s].busy, T2, W[s])
    <3>1. W[s] \in WorkerRecords /\ WorkerFits(S[s].busy, T, W[s])
          /\ S[s].busy \in Task \cup {NoTask}
      BY <1>1, <1>2 DEF WorkersFit, SlotRecords
    <3>2. S[s].busy \in Task => SameProgress(T[S[s].busy], T2[S[s].busy])
      BY <1>8, NoTaskIsNoTask DEF SameProgress
    <3>. QED
      BY <1>7, <3>1, <3>2, WorkerKept
  <2>. QED
    BY <2>1 DEF WorkersFit
<1>12. QuotaFits(T2)
  <2>1. \A t \in Live(T2) : t \in Live(T) /\ T2[t] = T[t]
    BY <1>4 DEF Live
  <2>. QED
    BY <1>1, <2>1, QuotaShrinks
<1>13. CountsFit(h, T2, C)
  BY DEF CountsFit
<1>14. TypesFit(T2, q, S, C, W)
  BY <1>1, <1>5 DEF TypesFit
<1>. QED
  BY <1>6, <1>7, <1>9, <1>10, <1>11, <1>12, <1>13, <1>14 DEF Fits

(* #schedule.                                                              *)
LEMMA ScheduleFits ==
  ASSUME NEW n, NEW T, NEW q, NEW S, NEW C, NEW W,
         Fits(host, destroyed, n, T, q, S, C, W), host \in Hosts,
         LastFits(lastInstance), schedule(T, q, S, C, W)
  PROVE  /\ Fits(host, destroyed, n, task', queue', slot', stats', worker')
         /\ NothingWaits(host, destroyed, task', slot')
         /\ LastFits(lastInstance')
<1>1. CASE destroyed
  <2>1. /\ task' = T /\ queue' = q /\ slot' = S /\ stats' = C /\ worker' = W
        /\ lastInstance' = lastInstance
    BY <1>1 DEF schedule
  <2>2. Queued(T) = {}
    BY <1>1 DEF Fits, SlotsFit
  <2>. QED
    BY <2>1, <2>2 DEF NothingWaits
<1>2. CASE ~destroyed /\ ~CanRun(host)
  <2>1. failsAll(T, q, S, C, W)
    BY <1>2 DEF schedule, CanRun
  <2>2. /\ task' = [t \in Task |-> IF t \in ToSet(q) /\ T[t].state = "queued"
                                     THEN settled(T[t], "error") ELSE T[t]]
        /\ queue' = q /\ slot' = S /\ stats' = C /\ worker' = W
        /\ lastInstance' = lastInstance
    BY <2>1 DEF failsAll
  <2>3. Fits(host, destroyed, n, task', q, S, C, W) /\ Queued(task') = {}
    BY <1>2, <2>2, FailsAllFits
  <2>. QED
    BY <2>2, <2>3 DEF NothingWaits
<1>3. CASE ~destroyed /\ CanRun(host)
  <2>1. PICK new \in creations(S) :
          dispatches(T, q, createdSlots(S, new), C, createdWorkers(W, new))
    BY <1>3 DEF schedule, CanRun
  <2>2. new \in SUBSET {s \in Slot : ~S[s].present}
    <3>1. host.factory \in {"none", "works", "flaky"}
      BY HostsAssumption DEF HostType
    <3>. QED
      BY <2>1, <3>1 DEF creations
  <2>3. Fits(host, destroyed, n, T, q, createdSlots(S, new), C, createdWorkers(W, new))
    BY <1>3, <2>2, CreatedFits
  <2>. QED
    BY <1>3, <2>1, <2>3, DispatchesFits
<1>. QED
  BY <1>1, <1>2, <1>3

-----------------------------------------------------------------------------
(* The parts that the operations are made of.                              *)

(* Running tasks change, but not where and for whom they run.              *)
SameTask(r, r2) ==
  /\ r2.state = r.state /\ r2.kind = r.kind /\ r2.slot = r.slot
  /\ r2.fallback = r.fallback /\ r2.replays = r.replays
  /\ r.cancelling => r2.cancelling

Alters(T, T2) ==
  /\ T2 \in [Task -> TaskRecords]
  /\ \A t \in Task :
       \/ T2[t] = T[t]
       \/ /\ T[t].state = "running" /\ SameTask(T[t], T2[t])
          /\ T2[t].starts <= T2[t].replays + 1

LEMMA AlteredSets ==
  ASSUME NEW T, NEW T2, Alters(T, T2)
  PROVE  /\ Queued(T2) = Queued(T) /\ Running(T2) = Running(T)
         /\ Live(T2) = Live(T) /\ Fallbacks(T2) = Fallbacks(T)
         /\ ~Unsettles(T, T2)
BY DEF Alters, SameTask, Queued, Running, Live, Fallbacks, Unsettles

LEMMA AlteredFits ==
  ASSUME NEW h, NEW d, NEW n, NEW T, NEW q, NEW S, NEW C, NEW W,
         Fits(h, d, n, T, q, S, C, W),
         NEW T2, Alters(T, T2),
         NEW W2 \in [Slot -> WorkerRecords], WorkersFit(T2, S, W2)
  PROVE  /\ Fits(h, d, n, T2, q, S, C, W2)
         /\ NothingWaits(h, d, T, S) => NothingWaits(h, d, T2, S)
<1>1. /\ TypesFit(T, q, S, C, W) /\ TasksFit(n, T) /\ PlacesFit(h, T, q, S)
      /\ SlotsFit(d, T, S) /\ CountsFit(h, T, C) /\ QuotaFits(T)
  BY DEF Fits
<1>2. /\ Queued(T2) = Queued(T) /\ Running(T2) = Running(T)
      /\ Live(T2) = Live(T) /\ Fallbacks(T2) = Fallbacks(T)
  BY AlteredSets
<1>3. \A t \in Task :
        /\ T2[t].state = T[t].state /\ T2[t].kind = T[t].kind
        /\ T2[t].slot = T[t].slot /\ T2[t].fallback = T[t].fallback
        /\ T[t].cancelling => T2[t].cancelling
  BY DEF Alters, SameTask
<1>4. TasksFit(n, T2)
  <2>1. ASSUME NEW t \in Task
        PROVE  RecordFits(T2[t]) /\ (t > n => T2[t] = NewTask)
    <3>1. RecordFits(T[t]) /\ (t > n => T[t] = NewTask)
      BY <1>1 DEF TasksFit
    <3>2. CASE T2[t] = T[t]
      BY <3>1, <3>2
    <3>3. CASE /\ T[t].state = "running" /\ SameTask(T[t], T2[t])
               /\ T2[t].starts <= T2[t].replays + 1
      <4>1. ~(t > n)
        BY <3>1, <3>3 DEF NewTask
      <4>. QED
        BY <3>1, <3>3, <4>1 DEF RecordFits, SameTask
    <3>. QED
      BY <3>2, <3>3 DEF Alters
  <2>. QED
    BY <2>1 DEF TasksFit
<1>5. PlacesFit(h, T2, q, S)
  <2>1. ToSet(q) \subseteq Task /\ \A s \in Slot : S[s].busy # NoTask => S[s].busy \in Task
    BY <1>1, ToSetFacts, ElementOfSeq DEF TypesFit, SlotRecords
  <2>2. \A t \in ToSet(q) :
          T2[t].state = "queued" \/ (T2[t].state = "settled" /\ ~CanRun(h))
    BY <1>1, <1>3, <2>1 DEF PlacesFit
  <2>3. ASSUME NEW t \in Running(T2)
        PROVE  /\ CanRun(h)
               /\ IF T2[t].fallback THEN T2[t].slot = NoSlot
                                    ELSE T2[t].slot \in Slot /\ S[T2[t].slot].busy = t
    <3>1. t \in Task /\ t \in Running(T)
      BY <1>2 DEF Running
    <3>. QED
      BY <1>1, <1>3, <3>1 DEF PlacesFit
  <2>4. \A s \in Slot : S[s].busy # NoTask =>
          /\ T2[S[s].busy].state = "running"
          /\ ~T2[S[s].busy].fallback
          /\ T2[S[s].busy].slot = s
    BY <1>1, <1>3, <2>1 DEF PlacesFit
  <2>. QED
    BY <1>1, <1>2, <2>2, <2>3, <2>4 DEF PlacesFit
<1>6. SlotsFit(d, T2, S)
  BY <1>1, <1>2 DEF SlotsFit
<1>7. CountsFit(h, T2, C)
  <2>1. \A i \in Instance : /\ Of(Queued(T2), T2, i) = Of(Queued(T), T, i)
                            /\ Of(Running(T2), T2, i) = Of(Running(T), T, i)
    BY <1>2, <1>3 DEF Of, Queued, Running
  <2>. QED
    BY <1>1, <2>1 DEF CountsFit
<1>8. QuotaFits(T2)
  <2>1. \A t \in Live(T2) : ~T2[t].cancelling =>
          t \in Live(T) /\ ~T[t].cancelling /\ T[t].kind = T2[t].kind
    BY <1>2, <1>3 DEF Live
  <2>. QED
    BY <1>1, <2>1, QuotaShrinks
<1>9. TypesFit(T2, q, S, C, W2)
  BY <1>1 DEF TypesFit, Alters
<1>. QED
  BY <1>2, <1>4, <1>5, <1>6, <1>7, <1>8, <1>9 DEF Fits, NothingWaits

(* Queued tasks end, and leave the queue.                                  *)
Ends(T, E, T2) ==
  \A t \in Task : T2[t] = IF t \in E THEN settled(T[t], "error") ELSE T[t]

EndsCounted(T, E, C, C2) ==
  \A i \in Instance :
    /\ C2[i].queued = minus(C[i].queued, Cardinality(Of(E, T, i)))
    /\ C2[i].running = C[i].running

LEMMA MinusFacts ==
  ASSUME NEW n \in Nat, NEW m \in Nat
  PROVE  minus(n, m) \in Nat /\ (m = 0 => minus(n, m) = n) /\ (m <= n => minus(n, m) = n - m)
BY DEF minus

LEMMA EndedCounts ==
  ASSUME NEW h, NEW T, NEW E \in SUBSET Task, E \subseteq Queued(T),
         NEW T2, Queued(T2) = Queued(T) \ E, Running(T2) = Running(T),
         \A t \in Task \ E : T2[t].kind = T[t].kind,
         NEW C \in [Instance -> [queued : Nat, running : Nat]], CountsFit(h, T, C),
         NEW C2, EndsCounted(T, E, C, C2)
  PROVE  CountsFit(h, T2, C2)
<1>1. ASSUME NEW i \in Instance, CanRun(h), ~isReplayed(i)
      PROVE  /\ C2[i].queued = Cardinality(Of(Queued(T2), T2, i))
             /\ C2[i].running = Cardinality(Of(Running(T2), T2, i))
  <2>. DEFINE A == Of(E, T, i)
              Q == Of(Queued(T), T, i)
  <2>1. A \in SUBSET Task /\ Q \in SUBSET Task /\ Q \cap A = A /\ Q \ A \in SUBSET Task
    BY DEF Of, Queued
  <2>2. Of(Queued(T2), T2, i) = Q \ A
    BY DEF Of, Queued
  <2>3. Of(Running(T2), T2, i) = Of(Running(T), T, i)
    <3>1. Running(T) \cap E = {} /\ Running(T) \subseteq Task
      BY DEF Running, Queued
    <3>. QED
      BY <3>1 DEF Of
  <2>. HIDE DEF A, Q
  <2>4. IsFiniteSet(A) /\ IsFiniteSet(Q) /\ Cardinality(A) \in Nat
        /\ Cardinality(Q) \in Nat /\ Cardinality(Q \ A) \in Nat
    BY <2>1, TasksAreFinite
  <2>5. Cardinality(Q \ A) = Cardinality(Q) - Cardinality(A)
    BY <2>1, <2>4, FS_Difference
  <2>6. C[i].queued = Cardinality(Q) /\ C[i].running = Cardinality(Of(Running(T), T, i))
    BY <1>1 DEF CountsFit, Q
  <2>7. C2[i].running = C[i].running
    BY DEF EndsCounted
  <2>8. C2[i].queued = minus(Cardinality(Q), Cardinality(A))
    BY <2>6 DEF A, EndsCounted
  <2>9. minus(Cardinality(Q), Cardinality(A)) = Cardinality(Q \ A)
    BY <2>4, <2>5 DEF minus
  <2>. QED
    BY <2>2, <2>3, <2>6, <2>8, <2>9, <2>7
<1>. QED
  BY <1>1 DEF CountsFit

LEMMA EndedFits ==
  ASSUME NEW h, NEW d, NEW n, NEW T, NEW q, NEW S, NEW C, NEW W,
         Fits(h, d, n, T, q, S, C, W),
         NEW E \in SUBSET Task, E \subseteq Queued(T),
         NEW T2, T2 = [t \in Task |-> T2[t]], Ends(T, E, T2),
         NEW q2 \in Seq(Task), IsInjective(q2), ToSet(q2) = ToSet(q) \ E,
         NEW C2 \in [Instance -> [queued : Nat, running : Nat]], EndsCounted(T, E, C, C2)
  PROVE  Fits(h, d, n, T2, q2, S, C2, W)
<1>1. /\ TypesFit(T, q, S, C, W) /\ TasksFit(n, T) /\ PlacesFit(h, T, q, S)
      /\ SlotsFit(d, T, S) /\ WorkersFit(T, S, W) /\ CountsFit(h, T, C) /\ QuotaFits(T)
  BY DEF Fits
<1>2. /\ T \in [Task -> TaskRecords] /\ q \in Seq(Task) /\ S \in [Slot -> SlotRecords]
      /\ C \in [Instance -> [queued : Nat, running : Nat]]
      /\ W \in [Slot -> WorkerRecords]
  BY <1>1 DEF TypesFit
<1>3. "error" \in Results
  BY DEF Results
<1>4. ASSUME NEW t \in Task
      PROVE  /\ t \in E => /\ T2[t] \in TaskRecords /\ RecordFits(T2[t])
                           /\ T2[t].state = "settled" /\ T[t].state = "queued"
                           /\ ~(t > n)
             /\ t \notin E => T2[t] = T[t]
  <2>1. t \in E => T2[t] = settled(T[t], "error") /\ T[t].state = "queued"
    BY DEF Ends, Queued
  <2>2. t \in E => ~(t > n)
    BY <1>1, <2>1 DEF TasksFit, NewTask
  <2>3. t \notin E => T2[t] = T[t]
    BY DEF Ends
  <2>. QED
    BY <1>3, <2>1, <2>2, <2>3, SettledFacts
<1>5. T2 \in [Task -> TaskRecords]
  <2>1. \A t \in Task : T2[t] \in TaskRecords
    BY <1>2, <1>4
  <2>. QED
    BY <2>1
<1>6. TasksFit(n, T2)
  BY <1>1, <1>4 DEF TasksFit
<1>7. Queued(T2) = Queued(T) \ E /\ Running(T2) = Running(T) /\ ~Unsettles(T, T2)
  BY <1>4 DEF Queued, Running, Unsettles
<1>8. \A s \in Slot : S[s].busy # NoTask =>
        S[s].busy \in Task /\ T2[S[s].busy] = T[S[s].busy]
  <2>1. \A s \in Slot : S[s].busy # NoTask =>
          S[s].busy \in Task /\ T[S[s].busy].state = "running"
    BY <1>1, <1>2 DEF PlacesFit, SlotRecords
  <2>2. \A t \in E : T[t].state = "queued"
    BY DEF Queued
  <2>. QED
    BY <1>4, <2>1, <2>2
<1>9. PlacesFit(h, T2, q2, S)
  <2>1. ToSet(q) \subseteq Task
    BY <1>2, ToSetFacts, ElementOfSeq
  <2>2. \A t \in ToSet(q2) :
          T2[t].state = "queued" \/ (T2[t].state = "settled" /\ ~CanRun(h))
    BY <1>1, <1>4, <2>1 DEF PlacesFit
  <2>3. ASSUME NEW t \in Running(T2)
        PROVE  /\ CanRun(h)
               /\ IF T2[t].fallback THEN T2[t].slot = NoSlot
                                    ELSE T2[t].slot \in Slot /\ S[T2[t].slot].busy = t
    <3>1. t \in Task /\ t \in Running(T) /\ T2[t] = T[t]
      BY <1>4, <1>7 DEF Running
    <3>. QED
      BY <1>1, <3>1 DEF PlacesFit
  <2>4. \A s \in Slot : S[s].busy # NoTask =>
          /\ T2[S[s].busy].state = "running"
          /\ ~T2[S[s].busy].fallback
          /\ T2[S[s].busy].slot = s
    BY <1>1, <1>8 DEF PlacesFit
  <2>5. Queued(T2) \subseteq ToSet(q2)
    BY <1>1, <1>7 DEF PlacesFit
  <2>. QED
    BY <2>2, <2>3, <2>4, <2>5 DEF PlacesFit
<1>10. SlotsFit(d, T2, S)
  BY <1>1, <1>7 DEF SlotsFit
<1>11. WorkersFit(T2, S, W)
  <2>1. ASSUME NEW s \in Slot
        PROVE  WorkerFits(S[s].busy, T2, W[s])
    <3>1. W[s] \in WorkerRecords /\ WorkerFits(S[s].busy, T, W[s])
          /\ S[s].busy \in Task \cup {NoTask}
      BY <1>1, <1>2 DEF WorkersFit, SlotRecords
    <3>2. S[s].busy \in Task => SameProgress(T[S[s].busy], T2[S[s].busy])
      BY <1>8, NoTaskIsNoTask DEF SameProgress
    <3>. QED
      BY <1>7, <3>1, <3>2, WorkerKept
  <2>. QED
    BY <2>1 DEF WorkersFit
<1>12. QuotaFits(T2)
  <2>1. \A t \in Live(T2) : t \in Live(T) /\ T2[t] = T[t]
    BY <1>4 DEF Live
  <2>. QED
    BY <1>1, <2>1, QuotaShrinks
<1>13. CountsFit(h, T2, C2)
  <2>1. \A t \in Task \ E : T2[t].kind = T[t].kind
    BY <1>4
  <2>2. CountsFit(h, T, C) /\ C \in [Instance -> [queued : Nat, running : Nat]]
    BY <1>1, <1>2
  <2>3. Queued(T2) = Queued(T) \ E /\ Running(T2) = Running(T)
    BY <1>7
  <2>. QED
    BY <2>1, <2>2, <2>3, EndedCounts
<1>14. TypesFit(T2, q2, S, C2, W)
  BY <1>2, <1>5 DEF TypesFit
<1>. QED
  BY <1>6, <1>9, <1>10, <1>11, <1>12, <1>13, <1>14 DEF Fits

(* The workers of running tasks R are told that these are cancelled.       *)
told(w, t) == [w EXCEPT !.inbox = Append(@, Message("cancelTask", t))]

Tells(S, R, W, W2) ==
  W2 = [s \in Slot |-> IF S[s].busy \in R THEN told(W[s], S[s].busy) ELSE W[s]]

LEMMA ToldFits ==
  ASSUME NEW h, NEW d, NEW n, NEW T, NEW q, NEW S, NEW C, NEW W,
         Fits(h, d, n, T, q, S, C, W),
         NEW R \in SUBSET Task,
         NEW T2, Alters(T, T2), \A t \in Task : T2[t].starts = T[t].starts,
         \A t \in Task \ R : T2[t].cancelling = T[t].cancelling,
         NEW W2, Tells(S, R, W, W2)
  PROVE  /\ Fits(h, d, n, T2, q, S, C, W2)
         /\ NothingWaits(h, d, T, S) => NothingWaits(h, d, T2, S)
<1>1. /\ S \in [Slot -> SlotRecords] /\ W \in [Slot -> WorkerRecords]
      /\ WorkersFit(T, S, W)
  BY DEF Fits, TypesFit
<1>2. ~Unsettles(T, T2)
  BY AlteredSets
<1>3. ASSUME NEW s \in Slot
      PROVE  W2[s] \in WorkerRecords /\ WorkerFits(S[s].busy, T2, W2[s])
  <2>1. W[s] \in WorkerRecords /\ WorkerFits(S[s].busy, T, W[s])
        /\ S[s].busy \in Task \cup {NoTask}
    BY <1>1 DEF WorkersFit, SlotRecords
  <2>2. \A t \in Task : T2[t].starts = T[t].starts /\ T2[t].replays = T[t].replays
    BY DEF Alters, SameTask
  <2>3. CASE S[s].busy \in R
    <3>1. W2[s] = [W[s] EXCEPT !.inbox = Append(@, Message("cancelTask", S[s].busy))]
      BY <2>3 DEF told, Tells
    <3>. QED
      BY <1>2, <2>1, <2>2, <2>3, <3>1, WorkerTold
  <2>4. CASE S[s].busy \notin R
    <3>1. S[s].busy \in Task => SameProgress(T[S[s].busy], T2[S[s].busy])
      BY <2>2, <2>4 DEF SameProgress
    <3>2. W2[s] = W[s]
      BY <2>4 DEF Tells
    <3>. QED
      BY <1>2, <2>1, <3>1, <3>2, WorkerKept
  <2>. QED
    BY <2>3, <2>4
<1>4. W2 \in [Slot -> WorkerRecords] /\ WorkersFit(T2, S, W2)
  <2>1. W2 = [s \in Slot |-> W2[s]]
    BY DEF Tells
  <2>. QED
    BY <1>3, <2>1 DEF WorkersFit
<1>. QED
  BY <1>4, AlteredFits

(* #cancelTask of the tasks in F.                                          *)
LEMMA CancelFits ==
  ASSUME Fits(host, destroyed, submitted, task, queue, slot, stats, worker),
         NEW F \in SUBSET Task,
         NEW q2, NEW C2,
         \/ q2 = cancelledQueue(F) /\ C2 = cancelledStats(F)
         \/ queuedOf(F) = {} /\ q2 = queue /\ C2 = stats
  PROVE  /\ Fits(host, destroyed, submitted, cancelledTasks(F), q2, slot, C2,
                 cancelledWorkers(F))
         /\ queuedOf(F) = {} /\ NothingWaits(host, destroyed, task, slot)
              => NothingWaits(host, destroyed, cancelledTasks(F), slot)
<1>. DEFINE E == queuedOf(F)
            R == runningOf(F)
<1>1. /\ task \in [Task -> TaskRecords] /\ queue \in Seq(Task)
      /\ slot \in [Slot -> SlotRecords]
      /\ stats \in [Instance -> [queued : Nat, running : Nat]]
      /\ worker \in [Slot -> WorkerRecords]
      /\ TasksFit(submitted, task) /\ PlacesFit(host, task, queue, slot)
  BY DEF Fits, TypesFit
<1>2. E \in SUBSET Task /\ E \subseteq Queued(task) /\ R \in SUBSET Task
  BY DEF queuedOf, runningOf, Queued
<1>3. q2 \in Seq(Task) /\ IsInjective(q2) /\ ToSet(q2) = ToSet(queue) \ E
  <2>1. IsInjective(queue)
    BY <1>1 DEF PlacesFit
  <2>2. CASE q2 = without(queue, E)
    BY <1>1, <2>1, <2>2, WithoutFacts
  <2>3. CASE E = {} /\ q2 = queue
    BY <1>1, <2>1, <2>3
  <2>. QED
    BY <2>2, <2>3 DEF cancelledQueue
<1>4. /\ C2 \in [Instance -> [queued : Nat, running : Nat]]
      /\ EndsCounted(task, E, stats, C2)
  <2>1. ASSUME NEW i \in Instance
        PROVE  /\ stats[i] \in [queued : Nat, running : Nat]
               /\ Cardinality(Of(E, task, i)) \in Nat
               /\ minus(stats[i].queued, Cardinality(Of(E, task, i))) \in Nat
               /\ E = {} => minus(stats[i].queued, Cardinality(Of(E, task, i)))
                              = stats[i].queued
    <3>1. stats[i] \in [queued : Nat, running : Nat] /\ stats[i].queued \in Nat
      BY <1>1
    <3>2. Of(E, task, i) \in SUBSET Task
      BY <1>2 DEF Of
    <3>3. Cardinality(Of(E, task, i)) \in Nat
      BY <3>2, TasksAreFinite
    <3>4. E = {} => Cardinality(Of(E, task, i)) = 0
      BY FS_EmptySet DEF Of
    <3>. QED
      BY <3>1, <3>3, <3>4, MinusFacts
  <2>2. CASE C2 = cancelledStats(F)
    <3>1. \A i \in Instance : C2[i] =
            [stats[i] EXCEPT !.queued = minus(@, Cardinality(Of(E, task, i)))]
      BY <2>2 DEF cancelledStats, ofInstance, Of
    <3>2. C2 = [i \in Instance |-> C2[i]]
      BY <2>2 DEF cancelledStats
    <3>. HIDE DEF E
    <3>3. \A i \in Instance :
            /\ C2[i] \in [queued : Nat, running : Nat]
            /\ C2[i].queued = minus(stats[i].queued, Cardinality(Of(E, task, i)))
            /\ C2[i].running = stats[i].running
      BY <2>1, <3>1
    <3>. QED
      BY <3>2, <3>3 DEF EndsCounted
  <2>3. CASE E = {} /\ C2 = stats
    BY <1>1, <2>1, <2>3 DEF EndsCounted
  <2>. QED
    BY <2>2, <2>3
<1>5. PICK T1 : T1 = [t \in Task |-> IF t \in E THEN settled(task[t], "error") ELSE task[t]]
  OBVIOUS
<1>6. T1 = [t \in Task |-> T1[t]] /\ Ends(task, E, T1)
  BY <1>5 DEF Ends
<1>. HIDE DEF E, R
<1>7. Fits(host, destroyed, submitted, T1, q2, slot, C2, worker)
  BY <1>2, <1>3, <1>4, <1>6, EndedFits
<1>8. PICK T2 : T2 = cancelledTasks(F)
  OBVIOUS
<1>9. T2 = [t \in Task |->
             IF t \in R THEN [T1[t] EXCEPT !.cancelling = TRUE, !.grace = TRUE]
             ELSE T1[t]]
  <2>1. R \cap E = {}
    BY DEF R, E, runningOf, queuedOf
  <2>2. T2 = [t \in Task |->
               IF t \in E THEN settled(task[t], "error")
               ELSE IF t \in R THEN [task[t] EXCEPT !.cancelling = TRUE, !.grace = TRUE]
               ELSE task[t]]
    <3>1. ASSUME NEW t \in Task
          PROVE  T2[t] = IF t \in E THEN settled(task[t], "error")
                         ELSE IF t \in R
                           THEN [task[t] EXCEPT !.cancelling = TRUE, !.grace = TRUE]
                         ELSE task[t]
      <4>1. T2[t] = CASE t \in E  -> settled(task[t], "error")
                      [] t \in R  -> [task[t] EXCEPT !.cancelling = TRUE, !.grace = TRUE]
                      [] OTHER -> task[t]
        BY <1>8 DEF cancelledTasks, E, R
      <4>. QED
        BY <2>1, <4>1
    <3>2. T2 = [t \in Task |-> T2[t]]
      <4>. DEFINE c(t) == CASE t \in queuedOf(F)  -> settled(task[t], "error")
                            [] t \in runningOf(F) ->
                                 [task[t] EXCEPT !.cancelling = TRUE, !.grace = TRUE]
                            [] OTHER -> task[t]
      <4>1. T2 = [t \in Task |-> c(t)]
        BY <1>8 DEF cancelledTasks
      <4>. HIDE DEF c
      <4>. QED
        BY <4>1
    <3>. QED
      BY <3>1, <3>2
  <2>. QED
    BY <1>5, <2>1, <2>2
<1>10. ASSUME NEW t \in Task
       PROVE  /\ T2[t] \in TaskRecords
              /\ t \notin R => T2[t] = T1[t]
              /\ t \in R => SameTask(T1[t], T2[t]) /\ T1[t].state = "running"
              /\ T2[t].starts = T1[t].starts
  <2>1. T1[t] \in TaskRecords
    BY <1>7 DEF Fits, TypesFit
  <2>2. CASE t \notin R
    BY <1>9, <2>1, <2>2
  <2>3. CASE t \in R
    <3>1. T2[t] = [T1[t] EXCEPT !.cancelling = TRUE, !.grace = TRUE]
      BY <1>9, <2>3
    <3>2. T1[t].state = "running"
      BY <1>5, <2>3 DEF R, E, runningOf, queuedOf
    <3>. QED
      BY <2>1, <2>3, <3>1, <3>2 DEF SameTask, TaskRecords
  <2>. QED
    BY <2>2, <2>3
<1>11. Alters(T1, T2)
  <2>1. T2 \in [Task -> TaskRecords]
    BY <1>9, <1>10
  <2>2. ASSUME NEW t \in R
        PROVE  T2[t].starts <= T2[t].replays + 1
    <3>1. RecordFits(T1[t]) /\ T1[t].state = "running"
      BY <1>2, <1>7, <1>10 DEF Fits, TasksFit
    <3>. QED
      BY <1>2, <1>10, <3>1 DEF RecordFits, SameTask
  <2>. QED
    BY <1>2, <1>10, <2>1, <2>2 DEF Alters
<1>12. PICK W2 : W2 = cancelledWorkers(F)
  OBVIOUS
<1>13. ASSUME NEW s \in Slot
       PROVE  W2[s] = IF slot[s].busy \in R THEN told(worker[s], slot[s].busy)
                                            ELSE worker[s]
  <2>1. \A t \in R : task[t].slot = s => slot[s].busy = t
    BY <1>1, SlotsAssumption DEF R, runningOf, PlacesFit, Running
  <2>2. slot[s].busy \in R => task[slot[s].busy].slot = s
    BY <1>1, <1>2, NoTaskIsNoTask DEF PlacesFit
  <2>3. W2[s] = IF \E t \in R : task[t].slot = s
                  THEN told(worker[s], CHOOSE t \in R : task[t].slot = s)
                  ELSE worker[s]
    BY <1>12 DEF cancelledWorkers, R, told
  <2>4. CASE slot[s].busy \in R
    <3>1. (CHOOSE t \in R : task[t].slot = s) = slot[s].busy
      BY <2>1, <2>2, <2>4
    <3>. QED
      BY <2>2, <2>3, <2>4, <3>1
  <2>5. CASE slot[s].busy \notin R
    BY <2>1, <2>3, <2>5
  <2>. QED
    BY <2>4, <2>5
<1>14. Tells(slot, R, worker, W2)
  <2>1. W2 = [s \in Slot |-> W2[s]]
    BY <1>12 DEF cancelledWorkers
  <2>. QED
    BY <1>13, <2>1 DEF Tells
<1>15. /\ Fits(host, destroyed, submitted, T2, q2, slot, C2, W2)
       /\ NothingWaits(host, destroyed, T1, slot) => NothingWaits(host, destroyed, T2, slot)
  <2>1. /\ \A t \in Task : T2[t].starts = T1[t].starts
        /\ \A t \in Task \ R : T2[t].cancelling = T1[t].cancelling
    BY <1>10
  <2>. QED
    BY <1>2, <1>7, <1>11, <1>14, <2>1, ToldFits
<1>16. queuedOf(F) = {} => T1 = task
  BY <1>1, <1>5 DEF E
<1>. QED
  BY <1>8, <1>12, <1>15, <1>16

(* The slot that was busy with t, if there is one, is free, and its worker *)
(* fits to that.  t is no task if the slot was idle.                       *)
Frees(d, t, T2, S, S2, W, W2) ==
  /\ S2 \in [Slot -> SlotRecords] /\ W2 \in [Slot -> WorkerRecords]
  /\ \A s \in Slot :
       /\ S2[s].busy = IF S[s].busy = t THEN NoTask ELSE S[s].busy
       /\ S2[s].ready => S2[s].present
       /\ S2[s].busy # NoTask => S2[s].present = S[s].present
       /\ d => ~S2[s].present
       /\ IF S[s].busy = t THEN WorkerFits(NoTask, T2, W2[s]) ELSE W2[s] = W[s]

(* t no longer runs, and no other task changes.                            *)
Leaves(t, T, T2) ==
  /\ T2 \in [Task -> TaskRecords]
  /\ \A u \in Task \ {t} : T2[u] = T[u]
  /\ t \in Running(T) /\ T2[t].state # "running"

LEMMA FreedFits ==
  ASSUME NEW h, NEW d, NEW n, NEW T, NEW q, NEW S, NEW C, NEW W,
         Fits(h, d, n, T, q, S, C, W),
         NEW t \in Task, NEW T2, Leaves(t, T, T2),
         NEW S2, NEW W2, Frees(d, t, T2, S, S2, W, W2),
         d => Queued(T2) = {}
  PROVE  /\ \A u \in Running(T2) :
              /\ CanRun(h)
              /\ IF T2[u].fallback THEN T2[u].slot = NoSlot
                                   ELSE T2[u].slot \in Slot /\ S2[T2[u].slot].busy = u
         /\ \A s \in Slot : S2[s].busy # NoTask =>
              /\ T2[S2[s].busy].state = "running"
              /\ ~T2[S2[s].busy].fallback
              /\ T2[S2[s].busy].slot = s
         /\ SlotsFit(d, T2, S2) /\ WorkersFit(T2, S2, W2)
<1>1. /\ PlacesFit(h, T, q, S) /\ SlotsFit(d, T, S) /\ WorkersFit(T, S, W)
      /\ S \in [Slot -> SlotRecords] /\ W \in [Slot -> WorkerRecords]
  BY DEF Fits, TypesFit
<1>2. ~Unsettles(T, T2)
  BY DEF Leaves, Unsettles, Running
<1>3. ASSUME NEW u \in Running(T2)
      PROVE  /\ CanRun(h)
             /\ IF T2[u].fallback THEN T2[u].slot = NoSlot
                                  ELSE T2[u].slot \in Slot /\ S2[T2[u].slot].busy = u
  <2>1. u \in Task /\ u # t
    BY DEF Running, Leaves
  <2>2. T2[u] = T[u] /\ u \in Running(T)
    <3>1. T2[u] = T[u]
      BY <2>1 DEF Leaves
    <3>. QED
      BY <3>1 DEF Running
  <2>3. /\ CanRun(h)
        /\ IF T[u].fallback THEN T[u].slot = NoSlot
                            ELSE T[u].slot \in Slot /\ S[T[u].slot].busy = u
    BY <1>1, <2>2 DEF PlacesFit
  <2>. QED
    BY <2>1, <2>2, <2>3 DEF Frees
<1>4. ASSUME NEW s \in Slot, S2[s].busy # NoTask
      PROVE  /\ T2[S2[s].busy].state = "running"
             /\ ~T2[S2[s].busy].fallback
             /\ T2[S2[s].busy].slot = s
  <2>1. S2[s].busy = S[s].busy /\ S[s].busy # NoTask /\ S[s].busy \in Task \ {t}
    BY <1>1, <1>4 DEF Frees, SlotRecords
  <2>2. T2[S[s].busy] = T[S[s].busy]
    BY <2>1 DEF Leaves
  <2>. QED
    BY <1>1, <2>1, <2>2 DEF PlacesFit
<1>5. SlotsFit(d, T2, S2)
  <2>1. ASSUME NEW s \in Slot, ~d, S2[s].busy # NoTask
        PROVE  S2[s].present
    <3>1. S[s].busy # NoTask /\ S2[s].present = S[s].present
      BY <2>1 DEF Frees
    <3>. QED
      BY <1>1, <2>1, <3>1 DEF SlotsFit
  <2>. QED
    BY <2>1 DEF SlotsFit, Frees
<1>6. ASSUME NEW s \in Slot
      PROVE  WorkerFits(S2[s].busy, T2, W2[s])
  <2>1. CASE S[s].busy = t
    BY <2>1 DEF Frees
  <2>2. CASE S[s].busy # t
    <3>1. W2[s] = W[s] /\ S2[s].busy = S[s].busy
      BY <2>2 DEF Frees
    <3>2. W[s] \in WorkerRecords /\ WorkerFits(S[s].busy, T, W[s])
          /\ S[s].busy \in Task \cup {NoTask}
      BY <1>1 DEF WorkersFit, SlotRecords
    <3>3. S[s].busy \in Task => SameProgress(T[S[s].busy], T2[S[s].busy])
      BY <2>2 DEF SameProgress, Leaves
    <3>. QED
      BY <1>2, <3>1, <3>2, <3>3, WorkerKept
  <2>. QED
    BY <2>1, <2>2
<1>. QED
  BY <1>3, <1>4, <1>5, <1>6 DEF WorkersFit

(* #finishTask of a running task t.                                        *)
LEMMA FinishedFits ==
  ASSUME Fits(host, destroyed, submitted, task, queue, slot, stats, worker),
         NEW t \in Running(task), NEW result \in Results,
         NEW S2, NEW W2,
         Frees(destroyed, t, finishedTasks(t, result), slot, S2, worker, W2)
  PROVE  Fits(host, destroyed, submitted, finishedTasks(t, result), queue, S2,
              finishedStats(t), W2)
<1>1. /\ task \in [Task -> TaskRecords] /\ queue \in Seq(Task)
      /\ slot \in [Slot -> SlotRecords]
      /\ stats \in [Instance -> [queued : Nat, running : Nat]]
      /\ TasksFit(submitted, task) /\ PlacesFit(host, task, queue, slot)
      /\ SlotsFit(destroyed, task, slot)
      /\ CountsFit(host, task, stats) /\ QuotaFits(task)
  BY DEF Fits, TypesFit
<1>2. t \in Task /\ task[t].state = "running" /\ task[t].kind \in Kinds
  BY <1>1 DEF Running, TasksFit, RecordFits
<1>3. task[t].kind.instance \in Instance
  BY <1>2, KindsAssumption DEF KindType
<1>4. PICK T2 : T2 = finishedTasks(t, result)
  OBVIOUS
<1>5. PICK C2 : C2 = finishedStats(t)
  OBVIOUS
<1>6. /\ T2 = [task EXCEPT ![t] = settled(task[t], result)]
      /\ T2[t] = settled(task[t], result)
      /\ \A u \in Task \ {t} : T2[u] = task[u]
  BY <1>1, <1>2, <1>4 DEF finishedTasks
<1>7. T2[t] \in TaskRecords /\ RecordFits(T2[t]) /\ T2[t].state = "settled"
  BY <1>6, SettledFacts
<1>8. T2 \in [Task -> TaskRecords]
  BY <1>1, <1>6, <1>7
<1>9. Leaves(t, task, T2)
  BY <1>2, <1>6, <1>7, <1>8 DEF Leaves
<1>10. Queued(T2) = Queued(task) /\ Running(T2) = Running(task) \ {t}
  BY <1>2, <1>6, <1>7 DEF Queued, Running
<1>11. /\ \A u \in Running(T2) :
            /\ CanRun(host)
            /\ IF T2[u].fallback THEN T2[u].slot = NoSlot
                                 ELSE T2[u].slot \in Slot /\ S2[T2[u].slot].busy = u
       /\ \A s \in Slot : S2[s].busy # NoTask =>
            /\ T2[S2[s].busy].state = "running"
            /\ ~T2[S2[s].busy].fallback
            /\ T2[S2[s].busy].slot = s
       /\ SlotsFit(destroyed, T2, S2) /\ WorkersFit(T2, S2, W2)
  <2>1. destroyed => Queued(T2) = {}
    BY <1>1, <1>10 DEF SlotsFit
  <2>. QED
    BY <1>2, <1>4, <1>9, <2>1, FreedFits
<1>12. PlacesFit(host, T2, queue, S2)
  <2>1. t \notin ToSet(queue) /\ ToSet(queue) \subseteq Task
    <3>1. ToSet(queue) \subseteq Task
      BY <1>1, ToSetFacts, ElementOfSeq
    <3>. QED
      BY <1>1, <1>2, <3>1 DEF PlacesFit
  <2>2. \A u \in ToSet(queue) :
          T2[u].state = "queued" \/ (T2[u].state = "settled" /\ ~CanRun(host))
    BY <1>1, <1>6, <2>1 DEF PlacesFit
  <2>3. IsInjective(queue) /\ Queued(T2) \subseteq ToSet(queue)
    BY <1>1, <1>10 DEF PlacesFit
  <2>. QED
    BY <1>11, <2>2, <2>3 DEF PlacesFit
<1>13. TasksFit(submitted, T2)
  <2>1. ~(t > submitted)
    BY <1>1, <1>2 DEF TasksFit, NewTask
  <2>. QED
    BY <1>1, <1>6, <1>7, <2>1 DEF TasksFit
<1>14. /\ C2 \in [Instance -> [queued : Nat, running : Nat]]
       /\ \A i \in Instance :
            /\ C2[i].queued = stats[i].queued
            /\ C2[i].running = IF i = task[t].kind.instance
                                 THEN minus(stats[i].running, 1) ELSE stats[i].running
  <2>. DEFINE k == task[t].kind.instance
  <2>1. C2 = [stats EXCEPT ![k] = [stats[k] EXCEPT !.running = minus(stats[k].running, 1)]]
    BY <1>5 DEF finishedStats
  <2>. HIDE DEF k
  <2>2. k \in Instance
    BY <1>3 DEF k
  <2>3. stats[k] \in [queued : Nat, running : Nat] /\ minus(stats[k].running, 1) \in Nat
    <3>1. stats[k] \in [queued : Nat, running : Nat] /\ stats[k].running \in Nat
      BY <1>1, <2>2
    <3>. QED
      BY <3>1, MinusFacts
  <2>4. PICK c : c = [stats[k] EXCEPT !.running = minus(stats[k].running, 1)]
    OBVIOUS
  <2>5. /\ c \in [queued : Nat, running : Nat] /\ c.queued = stats[k].queued
        /\ c.running = minus(stats[k].running, 1)
    BY <2>3, <2>4
  <2>6. C2 = [stats EXCEPT ![k] = c]
    BY <2>1, <2>4
  <2>. QED
    BY <1>1, <2>2, <2>5, <2>6 DEF k
<1>15. CountsFit(host, T2, C2)
  <2>1. ASSUME NEW i \in Instance, CanRun(host), ~isReplayed(i)
        PROVE  /\ C2[i].queued = Cardinality(Of(Queued(T2), T2, i))
               /\ C2[i].running = Cardinality(Of(Running(T2), T2, i))
    <3>. DEFINE R == Of(Running(task), task, i)
    <3>1. stats[i].queued = Cardinality(Of(Queued(task), task, i))
          /\ stats[i].running = Cardinality(R)
      BY <1>1, <2>1 DEF CountsFit
    <3>2. Of(Queued(T2), T2, i) = Of(Queued(task), task, i)
      BY <1>2, <1>6, <1>10 DEF Of, Queued
    <3>3. Of(Running(T2), T2, i) = R \ {t}
      BY <1>2, <1>6, <1>10 DEF Of, Running
    <3>4. t \in R <=> i = task[t].kind.instance
      BY <1>2 DEF Of, Running
    <3>5. R \in SUBSET Task
      BY DEF Of, Running
    <3>. HIDE DEF R
    <3>6. IsFiniteSet(R) /\ Cardinality(R) \in Nat /\ Cardinality(R \ {t}) \in Nat
      BY <3>5, TasksAreFinite
    <3>7. CASE t \in R
      <4>1. Cardinality(R \ {t}) = Cardinality(R) - 1
        BY <3>6, <3>7, FS_RemoveElement
      <4>2. C2[i].running = minus(Cardinality(R), 1)
        BY <1>14, <3>1, <3>4, <3>7
      <4>3. minus(Cardinality(R), 1) = Cardinality(R \ {t})
        BY <3>6, <4>1 DEF minus
      <4>. QED
        BY <1>14, <3>1, <3>2, <3>3, <4>2, <4>3
    <3>8. CASE t \notin R
      <4>1. R \ {t} = R
        BY <3>8
      <4>. QED
        BY <1>14, <3>1, <3>2, <3>3, <3>4, <3>8, <4>1
    <3>. QED
      BY <3>7, <3>8
  <2>. QED
    BY <2>1 DEF CountsFit
<1>16. QuotaFits(T2)
  <2>1. \A u \in Live(T2) : u \in Live(task) /\ T2[u] = task[u]
    BY <1>6, <1>7 DEF Live
  <2>. QED
    BY <1>1, <2>1, QuotaShrinks
<1>17. TypesFit(T2, queue, S2, C2, W2)
  BY <1>1, <1>8, <1>14 DEF TypesFit, Frees
<1>. QED
  BY <1>4, <1>5, <1>11, <1>12, <1>13, <1>15, <1>16, <1>17 DEF Fits

(* #handleSlotFailure puts t back into the queue.                          *)
LEMMA ReplayedFits ==
  ASSUME Fits(host, destroyed, submitted, task, queue, slot, stats, worker),
         ~destroyed,
         NEW t \in Running(task), ~task[t].fallback, mayReplay(t),
         NEW S2, NEW W2, Frees(destroyed, t, replayedTasks(t), slot, S2, worker, W2)
  PROVE  Fits(host, destroyed, submitted, replayedTasks(t), Append(queue, t), S2,
              finishedStats(t), W2)
<1>1. /\ task \in [Task -> TaskRecords] /\ queue \in Seq(Task)
      /\ slot \in [Slot -> SlotRecords]
      /\ stats \in [Instance -> [queued : Nat, running : Nat]]
      /\ TasksFit(submitted, task) /\ PlacesFit(host, task, queue, slot)
      /\ CountsFit(host, task, stats) /\ QuotaFits(task)
  BY DEF Fits, TypesFit
<1>2. t \in Task /\ task[t].state = "running" /\ RecordFits(task[t])
      /\ task[t].kind \in Kinds /\ task[t] \in TaskRecords
  BY <1>1 DEF Running, TasksFit, RecordFits
<1>3. task[t].kind.instance \in Instance /\ isReplayed(task[t].kind.instance)
  BY <1>2, KindsAssumption DEF KindType, isReplayed, mayReplay
<1>4. PICK T2 : T2 = replayedTasks(t)
  OBVIOUS
<1>5. PICK C2 : C2 = finishedStats(t)
  OBVIOUS
<1>6. PICK r : r = [task[t] EXCEPT !.state = "queued", !.slot = NoSlot,
                                   !.timeout = FALSE, !.grace = FALSE,
                                   !.replays = @ + 1]
  OBVIOUS
<1>7. /\ r \in TaskRecords
      /\ r.state = "queued" /\ r.slot = NoSlot /\ ~r.fallback /\ ~r.timeout
      /\ ~r.grace /\ ~r.cancelling /\ r.kind = task[t].kind
      /\ r.replays = task[t].replays + 1 /\ r.starts = task[t].starts
  <2>1. ~task[t].cancelling /\ task[t].replays < MaxRestarts
    BY DEF mayReplay
  <2>2. task[t].replays + 1 \in 0 .. MaxRestarts
    BY <1>2, <2>1, NumbersAssumption DEF TaskRecords
  <2>3. /\ r.state = "queued" /\ r.slot = NoSlot /\ r.fallback = task[t].fallback
        /\ ~r.timeout /\ ~r.grace /\ r.cancelling = task[t].cancelling
        /\ r.kind = task[t].kind
        /\ r.replays = task[t].replays + 1 /\ r.starts = task[t].starts
    BY <1>2, <1>6 DEF TaskRecords
  <2>4. r \in TaskRecords
    BY <1>2, <1>6, <2>2 DEF TaskRecords, TaskStates
  <2>. QED
    BY <2>1, <2>3, <2>4
<1>8. T2 = [task EXCEPT ![t] = r] /\ T2[t] = r /\ \A u \in Task \ {t} : T2[u] = task[u]
  <2>1. T2 = [task EXCEPT ![t] = r]
    BY <1>4, <1>6 DEF replayedTasks
  <2>. QED
    BY <1>1, <1>2, <2>1
<1>9. RecordFits(r)
  <2>1. task[t].starts <= task[t].replays + 1 /\ task[t].kind.replayable
    BY <1>2 DEF RecordFits, mayReplay
  <2>. QED
    BY <1>2, <1>7, <2>1 DEF RecordFits
<1>10. T2 \in [Task -> TaskRecords]
  BY <1>1, <1>7, <1>8
<1>11. Leaves(t, task, T2)
  BY <1>2, <1>7, <1>8, <1>10 DEF Leaves
<1>12. Queued(T2) = Queued(task) \cup {t} /\ Running(T2) = Running(task) \ {t}
  BY <1>2, <1>7, <1>8 DEF Queued, Running
<1>13. /\ \A u \in Running(T2) :
            /\ CanRun(host)
            /\ IF T2[u].fallback THEN T2[u].slot = NoSlot
                                 ELSE T2[u].slot \in Slot /\ S2[T2[u].slot].busy = u
       /\ \A s \in Slot : S2[s].busy # NoTask =>
            /\ T2[S2[s].busy].state = "running"
            /\ ~T2[S2[s].busy].fallback
            /\ T2[S2[s].busy].slot = s
       /\ SlotsFit(destroyed, T2, S2) /\ WorkersFit(T2, S2, W2)
  BY <1>2, <1>4, <1>11, FreedFits
<1>14. PICK q2 : q2 = Append(queue, t)
  OBVIOUS
<1>15. /\ ToSet(queue) \subseteq Task /\ t \notin ToSet(queue)
       /\ q2 \in Seq(Task) /\ IsInjective(q2) /\ ToSet(q2) = ToSet(queue) \cup {t}
  <2>1. ToSet(queue) \subseteq Task
    BY <1>1, ToSetFacts, ElementOfSeq
  <2>2. t \notin ToSet(queue) /\ IsInjective(queue)
    BY <1>1, <1>2, <2>1 DEF PlacesFit
  <2>. QED
    BY <1>1, <1>2, <1>14, <2>1, <2>2, AppendFacts, AppendSet
<1>16. PlacesFit(host, T2, q2, S2)
  <2>1. \A u \in ToSet(q2) :
          T2[u].state = "queued" \/ (T2[u].state = "settled" /\ ~CanRun(host))
    BY <1>1, <1>7, <1>8, <1>15 DEF PlacesFit
  <2>2. Queued(T2) \subseteq ToSet(q2)
    BY <1>1, <1>12, <1>15 DEF PlacesFit
  <2>. QED
    BY <1>13, <1>15, <2>1, <2>2 DEF PlacesFit
<1>17. TasksFit(submitted, T2)
  <2>1. ~(t > submitted)
    BY <1>1, <1>2 DEF TasksFit, NewTask
  <2>. QED
    BY <1>1, <1>8, <1>9, <2>1 DEF TasksFit
<1>18. /\ C2 \in [Instance -> [queued : Nat, running : Nat]]
       /\ \A i \in Instance : i # task[t].kind.instance => C2[i] = stats[i]
  <2>. DEFINE k == task[t].kind.instance
  <2>1. C2 = [stats EXCEPT ![k] = [stats[k] EXCEPT !.running = minus(stats[k].running, 1)]]
    BY <1>5 DEF finishedStats
  <2>. HIDE DEF k
  <2>2. k \in Instance
    BY <1>3 DEF k
  <2>3. stats[k] \in [queued : Nat, running : Nat] /\ minus(stats[k].running, 1) \in Nat
    <3>1. stats[k] \in [queued : Nat, running : Nat] /\ stats[k].running \in Nat
      BY <1>1, <2>2
    <3>. QED
      BY <3>1, MinusFacts
  <2>4. [stats[k] EXCEPT !.running = minus(stats[k].running, 1)]
          \in [queued : Nat, running : Nat]
    BY <2>3
  <2>. QED
    BY <1>1, <2>1, <2>2, <2>4 DEF k
<1>19. \A i \in Instance : ~isReplayed(i) =>
         /\ C2[i] = stats[i]
         /\ Of(Queued(T2), T2, i) = Of(Queued(task), task, i)
         /\ Of(Running(T2), T2, i) = Of(Running(task), task, i)
         /\ {u \in Of(Live(T2), T2, i) : ~T2[u].cancelling}
              = {u \in Of(Live(task), task, i) : ~task[u].cancelling}
  <2>1. ASSUME NEW i \in Instance, ~isReplayed(i)
        PROVE  i # task[t].kind.instance /\ i # T2[t].kind.instance
    BY <1>3, <1>7, <1>8, <2>1
  <2>2. \A u \in Task : u # t => T2[u] = task[u]
    BY <1>8
  <2>. QED
    BY <1>18, <2>1, <2>2 DEF Of, Queued, Running, Live
<1>20. CountsFit(host, T2, C2) /\ QuotaFits(T2)
  BY <1>1, <1>19 DEF CountsFit, QuotaFits
<1>21. TypesFit(T2, q2, S2, C2, W2)
  BY <1>10, <1>15, <1>18 DEF TypesFit, Frees
<1>. QED
  BY <1>4, <1>5, <1>13, <1>14, <1>16, <1>17, <1>20, <1>21 DEF Fits

(* A new task t in the queue; the submissions before it have fit already.  *)
LEMMA EnqueuedFits ==
  ASSUME NEW h, NEW d, NEW n \in Nat, NEW T, NEW q, NEW S, NEW C, NEW W,
         Fits(h, d, n, T, q, S, C, W), ~d,
         NEW t \in Task, t = n + 1, NEW kind \in Kinds,
         ~isReplayed(kind.instance) =>
           Cardinality({u \in Of(Live(T), T, kind.instance) : ~T[u].cancelling})
             < MaxTasksPerInstance,
         NEW T2, T2 = [T EXCEPT ![t] = [NewTask EXCEPT !.state = "queued", !.kind = kind]],
         NEW C2, C2 = [C EXCEPT ![kind.instance].queued = @ + 1]
  PROVE  Fits(h, d, t, T2, Append(q, t), S, C2, W)
<1>. DEFINE k == kind.instance
<1>1. /\ T \in [Task -> TaskRecords] /\ q \in Seq(Task)
      /\ S \in [Slot -> SlotRecords] /\ W \in [Slot -> WorkerRecords]
      /\ C \in [Instance -> [queued : Nat, running : Nat]]
      /\ TasksFit(n, T) /\ PlacesFit(h, T, q, S) /\ SlotsFit(d, T, S)
      /\ WorkersFit(T, S, W) /\ CountsFit(h, T, C) /\ QuotaFits(T)
  BY DEF Fits, TypesFit
<1>2. k \in Instance /\ kind \in Kinds \cup {NoKind}
  BY KindsAssumption DEF KindType
<1>3. PICK r : r = [NewTask EXCEPT !.state = "queued", !.kind = kind]
  OBVIOUS
<1>4. /\ r \in TaskRecords /\ r.state = "queued" /\ r.kind = kind /\ ~r.cancelling
      /\ RecordFits(r)
  <2>1. NewTask \in TaskRecords
    BY NumbersAssumption DEF NewTask, TaskRecords, TaskStates, Results
  <2>2. r \in TaskRecords
    BY <1>2, <1>3, <2>1 DEF TaskRecords, TaskStates
  <2>3. /\ r.state = "queued" /\ r.kind = kind /\ r.slot = NewTask.slot
        /\ r.fallback = NewTask.fallback /\ r.timeout = NewTask.timeout
        /\ r.grace = NewTask.grace /\ r.cancelling = NewTask.cancelling
        /\ r.replays = NewTask.replays /\ r.starts = NewTask.starts
    BY <1>3, <2>1 DEF TaskRecords
  <2>4. /\ NewTask.slot = NoSlot /\ ~NewTask.fallback
        /\ ~NewTask.timeout /\ ~NewTask.grace /\ ~NewTask.cancelling
        /\ NewTask.replays = 0 /\ NewTask.starts = 0
    BY DEF NewTask
  <2>. QED
    BY <2>2, <2>3, <2>4 DEF RecordFits
<1>5. T2 = [T EXCEPT ![t] = r] /\ T2[t] = r /\ \A u \in Task \ {t} : T2[u] = T[u]
  BY <1>1, <1>3
<1>6. T[t] = NewTask /\ T[t].state = "new"
  <2>1. t > n
    OBVIOUS
  <2>2. T[t] = NewTask
    BY <1>1, <2>1 DEF TasksFit
  <2>3. NewTask.state = "new"
    BY DEF NewTask
  <2>. QED
    BY <2>2, <2>3
<1>7. T2 \in [Task -> TaskRecords]
  BY <1>1, <1>4, <1>5
<1>8. TasksFit(t, T2)
  <2>1. ASSUME NEW u \in Task
        PROVE  RecordFits(T2[u]) /\ (u > t => T2[u] = NewTask)
    <3>1. u \in Int /\ (u > t => u > n /\ u # t)
      BY DEF Task
    <3>. QED
      BY <1>1, <1>4, <1>5, <3>1 DEF TasksFit
  <2>. QED
    BY <2>1 DEF TasksFit
<1>9. /\ Queued(T2) = Queued(T) \cup {t} /\ Running(T2) = Running(T)
      /\ Live(T2) = Live(T) \cup {t} /\ t \notin Live(T) /\ ~Unsettles(T, T2)
  BY <1>4, <1>5, <1>6 DEF Queued, Running, Live, Unsettles
<1>10. PICK q2 : q2 = Append(q, t)
  OBVIOUS
<1>11. /\ ToSet(q) \subseteq Task /\ t \notin ToSet(q)
       /\ q2 \in Seq(Task) /\ IsInjective(q2) /\ ToSet(q2) = ToSet(q) \cup {t}
  <2>1. ToSet(q) \subseteq Task
    BY <1>1, ToSetFacts, ElementOfSeq
  <2>2. t \notin ToSet(q) /\ IsInjective(q)
    BY <1>1, <1>6, <2>1 DEF PlacesFit
  <2>. QED
    BY <1>1, <1>10, <2>1, <2>2, AppendFacts, AppendSet
<1>12. \A s \in Slot : S[s].busy # NoTask =>
         S[s].busy \in Task \ {t} /\ T2[S[s].busy] = T[S[s].busy]
  <2>1. \A s \in Slot : S[s].busy # NoTask =>
          S[s].busy \in Task /\ T[S[s].busy].state = "running"
    BY <1>1 DEF PlacesFit, SlotRecords
  <2>. QED
    BY <1>5, <1>6, <2>1
<1>13. PlacesFit(h, T2, q2, S)
  <2>1. \A u \in ToSet(q2) :
          T2[u].state = "queued" \/ (T2[u].state = "settled" /\ ~CanRun(h))
    BY <1>1, <1>4, <1>5, <1>11 DEF PlacesFit
  <2>2. Queued(T2) \subseteq ToSet(q2)
    BY <1>1, <1>9, <1>11 DEF PlacesFit
  <2>3. ASSUME NEW u \in Running(T2)
        PROVE  /\ CanRun(h)
               /\ IF T2[u].fallback THEN T2[u].slot = NoSlot
                                    ELSE T2[u].slot \in Slot /\ S[T2[u].slot].busy = u
    <3>1. u \in Task /\ u \in Running(T) /\ T2[u] = T[u]
      BY <1>5, <1>6, <1>9 DEF Running
    <3>. QED
      BY <1>1, <3>1 DEF PlacesFit
  <2>4. \A s \in Slot : S[s].busy # NoTask =>
          /\ T2[S[s].busy].state = "running"
          /\ ~T2[S[s].busy].fallback
          /\ T2[S[s].busy].slot = s
    BY <1>1, <1>12 DEF PlacesFit
  <2>. QED
    BY <1>11, <2>1, <2>2, <2>3, <2>4 DEF PlacesFit
<1>14. SlotsFit(d, T2, S)
  BY <1>1 DEF SlotsFit
<1>15. WorkersFit(T2, S, W)
  <2>1. ASSUME NEW s \in Slot
        PROVE  WorkerFits(S[s].busy, T2, W[s])
    <3>1. W[s] \in WorkerRecords /\ WorkerFits(S[s].busy, T, W[s])
          /\ S[s].busy \in Task \cup {NoTask}
      BY <1>1 DEF WorkersFit, SlotRecords
    <3>2. S[s].busy \in Task => SameProgress(T[S[s].busy], T2[S[s].busy])
      BY <1>12, NoTaskIsNoTask DEF SameProgress
    <3>. QED
      BY <1>9, <3>1, <3>2, WorkerKept
  <2>. QED
    BY <2>1 DEF WorkersFit
<1>. HIDE DEF k
<1>16. /\ C2 \in [Instance -> [queued : Nat, running : Nat]]
       /\ \A i \in Instance :
            /\ C2[i].queued = IF i = k THEN C[i].queued + 1 ELSE C[i].queued
            /\ C2[i].running = C[i].running
  <2>1. C2 = [C EXCEPT ![k] = [C[k] EXCEPT !.queued = C[k].queued + 1]]
    BY DEF k
  <2>2. C[k] \in [queued : Nat, running : Nat]
    BY <1>1, <1>2
  <2>3. PICK c : c = [C[k] EXCEPT !.queued = C[k].queued + 1]
    OBVIOUS
  <2>4. /\ c \in [queued : Nat, running : Nat] /\ c.queued = C[k].queued + 1
        /\ c.running = C[k].running
    BY <2>2, <2>3
  <2>5. C2 = [C EXCEPT ![k] = c]
    BY <2>1, <2>3
  <2>. QED
    BY <1>1, <1>2, <2>4, <2>5
<1>17. CountsFit(h, T2, C2)
  <2>1. ASSUME NEW i \in Instance, CanRun(h), ~isReplayed(i)
        PROVE  /\ C2[i].queued = Cardinality(Of(Queued(T2), T2, i))
               /\ C2[i].running = Cardinality(Of(Running(T2), T2, i))
    <3>. DEFINE Q == Of(Queued(T), T, i)
    <3>1. C[i].queued = Cardinality(Q)
          /\ C[i].running = Cardinality(Of(Running(T), T, i))
      BY <1>1, <2>1 DEF CountsFit
    <3>2. Of(Running(T2), T2, i) = Of(Running(T), T, i)
      <4>1. t \notin Running(T)
        BY <1>6 DEF Running
      <4>. QED
        BY <1>5, <1>9, <4>1 DEF Of, Running
    <3>3. Of(Queued(T2), T2, i) = IF i = k THEN Q \cup {t} ELSE Q
      BY <1>4, <1>5, <1>6, <1>9 DEF Of, Queued, k
    <3>4. t \notin Q /\ Q \in SUBSET Task
      BY <1>6 DEF Of, Queued
    <3>. HIDE DEF Q
    <3>5. IsFiniteSet(Q) /\ Cardinality(Q) \in Nat
      BY <3>4, TasksAreFinite
    <3>6. Cardinality(Q \cup {t}) = Cardinality(Q) + 1
      BY <3>4, <3>5, FS_AddElement
    <3>. QED
      BY <1>16, <3>1, <3>2, <3>3, <3>6
  <2>. QED
    BY <2>1 DEF CountsFit
<1>18. QuotaFits(T2)
  <2>1. ASSUME NEW i \in Instance, ~isReplayed(i)
        PROVE  Cardinality({u \in Of(Live(T2), T2, i) : ~T2[u].cancelling})
                 <= MaxTasksPerInstance
    <3>. DEFINE L == {u \in Of(Live(T), T, i) : ~T[u].cancelling}
    <3>1. {u \in Of(Live(T2), T2, i) : ~T2[u].cancelling} = IF i = k THEN L \cup {t} ELSE L
      BY <1>4, <1>5, <1>9 DEF Of, Live, k
    <3>2. t \notin L /\ L \in SUBSET Task
      BY <1>9 DEF Of, Live
    <3>3. i = k => Cardinality(L) < MaxTasksPerInstance
      BY <2>1 DEF k
    <3>4. Cardinality(L) <= MaxTasksPerInstance
      BY <1>1, <2>1 DEF QuotaFits
    <3>. HIDE DEF L
    <3>5. IsFiniteSet(L) /\ Cardinality(L) \in Nat /\ MaxTasksPerInstance \in Nat
      BY <3>2, TasksAreFinite, NumbersAssumption
    <3>6. Cardinality(L \cup {t}) = Cardinality(L) + 1
      BY <3>2, <3>5, FS_AddElement
    <3>7. Cardinality(IF i = k THEN L \cup {t} ELSE L) <= MaxTasksPerInstance
      <4>1. CASE i = k
        BY <3>3, <3>5, <3>6, <4>1
      <4>2. CASE i # k
        BY <3>4, <4>2
      <4>. QED
        BY <4>1, <4>2
    <3>. QED
      BY <3>1, <3>7
  <2>. QED
    BY <2>1 DEF QuotaFits
<1>19. TypesFit(T2, q2, S, C2, W)
  BY <1>1, <1>7, <1>11, <1>16 DEF TypesFit
<1>. QED
  BY <1>8, <1>10, <1>13, <1>14, <1>15, <1>17, <1>18, <1>19 DEF Fits

(* What becomes of the tasks.                                              *)
LEMMA CancelledRecords ==
  ASSUME task \in [Task -> TaskRecords], NEW F \in SUBSET Task
  PROVE  \A t \in Task :
           LET r == cancelledTasks(F)[t] IN
           /\ t \in queuedOf(F) => r.state = "settled"
           /\ t \in runningOf(F) => r.state = "running" /\ r.cancelling
           /\ t \notin F => r = task[t]
           /\ r = task[t] \/ (task[t].state = "queued" /\ r.state = "settled")
                          \/ (task[t].state = "running" /\ r.state = "running"
                              /\ r.kind = task[t].kind)
<1>1. PICK T2 : T2 = cancelledTasks(F)
  OBVIOUS
<1>2. ASSUME NEW t \in Task
      PROVE  /\ t \in queuedOf(F) => T2[t].state = "settled"
             /\ t \in runningOf(F) => T2[t].state = "running" /\ T2[t].cancelling
             /\ t \notin F => T2[t] = task[t]
             /\ T2[t] = task[t] \/ (task[t].state = "queued" /\ T2[t].state = "settled")
                          \/ (task[t].state = "running" /\ T2[t].state = "running"
                              /\ T2[t].kind = task[t].kind)
  <2>1. T2[t] = CASE t \in queuedOf(F)  -> settled(task[t], "error")
                  [] t \in runningOf(F) -> [task[t] EXCEPT !.cancelling = TRUE, !.grace = TRUE]
                  [] OTHER -> task[t]
    BY <1>1 DEF cancelledTasks
  <2>2. /\ t \in queuedOf(F) => task[t].state = "queued" /\ t \in F
        /\ t \in runningOf(F) => task[t].state = "running" /\ t \in F
    BY DEF queuedOf, runningOf
  <2>3. task[t] \in TaskRecords
    OBVIOUS
  <2>4. CASE t \in queuedOf(F)
    <3>1. T2[t] = settled(task[t], "error") /\ "error" \in Results
      BY <2>1, <2>2, <2>4 DEF Results
    <3>2. T2[t].state = "settled"
      BY <3>1, SettledFacts
    <3>. QED
      BY <2>2, <2>4, <3>2
  <2>5. CASE t \in runningOf(F)
    <3>1. T2[t] = [task[t] EXCEPT !.cancelling = TRUE, !.grace = TRUE]
      BY <2>1, <2>2, <2>5
    <3>2. T2[t].state = task[t].state /\ T2[t].cancelling /\ T2[t].kind = task[t].kind
      BY <2>3, <3>1 DEF TaskRecords
    <3>. QED
      BY <2>2, <2>5, <3>2
  <2>6. CASE t \notin queuedOf(F) /\ t \notin runningOf(F)
    BY <2>1, <2>6
  <2>. QED
    BY <2>4, <2>5, <2>6
<1>. QED
  BY <1>1, <1>2

(* A submission that is refused.                                           *)
rejected(r, kind, result) == [settled(r, result) EXCEPT !.kind = kind]

LEMMA RejectedFacts ==
  ASSUME NEW x, NEW kind \in Kinds, NEW result \in Results,
         NEW r, r = rejected(x, kind, result)
  PROVE  r \in TaskRecords /\ r.state = "settled" /\ RecordFits(r)
<1>1. PICK v : v = settled(x, result)
  OBVIOUS
<1>2. v \in TaskRecords /\ RecordFits(v) /\ v.state = "settled"
  BY <1>1, SettledFacts
<1>3. v.replays = 0
  <2>1. NewTask \in TaskRecords /\ NewTask.replays = 0
    BY NumbersAssumption DEF NewTask, TaskRecords, TaskStates, Results
  <2>2. v.replays = NewTask.replays
    BY <1>1, <2>1 DEF settled, TaskRecords
  <2>. QED
    BY <2>1, <2>2
<1>4. r = [v EXCEPT !.kind = kind]
  BY <1>1 DEF rejected
<1>5. /\ r \in TaskRecords
      /\ r.state = v.state /\ r.slot = v.slot /\ r.fallback = v.fallback
      /\ r.timeout = v.timeout /\ r.grace = v.grace
      /\ r.cancelling = v.cancelling /\ r.replays = v.replays /\ r.starts = v.starts
  BY <1>2, <1>4 DEF TaskRecords
<1>. QED
  BY <1>2, <1>3, <1>5 DEF RecordFits

Rejects(T, t, T2) ==
  /\ T2 \in [Task -> TaskRecords]
  /\ T2[t].state = "settled" /\ RecordFits(T2[t])
  /\ \A u \in Task \ {t} : T2[u] = T[u]

LEMMA RefusedFits ==
  ASSUME NEW h, NEW d, NEW n \in Nat, NEW T, NEW q, NEW S, NEW C, NEW W,
         Fits(h, d, n, T, q, S, C, W),
         NEW t \in Task, t = n + 1, NEW T2, Rejects(T, t, T2)
  PROVE  /\ Fits(h, d, t, T2, q, S, C, W)
         /\ NothingWaits(h, d, T, S) => NothingWaits(h, d, T2, S)
<1>1. /\ T \in [Task -> TaskRecords] /\ q \in Seq(Task)
      /\ S \in [Slot -> SlotRecords] /\ W \in [Slot -> WorkerRecords]
      /\ TypesFit(T, q, S, C, W)
      /\ TasksFit(n, T) /\ PlacesFit(h, T, q, S) /\ SlotsFit(d, T, S)
      /\ WorkersFit(T, S, W) /\ CountsFit(h, T, C) /\ QuotaFits(T)
  BY DEF Fits, TypesFit
<1>2. PICK r : r = T2[t]
  OBVIOUS
<1>3. r \in TaskRecords /\ r.state = "settled" /\ RecordFits(r)
  BY <1>2 DEF Rejects
<1>4. T2[t] = r /\ \A u \in Task \ {t} : T2[u] = T[u]
  BY <1>2 DEF Rejects
<1>5. T[t] = NewTask /\ T[t].state = "new"
  <2>1. t > n
    OBVIOUS
  <2>2. T[t] = NewTask
    BY <1>1, <2>1 DEF TasksFit
  <2>3. NewTask.state = "new"
    BY DEF NewTask
  <2>. QED
    BY <2>2, <2>3
<1>6. T2 \in [Task -> TaskRecords]
  BY DEF Rejects
<1>7. TasksFit(t, T2)
  <2>1. ASSUME NEW u \in Task
        PROVE  RecordFits(T2[u]) /\ (u > t => T2[u] = NewTask)
    <3>1. u \in Int /\ (u > t => u > n /\ u # t)
      BY DEF Task
    <3>. QED
      BY <1>1, <1>3, <1>4, <3>1 DEF TasksFit
  <2>. QED
    BY <2>1 DEF TasksFit
<1>8. /\ Queued(T2) = Queued(T) /\ Running(T2) = Running(T) /\ Live(T2) = Live(T)
      /\ Fallbacks(T2) = Fallbacks(T) /\ ~Unsettles(T, T2)
      /\ t \notin Live(T) /\ t \notin Queued(T) /\ t \notin Running(T)
  BY <1>3, <1>4, <1>5 DEF Queued, Running, Live, Fallbacks, Unsettles
<1>9. \A s \in Slot : S[s].busy # NoTask =>
        S[s].busy \in Task \ {t} /\ T2[S[s].busy] = T[S[s].busy]
  <2>1. \A s \in Slot : S[s].busy # NoTask =>
          S[s].busy \in Task /\ T[S[s].busy].state = "running"
    BY <1>1 DEF PlacesFit, SlotRecords
  <2>. QED
    BY <1>4, <1>5, <2>1
<1>10. PlacesFit(h, T2, q, S)
  <2>1. ToSet(q) \subseteq Task \ {t}
    <3>1. ToSet(q) \subseteq Task
      BY <1>1, ToSetFacts, ElementOfSeq
    <3>. QED
      BY <1>1, <1>5, <3>1 DEF PlacesFit
  <2>2. \A u \in ToSet(q) :
          T2[u].state = "queued" \/ (T2[u].state = "settled" /\ ~CanRun(h))
    BY <1>1, <1>4, <2>1 DEF PlacesFit
  <2>3. ASSUME NEW u \in Running(T2)
        PROVE  /\ CanRun(h)
               /\ IF T2[u].fallback THEN T2[u].slot = NoSlot
                                    ELSE T2[u].slot \in Slot /\ S[T2[u].slot].busy = u
    <3>1. u \in Task /\ u \in Running(T) /\ T2[u] = T[u]
      BY <1>4, <1>8 DEF Running
    <3>. QED
      BY <1>1, <3>1 DEF PlacesFit
  <2>4. \A s \in Slot : S[s].busy # NoTask =>
          /\ T2[S[s].busy].state = "running"
          /\ ~T2[S[s].busy].fallback
          /\ T2[S[s].busy].slot = s
    BY <1>1, <1>9 DEF PlacesFit
  <2>. QED
    BY <1>1, <1>8, <2>2, <2>3, <2>4 DEF PlacesFit
<1>11. SlotsFit(d, T2, S)
  BY <1>1, <1>8 DEF SlotsFit
<1>12. WorkersFit(T2, S, W)
  <2>1. ASSUME NEW s \in Slot
        PROVE  WorkerFits(S[s].busy, T2, W[s])
    <3>1. W[s] \in WorkerRecords /\ WorkerFits(S[s].busy, T, W[s])
          /\ S[s].busy \in Task \cup {NoTask}
      BY <1>1 DEF WorkersFit, SlotRecords
    <3>2. S[s].busy \in Task => SameProgress(T[S[s].busy], T2[S[s].busy])
      BY <1>9, NoTaskIsNoTask DEF SameProgress
    <3>. QED
      BY <1>8, <3>1, <3>2, WorkerKept
  <2>. QED
    BY <2>1 DEF WorkersFit
<1>13. \A u \in Live(T) : u \in Task \ {t} /\ T2[u] = T[u]
  BY <1>4, <1>8 DEF Live
<1>14. CountsFit(h, T2, C)
  <2>1. \A i \in Instance : /\ Of(Queued(T2), T2, i) = Of(Queued(T), T, i)
                            /\ Of(Running(T2), T2, i) = Of(Running(T), T, i)
    <3>1. /\ \A u \in Queued(T) : T2[u] = T[u]
          /\ \A u \in Running(T) : T2[u] = T[u]
      BY <1>13 DEF Queued, Running, Live
    <3>. QED
      BY <1>8, <3>1 DEF Of
  <2>. QED
    BY <1>1, <2>1 DEF CountsFit
<1>15. QuotaFits(T2)
  <2>1. \A u \in Live(T2) : u \in Live(T) /\ T2[u] = T[u]
    BY <1>8, <1>13
  <2>2. \A u \in Live(T2) : ~T2[u].cancelling =>
          u \in Live(T) /\ ~T[u].cancelling /\ T[u].kind = T2[u].kind
    BY <2>1
  <2>3. QuotaFits(T)
    BY <1>1
  <2>. QED
    BY <2>2, <2>3, QuotaShrinks
<1>16. TypesFit(T2, q, S, C, W)
  BY <1>1, <1>6 DEF TypesFit
<1>. QED
  BY <1>7, <1>8, <1>10, <1>11, <1>12, <1>14, <1>15, <1>16 DEF Fits, NothingWaits

(* Slots and workers change, but not what the slots are busy with.         *)
LEMMA SlotsChangedFits ==
  ASSUME NEW h, NEW d, NEW n, NEW T, NEW q, NEW S, NEW C, NEW W,
         Fits(h, d, n, T, q, S, C, W),
         NEW S2 \in [Slot -> SlotRecords], \A s \in Slot : S2[s].busy = S[s].busy,
         SlotsFit(d, T, S2),
         NEW W2 \in [Slot -> WorkerRecords],
         \A s \in Slot : WorkerFits(S[s].busy, T, W2[s])
  PROVE  Fits(h, d, n, T, q, S2, C, W2)
<1>1. PlacesFit(h, T, q, S2)
  BY DEF Fits, PlacesFit
<1>2. WorkersFit(T, S2, W2)
  BY DEF WorkersFit
<1>3. TypesFit(T, q, S2, C, W2)
  BY DEF Fits, TypesFit
<1>. QED
  BY <1>1, <1>2, <1>3 DEF Fits

(* destroy() when its tasks are cancelled.                                 *)
LEMMA DestroyedFits ==
  ASSUME NEW h, NEW d, NEW n, NEW T, NEW q, NEW S, NEW C, NEW W,
         Fits(h, d, n, T, q, S, C, W), Queued(T) = {},
         NEW S2, S2 = [s \in Slot |-> [EmptySlot EXCEPT !.busy = S[s].busy]],
         NEW W2, W2 = [s \in Slot |-> NoWorker]
  PROVE  Fits(h, TRUE, n, T, <<>>, S2, C, W2)
<1>1. /\ T \in [Task -> TaskRecords] /\ S \in [Slot -> SlotRecords]
      /\ C \in [Instance -> [queued : Nat, running : Nat]]
      /\ TasksFit(n, T) /\ PlacesFit(h, T, q, S) /\ CountsFit(h, T, C) /\ QuotaFits(T)
  BY DEF Fits, TypesFit
<1>2. ASSUME NEW s \in Slot
      PROVE  /\ S2[s] \in SlotRecords /\ S2[s].busy = S[s].busy
             /\ ~S2[s].ready /\ ~S2[s].present
  <2>1. S[s].busy \in Task \cup {NoTask}
    BY <1>1 DEF SlotRecords
  <2>2. S2[s] = [EmptySlot EXCEPT !.busy = S[s].busy]
    OBVIOUS
  <2>. QED
    BY <2>1, <2>2, EmptySlotFacts DEF SlotRecords
<1>3. S2 \in [Slot -> SlotRecords]
  <2>1. S2 = [s \in Slot |-> S2[s]]
    OBVIOUS
  <2>. QED
    BY <1>2, <2>1
<1>4. ToSet(<<>>) = {} /\ IsInjective(<<>>) /\ <<>> \in Seq(Task)
  BY DEF ToSet, IsInjective
<1>5. PlacesFit(h, T, <<>>, S2)
  BY <1>1, <1>2, <1>4 DEF PlacesFit
<1>6. SlotsFit(TRUE, T, S2)
  BY <1>2 DEF SlotsFit
<1>7. W2 \in [Slot -> WorkerRecords] /\ WorkersFit(T, S2, W2)
  BY NoWorkerFits DEF WorkersFit
<1>8. TypesFit(T, <<>>, S2, C, W2)
  BY <1>1, <1>3, <1>4, <1>7 DEF TypesFit
<1>. QED
  BY <1>1, <1>5, <1>6, <1>7, <1>8 DEF Fits

-----------------------------------------------------------------------------
(* The operations.                                                         *)

LEMMA Rescheduled ==
  ASSUME OthersFit, UNCHANGED <<host, destroyed>>,
         submitted' \in 0 .. MaxTasks, crashes' \in 0 .. MaxCrashes,
         NEW T, NEW q, NEW S, NEW C, NEW W,
         Fits(host, destroyed, submitted', T, q, S, C, W),
         schedule(T, q, S, C, W)
  PROVE  IInv'
<1>1. PICK n : n = submitted'
  OBVIOUS
<1>2. Fits(host, destroyed, n, T, q, S, C, W)
  BY <1>1
<1>3. host \in Hosts /\ LastFits(lastInstance)
  BY DEF OthersFit, LastFits
<1>4. /\ Fits(host, destroyed, n, task', queue', slot', stats', worker')
      /\ NothingWaits(host, destroyed, task', slot')
      /\ LastFits(lastInstance')
  BY <1>2, <1>3, ScheduleFits
<1>5. OthersFit'
  BY <1>4 DEF OthersFit, LastFits
<1>. QED
  BY <1>1, <1>4, <1>5 DEF IInv

LEMMA Unscheduled ==
  ASSUME OthersFit, UNCHANGED <<host, destroyed, lastInstance>>,
         submitted' \in 0 .. MaxTasks, crashes' \in 0 .. MaxCrashes,
         Fits(host, destroyed, submitted', task', queue', slot', stats', worker'),
         NothingWaits(host, destroyed, task', slot')
  PROVE  IInv'
<1>1. OthersFit'
  BY DEF OthersFit
<1>. QED
  BY <1>1 DEF IInv

LEMMA CancelsKeeps ==
  ASSUME IInv, NEW F \in SUBSET Task, cancels(F),
         UNCHANGED <<host, destroyed, submitted, crashes>>
  PROVE  IInv'
<1>1. /\ OthersFit /\ NothingWaits(host, destroyed, task, slot)
      /\ Fits(host, destroyed, submitted, task, queue, slot, stats, worker)
  BY DEF IInv
<1>2. submitted' = submitted /\ submitted' \in 0 .. MaxTasks /\ crashes' \in 0 .. MaxCrashes
  BY <1>1 DEF OthersFit
<1>3. CASE /\ queuedOf(F) # {}
           /\ schedule(cancelledTasks(F), cancelledQueue(F), slot, cancelledStats(F),
                       cancelledWorkers(F))
  <2>1. Fits(host, destroyed, submitted, cancelledTasks(F), cancelledQueue(F), slot,
             cancelledStats(F), cancelledWorkers(F))
    BY <1>1, CancelFits
  <2>. QED
    BY <1>1, <1>2, <1>3, <2>1, Rescheduled
<1>4. CASE /\ queuedOf(F) = {}
           /\ task' = cancelledTasks(F) /\ worker' = cancelledWorkers(F)
           /\ UNCHANGED <<queue, slot, stats, lastInstance>>
  <2>1. /\ Fits(host, destroyed, submitted, cancelledTasks(F), queue, slot,
                stats, cancelledWorkers(F))
        /\ NothingWaits(host, destroyed, cancelledTasks(F), slot)
    BY <1>1, <1>4, CancelFits
  <2>. QED
    BY <1>1, <1>2, <1>4, <2>1, Unscheduled
<1>. QED
  BY <1>3, <1>4 DEF cancels

(* What submit() reads of the counts bounds the tasks that remain.         *)
LEMMA RoomBoundsTasks ==
  ASSUME IInv, NEW kind \in Kinds, hasRoom(kind), ~isReplayed(kind.instance),
         NEW T2, T2 = cancelledTasks(mergeCandidates(kind))
  PROVE  Cardinality({u \in Of(Live(T2), T2, kind.instance) : ~T2[u].cancelling})
           < MaxTasksPerInstance
<1>. DEFINE i == kind.instance
            F == mergeCandidates(kind)
            L == {u \in Of(Live(T2), T2, i) : ~T2[u].cancelling}
            A == Of(Queued(task), task, i)
            B == Of(Running(task), task, i)
<1>1. /\ task \in [Task -> TaskRecords] /\ PlacesFit(host, task, queue, slot)
      /\ CountsFit(host, task, stats) /\ NothingWaits(host, destroyed, task, slot)
  BY DEF IInv, Fits, TypesFit
<1>2. i \in Instance
  BY KindsAssumption DEF KindType
<1>3. F \in SUBSET Task /\ F \subseteq A \cup B
  BY DEF mergeCandidates, Of, Queued, Running
<1>4. /\ A \in SUBSET Task /\ B \in SUBSET Task /\ A \cup B \in SUBSET Task
      /\ A \cap B = {} /\ (A \cup B) \ F \in SUBSET Task
  BY DEF Of, Queued, Running
<1>5. L \subseteq (A \cup B) \ F
  <2>1. ASSUME NEW u \in L
        PROVE  u \in (A \cup B) \ F
    <3>1. u \in Task /\ T2[u].state \in {"queued", "running"} /\ T2[u].kind.instance = i
          /\ ~T2[u].cancelling
      BY DEF Of, Live
    <3>2. /\ u \in queuedOf(F) => T2[u].state = "settled"
          /\ u \in runningOf(F) => T2[u].state = "running" /\ T2[u].cancelling
          /\ u \notin F => T2[u] = task[u]
          /\ T2[u] = task[u] \/ (task[u].state = "queued" /\ T2[u].state = "settled")
                       \/ (task[u].state = "running" /\ T2[u].state = "running"
                           /\ T2[u].kind = task[u].kind)
      BY <1>1, <1>3, <3>1, CancelledRecords
    <3>3. u \in A \cup B
      BY <3>1, <3>2 DEF Of, Queued, Running
    <3>4. u \notin F
      <4>1. SUFFICES ASSUME u \in F PROVE FALSE
        OBVIOUS
      <4>2. u \notin queuedOf(F) /\ u \notin runningOf(F)
        BY <3>1, <3>2
      <4>3. task[u].state \in {"queued", "running"}
        BY <4>1 DEF mergeCandidates
      <4>4. task[u].state = "running" /\ task[u].cancelling
        BY <4>1, <4>2, <4>3 DEF queuedOf, runningOf
      <4>5. T2[u] = cancelledTasks(F)[u]
        OBVIOUS
      <4>6. T2[u] = task[u]
        <5>1. T2[u] = CASE u \in queuedOf(F)  -> settled(task[u], "error")
                        [] u \in runningOf(F) ->
                             [task[u] EXCEPT !.cancelling = TRUE, !.grace = TRUE]
                        [] OTHER -> task[u]
          BY <3>1 DEF cancelledTasks
        <5>. QED
          BY <4>2, <5>1
      <4>. QED
        BY <3>1, <4>4, <4>6
    <3>. QED
      BY <3>3, <3>4
  <2>. QED
    BY <2>1
<1>6. hasRoom(kind) =>
        stats[i].queued + stats[i].running - Cardinality(F) < MaxTasksPerInstance
  BY DEF hasRoom
<1>7. CanRun(host) => stats[i].queued = Cardinality(A) /\ stats[i].running = Cardinality(B)
  BY <1>1, <1>2 DEF CountsFit
<1>8. ~CanRun(host) => A = {} /\ B = {}
  BY <1>1 DEF PlacesFit, NothingWaits, Of
<1>9. L \in SUBSET Task
  BY <1>4, <1>5
<1>. HIDE DEF A, B, F, L, i
<1>10. /\ IsFiniteSet(A) /\ IsFiniteSet(B) /\ IsFiniteSet(A \cup B) /\ IsFiniteSet(F)
       /\ Cardinality(A) \in Nat /\ Cardinality(B) \in Nat /\ Cardinality(F) \in Nat
       /\ Cardinality((A \cup B) \ F) \in Nat /\ IsFiniteSet((A \cup B) \ F)
       /\ Cardinality(L) \in Nat
  BY <1>3, <1>4, <1>9, TasksAreFinite
<1>11. Cardinality(A \cup B) = Cardinality(A) + Cardinality(B)
  <2>1. Cardinality(A \cup B) = Cardinality(A) + Cardinality(B) - Cardinality(A \cap B)
    BY <1>10, FS_Union
  <2>2. Cardinality(A \cap B) = 0
    BY <1>4, FS_EmptySet
  <2>. QED
    BY <1>10, <2>1, <2>2
<1>12. Cardinality((A \cup B) \ F) = Cardinality(A \cup B) - Cardinality(F)
  <2>1. (A \cup B) \cap F = F
    BY <1>3
  <2>2. Cardinality((A \cup B) \ F)
          = Cardinality(A \cup B) - Cardinality((A \cup B) \cap F)
    BY <1>10, FS_Difference
  <2>. QED
    BY <2>1, <2>2
<1>13. Cardinality(L) <= Cardinality((A \cup B) \ F)
  BY <1>5, <1>10, FS_Subset
<1>14. MaxTasksPerInstance \in Nat \ {0}
  BY NumbersAssumption
<1>15. CASE CanRun(host)
  BY <1>6, <1>7, <1>10, <1>11, <1>12, <1>13, <1>14, <1>15 DEF L, i
<1>16. CASE ~CanRun(host)
  <2>1. L = {}
    BY <1>5, <1>8, <1>16
  <2>2. Cardinality(L) = 0
    BY <2>1, FS_EmptySet
  <2>. QED
    BY <1>14, <2>2 DEF L, i
<1>. QED
  BY <1>15, <1>16

LEMMA SubmitKeeps ==
  ASSUME IInv, NEW kind \in Kinds, Submit(kind)
  PROVE  IInv'
<1>1. /\ OthersFit /\ NothingWaits(host, destroyed, task, slot)
      /\ Fits(host, destroyed, submitted, task, queue, slot, stats, worker)
      /\ task \in [Task -> TaskRecords]
  BY DEF IInv, Fits, TypesFit
<1>2. PICK t : t = submitted + 1
  OBVIOUS
<1>3. /\ t \in Task /\ submitted' = t /\ submitted \in Nat
      /\ UNCHANGED <<host, destroyed>>
      /\ submitted' \in 0 .. MaxTasks /\ crashes' \in 0 .. MaxCrashes
  BY <1>1, <1>2 DEF Submit, OthersFit, Task
<1>4. ASSUME NEW result \in Results, refused(t, kind, result)
      PROVE  IInv'
  <2>1. task' = [task EXCEPT ![t] = [settled(@, result) EXCEPT !.kind = kind]]
        /\ UNCHANGED <<queue, slot, stats, lastInstance, worker>>
    BY <1>4 DEF refused
  <2>2. /\ Fits(host, destroyed, t, task', queue, slot, stats, worker)
        /\ NothingWaits(host, destroyed, task, slot)
             => NothingWaits(host, destroyed, task', slot)
    <3>1. PICK T2 : T2 = [task EXCEPT ![t] = rejected(task[t], kind, result)]
      OBVIOUS
    <3>2. /\ Fits(host, destroyed, t, T2, queue, slot, stats, worker)
          /\ NothingWaits(host, destroyed, task, slot)
               => NothingWaits(host, destroyed, T2, slot)
      <4>1. Fits(host, destroyed, submitted, task, queue, slot, stats, worker)
        BY <1>1
      <4>2. submitted \in Nat /\ t \in Task /\ t = submitted + 1
        BY <1>2, <1>3
      <4>3. PICK r : r = rejected(task[t], kind, result)
        OBVIOUS
      <4>4. r \in TaskRecords /\ r.state = "settled" /\ RecordFits(r)
        BY <1>4, <4>3, RejectedFacts
      <4>5. Rejects(task, t, T2)
        BY <1>1, <3>1, <4>2, <4>3, <4>4 DEF Rejects
      <4>. QED
        BY <4>1, <4>2, <4>5, RefusedFits
    <3>3. task' = T2
      BY <2>1, <3>1 DEF rejected
    <3>. QED
      BY <3>2, <3>3
  <2>. QED
    BY <1>1, <1>3, <2>1, <2>2, Unscheduled
<1>5. CASE ~destroyed /\ hasRoom(kind) /\ accepted(t, kind)
  <2>. DEFINE F == mergeCandidates(kind)
  <2>1. F \in SUBSET Task
    BY DEF mergeCandidates
  <2>2. PICK T2 : T2 = cancelledTasks(F)
    OBVIOUS
  <2>3. PICK T3 : T3 = [T2 EXCEPT ![t] = [NewTask EXCEPT !.state = "queued", !.kind = kind]]
    OBVIOUS
  <2>4. PICK C3 : C3 = [cancelledStats(F) EXCEPT ![kind.instance].queued = @ + 1]
    OBVIOUS
  <2>5. schedule(T3, Append(cancelledQueue(F), t), slot, C3, cancelledWorkers(F))
    BY <1>5, <2>2, <2>3, <2>4 DEF accepted
  <2>6. Fits(host, destroyed, submitted, T2, cancelledQueue(F), slot, cancelledStats(F),
             cancelledWorkers(F))
    BY <1>1, <2>1, <2>2, CancelFits
  <2>7. ~isReplayed(kind.instance) =>
          Cardinality({u \in Of(Live(T2), T2, kind.instance) : ~T2[u].cancelling})
            < MaxTasksPerInstance
    BY <1>5, <2>2, RoomBoundsTasks
  <2>. HIDE DEF F
  <2>8. Fits(host, destroyed, t, T3, Append(cancelledQueue(F), t), slot, C3,
             cancelledWorkers(F))
    BY <1>2, <1>3, <1>5, <2>3, <2>4, <2>6, <2>7, EnqueuedFits
  <2>9. Fits(host, destroyed, submitted', T3, Append(cancelledQueue(F), t), slot, C3,
             cancelledWorkers(F))
    BY <1>3, <2>8
  <2>. QED
    BY <1>1, <1>3, <2>5, <2>9, Rescheduled
<1>. QED
  BY <1>2, <1>4, <1>5 DEF Submit, Results

LEMMA DestroyKeeps ==
  ASSUME IInv, Destroy
  PROVE  IInv'
<1>1. /\ OthersFit
      /\ Fits(host, destroyed, submitted, task, queue, slot, stats, worker)
      /\ task \in [Task -> TaskRecords]
  BY DEF IInv, Fits, TypesFit
<1>2. live \in SUBSET Task
  BY DEF live
<1>3. PICK T2 : T2 = cancelledTasks(live)
  OBVIOUS
<1>4. Fits(host, destroyed, submitted, T2, cancelledQueue(live), slot,
           cancelledStats(live), cancelledWorkers(live))
  BY <1>1, <1>2, <1>3, CancelFits
<1>5. Queued(T2) = {}
  <2>1. ASSUME NEW t \in Task, T2[t].state = "queued"
        PROVE  FALSE
    <3>1. /\ t \in queuedOf(live) => T2[t].state = "settled"
          /\ t \notin live => T2[t] = task[t]
          /\ T2[t] = task[t] \/ (task[t].state = "queued" /\ T2[t].state = "settled")
                       \/ (task[t].state = "running" /\ T2[t].state = "running"
                           /\ T2[t].kind = task[t].kind)
      BY <1>1, <1>2, <1>3, CancelledRecords
    <3>2. task[t].state = "queued" => t \in queuedOf(live)
      BY DEF queuedOf, live
    <3>. QED
      BY <2>1, <3>1, <3>2
  <2>. QED
    BY <2>1 DEF Queued
<1>6. PICK S2 : S2 = [s \in Slot |-> [EmptySlot EXCEPT !.busy = slot[s].busy]]
  OBVIOUS
<1>7. PICK W2 : W2 = [s \in Slot |-> NoWorker]
  OBVIOUS
<1>8. Fits(host, TRUE, submitted, T2, <<>>, S2, cancelledStats(live), W2)
  BY <1>4, <1>5, <1>6, <1>7, DestroyedFits
<1>9. /\ host' = host /\ destroyed' = TRUE /\ submitted' = submitted /\ task' = T2
      /\ queue' = <<>> /\ slot' = S2 /\ stats' = cancelledStats(live) /\ worker' = W2
      /\ lastInstance' = lastInstance /\ crashes' = crashes
  BY <1>3, <1>6, <1>7 DEF Destroy
<1>10. NothingWaits(host, TRUE, T2, S2)
  BY <1>5 DEF NothingWaits
<1>11. OthersFit'
  BY <1>1, <1>9 DEF OthersFit
<1>. QED
  BY <1>8, <1>9, <1>10, <1>11 DEF IInv

(* A task that no slot is busy with leaves the slots as they are.          *)
LEMMA FallbackFrees ==
  ASSUME Fits(host, destroyed, submitted, task, queue, slot, stats, worker),
         NEW t \in Task, task[t].fallback, NEW T2
  PROVE  Frees(destroyed, t, T2, slot, slot, worker, worker)
<1>1. /\ slot \in [Slot -> SlotRecords] /\ worker \in [Slot -> WorkerRecords]
      /\ PlacesFit(host, task, queue, slot) /\ SlotsFit(destroyed, task, slot)
  BY DEF Fits, TypesFit
<1>2. \A s \in Slot : slot[s].busy # t
  BY <1>1, NoTaskIsNoTask DEF PlacesFit
<1>. QED
  BY <1>1, <1>2 DEF Frees, SlotsFit

LEMMA FallbackEndKeeps ==
  ASSUME IInv, NEW t \in Running(task), task[t].fallback, NEW result \in Results,
         schedule(finishedTasks(t, result), queue, slot, finishedStats(t), worker),
         UNCHANGED <<host, destroyed, submitted, crashes>>
  PROVE  IInv'
<1>1. /\ OthersFit
      /\ Fits(host, destroyed, submitted, task, queue, slot, stats, worker)
  BY DEF IInv
<1>2. submitted' = submitted /\ submitted' \in 0 .. MaxTasks /\ crashes' \in 0 .. MaxCrashes
  BY <1>1 DEF OthersFit
<1>3. Frees(destroyed, t, finishedTasks(t, result), slot, slot, worker, worker)
  BY <1>1, FallbackFrees DEF Running
<1>4. Fits(host, destroyed, submitted', finishedTasks(t, result), queue, slot,
           finishedStats(t), worker)
  BY <1>1, <1>2, <1>3, FinishedFits
<1>. QED
  BY <1>1, <1>2, <1>4, Rescheduled

LEMMA FailedSlotFrees ==
  ASSUME Fits(host, destroyed, submitted, task, queue, slot, stats, worker),
         ~destroyed, NEW s \in Slot, slot[s].busy # NoTask, NEW T2
  PROVE  Frees(destroyed, slot[s].busy, T2, slot, failedSlots(s), worker,
               failedWorkers(s))
<1>1. /\ slot \in [Slot -> SlotRecords] /\ worker \in [Slot -> WorkerRecords]
      /\ PlacesFit(host, task, queue, slot) /\ SlotsFit(destroyed, task, slot)
  BY DEF Fits, TypesFit
<1>2. PICK S2 : S2 = failedSlots(s)
  OBVIOUS
<1>3. PICK W2 : W2 = failedWorkers(s)
  OBVIOUS
<1>4. /\ S2 \in [Slot -> SlotRecords] /\ S2[s] = EmptySlot
      /\ \A x \in Slot \ {s} : S2[x] = slot[x]
  BY <1>1, <1>2, EmptySlotFacts DEF failedSlots
<1>5. /\ W2 \in [Slot -> WorkerRecords] /\ W2[s] = NoWorker
      /\ \A x \in Slot \ {s} : W2[x] = worker[x]
  <2>1. NoWorker \in WorkerRecords
    BY NoWorkerFits
  <2>. QED
    BY <1>1, <1>3, <2>1 DEF failedWorkers
<1>6. \A x \in Slot \ {s} : slot[x].busy # slot[s].busy
  BY <1>1 DEF PlacesFit
<1>7. WorkerFits(NoTask, T2, NoWorker)
  BY NoWorkerFits
<1>8. ASSUME NEW x \in Slot
      PROVE  /\ S2[x].busy = IF slot[x].busy = slot[s].busy THEN NoTask ELSE slot[x].busy
             /\ S2[x].ready => S2[x].present
             /\ S2[x].busy # NoTask => S2[x].present = slot[x].present
             /\ destroyed => ~S2[x].present
             /\ IF slot[x].busy = slot[s].busy THEN WorkerFits(NoTask, T2, W2[x])
                                               ELSE W2[x] = worker[x]
  <2>1. CASE x = s
    BY <1>4, <1>5, <1>7, <2>1, EmptySlotFacts
  <2>2. CASE x # s
    BY <1>1, <1>4, <1>5, <1>6, <2>2 DEF SlotsFit
  <2>. QED
    BY <2>1, <2>2
<1>. QED
  BY <1>2, <1>3, <1>4, <1>5, <1>8 DEF Frees

LEMMA SlotFailsKeeps ==
  ASSUME IInv, ~destroyed, NEW s \in Slot, slotFails(s),
         UNCHANGED <<host, destroyed, submitted>>, crashes' \in 0 .. MaxCrashes
  PROVE  IInv'
<1>1. /\ OthersFit
      /\ Fits(host, destroyed, submitted, task, queue, slot, stats, worker)
      /\ slot \in [Slot -> SlotRecords] /\ worker \in [Slot -> WorkerRecords]
      /\ PlacesFit(host, task, queue, slot) /\ SlotsFit(destroyed, task, slot)
      /\ WorkersFit(task, slot, worker)
  BY DEF IInv, Fits, TypesFit
<1>2. submitted' = submitted /\ submitted' \in 0 .. MaxTasks /\ crashes' \in 0 .. MaxCrashes
  BY <1>1 DEF OthersFit
<1>3. PICK t : t = slot[s].busy
  OBVIOUS
<1>4. CASE t = NoTask /\ schedule(task, queue, failedSlots(s), stats, failedWorkers(s))
  <2>1. PICK S2 : S2 = failedSlots(s)
    OBVIOUS
  <2>2. PICK W2 : W2 = failedWorkers(s)
    OBVIOUS
  <2>3. /\ S2 \in [Slot -> SlotRecords] /\ S2[s] = EmptySlot
        /\ \A x \in Slot \ {s} : S2[x] = slot[x]
    BY <1>1, <2>1, EmptySlotFacts DEF failedSlots
  <2>4. /\ W2 \in [Slot -> WorkerRecords] /\ W2[s] = NoWorker
        /\ \A x \in Slot \ {s} : W2[x] = worker[x]
    <3>1. NoWorker \in WorkerRecords
      BY NoWorkerFits
    <3>. QED
      BY <1>1, <2>2, <3>1 DEF failedWorkers
  <2>5. \A x \in Slot : S2[x].busy = slot[x].busy
    BY <1>3, <1>4, <2>3, EmptySlotFacts
  <2>6. SlotsFit(destroyed, task, S2)
    BY <1>1, <2>3, EmptySlotFacts DEF SlotsFit
  <2>7. ASSUME NEW x \in Slot
        PROVE  WorkerFits(slot[x].busy, task, W2[x])
    <3>1. CASE x = s
      BY <2>4, <3>1, NoWorkerFits
    <3>2. CASE x # s
      BY <1>1, <2>4, <3>2 DEF WorkersFit
    <3>. QED
      BY <3>1, <3>2
  <2>8. Fits(host, destroyed, submitted, task, queue, S2, stats, W2)
    BY <1>1, <2>3, <2>4, <2>5, <2>6, <2>7, SlotsChangedFits
  <2>9. Fits(host, destroyed, submitted', task, queue, S2, stats, W2)
    BY <1>2, <2>8
  <2>10. schedule(task, queue, S2, stats, W2)
    BY <1>4, <2>1, <2>2
  <2>. QED
    BY <1>1, <1>2, <2>9, <2>10, Rescheduled
<1>5. t # NoTask =>
        /\ t \in Running(task) /\ ~task[t].fallback
        /\ \A T2 : Frees(destroyed, t, T2, slot, failedSlots(s), worker, failedWorkers(s))
  <2>1. t # NoTask => t \in Running(task) /\ ~task[t].fallback
    BY <1>1, <1>3 DEF PlacesFit, SlotRecords, Running
  <2>2. t # NoTask =>
          \A T2 : Frees(destroyed, t, T2, slot, failedSlots(s), worker, failedWorkers(s))
    BY <1>1, <1>3, FailedSlotFrees
  <2>. QED
    BY <2>1, <2>2
<1>6. CASE /\ t # NoTask /\ mayReplay(t)
           /\ schedule(replayedTasks(t), Append(queue, t), failedSlots(s),
                       finishedStats(t), failedWorkers(s))
  <2>1. Fits(host, destroyed, submitted', replayedTasks(t), Append(queue, t),
             failedSlots(s), finishedStats(t), failedWorkers(s))
    BY <1>1, <1>2, <1>5, <1>6, ReplayedFits
  <2>. QED
    BY <1>1, <1>2, <1>6, <2>1, Rescheduled
<1>7. CASE /\ t # NoTask
           /\ schedule(finishedTasks(t, "error"), queue, failedSlots(s),
                       finishedStats(t), failedWorkers(s))
  <2>1. "error" \in Results
    BY DEF Results
  <2>2. Fits(host, destroyed, submitted', finishedTasks(t, "error"), queue,
             failedSlots(s), finishedStats(t), failedWorkers(s))
    BY <1>1, <1>2, <1>5, <1>7, <2>1, FinishedFits
  <2>. QED
    BY <1>1, <1>2, <1>7, <2>2, Rescheduled
<1>. QED
  BY <1>3, <1>4, <1>6, <1>7 DEF slotFails

(* Running tasks change without their workers being told.                  *)
LEMMA QuietlyAlteredFits ==
  ASSUME NEW h, NEW d, NEW n, NEW T, NEW q, NEW S, NEW C, NEW W,
         Fits(h, d, n, T, q, S, C, W),
         NEW T2, Alters(T, T2),
         \A t \in Task : T2[t].starts = T[t].starts /\ T2[t].cancelling = T[t].cancelling
  PROVE  /\ Fits(h, d, n, T2, q, S, C, W)
         /\ NothingWaits(h, d, T, S) => NothingWaits(h, d, T2, S)
<1>1. W \in [Slot -> WorkerRecords]
  BY DEF Fits, TypesFit
<1>2. Tells(S, {}, W, W)
  BY <1>1 DEF Tells
<1>. QED
  BY <1>2, ToldFits

(* A running task's timers and answers change its record only.             *)
LEMMA RecordAlters ==
  ASSUME NEW n, NEW T \in [Task -> TaskRecords], TasksFit(n, T),
         NEW t \in Running(T), NEW r \in TaskRecords, SameTask(T[t], r),
         r.starts = T[t].starts, r.cancelling = T[t].cancelling,
         NEW T2, T2 = [T EXCEPT ![t] = r]
  PROVE  /\ Alters(T, T2)
         /\ \A u \in Task : T2[u].starts = T[u].starts /\ T2[u].cancelling = T[u].cancelling
<1>1. t \in Task /\ T[t].state = "running" /\ T[t].starts <= T[t].replays + 1
  BY DEF Running, TasksFit, RecordFits
<1>2. /\ T2 \in [Task -> TaskRecords] /\ T2[t] = r
      /\ \A u \in Task \ {t} : T2[u] = T[u]
  BY <1>1
<1>3. T2[t].starts <= T2[t].replays + 1
  BY <1>1, <1>2 DEF SameTask
<1>. QED
  BY <1>1, <1>2, <1>3 DEF Alters

LEMMA TimeoutKeeps ==
  ASSUME IInv, NEW t \in Task, TimeoutFires(t)
  PROVE  IInv'
<1>1. /\ OthersFit /\ NothingWaits(host, destroyed, task, slot)
      /\ Fits(host, destroyed, submitted, task, queue, slot, stats, worker)
      /\ task \in [Task -> TaskRecords] /\ TasksFit(submitted, task)
  BY DEF IInv, Fits, TypesFit
<1>2. t \in Running(task)
  BY <1>1 DEF TimeoutFires, TasksFit, RecordFits, Running
<1>3. queuedOf({t}) = {}
  BY <1>2 DEF queuedOf, Running
<1>4. PICK T1 : T1 = cancelledTasks({t})
  OBVIOUS
<1>5. PICK W2 : W2 = cancelledWorkers({t})
  OBVIOUS
<1>6. /\ Fits(host, destroyed, submitted, T1, queue, slot, stats, W2)
      /\ NothingWaits(host, destroyed, T1, slot)
  BY <1>1, <1>3, <1>4, <1>5, CancelFits
<1>7. T1 \in [Task -> TaskRecords] /\ TasksFit(submitted, T1)
  BY <1>6 DEF Fits, TypesFit
<1>8. t \in Running(T1)
  BY <1>1, <1>2, <1>4, CancelledRecords DEF Running
<1>9. PICK r : r = [T1[t] EXCEPT !.timeout = FALSE]
  OBVIOUS
<1>10. /\ r \in TaskRecords /\ SameTask(T1[t], r)
       /\ r.starts = T1[t].starts /\ r.cancelling = T1[t].cancelling
  BY <1>7, <1>9 DEF TaskRecords, SameTask
<1>11. task' = [T1 EXCEPT ![t] = r]
  BY <1>4, <1>9 DEF TimeoutFires
<1>12. PICK T2 : T2 = [T1 EXCEPT ![t] = r]
  OBVIOUS
<1>13. /\ Alters(T1, T2)
       /\ \A u \in Task : T2[u].starts = T1[u].starts /\ T2[u].cancelling = T1[u].cancelling
  BY <1>7, <1>8, <1>10, <1>12, RecordAlters
<1>14. /\ Fits(host, destroyed, submitted, T2, queue, slot, stats, W2)
       /\ NothingWaits(host, destroyed, T2, slot)
  BY <1>6, <1>13, QuietlyAlteredFits
<1>15. /\ UNCHANGED <<host, destroyed, submitted, queue, slot, stats, lastInstance, crashes>>
       /\ task' = T2 /\ worker' = W2
  BY <1>5, <1>11, <1>12 DEF TimeoutFires
<1>16. submitted' \in 0 .. MaxTasks /\ crashes' \in 0 .. MaxCrashes
  BY <1>1, <1>15 DEF OthersFit
<1>. QED
  BY <1>1, <1>14, <1>15, <1>16, Unscheduled

LEMMA GraceKeeps ==
  ASSUME IInv, NEW t \in Task, GraceFires(t)
  PROVE  IInv'
<1>1. /\ OthersFit /\ NothingWaits(host, destroyed, task, slot)
      /\ Fits(host, destroyed, submitted, task, queue, slot, stats, worker)
      /\ task \in [Task -> TaskRecords] /\ TasksFit(submitted, task)
      /\ PlacesFit(host, task, queue, slot)
  BY DEF IInv, Fits, TypesFit
<1>2. t \in Running(task)
  BY <1>1 DEF GraceFires, TasksFit, RecordFits, Running
<1>3. UNCHANGED <<host, destroyed, submitted, crashes>>
      /\ submitted' \in 0 .. MaxTasks /\ crashes' \in 0 .. MaxCrashes
  BY <1>1 DEF GraceFires, OthersFit
<1>4. CASE task[t].slot # NoSlot /\ ~destroyed /\ slotFails(task[t].slot)
  <2>1. task[t].slot \in Slot
    BY <1>1, <1>2, <1>4 DEF PlacesFit
  <2>. QED
    BY <1>3, <1>4, <2>1, SlotFailsKeeps
<1>5. CASE /\ task' = [task EXCEPT ![t].grace = FALSE]
           /\ UNCHANGED <<queue, slot, stats, lastInstance, worker>>
  <2>1. PICK r : r = [task[t] EXCEPT !.grace = FALSE]
    OBVIOUS
  <2>2. /\ r \in TaskRecords /\ SameTask(task[t], r)
        /\ r.starts = task[t].starts /\ r.cancelling = task[t].cancelling
    BY <1>1, <2>1 DEF TaskRecords, SameTask
  <2>3. PICK T2 : T2 = [task EXCEPT ![t] = r]
    OBVIOUS
  <2>4. /\ Alters(task, T2)
        /\ \A u \in Task :
             T2[u].starts = task[u].starts /\ T2[u].cancelling = task[u].cancelling
    BY <1>1, <1>2, <2>2, <2>3, RecordAlters
  <2>5. /\ Fits(host, destroyed, submitted, T2, queue, slot, stats, worker)
        /\ NothingWaits(host, destroyed, T2, slot)
    BY <1>1, <2>4, QuietlyAlteredFits
  <2>6. task' = T2
    BY <1>5, <2>1, <2>3
  <2>. QED
    BY <1>1, <1>3, <1>5, <2>5, <2>6, Unscheduled
<1>6. CASE /\ task[t].slot = NoSlot
           /\ schedule(finishedTasks(t, "error"), queue, slot, finishedStats(t), worker)
  <2>1. task[t].fallback
    BY <1>1, <1>2, <1>6, SlotsAssumption DEF PlacesFit
  <2>2. "error" \in Results
    BY DEF Results
  <2>. QED
    BY <1>2, <1>3, <1>6, <2>1, <2>2, FallbackEndKeeps
<1>. QED
  BY <1>4, <1>5, <1>6 DEF GraceFires

LEMMA FallbackReturnsKeeps ==
  ASSUME IInv, NEW t \in Task, FallbackReturns(t)
  PROVE  IInv'
<1>1. t \in Running(task) /\ task[t].fallback
  BY DEF FallbackReturns, fallbackRunning, Running
<1>2. PICK result \in {"value", "error"} :
        schedule(finishedTasks(t, result), queue, slot, finishedStats(t), worker)
  BY DEF FallbackReturns
<1>3. UNCHANGED <<host, destroyed, submitted, crashes>>
  BY DEF FallbackReturns
<1>4. result \in Results
  BY DEF Results
<1>. QED
  BY <1>1, <1>2, <1>3, <1>4, FallbackEndKeeps

LEMMA WorkerFailsKeeps ==
  ASSUME IInv, NEW s \in Slot, WorkerCrashes(s) \/ WorkerDoesNotLoad(s)
  PROVE  IInv'
<1>1. OthersFit /\ SlotsFit(destroyed, task, slot)
  BY DEF IInv, Fits
<1>2. slot[s].present /\ slotFails(s) /\ UNCHANGED <<host, destroyed, submitted>>
  BY DEF WorkerCrashes, WorkerDoesNotLoad
<1>3. ~destroyed
  BY <1>1, <1>2 DEF SlotsFit
<1>4. crashes' \in 0 .. MaxCrashes
  BY <1>1, NumbersAssumption DEF OthersFit, WorkerCrashes, WorkerDoesNotLoad
<1>. QED
  BY <1>2, <1>3, <1>4, SlotFailsKeeps

(* One worker steps, and with it at most the task it runs.                 *)
LEMMA OneWorkerSteps ==
  ASSUME NEW h, NEW d, NEW n, NEW T, NEW q, NEW S, NEW C, NEW W,
         Fits(h, d, n, T, q, S, C, W),
         NEW T2, Alters(T, T2), NEW s \in Slot,
         \A t \in Task \ {S[s].busy} : T2[t] = T[t],
         NEW w \in WorkerRecords, WorkerFits(S[s].busy, T2, w),
         NEW W2, W2 = [W EXCEPT ![s] = w]
  PROVE  /\ Fits(h, d, n, T2, q, S, C, W2)
         /\ NothingWaits(h, d, T, S) => NothingWaits(h, d, T2, S)
<1>1. /\ S \in [Slot -> SlotRecords] /\ W \in [Slot -> WorkerRecords]
      /\ WorkersFit(T, S, W) /\ PlacesFit(h, T, q, S)
  BY DEF Fits, TypesFit
<1>2. W2 \in [Slot -> WorkerRecords] /\ W2[s] = w /\ \A x \in Slot \ {s} : W2[x] = W[x]
  BY <1>1
<1>3. ~Unsettles(T, T2)
  BY AlteredSets
<1>4. ASSUME NEW x \in Slot
      PROVE  WorkerFits(S[x].busy, T2, W2[x])
  <2>1. CASE x = s
    BY <1>2, <2>1
  <2>2. CASE x # s
    <3>1. W[x] \in WorkerRecords /\ WorkerFits(S[x].busy, T, W[x])
          /\ S[x].busy \in Task \cup {NoTask} /\ W2[x] = W[x]
      BY <1>1, <1>2, <2>2 DEF WorkersFit, SlotRecords
    <3>2. S[x].busy \in Task => S[x].busy # S[s].busy
      BY <1>1, <2>2, NoTaskIsNoTask DEF PlacesFit
    <3>3. S[x].busy \in Task => SameProgress(T[S[x].busy], T2[S[x].busy])
      BY <3>2 DEF SameProgress
    <3>. QED
      BY <1>3, <3>1, <3>3, WorkerKept
  <2>. QED
    BY <2>1, <2>2
<1>5. WorkersFit(T2, S, W2)
  BY <1>4 DEF WorkersFit
<1>. QED
  BY <1>2, <1>5, AlteredFits

LEMMA NothingAlters ==
  ASSUME NEW T \in [Task -> TaskRecords]
  PROVE  Alters(T, T)
BY DEF Alters

LEMMA HandlerKeeps ==
  ASSUME IInv, NEW s \in Slot, NEW t \in Task, HandlerReturns(s, t)
  PROVE  IInv'
<1>1. /\ OthersFit /\ NothingWaits(host, destroyed, task, slot)
      /\ Fits(host, destroyed, submitted, task, queue, slot, stats, worker)
      /\ task \in [Task -> TaskRecords] /\ worker \in [Slot -> WorkerRecords]
      /\ WorkersFit(task, slot, worker)
  BY DEF IInv, Fits, TypesFit
<1>2. /\ t \in worker[s].runs
      /\ UNCHANGED <<host, destroyed, submitted, task, queue, slot, stats, lastInstance,
                     crashes>>
      /\ submitted' \in 0 .. MaxTasks /\ crashes' \in 0 .. MaxCrashes
  BY <1>1 DEF HandlerReturns, OthersFit
<1>3. PICK type \in FinalTypes :
        worker' = [worker EXCEPT ![s] =
          answered([worker[s] EXCEPT !.runs = @ \ {t}, !.aborted = @ \ {t}], type, t)]
  BY DEF HandlerReturns, FinalTypes
<1>4. PICK v : v = answered([worker[s] EXCEPT !.runs = @ \ {t}, !.aborted = @ \ {t}],
                            type, t)
  OBVIOUS
<1>5. v \in WorkerRecords /\ WorkerFits(slot[s].busy, task, v)
  <2>1. worker[s] \in WorkerRecords /\ WorkerFits(slot[s].busy, task, worker[s])
    BY <1>1 DEF WorkersFit
  <2>. QED
    BY <1>2, <1>4, <2>1, HandlerAnswers
<1>6. PICK W2 : W2 = [worker EXCEPT ![s] = v]
  OBVIOUS
<1>7. Fits(host, destroyed, submitted, task, queue, slot, stats, W2)
  BY <1>1, <1>5, <1>6, NothingAlters, OneWorkerSteps
<1>8. worker' = W2
  BY <1>3, <1>4, <1>6
<1>. QED
  BY <1>1, <1>2, <1>7, <1>8, Unscheduled

LEMMA ReceivesKeeps ==
  ASSUME IInv, NEW s \in Slot, WorkerReceives(s)
  PROVE  IInv'
<1>1. /\ OthersFit /\ NothingWaits(host, destroyed, task, slot)
      /\ Fits(host, destroyed, submitted, task, queue, slot, stats, worker)
      /\ task \in [Task -> TaskRecords] /\ worker \in [Slot -> WorkerRecords]
      /\ slot \in [Slot -> SlotRecords]
      /\ WorkersFit(task, slot, worker) /\ PlacesFit(host, task, queue, slot)
  BY DEF IInv, Fits, TypesFit
<1>2. /\ worker[s].inbox # <<>>
      /\ UNCHANGED <<host, destroyed, submitted, queue, slot, stats, lastInstance, crashes>>
      /\ submitted' \in 0 .. MaxTasks /\ crashes' \in 0 .. MaxCrashes
  BY <1>1 DEF WorkerReceives, OthersFit
<1>3. PICK v : v = read(worker[s])
  OBVIOUS
<1>4. PICK new \in receives(v, Head(worker[s].inbox)) :
        /\ worker' = [worker EXCEPT ![s] = new]
        /\ task' = [t \in Task |-> IF t \in new.runs \ v.runs
                                     THEN [task[t] EXCEPT !.starts = @ + 1] ELSE task[t]]
  BY <1>3 DEF WorkerReceives, read
<1>5. PICK T2 : T2 = Starts(task, v, new)
  OBVIOUS
<1>6. /\ worker[s] \in WorkerRecords /\ WorkerFits(slot[s].busy, task, worker[s])
      /\ slot[s].busy \in Task \cup {NoTask}
  BY <1>1 DEF WorkersFit, SlotRecords
<1>7. /\ new \in WorkerRecords
      /\ WorkerFits(slot[s].busy, T2, new)
      /\ \A t \in Task :
           T2[t] = task[t] \/ (/\ t = slot[s].busy /\ task[t].starts <= task[t].replays
                               /\ T2[t] = [task[t] EXCEPT !.starts = @ + 1])
  <2>1. PICK b : b = slot[s].busy
    OBVIOUS
  <2>2. PICK w : w = worker[s]
    OBVIOUS
  <2>3. /\ b \in Task \cup {NoTask} /\ w \in WorkerRecords /\ WorkerFits(b, task, w)
        /\ v = read(w) /\ w.inbox # <<>> /\ new \in receives(v, Head(w.inbox))
    BY <1>2, <1>3, <1>6, <2>1, <2>2
  <2>4. task \in [Task -> TaskRecords]
    BY <1>1
  <2>5. /\ new \in WorkerRecords
        /\ WorkerFits(b, T2, new)
        /\ StartsOnly(task, b, T2)
    BY <1>5, <2>3, <2>4, WorkerReads
  <2>. QED
    BY <2>1, <2>5 DEF StartsOnly
<1>8. Alters(task, T2)
  <2>1. ASSUME NEW t \in Task
        PROVE  /\ T2[t] \in TaskRecords
               /\ \/ T2[t] = task[t]
                  \/ /\ task[t].state = "running" /\ SameTask(task[t], T2[t])
                     /\ T2[t].starts <= T2[t].replays + 1
    <3>1. task[t] \in TaskRecords
      BY <1>1
    <3>2. CASE T2[t] = task[t]
      BY <3>1, <3>2
    <3>3. CASE /\ t = slot[s].busy /\ task[t].starts <= task[t].replays
               /\ T2[t] = [task[t] EXCEPT !.starts = @ + 1]
      <4>1. task[t].state = "running"
        BY <1>1, <3>3, NoTaskIsNoTask DEF PlacesFit
      <4>2. task[t].starts \in Nat /\ task[t].replays \in Nat
        BY <3>1, NumbersAssumption DEF TaskRecords
      <4>3. /\ T2[t] \in TaskRecords /\ SameTask(task[t], T2[t])
            /\ T2[t].starts = task[t].starts + 1 /\ T2[t].replays = task[t].replays
        BY <3>1, <3>3, <4>2 DEF TaskRecords, SameTask
      <4>. QED
        BY <3>3, <4>1, <4>2, <4>3
    <3>. QED
      BY <1>7, <3>2, <3>3
  <2>2. T2 = [t \in Task |-> T2[t]]
    BY <1>5 DEF Starts
  <2>. QED
    BY <2>1, <2>2 DEF Alters
<1>9. \A t \in Task \ {slot[s].busy} : T2[t] = task[t]
  BY <1>7
<1>10. PICK W2 : W2 = [worker EXCEPT ![s] = new]
  OBVIOUS
<1>11. /\ Fits(host, destroyed, submitted, T2, queue, slot, stats, W2)
       /\ NothingWaits(host, destroyed, T2, slot)
  <2>1. WorkerFits(slot[s].busy, T2, new) /\ new \in WorkerRecords
    BY <1>7
  <2>2. /\ Fits(host, destroyed, submitted, task, queue, slot, stats, worker)
        /\ NothingWaits(host, destroyed, task, slot)
    BY <1>1
  <2>. QED
    BY <1>8, <1>9, <1>10, <2>1, <2>2, OneWorkerSteps
<1>12. task' = T2 /\ worker' = W2
  BY <1>4, <1>5, <1>10 DEF Starts
<1>. QED
  BY <1>1, <1>2, <1>11, <1>12, Unscheduled

(* The last message of a task gives its slot back.                         *)
LEMMA FinishedSlotFrees ==
  ASSUME Fits(host, destroyed, submitted, task, queue, slot, stats, worker),
         NEW s \in Slot, NEW t \in Task, slot[s].busy = t,
         NEW type \in FinalTypes, worker[s].outbox # <<>>,
         Head(worker[s].outbox).type = type, Head(worker[s].outbox).task = t,
         NEW result \in Results,
         NEW W2, W2 = [worker EXCEPT ![s].outbox = Tail(@)]
  PROVE  Frees(destroyed, t, finishedTasks(t, result), slot, finishedSlots(t), worker, W2)
<1>1. /\ slot \in [Slot -> SlotRecords] /\ worker \in [Slot -> WorkerRecords]
      /\ task \in [Task -> TaskRecords]
      /\ PlacesFit(host, task, queue, slot) /\ SlotsFit(destroyed, task, slot)
      /\ WorkersFit(task, slot, worker)
  BY DEF Fits, TypesFit
<1>2. task[t].slot = s /\ \A x \in Slot \ {s} : slot[x].busy # t
  BY <1>1, NoTaskIsNoTask DEF PlacesFit
<1>3. PICK S2 : S2 = finishedSlots(t)
  OBVIOUS
<1>4. ASSUME NEW x \in Slot
      PROVE  /\ S2[x] \in SlotRecords
             /\ S2[x].busy = IF slot[x].busy = t THEN NoTask ELSE slot[x].busy
             /\ S2[x].ready = slot[x].ready /\ S2[x].present = slot[x].present
  <2>1. slot[x] \in SlotRecords
    BY <1>1
  <2>2. S2[x] = IF slot[x].busy = t /\ task[t].slot = x
                  THEN [slot[x] EXCEPT !.busy = NoTask] ELSE slot[x]
    BY <1>3 DEF finishedSlots
  <2>. QED
    BY <1>2, <2>1, <2>2 DEF SlotRecords
<1>5. S2 \in [Slot -> SlotRecords]
  <2>1. S2 = [x \in Slot |-> S2[x]]
    BY <1>3 DEF finishedSlots
  <2>. QED
    BY <1>4, <2>1
<1>6. PICK T2 : T2 = finishedTasks(t, result)
  OBVIOUS
<1>7. T2[t].state = "settled" /\ ~Unsettles(task, T2)
  <2>1. T2[t] = settled(task[t], result) /\ \A u \in Task \ {t} : T2[u] = task[u]
    BY <1>1, <1>6 DEF finishedTasks
  <2>2. T2[t].state = "settled"
    BY <2>1, SettledFacts
  <2>. QED
    BY <2>1, <2>2 DEF Unsettles
<1>8. PICK w : w = worker[s]
  OBVIOUS
<1>9. w \in WorkerRecords /\ WorkerFits(t, task, w)
  BY <1>1, <1>8 DEF WorkersFit
<1>10. hasFinal(w, t)
  <2>1. Head(w.outbox) \in ToSet(w.outbox) /\ Head(w.outbox) \in FromWorker
    <3>1. w.outbox \in Seq(FromWorker) /\ w.outbox # <<>>
      BY <1>8, <1>9 DEF WorkerRecords
    <3>. QED
      BY <3>1, HeadIsFirst, HeadTailProperties
  <2>2. Head(w.outbox) = Message(type, t)
    BY <1>8, <2>1 DEF FromWorker, Message
  <2>. QED
    BY <2>1, <2>2 DEF hasFinal
<1>11. WorkerFits(NoTask, T2, w)
  BY <1>7, <1>9, <1>10, WorkerFreed
<1>12. PICK v : v = [w EXCEPT !.outbox = Tail(@)]
  OBVIOUS
<1>13. v \in WorkerRecords /\ WorkerFits(NoTask, T2, v)
  BY <1>8, <1>9, <1>11, <1>12, OutboxRead
<1>14. W2 = [worker EXCEPT ![s] = v]
  BY <1>8, <1>12
<1>15. W2 \in [Slot -> WorkerRecords] /\ W2[s] = v /\ \A x \in Slot \ {s} : W2[x] = worker[x]
  BY <1>1, <1>13, <1>14
<1>16. ASSUME NEW x \in Slot
       PROVE  /\ S2[x].ready => S2[x].present
              /\ destroyed => ~S2[x].present
              /\ IF slot[x].busy = t THEN WorkerFits(NoTask, T2, W2[x])
                                     ELSE W2[x] = worker[x]
  BY <1>1, <1>2, <1>4, <1>13, <1>15 DEF SlotsFit
<1>. QED
  BY <1>3, <1>4, <1>5, <1>6, <1>15, <1>16 DEF Frees

LEMMA MessageKeeps ==
  ASSUME IInv, NEW s \in Slot, MessageArrives(s)
  PROVE  IInv'
<1>1. /\ OthersFit /\ NothingWaits(host, destroyed, task, slot)
      /\ Fits(host, destroyed, submitted, task, queue, slot, stats, worker)
      /\ task \in [Task -> TaskRecords] /\ worker \in [Slot -> WorkerRecords]
      /\ slot \in [Slot -> SlotRecords] /\ TasksFit(submitted, task)
      /\ PlacesFit(host, task, queue, slot) /\ SlotsFit(destroyed, task, slot)
      /\ WorkersFit(task, slot, worker)
  BY DEF IInv, Fits, TypesFit
<1>2. /\ slot[s].present /\ worker[s].outbox # <<>>
      /\ UNCHANGED <<host, destroyed, submitted, crashes>>
      /\ submitted' \in 0 .. MaxTasks /\ crashes' \in 0 .. MaxCrashes
  BY <1>1 DEF MessageArrives, OthersFit
<1>3. PICK m : m = Head(worker[s].outbox)
  OBVIOUS
<1>4. PICK t : t = slot[s].busy
  OBVIOUS
<1>5. PICK v : v = [worker[s] EXCEPT !.outbox = Tail(@)]
  OBVIOUS
<1>6. PICK W2 : W2 = [worker EXCEPT ![s] = v]
  OBVIOUS
<1>7. [worker EXCEPT ![s].outbox = Tail(@)] = W2
  BY <1>5, <1>6
<1>8. v \in WorkerRecords /\ WorkerFits(t, task, v)
  <2>1. worker[s] \in WorkerRecords /\ WorkerFits(t, task, worker[s])
    BY <1>1, <1>4 DEF WorkersFit
  <2>. QED
    BY <1>2, <1>5, <2>1, OutboxRead
<1>9. Fits(host, destroyed, submitted, task, queue, slot, stats, W2)
  BY <1>1, <1>4, <1>6, <1>8, NothingAlters, OneWorkerSteps
<1>10. W2 \in [Slot -> WorkerRecords] /\ WorkersFit(task, slot, W2)
  BY <1>9 DEF Fits, TypesFit
<1>11. CASE /\ m.type = "handshakeResult"
            /\ schedule(task, queue, [slot EXCEPT ![s].ready = TRUE], stats, W2)
  <2>1. PICK S2 : S2 = [slot EXCEPT ![s].ready = TRUE]
    OBVIOUS
  <2>2. PICK r : r = [slot[s] EXCEPT !.ready = TRUE]
    OBVIOUS
  <2>3. r \in SlotRecords /\ r.busy = slot[s].busy /\ r.present = slot[s].present
    BY <1>1, <2>2 DEF SlotRecords
  <2>4. S2 = [slot EXCEPT ![s] = r]
    BY <2>1, <2>2
  <2>5. /\ S2 \in [Slot -> SlotRecords] /\ S2[s] = r
        /\ \A x \in Slot \ {s} : S2[x] = slot[x]
    BY <1>1, <2>3, <2>4
  <2>6. SlotsFit(destroyed, task, S2)
    BY <1>1, <1>2, <2>3, <2>5 DEF SlotsFit
  <2>7. \A x \in Slot : S2[x].busy = slot[x].busy
    BY <2>3, <2>5
  <2>8. Fits(host, destroyed, submitted', task, queue, S2, stats, W2)
    <3>1. \A x \in Slot : WorkerFits(slot[x].busy, task, W2[x])
      BY <1>10 DEF WorkersFit
    <3>2. Fits(host, destroyed, submitted, task, queue, S2, stats, W2)
      BY <1>1, <1>10, <2>5, <2>6, <2>7, <3>1, SlotsChangedFits
    <3>. QED
      BY <1>2, <3>2
  <2>9. schedule(task, queue, S2, stats, W2)
    BY <1>11, <2>1
  <2>. QED
    BY <1>1, <1>2, <2>8, <2>9, Rescheduled
<1>12. CASE worker' = W2 /\ UNCHANGED <<task, queue, slot, stats, lastInstance>>
  BY <1>1, <1>2, <1>9, <1>12, Unscheduled
<1>13. CASE /\ t # NoTask
            /\ task' = [task EXCEPT ![t].accepted = IF @ = "open" THEN "ok" ELSE @]
            /\ worker' = W2 /\ UNCHANGED <<queue, slot, stats, lastInstance>>
  <2>1. t \in Running(task)
    BY <1>1, <1>4, <1>13 DEF PlacesFit, SlotRecords, Running
  <2>2. PICK r : r = [task[t] EXCEPT !.accepted = IF @ = "open" THEN "ok" ELSE @]
    OBVIOUS
  <2>3. /\ r \in TaskRecords /\ SameTask(task[t], r)
        /\ r.starts = task[t].starts /\ r.cancelling = task[t].cancelling
    <3>1. task[t] \in TaskRecords
      BY <1>1, <2>1 DEF Running
    <3>2. (IF task[t].accepted = "open" THEN "ok" ELSE task[t].accepted)
            \in {"open", "ok", "failed"}
      BY <3>1 DEF TaskRecords
    <3>. QED
      BY <2>2, <3>1, <3>2 DEF TaskRecords, SameTask
  <2>4. PICK T2 : T2 = [task EXCEPT ![t] = r]
    OBVIOUS
  <2>5. /\ Alters(task, T2)
        /\ \A u \in Task :
             T2[u].starts = task[u].starts /\ T2[u].cancelling = task[u].cancelling
    BY <1>1, <2>1, <2>3, <2>4, RecordAlters
  <2>6. /\ Fits(host, destroyed, submitted, T2, queue, slot, stats, W2)
        /\ NothingWaits(host, destroyed, T2, slot)
    BY <1>1, <1>9, <2>5, QuietlyAlteredFits
  <2>7. task' = T2
    BY <1>13, <2>2, <2>4
  <2>. QED
    BY <1>1, <1>2, <1>13, <2>6, <2>7, Unscheduled
<1>14. CASE /\ m.type \in FinalTypes /\ t # NoTask /\ m.task = t
            /\ schedule(finishedTasks(t, outcomeOf(m.type)), queue, finishedSlots(t),
                        finishedStats(t), W2)
  <2>1. t \in Running(task) /\ t \in Task
    BY <1>1, <1>4, <1>14 DEF PlacesFit, SlotRecords, Running
  <2>2. PICK result : result = outcomeOf(m.type)
    OBVIOUS
  <2>3. result \in Results
    BY <2>2 DEF outcomeOf, Results
  <2>4. Frees(destroyed, t, finishedTasks(t, result), slot, finishedSlots(t), worker, W2)
    BY <1>1, <1>2, <1>3, <1>4, <1>7, <1>14, <2>1, <2>3, FinishedSlotFrees
  <2>5. Fits(host, destroyed, submitted', finishedTasks(t, result), queue,
             finishedSlots(t), finishedStats(t), W2)
    BY <1>1, <1>2, <2>1, <2>3, <2>4, FinishedFits
  <2>6. schedule(finishedTasks(t, result), queue, finishedSlots(t), finishedStats(t), W2)
    BY <1>14, <2>2
  <2>. QED
    BY <1>1, <1>2, <2>5, <2>6, Rescheduled
<1>. QED
  BY <1>3, <1>4, <1>7, <1>11, <1>12, <1>13, <1>14 DEF MessageArrives, FinalTypes

-----------------------------------------------------------------------------
(* The invariant.                                                          *)

LEMMA InitFits ==
  ASSUME Init
  PROVE  IInv
<1>1. /\ host \in Hosts /\ destroyed = FALSE /\ submitted = 0 /\ queue = <<>>
      /\ task = [t \in Task |-> NewTask] /\ slot = [s \in Slot |-> EmptySlot]
      /\ stats = [i \in Instance |-> [queued |-> 0, running |-> 0]]
      /\ lastInstance = {} /\ worker = [s \in Slot |-> NoWorker] /\ crashes = 0
  BY DEF Init
<1>2. NewTask \in TaskRecords /\ NewTask.state = "new" /\ NewTask.slot = NoSlot
      /\ ~NewTask.fallback /\ ~NewTask.timeout /\ ~NewTask.grace
      /\ ~NewTask.cancelling /\ NewTask.replays = 0
  BY NumbersAssumption DEF NewTask, TaskRecords, TaskStates, Results
<1>3. RecordFits(NewTask)
  BY <1>2 DEF RecordFits
<1>4. ToSet(<<>>) = {} /\ IsInjective(<<>>) /\ <<>> \in Seq(Task)
  BY DEF ToSet, IsInjective
<1>5. /\ \A t \in Task : task[t] = NewTask
      /\ \A s \in Slot : slot[s] = EmptySlot /\ worker[s] = NoWorker
      /\ \A i \in Instance : stats[i].queued = 0 /\ stats[i].running = 0
  BY <1>1
<1>6. Queued(task) = {} /\ Running(task) = {} /\ Live(task) = {}
  BY <1>2, <1>5 DEF Queued, Running, Live
<1>7. TypesFit(task, queue, slot, stats, worker)
  <2>1. /\ task \in [Task -> TaskRecords] /\ slot \in [Slot -> SlotRecords]
        /\ worker \in [Slot -> WorkerRecords]
    BY <1>1, <1>2, EmptySlotFacts, NoWorkerFits
  <2>2. stats \in [Instance -> [queued : Nat, running : Nat]]
    BY <1>1
  <2>. QED
    BY <1>1, <1>4, <2>1, <2>2 DEF TypesFit
<1>8. TasksFit(submitted, task)
  BY <1>3, <1>5 DEF TasksFit
<1>9. PlacesFit(host, task, queue, slot)
  BY <1>1, <1>4, <1>5, <1>6, EmptySlotFacts DEF PlacesFit
<1>10. SlotsFit(destroyed, task, slot)
  BY <1>1, <1>5, EmptySlotFacts DEF SlotsFit
<1>11. WorkersFit(task, slot, worker)
  BY <1>5, NoWorkerFits DEF WorkersFit
<1>12. Cardinality({}) = 0
  BY FS_EmptySet
<1>13. CountsFit(host, task, stats)
  <2>1. \A i \in Instance : Of(Queued(task), task, i) = {} /\ Of(Running(task), task, i) = {}
    BY <1>6 DEF Of
  <2>. QED
    BY <1>5, <1>12, <2>1 DEF CountsFit
<1>14. QuotaFits(task)
  <2>1. \A i \in Instance : {t \in Of(Live(task), task, i) : ~task[t].cancelling} = {}
    BY <1>6 DEF Of
  <2>2. 0 <= MaxTasksPerInstance
    BY NumbersAssumption
  <2>. QED
    BY <1>12, <2>1, <2>2 DEF QuotaFits
<1>15. OthersFit
  <2>1. 0 \in 0 .. MaxTasks /\ 0 \in 0 .. MaxCrashes
    BY NumbersAssumption
  <2>2. host \in Hosts /\ destroyed \in BOOLEAN
    BY <1>1
  <2>3. lastInstance \subseteq Instance /\ Cardinality(lastInstance) <= 1
    BY <1>1, <1>12
  <2>. QED
    BY <1>1, <2>1, <2>2, <2>3 DEF OthersFit
<1>. QED
  BY <1>6, <1>7, <1>8, <1>9, <1>10, <1>11, <1>13, <1>14, <1>15
     DEF IInv, Fits, NothingWaits

LEMMA StepKeeps ==
  ASSUME IInv, [Next]_vars
  PROVE  IInv'
<1>1. ASSUME NEW kind \in Kinds, Submit(kind)
      PROVE  IInv'
  BY <1>1, SubmitKeeps
<1>2. ASSUME NEW t \in Task, Cancel(t)
      PROVE  IInv'
  <2>1. {t} \in SUBSET Task /\ cancels({t}) /\ UNCHANGED <<host, destroyed, submitted, crashes>>
    BY <1>2 DEF Cancel
  <2>. QED
    BY <2>1, CancelsKeeps
<1>3. ASSUME NEW i \in Instance, DisposeInstance(i)
      PROVE  IInv'
  <2>1. PICK F : F = ofInstance(live, i)
    OBVIOUS
  <2>2. F \in SUBSET Task /\ cancels(F) /\ UNCHANGED <<host, destroyed, submitted, crashes>>
    BY <1>3, <2>1 DEF DisposeInstance, ofInstance, live
  <2>. QED
    BY <2>2, CancelsKeeps
<1>4. CASE Destroy
  BY <1>4, DestroyKeeps
<1>5. ASSUME NEW t \in Task, TimeoutFires(t)
      PROVE  IInv'
  BY <1>5, TimeoutKeeps
<1>6. ASSUME NEW t \in Task, GraceFires(t)
      PROVE  IInv'
  BY <1>6, GraceKeeps
<1>7. ASSUME NEW t \in Task, FallbackReturns(t)
      PROVE  IInv'
  BY <1>7, FallbackReturnsKeeps
<1>8. ASSUME NEW s \in Slot, MessageArrives(s)
      PROVE  IInv'
  BY <1>8, MessageKeeps
<1>9. ASSUME NEW s \in Slot, WorkerCrashes(s) \/ WorkerDoesNotLoad(s)
      PROVE  IInv'
  BY <1>9, WorkerFailsKeeps
<1>10. ASSUME NEW s \in Slot, WorkerReceives(s)
       PROVE  IInv'
  BY <1>10, ReceivesKeeps
<1>11. ASSUME NEW s \in Slot, NEW t \in Task, HandlerReturns(s, t)
       PROVE  IInv'
  BY <1>11, HandlerKeeps
<1>12. CASE UNCHANGED vars
  BY <1>12 DEF IInv, OthersFit, vars
<1>. QED
  BY <1>1, <1>2, <1>3, <1>4, <1>5, <1>6, <1>7, <1>8, <1>9, <1>10, <1>11, <1>12 DEF Next

(* The inductive invariant holds in every state of the pool.               *)
THEOREM PoolFitsTogether ==
  Spec => []IInv
<1>1. Init => IInv
  BY InitFits
<1>2. IInv /\ [Next]_vars => IInv'
  BY StepKeeps
<1>. QED
  BY <1>1, <1>2, PTL DEF Spec

(* Every live task is in one place, the queue or its slot or the fallback, *)
(* nothing else is in those places, and the counts and quotas of instances *)
(* without replayable tasks are those of their tasks, after any sequence   *)
(* of submissions, cancellations, messages, failures and timers of pool.ts.*)
THEOREM TasksHaveOnePlace ==
  Spec => []PlacementConsistent
<1>1. IInv => PlacementConsistent
  <2>1. SUFFICES ASSUME IInv
                 PROVE  PlacementConsistent
    OBVIOUS
  <2>2. /\ OthersFit
        /\ TypesFit(task, queue, slot, stats, worker)
        /\ PlacesFit(host, task, queue, slot)
        /\ CountsFit(host, task, stats) /\ QuotaFits(task)
    BY <2>1 DEF IInv, Fits
  <2>3. TypeOK
    BY <2>2 DEF TypeOK, TypesFit, OthersFit
  <2>4. /\ queuedTasks = Queued(task) /\ runningTasks = Running(task)
        /\ live = Live(task) /\ canRun = CanRun(host)
    BY DEF queuedTasks, runningTasks, live, canRun, Queued, Running, Live, CanRun
  <2>5. \A F, i : ofInstance(F, i) = Of(F, task, i)
    BY DEF ofInstance, Of
  <2>6. CountsConsistent
    BY <2>2, <2>4, <2>5 DEF CountsConsistent, CountsFit, canRun, CanRun
  <2>7. QuotaHolds
    BY <2>2, <2>4, <2>5 DEF QuotaHolds, QuotaFits
  <2>8. ToSet(queue) \subseteq Task
    BY <2>2, ToSetFacts, ElementOfSeq DEF TypesFit
  <2>9. canRun => ToSet(queue) = queuedTasks
    BY <2>2, <2>4, <2>8 DEF PlacesFit, Queued, canRun, CanRun
  <2>10. ASSUME NEW t \in runningTasks
         PROVE  IF task[t].fallback THEN task[t].slot = NoSlot
                                    ELSE {s \in Slot : slot[s].busy = t} = {task[t].slot}
    <3>1. t \in Running(task) /\ t # NoTask
      BY <2>4, NoTaskIsNoTask DEF Running
    <3>. QED
      BY <2>2, <3>1 DEF PlacesFit
  <2>11. \A s \in Slot : slot[s].busy # NoTask => slot[s].busy \in runningTasks
    BY <2>2 DEF PlacesFit, TypesFit, SlotRecords, runningTasks
  <2>. QED
    BY <2>2, <2>3, <2>4, <2>6, <2>7, <2>9, <2>10, <2>11 DEF PlacementConsistent, PlacesFit
<1>. QED
  BY <1>1, PoolFitsTogether, PTL

(* No task waits while a ready worker is idle, or the fallback of a pool   *)
(* without workers has room: #schedule runs wherever room arises, and      *)
(* takes as many tasks as there is room for.                               *)
THEOREM NoTaskWaitsForRoom ==
  Spec => []WorkConserving
<1>1. IInv => WorkConserving
  BY DEF IInv, NothingWaits, WorkConserving, queuedTasks, Queued, idleSlots, Idle,
         fallbackRunning, Fallbacks
<1>. QED
  BY <1>1, PoolFitsTogether, PTL

(* A worker runs and expects nothing but the task its slot is busy with,   *)
(* and no task is started more often than its replays allow: the slot is   *)
(* not given away while messages of its last task are under way.           *)
THEOREM SlotsAreNotGivenAwayEarly ==
  Spec => []WorkerRunsItsTask
<1>1. IInv => WorkerRunsItsTask
  <2>1. SUFFICES ASSUME IInv
                 PROVE  WorkerRunsItsTask
    OBVIOUS
  <2>2. /\ task \in [Task -> TaskRecords] /\ TasksFit(submitted, task)
        /\ WorkersFit(task, slot, worker)
    BY <2>1 DEF IInv, Fits, TypesFit
  <2>3. ASSUME NEW t \in live
        PROVE  task[t].starts <= 1 + (IF task[t].kind.replayable THEN MaxRestarts ELSE 0)
    <3>1. t \in Task /\ task[t].state \in {"queued", "running"} /\ RecordFits(task[t])
      BY <2>2 DEF live, TasksFit
    <3>2. task[t].starts \in Nat /\ task[t].replays \in 0 .. MaxRestarts /\ MaxRestarts \in Nat
      BY <2>2, <3>1, NumbersAssumption DEF TaskRecords
    <3>3. task[t].starts <= task[t].replays + 1
      BY <3>1, <3>2 DEF RecordFits
    <3>4. task[t].replays > 0 => task[t].kind.replayable
      BY <3>1 DEF RecordFits
    <3>. QED
      BY <3>2, <3>3, <3>4
  <2>. QED
    BY <2>2, <2>3 DEF WorkerRunsItsTask, StartsOnce, WorkersFit, WorkerFits, StartFits
<1>. QED
  BY <1>1, PoolFitsTogether, PTL

(* A worker that runs a cancelled task has aborted its signal or is sure   *)
(* to read the cancelTask message of #cancelTask: it stands in the inbox.  *)
THEOREM CancellationsArrive ==
  Spec => []CancelIsDelivered
<1>1. IInv => CancelIsDelivered
  BY DEF IInv, Fits, WorkersFit, WorkerFits, CancelIsDelivered
<1>. QED
  BY <1>1, PoolFitsTogether, PTL
=============================================================================
