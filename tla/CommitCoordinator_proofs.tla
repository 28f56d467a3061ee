---------------------- MODULE CommitCoordinator_proofs ----------------------
(***************************************************************************)
(* Proofs about the queue of CommitCoordinator, for every set of           *)
(* transactions and of waiters, every bound, and DataSources with and      *)
(* without cancellation.                                                   *)
(***************************************************************************)
EXTENDS CommitCoordinator, SequenceLemmas

(* Revisions that anybody mentions are revisions the DataSource has had.   *)
RevisionsExist ==
  /\ srcRev \in 0 .. Len(log)
  /\ \A c \in calls : c.reply.rev \in 0 .. Len(log)
  /\ \A c \in cancels : c.reply.rev \in 0 .. Len(log)
  /\ \A r \in recoveries : r.failure.rev \in 0 .. Len(log)

TypeInv == TypeOK /\ RevisionsExist

LEMMA SourceDocumentIsSeq ==
  ASSUME TypeInv, NEW n \in 0 .. Len(log)
  PROVE  sourceDocument(n) \in Seq(Tx \cup {Foreign})
BY PrefixProperties DEF TypeInv, TypeOK, WorldTypes, sourceDocument

-----------------------------------------------------------------------------
(* Type correctness.                                                       *)

LEMMA TypeInit == Init => TypeInv
<1>. SUFFICES ASSUME Init PROVE TypeInv
  OBVIOUS
<1>1. CoordinatorTypes
  BY EmptySeq DEF Init, CoordinatorTypes, Modes
<1>2. RecordTypes
  BY DEF Init, RecordTypes
<1>3. AwaitTypes
  BY DEF Init, AwaitTypes
<1>4. WorldTypes
  BY EmptySeq DEF Init, WorldTypes
<1>5. RevisionsExist
  BY EmptySeq DEF Init, RevisionsExist
<1>. QED
  BY <1>1, <1>2, <1>3, <1>4, <1>5 DEF TypeInv, TypeOK

LEMMA settleOutcomeType ==
  ASSUME RecordTypes, NEW T, NEW s \in Terminal
  PROVE  settleOutcome(T, s) \in [Tx -> {"none", "pending"} \cup Terminal]
BY DEF RecordTypes, settleOutcome

LEMMA settleIdleType ==
  ASSUME RecordTypes,
         NEW s \in {"off", "waiting", "idle", "reloadRequired", "stale", "destroyed"}
  PROVE  settleIdle(s) \in [Waiters -> {"off", "waiting", "idle",
                                        "reloadRequired", "stale", "destroyed"}]
BY DEF RecordTypes, settleIdle

(* A step that leaves the awaited calls and the world alone, and types the *)
(* rest, preserves the invariant.                                          *)
LEMMA TypeStep ==
  ASSUME TypeInv, CoordinatorTypes', RecordTypes',
         srcRev' = srcRev, UNCHANGED <<awaitVars, worldVars>>
  PROVE  TypeInv'
BY DEF TypeInv, TypeOK, RevisionsExist, AwaitTypes, WorldTypes, awaitVars, worldVars

LEMMA invalidateTypes ==
  ASSUME TypeInv, invalidateCurrentContext, drainScheduled' \in BOOLEAN,
         cancelling' \in Tx \cup {NoTx}, inc' \in [Tx -> Nat],
         attempt' \in [Tx -> Nat], UNCHANGED <<version, dep>>
  PROVE  CoordinatorTypes' /\ RecordTypes' /\ srcRev' = srcRev
<1>1. outcome' \in [Tx -> {"none", "pending"} \cup Terminal]
  BY settleOutcomeType
  DEF TypeInv, TypeOK, invalidateCurrentContext, abandonQueue, Terminal
<1>2. waiter' \in [Waiters -> {"off", "waiting", "idle", "reloadRequired",
                               "stale", "destroyed"}]
  BY settleIdleType DEF TypeInv, TypeOK, invalidateCurrentContext
<1>3. RecordTypes'
  BY <1>1, <1>2 DEF TypeInv, TypeOK, RecordTypes
<1>4. CoordinatorTypes' /\ srcRev' = srcRev
  BY EmptySeq
  DEF TypeInv, TypeOK, CoordinatorTypes, invalidateCurrentContext, abandonQueue,
      Modes
<1>. QED
  BY <1>3, <1>4

LEMMA TypeEnqueue ==
  ASSUME TypeInv, NEW t \in Tx, NEW d \in Tx \cup {NoTx}, Enqueue(t, d)
  PROVE  TypeInv'
<1>1. CASE ~current
  BY <1>1, invalidateTypes
  DEF Enqueue, TypeInv, TypeOK, RevisionsExist, AwaitTypes, WorldTypes,
      CoordinatorTypes, RecordTypes, awaitVars
<1>2. CASE current
  <2>1. queue' = Append(queue, t) /\ local' = Append(local, t)
    BY <1>2 DEF Enqueue
  <2>2. queue' \in Seq(Tx) /\ local' \in Seq(Tx \cup {Foreign})
    BY <2>1, AppendProperties
    DEF TypeInv, TypeOK, CoordinatorTypes, WorldTypes
  <2>3. queue # <<>> => Last(queue) \in Tx
    BY LastIsElement DEF TypeInv, TypeOK, CoordinatorTypes
  <2>4. dep' \in [Tx -> Tx \cup {NoTx}]
    BY <1>2, <2>3 DEF Enqueue, TypeInv, TypeOK, RecordTypes, transactionIds
  <2>5. RecordTypes'
    BY <1>2, <2>4 DEF Enqueue, TypeInv, TypeOK, RecordTypes
  <2>6. CoordinatorTypes'
    BY <1>2, <2>2 DEF Enqueue, TypeInv, TypeOK, CoordinatorTypes
  <2>. QED
    BY <1>2, <2>2, <2>5, <2>6
    DEF Enqueue, TypeInv, TypeOK, RevisionsExist, AwaitTypes, WorldTypes, awaitVars
<1>. QED
  BY <1>1, <1>2

LEMMA TypeWhenIdle ==
  ASSUME TypeInv, NEW w \in Waiters, WhenIdle(w)
  PROVE  TypeInv'
<1>1. idleResult \in {"waiting", "idle", "reloadRequired", "stale", "destroyed"}
  BY DEF idleResult
<1>2. RecordTypes'
  BY <1>1 DEF WhenIdle, TypeInv, TypeOK, RecordTypes
<1>3. CoordinatorTypes'
  BY DEF WhenIdle, TypeInv, TypeOK, CoordinatorTypes, coordVars
<1>. QED
  BY <1>2, <1>3, TypeStep DEF WhenIdle, coordVars

LEMMA TypeRetry ==
  ASSUME TypeInv, RetryIndeterminate
  PROVE  TypeInv'
<1>1. CASE ~current
  BY <1>1, invalidateTypes, TypeStep
  DEF RetryIndeterminate, TypeInv, TypeOK, CoordinatorTypes, RecordTypes
<1>2. CASE current
  <2>1. RecordTypes'
    BY <1>2 DEF RetryIndeterminate, TypeInv, TypeOK, RecordTypes
  <2>2. CoordinatorTypes'
    BY <1>2 DEF RetryIndeterminate, TypeInv, TypeOK, CoordinatorTypes, Modes
  <2>. QED
    BY <1>2, <2>1, <2>2, TypeStep DEF RetryIndeterminate
<1>. QED
  BY <1>1, <1>2

LEMMA continueOrSettleTypes ==
  ASSUME TypeInv, NEW q, continueOrSettle(q)
  PROVE  /\ drainScheduled' \in BOOLEAN
         /\ waiter' \in [Waiters -> {"off", "waiting", "idle", "reloadRequired",
                                     "stale", "destroyed"}]
<1>1. waiter' = settleIdle("idle") \/ waiter' = waiter
  BY DEF continueOrSettle
<1>2. drainScheduled' = TRUE \/ drainScheduled' = drainScheduled
  BY DEF continueOrSettle
<1>. QED
  BY <1>1, <1>2, settleIdleType
  DEF TypeInv, TypeOK, CoordinatorTypes, RecordTypes

LEMMA TypeCancelPending ==
  ASSUME TypeInv, NEW t \in Tx, CancelPending(t)
  PROVE  TypeInv'
<1>1. CASE inFlight # t
  <2>1. cancelBeforeDispatch(t)
    BY <1>1 DEF CancelPending
  <2>2. queue' = Front(queue) /\ local' = Front(local)
    BY <2>1 DEF cancelBeforeDispatch
  <2>3. queue' \in Seq(Tx) /\ local' \in Seq(Tx \cup {Foreign})
    BY <2>2, FrontIsSeq DEF TypeInv, TypeOK, CoordinatorTypes, WorldTypes
  <2>4. outcome' \in [Tx -> {"none", "pending"} \cup Terminal]
    BY <2>1, settleOutcomeType DEF cancelBeforeDispatch, TypeInv, TypeOK, Terminal
  <2>5. /\ drainScheduled' \in BOOLEAN
        /\ waiter' \in [Waiters -> {"off", "waiting", "idle", "reloadRequired",
                                    "stale", "destroyed"}]
    BY <2>1, continueOrSettleTypes DEF cancelBeforeDispatch
  <2>6. RecordTypes'
    BY <2>4, <2>5 DEF CancelPending, TypeInv, TypeOK, RecordTypes
  <2>7. CoordinatorTypes'
    BY <2>1, <2>3, <2>5
    DEF CancelPending, cancelBeforeDispatch, TypeInv, TypeOK, CoordinatorTypes
  <2>. QED
    BY <2>1, <2>3, <2>6, <2>7
    DEF CancelPending, cancelBeforeDispatch, TypeInv, TypeOK, RevisionsExist,
        AwaitTypes, WorldTypes
<1>2. CASE inFlight = t
  <2>1. cancelStarted(t)
    BY <1>2 DEF CancelPending
  <2>2. CoordinatorTypes' /\ RecordTypes'
    BY <2>1
    DEF CancelPending, cancelStarted, TypeInv, TypeOK, CoordinatorTypes, RecordTypes
  <2>3. cancels' = cancels \cup {[tx |-> t, inc |-> inc[t], epoch |-> epoch,
                                  reply |-> NoReply]}
    BY <2>1 DEF cancelStarted
  <2>4. [tx |-> t, inc |-> inc[t], epoch |-> epoch, reply |-> NoReply] \in Cancels
    BY DEF Cancels, NoReply, Reply, TypeInv, TypeOK, CoordinatorTypes, RecordTypes
  <2>5. AwaitTypes' /\ WorldTypes'
    BY <2>1, <2>3, <2>4
    DEF CancelPending, cancelStarted, TypeInv, TypeOK, AwaitTypes, WorldTypes
  <2>6. \A c \in cancels' : c.reply.rev \in 0 .. Len(log)
    BY <2>3 DEF TypeInv, TypeOK, RevisionsExist, NoReply, Reply, WorldTypes
  <2>7. RevisionsExist'
    BY <2>1, <2>6 DEF CancelPending, cancelStarted, TypeInv, RevisionsExist
  <2>. QED
    BY <2>2, <2>5, <2>7 DEF TypeInv, TypeOK
<1>. QED
  BY <1>1, <1>2

LEMMA TypeResolveAfterResync ==
  ASSUME TypeInv, NEW n \in srcRev .. Len(log), ResolveAfterResync(n)
  PROVE  TypeInv'
<1>1. CASE ~current
  BY <1>1, invalidateTypes, TypeStep
  DEF ResolveAfterResync, worldVars, TypeInv, TypeOK, CoordinatorTypes, RecordTypes
<1>2. CASE current
  <2>1. n \in 0 .. Len(log) /\ n \in Nat
    BY DEF TypeInv, RevisionsExist, TypeOK, WorldTypes
  <2>2. local' \in Seq(Tx \cup {Foreign})
    BY <1>2, <2>1, SourceDocumentIsSeq DEF ResolveAfterResync
  <2>3. waiter' \in [Waiters -> {"off", "waiting", "idle", "reloadRequired",
                                 "stale", "destroyed"}]
    BY <1>2, settleIdleType DEF ResolveAfterResync, TypeInv, TypeOK
  <2>4. RecordTypes'
    BY <1>2, <2>3 DEF ResolveAfterResync, TypeInv, TypeOK, RecordTypes
  <2>5. CoordinatorTypes'
    BY <1>2, <2>1, EmptySeq
    DEF ResolveAfterResync, TypeInv, TypeOK, CoordinatorTypes, Modes
  <2>. QED
    BY <1>2, <2>1, <2>2, <2>4, <2>5
    DEF ResolveAfterResync, TypeInv, TypeOK, RevisionsExist, AwaitTypes,
        WorldTypes, awaitVars
<1>. QED
  BY <1>1, <1>2

LEMMA abandonTypes ==
  ASSUME TypeInv, NEW s \in Terminal, abandonQueue(s)
  PROVE  /\ epoch' \in Nat
         /\ inFlight' \in Tx \cup {NoTx}
         /\ queue' \in Seq(Tx)
         /\ suspended' \in {"no", "retryable", "final"}
         /\ outcome' \in [Tx -> {"none", "pending"} \cup Terminal]
BY EmptySeq, settleOutcomeType
DEF abandonQueue, TypeInv, TypeOK, CoordinatorTypes

LEMMA TypeReplaceDocument ==
  ASSUME TypeInv, NEW n \in srcRev .. Len(log), ReplaceDocument(n)
  PROVE  TypeInv'
<1>1. n \in 0 .. Len(log) /\ n \in Nat
  BY DEF TypeInv, RevisionsExist, TypeOK, WorldTypes
<1>2. local' \in Seq(Tx \cup {Foreign})
  BY <1>1, SourceDocumentIsSeq DEF ReplaceDocument
<1>3. waiter' \in [Waiters -> {"off", "waiting", "idle", "reloadRequired",
                               "stale", "destroyed"}]
  BY settleIdleType DEF ReplaceDocument, TypeInv, TypeOK
<1>4. abandonQueue("stale") /\ "stale" \in Terminal
  BY DEF ReplaceDocument, Terminal
<1>5. RecordTypes'
  BY <1>3, <1>4, abandonTypes DEF ReplaceDocument, TypeInv, TypeOK, RecordTypes
<1>6. CoordinatorTypes'
  BY <1>1, <1>4, abandonTypes
  DEF ReplaceDocument, TypeInv, TypeOK, CoordinatorTypes, Modes
<1>. QED
  BY <1>1, <1>2, <1>5, <1>6
  DEF ReplaceDocument, TypeInv, TypeOK, RevisionsExist, AwaitTypes, WorldTypes,
      awaitVars

LEMMA TypeDestroy ==
  ASSUME TypeInv, Destroy
  PROVE  TypeInv'
<1>1. waiter' \in [Waiters -> {"off", "waiting", "idle", "reloadRequired",
                               "stale", "destroyed"}]
  BY settleIdleType DEF Destroy, TypeInv, TypeOK
<1>2. abandonQueue("aborted") /\ "aborted" \in Terminal
  BY DEF Destroy, Terminal
<1>3. RecordTypes'
  BY <1>1, <1>2, abandonTypes DEF Destroy, TypeInv, TypeOK, RecordTypes
<1>4. CoordinatorTypes'
  BY <1>2, abandonTypes DEF Destroy, TypeInv, TypeOK, CoordinatorTypes, Modes
<1>. QED
  BY <1>3, <1>4, TypeStep DEF Destroy

LEMMA HeadIsElement ==
  ASSUME TypeInv, queue # <<>>
  PROVE  Head(queue) \in Tx /\ Tail(queue) \in Seq(Tx)
BY HeadTailProperties DEF TypeInv, TypeOK, CoordinatorTypes

LEMMA TypeDrain ==
  ASSUME TypeInv, Drain
  PROVE  TypeInv'
<1>1. CASE UNCHANGED <<mode, queue, inFlight, suspended, epoch, srcRev, outcome,
                       attempt, waiter, calls>>
  BY <1>1, TypeStep
  DEF Drain, awaitVars, TypeInv, TypeOK, CoordinatorTypes, RecordTypes
<1>2. CASE invalidateCurrentContext /\ UNCHANGED <<attempt, calls>>
  BY <1>2, invalidateTypes, TypeStep
  DEF Drain, awaitVars, TypeInv, TypeOK, CoordinatorTypes, RecordTypes
<1>3. CASE /\ canDispatch /\ current
           /\ dispatch(Head(queue))
           /\ UNCHANGED <<mode, queue, suspended, epoch, srcRev, outcome, waiter>>
  <2>1. PICK t \in Tx : t = Head(queue)
    BY <1>3, HeadIsElement DEF canDispatch
  <2>2. CoordinatorTypes'
    BY <1>3, <2>1 DEF Drain, dispatch, TypeInv, TypeOK, CoordinatorTypes
  <2>7. RecordTypes'
    BY <1>3, <2>1 DEF Drain, dispatch, TypeInv, TypeOK, RecordTypes
  <2>3. PICK c \in Calls : calls' = calls \cup {c} /\ c.reply = NoReply
    <3>1. [tx |-> t, inc |-> inc[t], epoch |-> epoch, version |-> version[t],
           exp |-> srcRev, reply |-> NoReply] \in Calls
      BY DEF Calls, Replies, NoReply, Reply, TypeInv, TypeOK, CoordinatorTypes,
             RecordTypes
    <3>. QED
      BY <1>3, <2>1, <3>1 DEF dispatch
  <2>4. AwaitTypes' /\ WorldTypes'
    BY <2>3 DEF Drain, worldVars, TypeInv, TypeOK, AwaitTypes, WorldTypes
  <2>5. \A d \in calls' : d.reply.rev \in 0 .. Len(log)
    BY <2>3 DEF TypeInv, TypeOK, RevisionsExist, NoReply, Reply, WorldTypes
  <2>6. RevisionsExist'
    BY <1>3, <2>5 DEF Drain, worldVars, TypeInv, RevisionsExist
  <2>. QED
    BY <2>2, <2>4, <2>6, <2>7 DEF TypeInv, TypeOK
<1>. QED
  BY <1>1, <1>2, <1>3 DEF Drain

(* The continuations of #drain, which drop the call they answer.           *)

LEMMA lostContextTypes ==
  ASSUME TypeInv, answerToLostContext
  PROVE  CoordinatorTypes' /\ RecordTypes' /\ srcRev' = srcRev
BY invalidateTypes
DEF answerToLostContext, TypeInv, TypeOK, CoordinatorTypes, RecordTypes

LEMMA suspendTypes ==
  ASSUME TypeInv, NEW q \in Seq(Tx), NEW retryable \in BOOLEAN,
         suspend(q, retryable)
  PROVE  /\ mode' \in Modes
         /\ queue' \in Seq(Tx)
         /\ inFlight' \in Tx \cup {NoTx}
         /\ suspended' \in {"no", "retryable", "final"}
         /\ waiter' \in [Waiters -> {"off", "waiting", "idle", "reloadRequired",
                                     "stale", "destroyed"}]
BY settleIdleType DEF suspend, Modes, TypeInv, TypeOK

LEMMA unansweredTypes ==
  ASSUME TypeInv, NEW retryable \in BOOLEAN, commitUnanswered(retryable)
  PROVE  CoordinatorTypes' /\ RecordTypes' /\ srcRev' = srcRev
<1>1. suspend(queue, retryable) /\ queue \in Seq(Tx)
  BY DEF commitUnanswered, TypeInv, TypeOK, CoordinatorTypes
<1>2. outcome' \in [Tx -> {"none", "pending"} \cup Terminal]
  BY settleOutcomeType DEF commitUnanswered, TypeInv, TypeOK, Terminal
<1>3. CoordinatorTypes' /\ srcRev' = srcRev
  BY <1>1, suspendTypes DEF commitUnanswered, TypeInv, TypeOK, CoordinatorTypes
<1>4. RecordTypes'
  BY <1>1, <1>2, suspendTypes DEF commitUnanswered, TypeInv, TypeOK, RecordTypes
<1>. QED
  BY <1>3, <1>4

LEMMA TypeDropped ==
  ASSUME TypeInv, CoordinatorTypes', RecordTypes', AwaitTypes', WorldTypes',
         srcRev' = srcRev, log' = log, calls' \subseteq calls,
         cancels' \subseteq cancels, recoveries' \subseteq recoveries
  PROVE  TypeInv'
BY DEF TypeInv, TypeOK, RevisionsExist

LEMMA acknowledgedTypes ==
  ASSUME TypeInv, NEW t, NEW rev \in Nat, queue # <<>>, acknowledged(t, rev)
  PROVE  CoordinatorTypes' /\ RecordTypes'
<1>1. queue' \in Seq(Tx)
  BY HeadIsElement DEF acknowledged
<1>2. outcome' \in [Tx -> {"none", "pending"} \cup Terminal]
  BY settleOutcomeType DEF acknowledged, TypeInv, TypeOK, Terminal
<1>3. /\ drainScheduled' \in BOOLEAN
      /\ waiter' \in [Waiters -> {"off", "waiting", "idle", "reloadRequired",
                                  "stale", "destroyed"}]
  BY continueOrSettleTypes DEF acknowledged
<1>4. CoordinatorTypes'
  BY <1>1, <1>3 DEF acknowledged, TypeInv, TypeOK, CoordinatorTypes
<1>5. RecordTypes'
  BY <1>2, <1>3 DEF acknowledged, TypeInv, TypeOK, RecordTypes
<1>. QED
  BY <1>4, <1>5

LEMMA TypeCommitReturns ==
  ASSUME TypeInv, NEW c \in calls, CommitReturns(c)
  PROVE  TypeInv'
<1>. USE DEF CommitReturns
<1>1. WorldTypes' /\ calls' \subseteq calls /\ cancels' = cancels /\ log' = log
  BY DEF worldVars, TypeInv, TypeOK, WorldTypes
<1>2. c.reply.rev \in 0 .. Len(log) /\ c.reply \in Replies /\ c.reply.rev \in Nat
  BY DEF TypeInv, TypeOK, RevisionsExist, AwaitTypes, Calls, WorldTypes
<1>3. CASE dropLate
  <2>1. CoordinatorTypes' /\ RecordTypes' /\ AwaitTypes'
    BY <1>1, <1>3
    DEF dropLate, coordVars, recordVars, TypeInv, TypeOK, CoordinatorTypes,
        RecordTypes, AwaitTypes
  <2>. QED
    BY <1>1, <1>3, <2>1, TypeDropped DEF dropLate, coordVars
<1>4. CASE answerToLostContext
  BY <1>1, <1>4, lostContextTypes, TypeDropped
  DEF answerToLostContext, TypeInv, TypeOK, AwaitTypes
<1>5. CASE ownsResponse(c) /\ acknowledged(c.tx, c.reply.rev)
  <2>1. CoordinatorTypes' /\ RecordTypes'
    BY <1>2, <1>5, acknowledgedTypes DEF ownsResponse
  <2>2. AwaitTypes'
    BY <1>1, <1>5 DEF acknowledged, TypeInv, TypeOK, AwaitTypes
  <2>3. srcRev' = c.reply.rev /\ recoveries' = recoveries
    BY <1>5 DEF acknowledged
  <2>. QED
    BY <1>1, <1>2, <2>1, <2>2, <2>3 DEF TypeInv, TypeOK, RevisionsExist
<1>6. CASE c.reply.status \in Failures /\ explicitFailure(c.tx, c.reply)
  <2>1. CoordinatorTypes' /\ RecordTypes'
    BY <1>6
    DEF explicitFailure, recordVars, TypeInv, TypeOK, CoordinatorTypes,
        RecordTypes, Modes
  <2>2. PICK r \in Recoveries : /\ recoveries' = recoveries \cup {r}
                                /\ r.failure = c.reply
    <3>1. [tx |-> c.tx, epoch |-> epoch, failure |-> c.reply,
           phase |-> "rollback"] \in Recoveries
      BY <1>2, <1>6
      DEF Recoveries, Replies, Calls, TypeInv, TypeOK, CoordinatorTypes, AwaitTypes
    <3>. QED
      BY <1>6, <3>1 DEF explicitFailure
  <2>3. AwaitTypes'
    BY <1>1, <2>2 DEF TypeInv, TypeOK, AwaitTypes
  <2>4. \A x \in recoveries' : x.failure.rev \in 0 .. Len(log)
    BY <1>2, <2>2 DEF TypeInv, RevisionsExist
  <2>. QED
    BY <1>1, <1>6, <2>1, <2>3, <2>4
    DEF explicitFailure, TypeInv, TypeOK, RevisionsExist
<1>7. CASE commitUnanswered(FALSE)
  BY <1>1, <1>7, unansweredTypes, TypeDropped
  DEF commitUnanswered, TypeInv, TypeOK, AwaitTypes
<1>. QED
  BY <1>3, <1>4, <1>5, <1>6, <1>7

LEMMA TypeCommitThrows ==
  ASSUME TypeInv, NEW c \in calls, CommitThrows(c)
  PROVE  TypeInv'
<1>1. [tx |-> c.tx, exp |-> c.exp] \in Zombies
  BY DEF TypeInv, TypeOK, AwaitTypes, Calls, Zombies
<1>2. zombies' \subseteq zombies \cup {[tx |-> c.tx, exp |-> c.exp]}
  BY DEF CommitThrows
<1>3. WorldTypes'
  BY <1>1, <1>2 DEF CommitThrows, TypeInv, TypeOK, WorldTypes
<1>4. calls' \subseteq calls /\ cancels' = cancels /\ log' = log
  BY DEF CommitThrows
<1>5. recoveries' = recoveries
  BY DEF CommitThrows, dropLate, answerToLostContext, commitUnanswered
<1>6. AwaitTypes'
  BY <1>4, <1>5 DEF TypeInv, TypeOK, AwaitTypes
<1>7. CASE dropLate
  BY <1>3, <1>4, <1>5, <1>6, <1>7, TypeDropped
  DEF dropLate, coordVars, recordVars, TypeInv, TypeOK, CoordinatorTypes, RecordTypes
<1>8. CASE answerToLostContext
  BY <1>3, <1>4, <1>5, <1>6, <1>8, lostContextTypes, TypeDropped
<1>9. CASE commitUnanswered(TRUE)
  BY <1>3, <1>4, <1>5, <1>6, <1>9, unansweredTypes, TypeDropped
<1>. QED
  BY <1>7, <1>8, <1>9 DEF CommitThrows

LEMMA TypeCancelReturns ==
  ASSUME TypeInv, NEW c \in cancels, CancelReturns(c)
  PROVE  TypeInv'
<1>1. cancels' \subseteq cancels /\ calls' = calls /\ recoveries' = recoveries
  BY DEF CancelReturns
<1>2. log' = log /\ c.reply.rev \in 0 .. Len(log) /\ c.reply.rev \in Nat
  BY DEF CancelReturns, TypeInv, TypeOK, RevisionsExist, WorldTypes
<1>3. AwaitTypes'
  BY <1>1 DEF TypeInv, TypeOK, AwaitTypes
<1>4. CASE cancelAgreed(c)
  <2>1. queue' = Front(queue) /\ local' = Front(local)
    BY <1>4 DEF cancelAgreed
  <2>2. queue' \in Seq(Tx) /\ local' \in Seq(Tx \cup {Foreign})
    BY <2>1, FrontIsSeq DEF TypeInv, TypeOK, CoordinatorTypes, WorldTypes
  <2>3. outcome' \in [Tx -> {"none", "pending"} \cup Terminal]
    BY <1>4, settleOutcomeType DEF cancelAgreed, TypeInv, TypeOK, Terminal
  <2>4. /\ drainScheduled' \in BOOLEAN
        /\ waiter' \in [Waiters -> {"off", "waiting", "idle", "reloadRequired",
                                    "stale", "destroyed"}]
    BY <1>4, continueOrSettleTypes DEF cancelAgreed
  <2>5. RecordTypes'
    BY <2>3, <2>4 DEF CancelReturns, TypeInv, TypeOK, RecordTypes
  <2>6. srcRev' \in 0 .. Len(log) /\ srcRev' \in Nat
    BY <1>2, <1>4
    DEF cancelAgreed, TypeInv, TypeOK, RevisionsExist, CoordinatorTypes
  <2>7. CoordinatorTypes'
    BY <1>4, <2>2, <2>4, <2>6
    DEF CancelReturns, cancelAgreed, TypeInv, TypeOK, CoordinatorTypes
  <2>8. WorldTypes'
    BY <2>2 DEF CancelReturns, TypeInv, TypeOK, WorldTypes
  <2>. QED
    BY <1>1, <1>2, <1>3, <2>5, <2>6, <2>7, <2>8 DEF TypeInv, TypeOK, RevisionsExist
<1>5. CASE /\ clearCancellation(c)
           /\ UNCHANGED <<queue, inFlight, drainScheduled, srcRev, outcome,
                          waiter, local>>
  <2>1. CoordinatorTypes'
    BY <1>5
    DEF clearCancellation, CancelReturns, TypeInv, TypeOK, CoordinatorTypes
  <2>2. RecordTypes' /\ WorldTypes'
    BY <1>5 DEF CancelReturns, TypeInv, TypeOK, RecordTypes, WorldTypes
  <2>. QED
    BY <1>1, <1>2, <1>3, <1>5, <2>1, <2>2, TypeDropped
<1>. QED
  BY <1>4, <1>5 DEF CancelReturns

LEMMA TypeCancelThrows ==
  ASSUME TypeInv, NEW c \in cancels, CancelThrows(c)
  PROVE  TypeInv'
<1>1. CoordinatorTypes'
  BY DEF clearCancellation, CancelThrows, TypeInv, TypeOK, CoordinatorTypes
<1>2. RecordTypes' /\ WorldTypes' /\ AwaitTypes'
  BY DEF CancelThrows, recordVars, worldVars, TypeInv, TypeOK, RecordTypes,
         WorldTypes, AwaitTypes
<1>. QED
  BY <1>1, <1>2, TypeDropped DEF CancelThrows, worldVars

-----------------------------------------------------------------------------
(* The continuations of #recoverExplicitFailure.                           *)

LEMMA recoveryAbandonedTypes ==
  ASSUME TypeInv, NEW r, recoveryAbandoned(r)
  PROVE  CoordinatorTypes' /\ RecordTypes' /\ srcRev' = srcRev
<1>1. CASE UNCHANGED <<coordVars, recordVars>>
  BY <1>1
  DEF coordVars, recordVars, TypeInv, TypeOK, CoordinatorTypes, RecordTypes
<1>2. CASE /\ invalidateCurrentContext
           /\ UNCHANGED <<cancelling, drainScheduled, inc, attempt, version, dep>>
  BY <1>2, invalidateTypes DEF TypeInv, TypeOK, CoordinatorTypes, RecordTypes
<1>. QED
  BY <1>1, <1>2 DEF recoveryAbandoned

LEMMA acceptedRevisionExists ==
  ASSUME TypeInv, NEW r \in recoveries
  PROVE  acceptedRevision(r) \in 0 .. Len(log) /\ acceptedRevision(r) \in Nat
BY DEF acceptedRevision, TypeInv, TypeOK, RevisionsExist, CoordinatorTypes, WorldTypes

LEMMA recoveredTypes ==
  ASSUME TypeInv, NEW r \in recoveries, NEW q \in Seq(Tx), recovered(r, q),
         UNCHANGED <<inFlight, cancelling, suspended, epoch>>
  PROVE  /\ CoordinatorTypes'
         /\ outcome' \in [Tx -> {"none", "pending"} \cup Terminal]
         /\ waiter' \in [Waiters -> {"off", "waiting", "idle", "reloadRequired",
                                     "stale", "destroyed"}]
<1>1. outcome' \in [Tx -> {"none", "pending"} \cup Terminal]
  BY settleOutcomeType
  DEF recovered, TypeInv, TypeOK, AwaitTypes, Recoveries, Terminal
<1>2. /\ drainScheduled' \in BOOLEAN
      /\ waiter' \in [Waiters -> {"off", "waiting", "idle", "reloadRequired",
                                  "stale", "destroyed"}]
  BY continueOrSettleTypes DEF recovered
<1>3. CoordinatorTypes'
  BY <1>2, acceptedRevisionExists
  DEF recovered, TypeInv, TypeOK, CoordinatorTypes, Modes
<1>. QED
  BY <1>1, <1>2, <1>3

LEMMA TypeRollbackFails ==
  ASSUME TypeInv, NEW r \in recoveries, RollbackFails(r)
  PROVE  TypeInv'
<1>1. WorldTypes' /\ AwaitTypes'
  BY DEF RollbackFails, worldVars, TypeInv, TypeOK, WorldTypes, AwaitTypes
<1>2. /\ log' = log /\ calls' = calls /\ cancels' = cancels
      /\ recoveries' \subseteq recoveries
  BY DEF RollbackFails, worldVars
<1>3. CASE recoveryAbandoned(r)
  BY <1>1, <1>2, <1>3, recoveryAbandonedTypes, TypeDropped
<1>4. CASE /\ suspend(queue, FALSE)
           /\ outcome' = settleOutcome(ToSet(queue), "reloadRequired")
           /\ UNCHANGED <<cancelling, epoch, drainScheduled, srcRev, inc, attempt,
                          version, dep>>
  <2>1. queue \in Seq(Tx)
    BY DEF TypeInv, TypeOK, CoordinatorTypes
  <2>2. outcome' \in [Tx -> {"none", "pending"} \cup Terminal]
    BY <1>4, settleOutcomeType DEF TypeInv, TypeOK, Terminal
  <2>3. CoordinatorTypes'
    BY <1>4, <2>1, suspendTypes DEF TypeInv, TypeOK, CoordinatorTypes
  <2>4. RecordTypes'
    BY <1>4, <2>1, <2>2, suspendTypes DEF TypeInv, TypeOK, RecordTypes
  <2>. QED
    BY <1>1, <1>2, <1>4, <2>3, <2>4, TypeDropped
<1>. QED
  BY <1>3, <1>4 DEF RollbackFails

LEMMA TypeRollbackSucceeds ==
  ASSUME TypeInv, NEW r \in recoveries, RollbackSucceeds(r)
  PROVE  TypeInv'
<1>1. /\ log' = log /\ calls' = calls /\ cancels' = cancels
      /\ refused' = refused /\ zombies' = zombies /\ current' = current
  BY DEF RollbackSucceeds
<1>2. CASE recoveryAbandoned(r) /\ recoveries' = recoveries \ {r} /\ local' = local
  <2>1. WorldTypes' /\ AwaitTypes'
    BY <1>1, <1>2 DEF TypeInv, TypeOK, WorldTypes, AwaitTypes
  <2>. QED
    BY <1>1, <1>2, <2>1, recoveryAbandonedTypes, TypeDropped
<1>3. CASE /\ ownsRecovery(r)
           /\ local' = sourceDocument(acceptedRevision(r))
           /\ IF Tail(queue) = <<>>
                THEN /\ recovered(r, <<>>)
                     /\ recoveries' = recoveries \ {r}
                     /\ UNCHANGED <<inFlight, cancelling, suspended, epoch>>
                ELSE /\ recoveries' = (recoveries \ {r})
                                        \cup {[r EXCEPT !.phase = "replay"]}
                     /\ UNCHANGED <<coordVars, outcome, waiter>>
           /\ UNCHANGED <<inc, attempt, version, dep>>
  <2>1. WorldTypes'
    BY <1>1, <1>3, acceptedRevisionExists, SourceDocumentIsSeq
    DEF TypeInv, TypeOK, WorldTypes
  <2>2. CASE /\ recovered(r, <<>>)
             /\ recoveries' = recoveries \ {r}
             /\ UNCHANGED <<inFlight, cancelling, suspended, epoch>>
    <3>1. <<>> \in Seq(Tx)
      BY EmptySeq
    <3>2. CoordinatorTypes' /\ RecordTypes'
      BY <1>3, <2>2, <3>1, recoveredTypes DEF TypeInv, TypeOK, RecordTypes
    <3>3. srcRev' \in 0 .. Len(log)
      BY <2>2, acceptedRevisionExists DEF recovered
    <3>4. AwaitTypes'
      BY <1>1, <2>2 DEF TypeInv, TypeOK, AwaitTypes
    <3>. QED
      BY <1>1, <2>1, <2>2, <3>2, <3>3, <3>4 DEF TypeInv, TypeOK, RevisionsExist
  <2>3. CASE /\ recoveries' = (recoveries \ {r}) \cup {[r EXCEPT !.phase = "replay"]}
             /\ UNCHANGED <<coordVars, outcome, waiter>>
    <3>1. CoordinatorTypes' /\ RecordTypes' /\ srcRev' = srcRev
      BY <1>3, <2>3 DEF coordVars, TypeInv, TypeOK, CoordinatorTypes, RecordTypes
    <3>2. /\ [r EXCEPT !.phase = "replay"] \in Recoveries
          /\ [r EXCEPT !.phase = "replay"].failure = r.failure
      BY DEF TypeInv, TypeOK, AwaitTypes, Recoveries
    <3>3. AwaitTypes'
      BY <1>1, <2>3, <3>2 DEF TypeInv, TypeOK, AwaitTypes
    <3>4. RevisionsExist'
      BY <1>1, <2>3, <3>1, <3>2 DEF TypeInv, RevisionsExist
    <3>. QED
      BY <2>1, <3>1, <3>3, <3>4 DEF TypeInv, TypeOK
  <2>4. CASE Tail(queue) = <<>>
    BY <1>3, <2>2, <2>4
  <2>5. CASE Tail(queue) # <<>>
    BY <1>3, <2>3, <2>5
  <2>. QED
    BY <2>4, <2>5
<1>. QED
  BY <1>2, <1>3 DEF RollbackSucceeds

LEMMA rebasedDependencyType ==
  ASSUME TypeInv, NEW q \in Seq(Tx)
  PROVE  rebasedDependency(q) \in [Tx -> Tx \cup {NoTx}]
<1>. SUFFICES ASSUME NEW t \in Tx
              PROVE  rebasedDependency(q)[t] \in Tx \cup {NoTx}
  BY DEF rebasedDependency
<1>1. CASE t \notin ToSet(q)
  BY <1>1 DEF rebasedDependency, TypeInv, TypeOK, RecordTypes
<1>2. CASE t \in ToSet(q)
  <2>. DEFINE i == CHOOSE j \in DOMAIN q : q[j] = t
  <2>1. i \in DOMAIN q
    BY <1>2 DEF ToSet
  <2>2. i \in 1 .. Len(q)
    BY <2>1, LenProperties
  <2>3. i = 1 \/ i - 1 \in 1 .. Len(q)
    BY <2>2, LenProperties
  <2>4. i = 1 \/ q[i - 1] \in Tx
    BY <2>3, ElementOfSeq
  <2>5. rebasedDependency(q)[t] = IF i = 1 THEN NoTx ELSE q[i - 1]
    BY <1>2 DEF rebasedDependency
  <2>. QED
    BY <2>4, <2>5
<1>. QED
  BY <1>1, <1>2

LEMMA TypeReplaySucceeds ==
  ASSUME TypeInv, NEW r \in recoveries, ReplaySucceeds(r)
  PROVE  TypeInv'
<1>1. /\ log' = log /\ calls' = calls /\ cancels' = cancels
      /\ refused' = refused /\ zombies' = zombies /\ current' = current
      /\ recoveries' = recoveries \ {r}
  BY DEF ReplaySucceeds
<1>2. AwaitTypes'
  BY <1>1 DEF TypeInv, TypeOK, AwaitTypes
<1>3. CASE recoveryAbandoned(r) /\ local' = local
  <2>1. WorldTypes'
    BY <1>1, <1>3 DEF TypeInv, TypeOK, WorldTypes
  <2>. QED
    BY <1>1, <1>2, <1>3, <2>1, recoveryAbandonedTypes, TypeDropped
<1>4. CASE ~(recoveryAbandoned(r) /\ local' = local)
  <2>. DEFINE q == Tail(queue)
  <2>1. /\ ownsRecovery(r)
        /\ recovered(r, q)
        /\ version' = [t \in Tx |-> IF t \in ToSet(q) THEN version[t] + 1
                                                      ELSE version[t]]
        /\ dep' = rebasedDependency(q)
        /\ local' = local \o q
        /\ UNCHANGED <<inFlight, cancelling, suspended, epoch, inc, attempt>>
    BY <1>4 DEF ReplaySucceeds
  <2>2. q \in Seq(Tx)
    BY <2>1, HeadIsElement DEF ownsRecovery
  <2>. HIDE DEF q
  <2>3. q \in Seq(Tx \cup {Foreign})
    BY <2>2, SeqMonotonic
  <2>4. local' \in Seq(Tx \cup {Foreign})
    BY <2>1, <2>3, ConcatProperties DEF TypeInv, TypeOK, WorldTypes
  <2>5. WorldTypes'
    BY <1>1, <2>4 DEF TypeInv, TypeOK, WorldTypes
  <2>6. version' \in [Tx -> Nat] /\ dep' \in [Tx -> Tx \cup {NoTx}]
    BY <2>1, <2>2, rebasedDependencyType DEF TypeInv, TypeOK, RecordTypes
  <2>7. CoordinatorTypes'
    BY <2>1, <2>2, recoveredTypes
  <2>8. RecordTypes'
    BY <2>1, <2>2, <2>6, recoveredTypes DEF TypeInv, TypeOK, RecordTypes
  <2>9. srcRev' \in 0 .. Len(log)
    BY <2>1, acceptedRevisionExists DEF recovered
  <2>10. RevisionsExist'
    BY <1>1, <2>9 DEF TypeInv, RevisionsExist
  <2>. QED
    BY <1>2, <2>5, <2>7, <2>8, <2>10 DEF TypeInv, TypeOK
<1>. QED
  BY <1>3, <1>4

LEMMA TypeReplayFails ==
  ASSUME TypeInv, NEW r \in recoveries, ReplayFails(r)
  PROVE  TypeInv'
<1>1. WorldTypes' /\ AwaitTypes'
  BY DEF ReplayFails, worldVars, TypeInv, TypeOK, WorldTypes, AwaitTypes
<1>2. /\ log' = log /\ calls' = calls /\ cancels' = cancels
      /\ recoveries' \subseteq recoveries
  BY DEF ReplayFails, worldVars
<1>3. CASE recoveryAbandoned(r)
  BY <1>1, <1>2, <1>3, recoveryAbandonedTypes, TypeDropped
<1>4. CASE /\ ownsRecovery(r)
           /\ suspend(Tail(queue), FALSE)
           /\ outcome' = [settleOutcome(ToSet(Tail(queue)), "reloadRequired")
                            EXCEPT ![r.tx] = r.failure.status]
           /\ UNCHANGED <<cancelling, epoch, drainScheduled, srcRev, inc, attempt,
                          version, dep>>
  <2>1. Tail(queue) \in Seq(Tx)
    BY <1>4, HeadIsElement DEF ownsRecovery
  <2>2. r.failure.status \in Terminal
    BY DEF TypeInv, TypeOK, AwaitTypes, Recoveries, Terminal
  <2>3. settleOutcome(ToSet(Tail(queue)), "reloadRequired")
          \in [Tx -> {"none", "pending"} \cup Terminal]
    BY settleOutcomeType DEF TypeInv, TypeOK, Terminal
  <2>4. outcome' \in [Tx -> {"none", "pending"} \cup Terminal]
    BY <1>4, <2>2, <2>3
  <2>5. CoordinatorTypes'
    BY <1>4, <2>1, suspendTypes DEF TypeInv, TypeOK, CoordinatorTypes
  <2>6. RecordTypes'
    BY <1>4, <2>1, <2>4, suspendTypes DEF TypeInv, TypeOK, RecordTypes
  <2>. QED
    BY <1>1, <1>2, <1>4, <2>5, <2>6, TypeDropped
<1>. QED
  BY <1>3, <1>4 DEF ReplayFails

-----------------------------------------------------------------------------
(* The DataSource, other clients and the owner of the document.            *)

(* The log grows only, and a processed request answers with a revision the *)
(* DataSource has had.                                                     *)
LEMMA serverCommitsTypes ==
  ASSUME TypeInv, NEW t \in Tx, NEW exp, NEW answer \in Answers,
         serverCommits(t, exp, answer)
  PROVE  /\ log' \in Seq(Tx \cup {Foreign})
         /\ Len(log') >= Len(log)
         /\ answer \in Replies
         /\ answer.rev \in 0 .. Len(log')
         /\ refused' \subseteq Tx
<1>1. log \in Seq(Tx \cup {Foreign}) /\ refused \subseteq Tx
  BY DEF TypeInv, TypeOK, WorldTypes
<1>2. Len(log) \in Nat /\ answer \in Replies
  BY <1>1, LenProperties DEF Answers, Replies
<1>3. CASE log' = Append(log, t) /\ answer = Reply("acknowledged", Len(log) + 1)
  <2>1. log' \in Seq(Tx \cup {Foreign}) /\ Len(log') = Len(log) + 1
    BY <1>1, <1>3, AppendProperties
  <2>2. refused' \subseteq Tx
    BY <1>1 DEF serverCommits
  <2>. QED
    BY <1>2, <1>3, <2>1, <2>2 DEF Reply
<1>4. CASE log' = log
  <2>1. refused' \subseteq Tx
    BY <1>1 DEF serverCommits
  <2>2. answer.rev \in 0 .. Len(log)
    <3>. DEFINE accepted == {i \in DOMAIN log : log[i] = t}
    <3>1. CASE /\ accepted # {}
               /\ answer = Reply("acknowledged", CHOOSE i \in accepted : TRUE)
      <4>1. (CHOOSE i \in accepted : TRUE) \in 1 .. Len(log)
        BY <1>1, <3>1, LenProperties
      <4>. QED
        BY <1>2, <3>1, <4>1 DEF Reply
    <3>2. CASE answer = Reply("conflicted", Len(log))
      BY <1>2, <3>2 DEF Reply
    <3>3. CASE log' = Append(log, t)
      <4>1. Len(log') = Len(log) + 1
        BY <1>1, <3>3, AppendProperties
      <4>. QED
        BY <1>2, <1>4, <4>1
    <3>4. CASE answer = Reply("rejected", 0)
      BY <1>2, <3>4 DEF Reply
    <3>. QED
      BY <3>1, <3>2, <3>3, <3>4 DEF serverCommits
  <2>. QED
    BY <1>1, <1>2, <1>4, <2>1, <2>2
<1>. QED
  BY <1>3, <1>4 DEF serverCommits

LEMMA TypeServerProcesses ==
  ASSUME TypeInv, NEW c \in calls, ServerProcesses(c)
  PROVE  TypeInv'
<1>1. PICK answer \in Answers :
        /\ serverCommits(c.tx, c.exp, answer)
        /\ calls' = (calls \ {c}) \cup {[c EXCEPT !.reply = answer]}
  BY DEF ServerProcesses
<1>2. c \in Calls /\ c.tx \in Tx
  BY DEF TypeInv, TypeOK, AwaitTypes, Calls
<1>3. /\ log' \in Seq(Tx \cup {Foreign})
      /\ Len(log') >= Len(log)
      /\ answer \in Replies
      /\ answer.rev \in 0 .. Len(log')
      /\ refused' \subseteq Tx
  BY <1>1, <1>2, serverCommitsTypes
<1>4. [c EXCEPT !.reply = answer] \in Calls /\ [c EXCEPT !.reply = answer].reply = answer
  BY <1>2, <1>3 DEF Calls
<1>5. CoordinatorTypes' /\ RecordTypes'
  BY DEF ServerProcesses, coordVars, recordVars, TypeInv, TypeOK,
         CoordinatorTypes, RecordTypes
<1>6. AwaitTypes' /\ WorldTypes'
  BY <1>1, <1>3, <1>4 DEF ServerProcesses, TypeInv, TypeOK, AwaitTypes, WorldTypes
<1>7. Len(log) \in Nat /\ Len(log') \in Nat
  BY <1>3, LenProperties DEF TypeInv, TypeOK, WorldTypes
<1>8. \A d \in calls' : d.reply.rev \in 0 .. Len(log')
  <2>1. \A d \in calls : d.reply.rev \in 0 .. Len(log')
    BY <1>3, <1>7 DEF TypeInv, RevisionsExist
  <2>2. \A d \in calls' : d \in calls \/ d.reply = answer
    BY <1>1, <1>4
  <2>. QED
    BY <1>3, <2>1, <2>2
<1>9. RevisionsExist'
  BY <1>3, <1>7, <1>8 DEF ServerProcesses, coordVars, TypeInv, RevisionsExist
<1>. QED
  BY <1>5, <1>6, <1>9 DEF TypeInv, TypeOK

(* A longer log has all the revisions of the shorter one.                  *)
LEMMA LogGrows ==
  ASSUME TypeInv, log' \in Seq(Tx \cup {Foreign}), Len(log') >= Len(log),
         UNCHANGED <<srcRev, calls, cancels, recoveries>>
  PROVE  RevisionsExist'
<1>1. Len(log) \in Nat /\ Len(log') \in Nat
  BY LenProperties DEF TypeInv, TypeOK, WorldTypes
<1>. QED
  BY <1>1 DEF TypeInv, RevisionsExist

LEMMA TypeServerProcessesLate ==
  ASSUME TypeInv, NEW z \in zombies, ServerProcessesLate(z)
  PROVE  TypeInv'
<1>1. PICK answer \in Answers : serverCommits(z.tx, z.exp, answer)
  BY DEF ServerProcessesLate
<1>2. z.tx \in Tx
  BY DEF TypeInv, TypeOK, WorldTypes, Zombies
<1>3. /\ log' \in Seq(Tx \cup {Foreign})
      /\ Len(log') >= Len(log)
      /\ refused' \subseteq Tx
  BY <1>1, <1>2, serverCommitsTypes
<1>4. CoordinatorTypes' /\ RecordTypes' /\ AwaitTypes'
  BY DEF ServerProcessesLate, coordVars, recordVars, awaitVars, TypeInv, TypeOK,
         CoordinatorTypes, RecordTypes, AwaitTypes
<1>5. WorldTypes'
  BY <1>3 DEF ServerProcessesLate, TypeInv, TypeOK, WorldTypes
<1>6. RevisionsExist'
  BY <1>3, LogGrows DEF ServerProcessesLate, coordVars, awaitVars
<1>. QED
  BY <1>4, <1>5, <1>6 DEF TypeInv, TypeOK

LEMMA TypeServerCancels ==
  ASSUME TypeInv, NEW c \in cancels, ServerCancels(c)
  PROVE  TypeInv'
<1>1. PICK agreed \in BOOLEAN :
        /\ refused' = IF agreed THEN refused \cup {c.tx} ELSE refused
        /\ cancels' = (cancels \ {c}) \cup
             {[c EXCEPT !.reply = Reply(IF agreed THEN "yes" ELSE "no", Len(log))]}
  BY DEF ServerCancels
<1>. DEFINE d == [c EXCEPT !.reply = Reply(IF agreed THEN "yes" ELSE "no", Len(log))]
<1>2. c \in Cancels /\ c.tx \in Tx /\ Len(log) \in Nat /\ Len(log) \in 0 .. Len(log)
  BY LenProperties DEF TypeInv, TypeOK, AwaitTypes, WorldTypes, Cancels
<1>. DEFINE answer == Reply(IF agreed THEN "yes" ELSE "no", Len(log))
<1>3. answer \in [status : {"none", "yes", "no"}, rev : Nat] /\ answer.rev = Len(log)
  BY <1>2 DEF Reply
<1>4. d \in Cancels /\ d.reply.rev = Len(log)
  <2>1. d = [c EXCEPT !.reply = answer]
    OBVIOUS
  <2>. HIDE DEF answer, d
  <2>. QED
    BY <1>2, <1>3, <2>1 DEF Cancels
<1>5. CoordinatorTypes' /\ RecordTypes'
  BY DEF ServerCancels, coordVars, recordVars, TypeInv, TypeOK, CoordinatorTypes,
         RecordTypes
<1>6. AwaitTypes' /\ WorldTypes'
  BY <1>1, <1>2, <1>4 DEF ServerCancels, TypeInv, TypeOK, AwaitTypes, WorldTypes
<1>7. RevisionsExist'
  BY <1>1, <1>2, <1>4 DEF ServerCancels, coordVars, TypeInv, RevisionsExist
<1>. QED
  BY <1>5, <1>6, <1>7 DEF TypeInv, TypeOK

LEMMA TypeForeignCommit ==
  ASSUME TypeInv, ForeignCommit
  PROVE  TypeInv'
<1>1. /\ log' \in Seq(Tx \cup {Foreign})
      /\ Len(log') = Len(log) + 1
      /\ Len(log) \in Nat
  BY AppendProperties, LenProperties DEF ForeignCommit, TypeInv, TypeOK, WorldTypes
<1>2. CoordinatorTypes' /\ RecordTypes' /\ AwaitTypes' /\ WorldTypes'
  BY <1>1 DEF ForeignCommit, coordVars, recordVars, awaitVars, TypeInv, TypeOK,
         CoordinatorTypes, RecordTypes, AwaitTypes, WorldTypes
<1>3. RevisionsExist'
  BY <1>1, LogGrows DEF ForeignCommit, coordVars, awaitVars
<1>. QED
  BY <1>2, <1>3 DEF TypeInv, TypeOK

LEMMA TypeLoseContext ==
  ASSUME TypeInv, LoseContext
  PROVE  TypeInv'
BY DEF LoseContext, coordVars, recordVars, awaitVars, TypeInv, TypeOK,
       CoordinatorTypes, RecordTypes, AwaitTypes, WorldTypes, RevisionsExist

LEMMA TypeNext == TypeInv /\ [Next]_vars => TypeInv'
<1>. SUFFICES ASSUME TypeInv, [Next]_vars PROVE TypeInv'
  OBVIOUS
<1>1. CASE UNCHANGED vars
  BY <1>1
  DEF vars, coordVars, recordVars, awaitVars, worldVars, TypeInv, TypeOK,
      CoordinatorTypes, RecordTypes, AwaitTypes, WorldTypes, RevisionsExist
<1>2. CASE \/ \E t \in Tx, d \in Tx \cup {NoTx} : Enqueue(t, d)
           \/ \E w \in Waiters : WhenIdle(w)
           \/ RetryIndeterminate
           \/ \E t \in Tx : CancelPending(t)
           \/ \E n \in srcRev .. Len(log) : ResolveAfterResync(n)
           \/ \E n \in srcRev .. Len(log) : ReplaceDocument(n)
           \/ Destroy
           \/ Drain
  BY <1>2, TypeEnqueue, TypeWhenIdle, TypeRetry, TypeCancelPending,
     TypeResolveAfterResync, TypeReplaceDocument, TypeDestroy, TypeDrain
<1>3. CASE \/ \E c \in calls : CommitReturns(c) \/ CommitThrows(c)
           \/ \E c \in cancels : CancelReturns(c) \/ CancelThrows(c)
           \/ \E r \in recoveries : RollbackSucceeds(r) \/ RollbackFails(r)
           \/ \E r \in recoveries : ReplaySucceeds(r) \/ ReplayFails(r)
  BY <1>3, TypeCommitReturns, TypeCommitThrows, TypeCancelReturns,
     TypeCancelThrows, TypeRollbackSucceeds, TypeRollbackFails,
     TypeReplaySucceeds, TypeReplayFails
<1>4. CASE \/ \E c \in calls : ServerProcesses(c)
           \/ \E z \in zombies : ServerProcessesLate(z)
           \/ \E c \in cancels : ServerCancels(c)
           \/ ForeignCommit
           \/ LoseContext
  BY <1>4, TypeServerProcesses, TypeServerProcessesLate, TypeServerCancels,
     TypeForeignCommit, TypeLoseContext
<1>. QED
  BY <1>1, <1>2, <1>3, <1>4 DEF Next

(* The coordinator's state, the receipts, the awaited calls and the world  *)
(* around them keep their types, and every revision anybody remembers is   *)
(* one the DataSource has had.                                             *)
THEOREM TypeCorrect == Spec => [](TypeOK /\ RevisionsExist)
<1>1. TypeInv => TypeOK /\ RevisionsExist
  BY DEF TypeInv
<1>. QED
  BY <1>1, TypeInit, TypeNext, PTL DEF Spec

-----------------------------------------------------------------------------
(* What each action does to the queue, the modes and the receipts: one of  *)
(* twelve shapes, whatever the reason for it.                              *)

Stutters ==
  /\ UNCHANGED <<mode, queue, inFlight, suspended, outcome, attempt>>
  /\ cancelling' \in {cancelling, NoTx}

Appends(t) ==
  /\ mode = "active" /\ cancelling = NoTx /\ outcome[t] = "none"
  /\ queue' = Append(queue, t)
  /\ outcome' = [outcome EXCEPT ![t] = "pending"]
  /\ UNCHANGED <<mode, inFlight, cancelling, suspended, attempt>>

Abandons(s) ==
  /\ abandonQueue(s)
  /\ mode' \in {"active", "stale", "destroyed"}
  /\ \/ cancelling' = NoTx
     \/ mode' = "stale" /\ cancelling' = cancelling
  /\ UNCHANGED attempt

Holds(retryable) ==
  /\ mode \in {"active", "recovering"} /\ queue # <<>>
  /\ suspend(queue, retryable)
  /\ outcome' = settleOutcome(ToSet(queue), "reloadRequired")
  /\ cancelling' = NoTx
  /\ UNCHANGED attempt

HoldsTail(s) ==
  /\ mode = "recovering" /\ queue # <<>>
  /\ suspend(Tail(queue), FALSE)
  /\ outcome' = [settleOutcome(ToSet(Tail(queue)), "reloadRequired")
                   EXCEPT ![Head(queue)] = s]
  /\ cancelling' = NoTx
  /\ UNCHANGED attempt

Renews ==
  /\ mode = "reloadRequired" /\ mode' = "active" /\ suspended' = "no"
  /\ inc' = [t \in Tx |-> IF t \in ToSet(queue) THEN inc[t] + 1 ELSE inc[t]]
  /\ outcome' = [t \in Tx |-> IF t \in ToSet(queue) THEN "pending" ELSE outcome[t]]
  /\ UNCHANGED <<queue, inFlight, cancelling, attempt>>

Forgets ==
  /\ mode = "reloadRequired" /\ mode' = "active" /\ suspended' = "no"
  /\ queue' = <<>>
  /\ UNCHANGED <<inFlight, cancelling, outcome, attempt>>

DropsHead(s) ==
  /\ mode \in {"active", "recovering"} /\ queue # <<>>
  /\ queue' = Tail(queue)
  /\ outcome' = settleOutcome({Head(queue)}, s)
  /\ mode' = "active" /\ inFlight' = NoTx /\ cancelling' = NoTx
  /\ UNCHANGED <<suspended, attempt>>

DropsLast ==
  /\ mode = "active" /\ queue # <<>>
  /\ queue' = Front(queue)
  /\ outcome' = settleOutcome({Last(queue)}, "cancelled")
  /\ \/ inFlight' = NoTx /\ inFlight = Last(queue)
     \/ inFlight' = inFlight /\ inFlight # Last(queue)
  /\ cancelling' = NoTx
  /\ UNCHANGED <<mode, suspended, attempt>>

Sends ==
  /\ mode = "active" /\ queue # <<>> /\ inFlight = NoTx
  /\ inFlight' = Head(queue)
  /\ attempt' = [attempt EXCEPT ![Head(queue)] = @ + 1]
  /\ UNCHANGED <<mode, queue, cancelling, suspended, outcome>>

Recovers ==
  /\ mode = "active" /\ mode' = "recovering"
  /\ inFlight' = NoTx /\ cancelling' = NoTx
  /\ UNCHANGED <<queue, suspended, outcome, attempt>>

(* cancelPending of what is in flight.                                     *)
Reconsiders ==
  /\ mode = "active" /\ queue # <<>>
  /\ inFlight = Last(queue) /\ cancelling' = inFlight
  /\ UNCHANGED <<mode, queue, inFlight, suspended, outcome, attempt>>

QueueStep ==
  \/ Stutters
  \/ \E t \in Tx : Appends(t)
  \/ \E s \in {"stale", "aborted"} : Abandons(s)
  \/ \E b \in BOOLEAN : Holds(b)
  \/ \E s \in Failures : HoldsTail(s)
  \/ Renews
  \/ Forgets
  \/ \E s \in Failures \cup {"acknowledged"} : DropsHead(s)
  \/ DropsLast
  \/ Sends
  \/ Recovers
  \/ Reconsiders

LEMMA invalidateShape ==
  ASSUME invalidateCurrentContext, UNCHANGED attempt,
         cancelling' = NoTx \/ cancelling' = cancelling
  PROVE  QueueStep
<1>1. Abandons("stale")
  BY DEF invalidateCurrentContext, Abandons
<1>. QED
  BY <1>1 DEF QueueStep

LEMMA ShapeOfOperations ==
  ASSUME TypeInv, QueueConsistent,
         \/ \E t \in Tx, d \in Tx \cup {NoTx} : Enqueue(t, d)
         \/ \E w \in Waiters : WhenIdle(w)
         \/ RetryIndeterminate
         \/ \E t \in Tx : CancelPending(t)
         \/ \E n \in srcRev .. Len(log) : ResolveAfterResync(n)
         \/ \E n \in srcRev .. Len(log) : ReplaceDocument(n)
         \/ Destroy
         \/ Drain
  PROVE  QueueStep
<1>1. CASE \E t \in Tx, d \in Tx \cup {NoTx} : Enqueue(t, d)
  <2>1. PICK t \in Tx, d \in Tx \cup {NoTx} : Enqueue(t, d)
    BY <1>1
  <2>2. CASE ~current
    BY <2>1, <2>2, invalidateShape DEF Enqueue
  <2>3. CASE current
    <3>1. outcome[t] = "none"
      BY <2>1, <2>3 DEF Enqueue, transactionIds
    <3>2. Appends(t)
      BY <2>1, <2>3, <3>1 DEF Enqueue, Appends
    <3>. QED
      BY <3>2 DEF QueueStep
  <2>. QED
    BY <2>2, <2>3
<1>2. CASE \E w \in Waiters : WhenIdle(w)
  <2>1. Stutters
    BY <1>2 DEF WhenIdle, coordVars, Stutters
  <2>. QED
    BY <2>1 DEF QueueStep
<1>3. CASE RetryIndeterminate
  <2>1. CASE ~current
    BY <1>3, <2>1, invalidateShape DEF RetryIndeterminate
  <2>2. CASE current
    <3>1. Renews
      BY <1>3, <2>2 DEF RetryIndeterminate, Renews
    <3>. QED
      BY <3>1 DEF QueueStep
  <2>. QED
    BY <2>1, <2>2
<1>4. CASE \E t \in Tx : CancelPending(t)
  <2>1. PICK t \in Tx : CancelPending(t)
    BY <1>4
  <2>2. CASE inFlight # t
    <3>1. DropsLast
      BY <2>1, <2>2 DEF CancelPending, cancelBeforeDispatch, DropsLast
    <3>. QED
      BY <3>1 DEF QueueStep
  <2>3. CASE inFlight = t
    <3>1. Reconsiders
      BY <2>1, <2>3 DEF CancelPending, cancelStarted, Reconsiders
    <3>. QED
      BY <3>1 DEF QueueStep
  <2>. QED
    BY <2>2, <2>3
<1>5. CASE \E n \in srcRev .. Len(log) : ResolveAfterResync(n)
  <2>1. PICK n : ResolveAfterResync(n)
    BY <1>5
  <2>2. CASE ~current
    BY <2>1, <2>2, invalidateShape DEF ResolveAfterResync
  <2>3. CASE current
    <3>1. Forgets
      BY <2>1, <2>3 DEF ResolveAfterResync, Forgets
    <3>. QED
      BY <3>1 DEF QueueStep
  <2>. QED
    BY <2>2, <2>3
<1>6. CASE \E n \in srcRev .. Len(log) : ReplaceDocument(n)
  <2>1. Abandons("stale")
    BY <1>6 DEF ReplaceDocument, Abandons
  <2>. QED
    BY <2>1 DEF QueueStep
<1>7. CASE Destroy
  <2>1. Abandons("aborted")
    BY <1>7 DEF Destroy, Abandons
  <2>. QED
    BY <2>1 DEF QueueStep
<1>8. CASE Drain
  <2>1. CASE UNCHANGED <<mode, queue, inFlight, suspended, epoch, srcRev, outcome,
                         attempt, waiter, calls>>
    <3>1. Stutters
      BY <1>8, <2>1 DEF Drain, Stutters
    <3>. QED
      BY <3>1 DEF QueueStep
  <2>2. CASE invalidateCurrentContext /\ UNCHANGED <<attempt, calls>>
    BY <1>8, <2>2, invalidateShape DEF Drain
  <2>3. CASE /\ canDispatch /\ current
             /\ dispatch(Head(queue))
             /\ UNCHANGED <<mode, queue, suspended, epoch, srcRev, outcome, waiter>>
    <3>1. Sends
      BY <1>8, <2>3 DEF Drain, canDispatch, dispatch, Sends
    <3>. QED
      BY <3>1 DEF QueueStep
  <2>. QED
    BY <1>8, <2>1, <2>2, <2>3 DEF Drain
<1>. QED
  BY <1>1, <1>2, <1>3, <1>4, <1>5, <1>6, <1>7, <1>8

LEMMA ShapeOfCommitAnswers ==
  ASSUME TypeInv, QueueConsistent,
         \E c \in calls : CommitReturns(c) \/ CommitThrows(c)
  PROVE  QueueStep
<1>1. CASE dropLate
  BY <1>1 DEF dropLate, coordVars, recordVars, Stutters, QueueStep
<1>2. CASE answerToLostContext
  BY <1>2, invalidateShape DEF answerToLostContext
<1>3. CASE \E c \in calls, b \in BOOLEAN : ownsResponse(c) /\ commitUnanswered(b)
  BY <1>3 DEF ownsResponse, commitUnanswered, Holds, QueueStep
<1>4. CASE \E c \in calls : ownsResponse(c) /\ acknowledged(c.tx, c.reply.rev)
  <2>1. DropsHead("acknowledged")
    BY <1>4 DEF ownsResponse, acknowledged, DropsHead
  <2>. QED
    BY <2>1 DEF QueueStep
<1>5. CASE \E c \in calls : ownsResponse(c) /\ explicitFailure(c.tx, c.reply)
  <2>1. Recovers
    BY <1>5 DEF ownsResponse, explicitFailure, recordVars, Recovers
  <2>. QED
    BY <2>1 DEF QueueStep
<1>. QED
  BY <1>1, <1>2, <1>3, <1>4, <1>5 DEF CommitReturns, CommitThrows

LEMMA ShapeOfCancelAnswers ==
  ASSUME TypeInv, QueueConsistent,
         \E c \in cancels : CancelReturns(c) \/ CancelThrows(c)
  PROVE  QueueStep
<1>1. PICK c \in cancels : CancelReturns(c) \/ CancelThrows(c)
  OBVIOUS
<1>2. CASE CancelThrows(c)
  <2>1. Stutters
    BY <1>2 DEF CancelThrows, clearCancellation, recordVars, Stutters
  <2>. QED
    BY <2>1 DEF QueueStep
<1>3. CASE CancelReturns(c) /\ clearCancellation(c)
           /\ UNCHANGED <<queue, inFlight, drainScheduled, srcRev, outcome,
                          waiter, local>>
  <2>1. Stutters
    BY <1>3 DEF CancelReturns, clearCancellation, Stutters
  <2>. QED
    BY <2>1 DEF QueueStep
<1>4. CASE CancelReturns(c) /\ ownsCancellation(c) /\ ownsResponse(c) /\ cancelAgreed(c)
  <2>1. c.tx # NoTx /\ c.tx \in Tx
    BY NamesAssumption DEF TypeInv, TypeOK, AwaitTypes, Cancels
  <2>2. mode = "active" /\ queue = <<c.tx>> /\ inFlight = c.tx
    BY <1>4, <2>1
    DEF ownsCancellation, ownsResponse, QueueConsistent, CancellationOwnsQueue
  <2>3. Last(queue) = c.tx /\ queue # <<>>
    BY <2>1, <2>2 DEF Last
  <2>4. DropsLast
    BY <1>4, <2>2, <2>3 DEF CancelReturns, cancelAgreed, DropsLast
  <2>. QED
    BY <2>4 DEF QueueStep
<1>. QED
  BY <1>1, <1>2, <1>3, <1>4 DEF CancelReturns

LEMMA recoveryAbandonedShape ==
  ASSUME NEW r, recoveryAbandoned(r)
  PROVE  QueueStep
<1>1. CASE UNCHANGED <<coordVars, recordVars>>
  BY <1>1 DEF coordVars, recordVars, Stutters, QueueStep
<1>2. CASE /\ invalidateCurrentContext
           /\ UNCHANGED <<cancelling, drainScheduled, inc, attempt, version, dep>>
  BY <1>2, invalidateShape
<1>. QED
  BY <1>1, <1>2 DEF recoveryAbandoned

(* While recovering, nothing is in flight and nothing is being cancelled.  *)
LEMMA RecoveringIsAlone ==
  ASSUME QueueConsistent, mode = "recovering"
  PROVE  inFlight = NoTx /\ cancelling = NoTx
BY DEF QueueConsistent, HeadIsInFlight, CancellationOwnsQueue

LEMMA ShapeOfRollbacks ==
  ASSUME TypeInv, QueueConsistent,
         \E r \in recoveries : RollbackSucceeds(r) \/ RollbackFails(r)
  PROVE  QueueStep
<1>1. PICK r \in recoveries : RollbackSucceeds(r) \/ RollbackFails(r)
  OBVIOUS
<1>2. CASE recoveryAbandoned(r)
  BY <1>2, recoveryAbandonedShape
<1>3. CASE /\ ownsRecovery(r)
           /\ suspend(queue, FALSE)
           /\ outcome' = settleOutcome(ToSet(queue), "reloadRequired")
           /\ UNCHANGED <<cancelling, epoch, drainScheduled, srcRev, inc, attempt,
                          version, dep>>
  <2>1. Holds(FALSE)
    BY <1>3, RecoveringIsAlone DEF ownsRecovery, Holds
  <2>. QED
    BY <2>1 DEF QueueStep
<1>4. CASE /\ ownsRecovery(r) /\ Tail(queue) = <<>> /\ recovered(r, <<>>)
           /\ UNCHANGED <<inFlight, cancelling, suspended, epoch, attempt>>
  <2>1. r.failure.status \in Failures
    BY DEF TypeInv, TypeOK, AwaitTypes, Recoveries
  <2>2. DropsHead(r.failure.status)
    BY <1>4, RecoveringIsAlone DEF ownsRecovery, recovered, DropsHead
  <2>. QED
    BY <2>1, <2>2 DEF QueueStep
<1>5. CASE UNCHANGED <<coordVars, outcome, waiter, attempt>>
  <2>1. Stutters
    BY <1>5 DEF coordVars, Stutters
  <2>. QED
    BY <2>1 DEF QueueStep
<1>6. CASE RollbackFails(r)
  BY <1>2, <1>3, <1>6 DEF RollbackFails
<1>7. CASE RollbackSucceeds(r)
  <2>1. CASE Tail(queue) = <<>>
    BY <1>2, <1>4, <1>7, <2>1 DEF RollbackSucceeds
  <2>2. CASE Tail(queue) # <<>>
    BY <1>2, <1>5, <1>7, <2>2 DEF RollbackSucceeds
  <2>. QED
    BY <2>1, <2>2
<1>. QED
  BY <1>1, <1>6, <1>7

LEMMA ShapeOfReplays ==
  ASSUME TypeInv, QueueConsistent,
         \E r \in recoveries : ReplaySucceeds(r) \/ ReplayFails(r)
  PROVE  QueueStep
<1>1. PICK r \in recoveries : ReplaySucceeds(r) \/ ReplayFails(r)
  OBVIOUS
<1>2. r.failure.status \in Failures
  BY DEF TypeInv, TypeOK, AwaitTypes, Recoveries
<1>3. CASE recoveryAbandoned(r)
  BY <1>3, recoveryAbandonedShape
<1>4. CASE /\ ownsRecovery(r) /\ recovered(r, Tail(queue))
           /\ UNCHANGED <<inFlight, cancelling, suspended, epoch, attempt>>
  <2>1. DropsHead(r.failure.status)
    BY <1>4, RecoveringIsAlone DEF ownsRecovery, recovered, DropsHead
  <2>. QED
    BY <1>2, <2>1 DEF QueueStep
<1>5. CASE /\ ownsRecovery(r)
           /\ suspend(Tail(queue), FALSE)
           /\ outcome' = [settleOutcome(ToSet(Tail(queue)), "reloadRequired")
                            EXCEPT ![r.tx] = r.failure.status]
           /\ UNCHANGED <<cancelling, attempt>>
  <2>1. HoldsTail(r.failure.status)
    BY <1>5, RecoveringIsAlone DEF ownsRecovery, HoldsTail
  <2>. QED
    BY <1>2, <2>1 DEF QueueStep
<1>6. CASE ReplaySucceeds(r)
  BY <1>3, <1>4, <1>6 DEF ReplaySucceeds
<1>7. CASE ReplayFails(r)
  BY <1>3, <1>5, <1>7 DEF ReplayFails
<1>. QED
  BY <1>1, <1>6, <1>7

LEMMA ShapeOfWorld ==
  ASSUME \/ \E c \in calls : ServerProcesses(c)
         \/ \E z \in zombies : ServerProcessesLate(z)
         \/ \E c \in cancels : ServerCancels(c)
         \/ ForeignCommit
         \/ LoseContext
         \/ UNCHANGED vars
  PROVE  QueueStep
<1>1. UNCHANGED <<coordVars, recordVars>>
  BY DEF ServerProcesses, ServerProcessesLate, ServerCancels, ForeignCommit,
         LoseContext, vars
<1>. QED
  BY <1>1 DEF coordVars, recordVars, Stutters, QueueStep

LEMMA NextShape == TypeInv /\ QueueConsistent /\ [Next]_vars => QueueStep
<1>. SUFFICES ASSUME TypeInv, QueueConsistent, [Next]_vars PROVE QueueStep
  OBVIOUS
<1>1. CASE \/ \E t \in Tx, d \in Tx \cup {NoTx} : Enqueue(t, d)
           \/ \E w \in Waiters : WhenIdle(w)
           \/ RetryIndeterminate
           \/ \E t \in Tx : CancelPending(t)
           \/ \E n \in srcRev .. Len(log) : ResolveAfterResync(n)
           \/ \E n \in srcRev .. Len(log) : ReplaceDocument(n)
           \/ Destroy
           \/ Drain
  BY <1>1, ShapeOfOperations
<1>2. CASE \/ \E c \in calls : CommitReturns(c) \/ CommitThrows(c)
           \/ \E c \in cancels : CancelReturns(c) \/ CancelThrows(c)
           \/ \E r \in recoveries : RollbackSucceeds(r) \/ RollbackFails(r)
           \/ \E r \in recoveries : ReplaySucceeds(r) \/ ReplayFails(r)
  BY <1>2, ShapeOfCommitAnswers, ShapeOfCancelAnswers, ShapeOfRollbacks,
     ShapeOfReplays
<1>3. CASE \/ \E c \in calls : ServerProcesses(c)
           \/ \E z \in zombies : ServerProcessesLate(z)
           \/ \E c \in cancels : ServerCancels(c)
           \/ ForeignCommit
           \/ LoseContext
           \/ UNCHANGED vars
  BY <1>3, ShapeOfWorld
<1>. QED
  BY <1>1, <1>2, <1>3 DEF Next

-----------------------------------------------------------------------------
(* Each shape preserves QueueConsistent.                                   *)

LEMMA QueueInit == Init => QueueConsistent
BY EmptySeq
DEF Init, QueueConsistent, IsInjective, HeadIsInFlight, CancellationOwnsQueue,
    ReceiptsMatchQueue, OnlyHeadSent, ToSet

(* An empty queue has nothing to be inconsistent about.                    *)
LEMMA EmptyQueue ==
  ASSUME NEW q, q = <<>>
  PROVE  /\ IsInjective(q) /\ ToSet(q) = {}
         /\ \A i \in DOMAIN q : i > 1 => attempt'[q[i]] = 0
BY EmptySeq DEF IsInjective, ToSet

(* Settling a set of records leaves the pending ones outside it.           *)
LEMMA SettledFacts ==
  ASSUME TypeInv, NEW T, NEW s \in Terminal, NEW t \in Tx
  PROVE  /\ settleOutcome(T, s)[t] = "pending" <=> outcome[t] = "pending" /\ t \notin T
         /\ settleOutcome(T, s)[t] = "none" <=> outcome[t] = "none"
         /\ outcome[t] = "pending" /\ t \in T => settleOutcome(T, s)[t] = s
         /\ outcome[t] # "pending" => settleOutcome(T, s)[t] = outcome[t]
BY DEF settleOutcome, Terminal, Failures

LEMMA StuttersKeeps ==
  ASSUME QueueConsistent, Stutters
  PROVE  QueueConsistent'
BY DEF Stutters, QueueConsistent, HeadIsInFlight, CancellationOwnsQueue,
       ReceiptsMatchQueue, OnlyHeadSent

LEMMA AppendsKeeps ==
  ASSUME TypeInv, QueueConsistent, NEW t \in Tx, Appends(t)
  PROVE  QueueConsistent'
<1>1. queue \in Seq(Tx) /\ IsInjective(queue) /\ t \notin ToSet(queue)
  BY DEF Appends, TypeInv, TypeOK, CoordinatorTypes, QueueConsistent,
         ReceiptsMatchQueue
<1>2. /\ IsInjective(queue')
      /\ ToSet(queue') = ToSet(queue) \cup {t}
      /\ queue' # <<>>
      /\ queue # <<>> => Head(queue') = Head(queue)
  BY <1>1, AppendFacts DEF Appends
<1>3. HeadIsInFlight' /\ CancellationOwnsQueue'
  BY <1>2 DEF Appends, QueueConsistent, HeadIsInFlight, CancellationOwnsQueue
<1>4. ReceiptsMatchQueue'
  BY <1>1, <1>2
  DEF Appends, TypeInv, TypeOK, RecordTypes, QueueConsistent, ReceiptsMatchQueue
<1>5. OnlyHeadSent'
  <2>1. attempt[t] = 0
    BY DEF Appends, QueueConsistent, ReceiptsMatchQueue
  <2>2. /\ DOMAIN queue = 1 .. Len(queue)
        /\ DOMAIN queue' = 1 .. Len(queue) + 1
        /\ Len(queue) \in Nat
    <3>1. queue' \in Seq(Tx) /\ Len(queue') = Len(queue) + 1
      BY <1>1, AppendProperties DEF Appends
    <3>. QED
      BY <1>1, <3>1, ToSetFacts
  <2>3. /\ \A i \in 1 .. Len(queue) : queue'[i] = queue[i]
        /\ queue'[Len(queue) + 1] = t
    BY <1>1, AppendProperties DEF Appends
  <2>. QED
    BY <2>1, <2>2, <2>3 DEF Appends, QueueConsistent, OnlyHeadSent
<1>. QED
  BY <1>2, <1>3, <1>4, <1>5 DEF QueueConsistent

LEMMA AbandonsKeeps ==
  ASSUME TypeInv, QueueConsistent, NEW s \in {"stale", "aborted"}, Abandons(s)
  PROVE  QueueConsistent'
<1>1. /\ queue' = <<>> /\ inFlight' = NoTx /\ suspended' = "no"
      /\ outcome' = settleOutcome(ToSet(queue), s)
      /\ s \in Terminal
  BY DEF Abandons, abandonQueue, Terminal
<1>2. IsInjective(queue') /\ ToSet(queue') = {} /\ OnlyHeadSent'
  BY <1>1, EmptyQueue DEF OnlyHeadSent
<1>3. HeadIsInFlight' /\ CancellationOwnsQueue'
  BY <1>1 DEF Abandons, HeadIsInFlight, CancellationOwnsQueue
<1>4. ReceiptsMatchQueue'
  <2>1. \A t \in Tx : outcome'[t] # "pending"
    BY <1>1, SettledFacts DEF QueueConsistent, ReceiptsMatchQueue
  <2>2. \A t \in Tx : outcome'[t] = "none" => attempt'[t] = 0
    BY <1>1, SettledFacts DEF Abandons, QueueConsistent, ReceiptsMatchQueue
  <2>. QED
    BY <1>1, <1>2, <2>1, <2>2 DEF Abandons, ReceiptsMatchQueue
<1>. QED
  BY <1>2, <1>3, <1>4 DEF QueueConsistent

LEMMA HoldsKeeps ==
  ASSUME TypeInv, QueueConsistent, NEW b \in BOOLEAN, Holds(b)
  PROVE  QueueConsistent'
<1>1. /\ queue' = queue /\ inFlight' = NoTx /\ cancelling' = NoTx
      /\ suspended' # "no" /\ mode' = "reloadRequired"
      /\ mode \in {"active", "recovering"}
      /\ outcome' = settleOutcome(ToSet(queue), "reloadRequired")
      /\ attempt' = attempt
      /\ "reloadRequired" \in Terminal
  BY DEF Holds, suspend, Terminal
<1>2. ToSet(queue) \subseteq Tx
  BY ToSetFacts, ElementOfSeq DEF TypeInv, TypeOK, CoordinatorTypes, ToSet
<1>3. ReceiptsMatchQueue'
  <2>1. \A t \in Tx : outcome'[t] # "pending"
    BY <1>1, SettledFacts DEF QueueConsistent, ReceiptsMatchQueue
  <2>2. \A t \in Tx : outcome'[t] = "none" => attempt'[t] = 0
    BY <1>1, SettledFacts DEF QueueConsistent, ReceiptsMatchQueue
  <2>3. \A t \in ToSet(queue) : outcome'[t] = "reloadRequired"
    BY <1>1, <1>2, SettledFacts DEF QueueConsistent, ReceiptsMatchQueue
  <2>. QED
    BY <1>1, <2>1, <2>2, <2>3 DEF ReceiptsMatchQueue
<1>. QED
  BY <1>1, <1>3 DEF QueueConsistent, HeadIsInFlight, CancellationOwnsQueue, OnlyHeadSent

(* Nothing but the head was sent, so nothing of the tail was.              *)
LEMMA TailWasNotSent ==
  ASSUME TypeInv, QueueConsistent, queue # <<>>
  PROVE  /\ IsInjective(Tail(queue))
         /\ ToSet(Tail(queue)) = ToSet(queue) \ {Head(queue)}
         /\ Head(queue) \in ToSet(queue) /\ Head(queue) \in Tx
         /\ ToSet(queue) \subseteq Tx
         /\ \A t \in ToSet(Tail(queue)) : attempt[t] = 0
         /\ \A i \in DOMAIN Tail(queue) : attempt[Tail(queue)[i]] = 0
<1>1. queue \in Seq(Tx) /\ IsInjective(queue)
  BY DEF TypeInv, TypeOK, CoordinatorTypes, QueueConsistent
<1>2. /\ IsInjective(Tail(queue))
      /\ ToSet(Tail(queue)) = ToSet(queue) \ {Head(queue)}
      /\ \A i \in DOMAIN Tail(queue) :
           i + 1 \in DOMAIN queue /\ Tail(queue)[i] = queue[i + 1]
  BY <1>1, TailFacts
<1>3. Head(queue) \in ToSet(queue) /\ Head(queue) \in Tx
  BY <1>1, HeadIsFirst, HeadIsElement
<1>4. ToSet(queue) \subseteq Tx
  BY <1>1, ToSetFacts, ElementOfSeq DEF ToSet
<1>5. DOMAIN Tail(queue) = 1 .. Len(Tail(queue))
  BY HeadIsElement, ToSetFacts
<1>6. \A i \in DOMAIN Tail(queue) : attempt[Tail(queue)[i]] = 0
  BY <1>2, <1>5 DEF QueueConsistent, OnlyHeadSent
<1>7. \A t \in ToSet(Tail(queue)) : attempt[t] = 0
  BY <1>6 DEF ToSet
<1>. QED
  BY <1>2, <1>3, <1>4, <1>6, <1>7

LEMMA HoldsTailKeeps ==
  ASSUME TypeInv, QueueConsistent, NEW s \in Failures, HoldsTail(s)
  PROVE  QueueConsistent'
<1>. DEFINE T == ToSet(Tail(queue))
<1>1. /\ mode = "recovering" /\ queue # <<>>
      /\ queue' = Tail(queue) /\ inFlight' = NoTx /\ cancelling' = NoTx
      /\ suspended' # "no" /\ mode' = "reloadRequired"
      /\ outcome' = [settleOutcome(T, "reloadRequired") EXCEPT ![Head(queue)] = s]
      /\ attempt' = attempt
      /\ "reloadRequired" \in Terminal /\ s \notin {"none", "pending"}
  BY DEF HoldsTail, suspend, Terminal, Failures
<1>2. /\ IsInjective(Tail(queue))
      /\ T = ToSet(queue) \ {Head(queue)}
      /\ Head(queue) \in Tx /\ Head(queue) \in ToSet(queue)
      /\ ToSet(queue) \subseteq Tx
      /\ \A i \in DOMAIN Tail(queue) : attempt[Tail(queue)[i]] = 0
  BY <1>1, TailWasNotSent
<1>3. \A t \in Tx : t # Head(queue) =>
        outcome'[t] = settleOutcome(T, "reloadRequired")[t]
  BY <1>1, <1>2 DEF settleOutcome
<1>4. outcome'[Head(queue)] = s
  BY <1>1, <1>2 DEF settleOutcome
<1>5. ReceiptsMatchQueue'
  <2>1. \A t \in Tx : outcome'[t] # "pending"
    BY <1>1, <1>2, <1>3, <1>4, SettledFacts DEF QueueConsistent, ReceiptsMatchQueue
  <2>2. \A t \in Tx : outcome'[t] = "none" => attempt'[t] = 0
    BY <1>1, <1>3, <1>4, SettledFacts DEF QueueConsistent, ReceiptsMatchQueue
  <2>3. \A t \in T : outcome'[t] = "reloadRequired"
    BY <1>1, <1>2, <1>3, SettledFacts DEF QueueConsistent, ReceiptsMatchQueue
  <2>. QED
    BY <1>1, <2>1, <2>2, <2>3 DEF ReceiptsMatchQueue
<1>. QED
  BY <1>1, <1>2, <1>5
  DEF QueueConsistent, HeadIsInFlight, CancellationOwnsQueue, OnlyHeadSent

LEMMA RenewsKeeps ==
  ASSUME TypeInv, QueueConsistent, Renews
  PROVE  QueueConsistent'
<1>1. ToSet(queue) \subseteq Tx
  BY ToSetFacts, ElementOfSeq DEF TypeInv, TypeOK, CoordinatorTypes, ToSet
<1>2. HeadIsInFlight' /\ CancellationOwnsQueue'
  BY DEF Renews, QueueConsistent, HeadIsInFlight, CancellationOwnsQueue
<1>3. ReceiptsMatchQueue'
  BY <1>1 DEF Renews, QueueConsistent, ReceiptsMatchQueue
<1>. QED
  BY <1>2, <1>3 DEF Renews, QueueConsistent, OnlyHeadSent

LEMMA ForgetsKeeps ==
  ASSUME TypeInv, QueueConsistent, Forgets
  PROVE  QueueConsistent'
<1>1. IsInjective(queue') /\ ToSet(queue') = {} /\ OnlyHeadSent'
  BY EmptyQueue DEF Forgets, OnlyHeadSent
<1>2. HeadIsInFlight' /\ CancellationOwnsQueue'
  BY DEF Forgets, QueueConsistent, HeadIsInFlight, CancellationOwnsQueue
<1>3. ReceiptsMatchQueue'
  BY <1>1 DEF Forgets, QueueConsistent, ReceiptsMatchQueue
<1>. QED
  BY <1>1, <1>2, <1>3 DEF QueueConsistent

LEMMA DropsHeadKeeps ==
  ASSUME TypeInv, QueueConsistent, NEW s \in Failures \cup {"acknowledged"},
         DropsHead(s)
  PROVE  QueueConsistent'
<1>1. /\ mode \in {"active", "recovering"} /\ mode' = "active" /\ queue # <<>>
      /\ queue' = Tail(queue) /\ inFlight' = NoTx /\ cancelling' = NoTx
      /\ suspended' = suspended /\ attempt' = attempt
      /\ outcome' = settleOutcome({Head(queue)}, s)
      /\ s \in Terminal
  BY DEF DropsHead, Terminal
<1>2. /\ IsInjective(Tail(queue))
      /\ ToSet(Tail(queue)) = ToSet(queue) \ {Head(queue)}
      /\ \A i \in DOMAIN Tail(queue) : attempt[Tail(queue)[i]] = 0
  BY <1>1, TailWasNotSent
<1>3. ReceiptsMatchQueue'
  <2>1. \A t \in Tx : outcome'[t] = "pending" <=> t \in ToSet(queue')
    BY <1>1, <1>2, SettledFacts DEF QueueConsistent, ReceiptsMatchQueue
  <2>2. \A t \in Tx : outcome'[t] = "none" => attempt'[t] = 0
    BY <1>1, SettledFacts DEF QueueConsistent, ReceiptsMatchQueue
  <2>. QED
    BY <1>1, <2>1, <2>2 DEF QueueConsistent, ReceiptsMatchQueue
<1>. QED
  BY <1>1, <1>2, <1>3
  DEF QueueConsistent, HeadIsInFlight, CancellationOwnsQueue, OnlyHeadSent

LEMMA DropsLastKeeps ==
  ASSUME TypeInv, QueueConsistent, DropsLast
  PROVE  QueueConsistent'
<1>1. queue \in Seq(Tx) /\ IsInjective(queue) /\ queue # <<>>
  BY DEF DropsLast, TypeInv, TypeOK, CoordinatorTypes, QueueConsistent
<1>2. /\ IsInjective(Front(queue))
      /\ ToSet(Front(queue)) = ToSet(queue) \ {Last(queue)}
      /\ \A i \in DOMAIN Front(queue) :
           i \in DOMAIN queue /\ Front(queue)[i] = queue[i]
      /\ Front(queue) # <<>> => Head(Front(queue)) = Head(queue)
      /\ Front(queue) = <<>> => Head(queue) = Last(queue)
  BY <1>1, FrontFacts
<1>3. HeadIsInFlight'
  BY <1>2 DEF DropsLast, QueueConsistent, HeadIsInFlight
<1>4. ReceiptsMatchQueue'
  <2>1. "cancelled" \in Terminal
    BY DEF Terminal
  <2>2. \A t \in Tx : outcome'[t] = "pending" <=> t \in ToSet(queue')
    BY <1>2, <2>1, SettledFacts DEF DropsLast, QueueConsistent, ReceiptsMatchQueue
  <2>3. \A t \in Tx : outcome'[t] = "none" => attempt'[t] = 0
    BY <2>1, SettledFacts DEF DropsLast, QueueConsistent, ReceiptsMatchQueue
  <2>. QED
    BY <2>2, <2>3 DEF DropsLast, QueueConsistent, ReceiptsMatchQueue
<1>5. OnlyHeadSent'
  BY <1>2 DEF DropsLast, QueueConsistent, OnlyHeadSent
<1>. QED
  BY <1>2, <1>3, <1>4, <1>5 DEF DropsLast, QueueConsistent, CancellationOwnsQueue

LEMMA SendsKeeps ==
  ASSUME TypeInv, QueueConsistent, Sends
  PROVE  QueueConsistent'
<1>1. queue \in Seq(Tx) /\ IsInjective(queue) /\ queue # <<>>
  BY DEF Sends, TypeInv, TypeOK, CoordinatorTypes, QueueConsistent
<1>2. Head(queue) = queue[1] /\ Head(queue) \in ToSet(queue) /\ Head(queue) \in Tx
  BY <1>1, HeadIsFirst, HeadIsElement
<1>3. DOMAIN queue = 1 .. Len(queue) /\ Len(queue) \in Nat \ {0}
  BY <1>1, ToSetFacts, HeadIsFirst
<1>4. outcome[Head(queue)] = "pending"
  BY <1>2 DEF Sends, QueueConsistent, ReceiptsMatchQueue
<1>5. \A t \in Tx : t # Head(queue) => attempt'[t] = attempt[t]
  BY DEF Sends, TypeInv, TypeOK, RecordTypes
<1>6. ReceiptsMatchQueue'
  BY <1>4, <1>5 DEF Sends, QueueConsistent, ReceiptsMatchQueue
<1>7. OnlyHeadSent'
  <2>1. \A i \in DOMAIN queue : i > 1 => queue[i] # Head(queue)
    BY <1>1, <1>2, <1>3 DEF IsInjective
  <2>2. \A i \in DOMAIN queue : queue[i] \in Tx
    BY <1>1, <1>3, ElementOfSeq
  <2>. QED
    BY <1>5, <2>1, <2>2 DEF Sends, QueueConsistent, OnlyHeadSent
<1>8. HeadIsInFlight'
  BY <1>1 DEF Sends, HeadIsInFlight
<1>9. cancelling = NoTx
  BY DEF Sends, QueueConsistent, CancellationOwnsQueue
<1>. QED
  BY <1>6, <1>7, <1>8, <1>9 DEF Sends, QueueConsistent, CancellationOwnsQueue

LEMMA RecoversKeeps ==
  ASSUME TypeInv, QueueConsistent, Recovers
  PROVE  QueueConsistent'
<1>1. ReceiptsMatchQueue'
  BY DEF Recovers, QueueConsistent, ReceiptsMatchQueue
<1>. QED
  BY <1>1
  DEF Recovers, QueueConsistent, HeadIsInFlight, CancellationOwnsQueue, OnlyHeadSent

LEMMA ReconsidersKeeps ==
  ASSUME TypeInv, QueueConsistent, Reconsiders
  PROVE  QueueConsistent'
<1>1. queue \in Seq(Tx) /\ IsInjective(queue) /\ queue # <<>>
  BY DEF Reconsiders, TypeInv, TypeOK, CoordinatorTypes, QueueConsistent
<1>2. /\ Head(queue) = queue[1] /\ Last(queue) = queue[Len(queue)]
      /\ Len(queue) \in Nat \ {0} /\ DOMAIN queue = 1 .. Len(queue)
      /\ Last(queue) \in Tx
  BY <1>1, HeadIsFirst, LastIsElement, ToSetFacts
<1>3. Last(queue) = Head(queue)
  BY <1>2, NamesAssumption DEF Reconsiders, QueueConsistent, HeadIsInFlight
<1>4. Len(queue) = 1
  <2>1. 1 \in DOMAIN queue /\ Len(queue) \in DOMAIN queue
    BY <1>2
  <2>2. queue[1] = queue[Len(queue)]
    BY <1>2, <1>3
  <2>. QED
    BY <1>1, <2>1, <2>2 DEF IsInjective
<1>5. queue = <<Last(queue)>>
  <2>1. /\ <<Last(queue)>> \in Seq(Tx)
        /\ Len(<<Last(queue)>>) = 1
        /\ <<Last(queue)>>[1] = Last(queue)
    BY <1>2
  <2>. HIDE DEF Last
  <2>. QED
    BY <1>1, <1>2, <1>4, <2>1, SeqEqual
<1>6. CancellationOwnsQueue'
  BY <1>5 DEF Reconsiders, CancellationOwnsQueue
<1>. QED
  BY <1>6
  DEF Reconsiders, QueueConsistent, HeadIsInFlight, ReceiptsMatchQueue, OnlyHeadSent

LEMMA QueueNext ==
  TypeInv /\ QueueConsistent /\ [Next]_vars => QueueConsistent'
<1>. SUFFICES ASSUME TypeInv, QueueConsistent, [Next]_vars
              PROVE  QueueConsistent'
  OBVIOUS
<1>1. QueueStep
  BY NextShape
<1>. QED
  BY <1>1, StuttersKeeps, AppendsKeeps, AbandonsKeeps, HoldsKeeps, HoldsTailKeeps,
     RenewsKeeps, ForgetsKeeps, DropsHeadKeeps, DropsLastKeeps, SendsKeeps,
     RecoversKeeps, ReconsidersKeeps
  DEF QueueStep

(* The modes, the queue and the receipts agree in every reachable state,   *)
(* and nothing behind the head of the queue was ever sent.                 *)
THEOREM QueueIsConsistent == Spec => []QueueConsistent
<1>1. Init => TypeInv /\ QueueConsistent
  BY TypeInit, QueueInit
<1>2. TypeInv /\ QueueConsistent /\ [Next]_vars => (TypeInv /\ QueueConsistent)'
  BY TypeNext, QueueNext
<1>. QED
  BY <1>1, <1>2, PTL DEF Spec

-----------------------------------------------------------------------------
(* Action properties.                                                      *)

LEMMA StepSettlesOnce ==
  ASSUME TypeInv, QueueConsistent, QueueStep,
         NEW t \in Tx, outcome[t] \in Terminal, outcome'[t] # outcome[t]
  PROVE  /\ outcome[t] = "reloadRequired" /\ outcome'[t] = "pending"
         /\ inc'[t] = inc[t] + 1
<1>1. outcome[t] \notin {"none", "pending"}
  BY DEF Terminal, Failures
<1>2. \A T, s : settleOutcome(T, s)[t] = outcome[t]
  BY <1>1 DEF settleOutcome
<1>3. ~Stutters /\ ~DropsLast /\ ~Sends /\ ~Recovers /\ ~Reconsiders /\ ~Forgets
  BY <1>2 DEF Stutters, DropsLast, Sends, Recovers, Reconsiders, Forgets
<1>4. \A s \in {"stale", "aborted"} : ~Abandons(s)
  BY <1>2 DEF Abandons, abandonQueue
<1>5. \A b \in BOOLEAN : ~Holds(b)
  BY <1>2 DEF Holds
<1>6. \A s \in Failures \cup {"acknowledged"} : ~DropsHead(s)
  BY <1>2 DEF DropsHead
<1>7. \A u \in Tx : ~Appends(u)
  BY <1>1 DEF Appends, TypeInv, TypeOK, RecordTypes
<1>8. \A s \in Failures : ~HoldsTail(s)
  <2>. SUFFICES ASSUME NEW s \in Failures, HoldsTail(s) PROVE FALSE
    OBVIOUS
  <2>1. outcome[Head(queue)] = "pending" /\ Head(queue) \in Tx
    BY TailWasNotSent DEF HoldsTail, QueueConsistent, ReceiptsMatchQueue
  <2>2. outcome'[t] = settleOutcome(ToSet(Tail(queue)), "reloadRequired")[t]
    BY <1>1, <2>1 DEF HoldsTail, settleOutcome
  <2>. QED
    BY <1>2, <2>2
<1>9. Renews
  BY <1>3, <1>4, <1>5, <1>6, <1>7, <1>8 DEF QueueStep
<1>10. t \in ToSet(queue)
  BY <1>9 DEF Renews
<1>. QED
  BY <1>9, <1>10 DEF Renews, QueueConsistent, ReceiptsMatchQueue

(* A receipt resolves once, unless retryIndeterminate renews it.           *)
THEOREM ReceiptsSettleOnce == Spec => SettledOnce
<1>1. Init => TypeInv /\ QueueConsistent
  BY TypeInit, QueueInit
<1>2. TypeInv /\ QueueConsistent /\ [Next]_vars => (TypeInv /\ QueueConsistent)'
  BY TypeNext, QueueNext
<1>3. TypeInv /\ QueueConsistent /\ [Next]_vars =>
        [\A t \in Tx : outcome[t] \in Terminal /\ outcome'[t] # outcome[t] =>
           /\ outcome[t] = "reloadRequired" /\ outcome'[t] = "pending"
           /\ inc'[t] = inc[t] + 1]_vars
  BY NextShape, StepSettlesOnce
<1>. QED
  BY <1>1, <1>2, <1>3, PTL DEF Spec, SettledOnce

(* Only enqueue and a successful replay write a patch.                     *)
LEMMA NextWritesPatches ==
  ASSUME [Next]_vars
  PROVE  \/ UNCHANGED <<version, dep>>
         \/ \E t \in Tx, d \in Tx \cup {NoTx} : Enqueue(t, d)
         \/ \E r \in recoveries : ReplaySucceeds(r)
<1>1. CASE UNCHANGED vars
  BY <1>1 DEF vars, recordVars
<1>2. CASE \/ \E w \in Waiters : WhenIdle(w)
           \/ RetryIndeterminate
           \/ \E t \in Tx : CancelPending(t)
           \/ \E n \in srcRev .. Len(log) : ResolveAfterResync(n)
           \/ \E n \in srcRev .. Len(log) : ReplaceDocument(n)
           \/ Destroy
           \/ Drain
  BY <1>2
  DEF WhenIdle, RetryIndeterminate, CancelPending, ResolveAfterResync,
      ReplaceDocument, Destroy, Drain
<1>3. CASE \E c \in calls : CommitReturns(c) \/ CommitThrows(c)
  BY <1>3
  DEF CommitReturns, CommitThrows, dropLate, recordVars, answerToLostContext,
      commitUnanswered, acknowledged, explicitFailure
<1>4. CASE \E c \in cancels : CancelReturns(c) \/ CancelThrows(c)
  BY <1>4 DEF CancelReturns, CancelThrows, recordVars
<1>5. CASE \E r \in recoveries : RollbackSucceeds(r) \/ RollbackFails(r)
  BY <1>5 DEF RollbackSucceeds, RollbackFails, recoveryAbandoned, recordVars
<1>6. CASE \E r \in recoveries : ReplayFails(r)
  BY <1>6 DEF ReplayFails, recoveryAbandoned, recordVars
<1>7. CASE \/ \E c \in calls : ServerProcesses(c)
           \/ \E z \in zombies : ServerProcessesLate(z)
           \/ \E c \in cancels : ServerCancels(c)
           \/ ForeignCommit
           \/ LoseContext
  BY <1>7
  DEF ServerProcesses, ServerProcessesLate, ServerCancels, ForeignCommit,
      LoseContext, recordVars
<1>. QED
  BY <1>1, <1>2, <1>3, <1>4, <1>5, <1>6, <1>7 DEF Next

LEMMA SentPatchKept ==
  ASSUME TypeInv, QueueConsistent, [Next]_vars, NEW t \in Tx, attempt[t] > 0
  PROVE  version'[t] = version[t] /\ dep'[t] = dep[t]
<1>1. CASE UNCHANGED <<version, dep>>
  BY <1>1
<1>2. CASE \E u \in Tx, d \in Tx \cup {NoTx} : Enqueue(u, d)
  <2>1. PICK u \in Tx, d \in Tx \cup {NoTx} : Enqueue(u, d)
    BY <1>2
  <2>2. CASE ~current
    BY <2>1, <2>2 DEF Enqueue
  <2>3. CASE current
    <3>1. outcome[u] = "none"
      BY <2>1, <2>3 DEF Enqueue, transactionIds
    <3>2. t # u
      BY <3>1 DEF QueueConsistent, ReceiptsMatchQueue
    <3>3. version' = version
      BY <2>1, <2>3 DEF Enqueue
    <3>4. \/ dep' = [dep EXCEPT ![u] = Last(queue)]
          \/ dep' = [dep EXCEPT ![u] = d]
      BY <2>1, <2>3 DEF Enqueue
    <3>. QED
      BY <3>2, <3>3, <3>4 DEF TypeInv, TypeOK, RecordTypes
  <2>. QED
    BY <2>2, <2>3
<1>3. CASE \E r \in recoveries : ReplaySucceeds(r)
  <2>1. PICK r \in recoveries : ReplaySucceeds(r)
    BY <1>3
  <2>2. CASE recoveryAbandoned(r)
    BY <2>2 DEF recoveryAbandoned, recordVars
  <2>3. CASE /\ ownsRecovery(r)
             /\ version' = [u \in Tx |-> IF u \in ToSet(Tail(queue))
                                          THEN version[u] + 1 ELSE version[u]]
             /\ dep' = rebasedDependency(Tail(queue))
    <3>1. t \notin ToSet(Tail(queue))
      BY <2>3, TailWasNotSent DEF ownsRecovery
    <3>2. dep'[t] = dep[t]
      BY <2>3, <3>1 DEF rebasedDependency
    <3>. QED
      BY <2>3, <3>1, <3>2
  <2>. QED
    BY <2>1, <2>2, <2>3 DEF ReplaySucceeds
<1>. QED
  BY <1>1, <1>2, <1>3, NextWritesPatches

(* A transaction that was ever sent keeps its patch and its dependency, so *)
(* its idempotency key names one patch for ever.                           *)
THEOREM SentPatchesAreFixed == Spec => SentPatchIsFixed
<1>1. Init => TypeInv /\ QueueConsistent
  BY TypeInit, QueueInit
<1>2. TypeInv /\ QueueConsistent /\ [Next]_vars => (TypeInv /\ QueueConsistent)'
  BY TypeNext, QueueNext
<1>3. TypeInv /\ QueueConsistent /\ [Next]_vars =>
        [\A t \in Tx : attempt[t] > 0 =>
           version'[t] = version[t] /\ dep'[t] = dep[t]]_vars
  BY SentPatchKept
<1>. QED
  BY <1>1, <1>2, <1>3, PTL DEF Spec, SentPatchIsFixed

-----------------------------------------------------------------------------
(* Refinement: every shape is a step of PersistenceQueue, or none.         *)

(* PersistenceQueue sees sequences as CommitCoordinator does.              *)
LEMMA SameSequences ==
  ASSUME NEW s
  PROVE  /\ Promise!ToSet(s) = ToSet(s)
         /\ Promise!Front(s) = Front(s)
         /\ Promise!Last(s) = Last(s)
BY DEF Promise!ToSet, ToSet, Promise!Front, Front, Promise!Last, Last

(* Settling pending records is what PersistenceQueue calls resolving them. *)
LEMMA SettlingResolves ==
  ASSUME TypeInv, NEW T, NEW s, \A t \in T \cap Tx : outcome[t] = "pending"
  PROVE  settleOutcome(T, s) = Promise!Resolve(T, s)
BY DEF settleOutcome, Promise!Resolve, TypeInv, TypeOK, RecordTypes

LEMMA SettlingNothing ==
  ASSUME TypeInv, NEW T, NEW s, \A t \in T \cap Tx : outcome[t] # "pending"
  PROVE  settleOutcome(T, s) = outcome
BY DEF settleOutcome, TypeInv, TypeOK, RecordTypes

LEMMA InitIsPromised == Init => Promise!QInit
BY DEF Init, Promise!QInit

LEMMA AppendsIsPromised ==
  ASSUME TypeInv, NEW t \in Tx, Appends(t)
  PROVE  Promise!Submit(t)
<1>1. outcome' = Promise!Resolve({t}, "pending")
  BY DEF Appends, Promise!Resolve, TypeInv, TypeOK, RecordTypes
<1>. QED
  BY <1>1 DEF Appends, Promise!Submit

LEMMA AbandonsIsPromised ==
  ASSUME TypeInv, QueueConsistent, NEW s \in {"stale", "aborted"}, Abandons(s)
  PROVE  Promise!Abandon(s) \/ UNCHANGED Promise!qvars
<1>1. /\ queue' = <<>> /\ mode' \in {"active", "stale", "destroyed"}
      /\ outcome' = settleOutcome(ToSet(queue), s)
  BY DEF Abandons, abandonQueue
<1>2. CASE queue = <<>>
  <2>1. outcome' = outcome
    BY <1>1, <1>2, EmptyQueue, SettlingNothing
  <2>. QED
    BY <1>1, <1>2, <2>1 DEF Promise!qvars
<1>3. CASE mode \in {"active", "recovering"} /\ queue # <<>>
  <2>1. outcome' = Promise!Resolve(ToSet(queue), s)
    BY <1>1, <1>3, SettlingResolves DEF QueueConsistent, ReceiptsMatchQueue
  <2>2. queue \o <<>> = queue
    BY ConcatEmptySeq DEF TypeInv, TypeOK, CoordinatorTypes
  <2>. QED
    BY <1>1, <1>3, <2>1, <2>2, SameSequences DEF Promise!Abandon
<1>4. CASE mode = "reloadRequired" /\ queue # <<>>
  <2>1. outcome' = outcome
    BY <1>1, <1>4, SettlingNothing DEF QueueConsistent, ReceiptsMatchQueue
  <2>2. outcome' = Promise!Resolve(ToSet(<<>>), s)
    BY <2>1, EmptyQueue DEF Promise!Resolve, TypeInv, TypeOK, RecordTypes
  <2>3. <<>> \o queue = queue
    BY ConcatEmptySeq DEF TypeInv, TypeOK, CoordinatorTypes
  <2>. QED
    BY <1>1, <1>4, <2>2, <2>3, SameSequences DEF Promise!Abandon
<1>. QED
  BY <1>2, <1>3, <1>4
  DEF QueueConsistent, ReceiptsMatchQueue, TypeInv, TypeOK, CoordinatorTypes, Modes

LEMMA HoldsIsPromised ==
  ASSUME TypeInv, QueueConsistent, NEW b \in BOOLEAN, Holds(b)
  PROVE  Promise!Hold
<1>1. outcome' = Promise!Resolve(ToSet(queue), "reloadRequired")
  BY SettlingResolves DEF Holds, QueueConsistent, ReceiptsMatchQueue
<1>. QED
  BY <1>1, SameSequences DEF Holds, suspend, Promise!Hold

LEMMA HoldsTailIsPromised ==
  ASSUME TypeInv, QueueConsistent, NEW s \in Failures, HoldsTail(s)
  PROVE  Promise!FailAndHold(s) \/ Promise!Conclude(s)
<1>. DEFINE q == Tail(queue)
<1>1. /\ mode = "recovering" /\ queue # <<>>
      /\ mode' = "reloadRequired" /\ queue' = q
      /\ outcome' = [settleOutcome(ToSet(q), "reloadRequired")
                       EXCEPT ![Head(queue)] = s]
  BY DEF HoldsTail, suspend
<1>2. /\ ToSet(q) \subseteq ToSet(queue) /\ Head(queue) \in Tx
      /\ q \in Seq(Tx) /\ Len(q) = Len(queue) - 1
      /\ Len(queue) \in Nat
  BY <1>1, TailWasNotSent, HeadTailProperties, ToSetFacts
  DEF TypeInv, TypeOK, CoordinatorTypes
<1>3. settleOutcome(ToSet(q), "reloadRequired")
        = Promise!Resolve(ToSet(q), "reloadRequired")
  BY <1>1, <1>2, SettlingResolves DEF QueueConsistent, ReceiptsMatchQueue
<1>4. CASE q = <<>>
  <2>1. ToSet(q) = {}
    BY <1>4, EmptyQueue
  <2>2. outcome' = Promise!Resolve({Head(queue)}, s)
    BY <1>1, <1>2, <1>3, <2>1 DEF Promise!Resolve, TypeInv, TypeOK, RecordTypes
  <2>. QED
    BY <1>1, <1>4, <2>2 DEF Promise!Conclude, Failures
<1>5. CASE q # <<>>
  <2>1. Len(queue) > 1
    BY <1>2, <1>5, EmptySeq
  <2>. QED
    BY <1>1, <1>3, <2>1, SameSequences DEF Promise!FailAndHold
<1>. QED
  BY <1>4, <1>5

LEMMA RenewsIsPromised ==
  ASSUME TypeInv, QueueConsistent, Renews
  PROVE  Promise!Retry \/ UNCHANGED Promise!qvars
<1>1. outcome' = Promise!Resolve(ToSet(queue), "pending")
  BY DEF Renews, Promise!Resolve
<1>2. CASE queue = <<>>
  <2>1. outcome' = outcome
    BY <1>1, <1>2, EmptyQueue DEF Promise!Resolve, TypeInv, TypeOK, RecordTypes
  <2>. QED
    BY <1>2, <2>1 DEF Renews, Promise!qvars
<1>3. CASE queue # <<>>
  BY <1>1, <1>3, SameSequences DEF Renews, Promise!Retry
<1>. QED
  BY <1>2, <1>3

LEMMA ForgetsIsPromised ==
  ASSUME Forgets
  PROVE  Promise!Forget \/ UNCHANGED Promise!qvars
BY DEF Forgets, Promise!Forget, Promise!qvars

LEMMA DropsHeadIsPromised ==
  ASSUME TypeInv, QueueConsistent, NEW s, DropsHead(s)
  PROVE  Promise!Conclude(s)
<1>1. outcome[Head(queue)] = "pending"
  BY TailWasNotSent DEF DropsHead, QueueConsistent, ReceiptsMatchQueue
<1>2. outcome' = Promise!Resolve({Head(queue)}, s)
  BY <1>1, SettlingResolves DEF DropsHead
<1>. QED
  BY <1>2 DEF DropsHead, Promise!Conclude

LEMMA DropsLastIsPromised ==
  ASSUME TypeInv, QueueConsistent, DropsLast
  PROVE  Promise!Withdraw
<1>1. Last(queue) \in Tx /\ Last(queue) \in ToSet(queue)
  <2>1. /\ Last(queue) \in Tx /\ Last(queue) = queue[Len(queue)]
        /\ Len(queue) \in Nat \ {0} /\ DOMAIN queue = 1 .. Len(queue)
    BY LastIsElement, ToSetFacts DEF DropsLast, TypeInv, TypeOK, CoordinatorTypes
  <2>2. Len(queue) \in DOMAIN queue
    BY <2>1
  <2>. QED
    BY <2>1, <2>2 DEF ToSet
<1>2. outcome[Last(queue)] = "pending"
  BY <1>1 DEF DropsLast, QueueConsistent, ReceiptsMatchQueue
<1>3. outcome' = Promise!Resolve({Last(queue)}, "cancelled")
  BY <1>2, SettlingResolves DEF DropsLast
<1>. QED
  BY <1>3, SameSequences DEF DropsLast, Promise!Withdraw

LEMMA StepIsPromised ==
  ASSUME TypeInv, QueueConsistent, [Next]_vars
  PROVE  [Promise!QNext]_Promise!qvars
<1>1. QueueStep
  BY NextShape
<1>2. CASE Stutters \/ Sends \/ Recovers \/ Reconsiders
  BY <1>2 DEF Stutters, Sends, Recovers, Reconsiders, Promise!qvars
<1>3. CASE \E t \in Tx : Appends(t)
  BY <1>3, AppendsIsPromised DEF Promise!QNext
<1>4. CASE \E s \in {"stale", "aborted"} : Abandons(s)
  BY <1>4, AbandonsIsPromised DEF Promise!QNext
<1>5. CASE \E b \in BOOLEAN : Holds(b)
  BY <1>5, HoldsIsPromised DEF Promise!QNext
<1>6. CASE \E s \in Failures : HoldsTail(s)
  BY <1>6, HoldsTailIsPromised DEF Promise!QNext, Failures
<1>7. CASE Renews \/ Forgets
  BY <1>7, RenewsIsPromised, ForgetsIsPromised DEF Promise!QNext
<1>8. CASE \E s \in Failures \cup {"acknowledged"} : DropsHead(s)
  BY <1>8, DropsHeadIsPromised DEF Promise!QNext, Failures
<1>9. CASE DropsLast
  BY <1>9, DropsLastIsPromised DEF Promise!QNext
<1>. QED
  BY <1>1, <1>2, <1>3, <1>4, <1>5, <1>6, <1>7, <1>8, <1>9 DEF QueueStep

(* The coordinator implements PersistenceQueue: it keeps the promises of   *)
(* section 4.5 for any number of transactions, whatever the DataSource,    *)
(* the network and the recovery hooks do.                                  *)
THEOREM CoordinatorKeepsPromise == Spec => PromiseKept
<1>1. Init => TypeInv /\ QueueConsistent
  BY TypeInit, QueueInit
<1>2. TypeInv /\ QueueConsistent /\ [Next]_vars => (TypeInv /\ QueueConsistent)'
  BY TypeNext, QueueNext
<1>3. Init => Promise!QInit
  BY InitIsPromised
<1>4. TypeInv /\ QueueConsistent /\ [Next]_vars => [Promise!QNext]_Promise!qvars
  BY StepIsPromised
<1>. QED
  BY <1>1, <1>2, <1>3, <1>4, PTL DEF Spec, PromiseKept, Promise!QSpec

-----------------------------------------------------------------------------
(***************************************************************************)
(* Proof that CommitCoordinator never comes to a standstill: whatever can  *)
(* move has somebody who will move it.  The argument is one of ownership:  *)
(* of the awaited commit calls of this epoch, the one whose transaction    *)
(* was not cancelled owns the head of the queue, and there is one as long  *)
(* as something is in flight.                                              *)
(***************************************************************************)

isLive(c) == c.epoch = epoch /\ outcome[c.tx] # "cancelled"

CallsOwned ==
  /\ \A c \in calls : c.epoch <= epoch
  /\ \A c \in calls : isLive(c) => ownsResponse(c)
  /\ SingleFlight
  /\ inFlight # NoTx => \E c \in calls : ownsResponse(c)

DrainComes ==
  mode = "active" /\ queue # <<>> /\ inFlight = NoTx => drainScheduled

RecoveryOwned == mode = "recovering" => \E r \in recoveries : ownsRecovery(r)

WaitersHaveWork ==
  \A w \in Waiters : waiter[w] = "waiting" =>
    queue # <<>> /\ mode \in {"active", "recovering"}

WakeInv == CallsOwned /\ DrainComes /\ RecoveryOwned /\ WaitersHaveWork

(* What holds in every state, so that a step can start from it.            *)
AllInv == TypeInv /\ QueueConsistent /\ WakeInv

LEMMA WakeInit == Init => WakeInv
BY NamesAssumption
DEF Init, WakeInv, CallsOwned, SingleFlight, DrainComes, RecoveryOwned, WaitersHaveWork

-----------------------------------------------------------------------------
(* The calls: they are left alone, all late, or there is none of them left *)
(* that anybody waits for.                                                 *)

LEMMA CallTypes ==
  ASSUME TypeInv
  PROVE  /\ epoch \in Nat
         /\ inc \in [Tx -> Nat]
         /\ \A c \in calls : c \in Calls /\ c.tx \in Tx /\ c.epoch \in Nat
BY DEF TypeInv, TypeOK, CoordinatorTypes, RecordTypes, AwaitTypes, Calls

LEMMA CancelledForEver ==
  ASSUME TypeInv, QueueConsistent, [Next]_vars, NEW t \in Tx, outcome[t] = "cancelled"
  PROVE  outcome'[t] = "cancelled"
<1>1. outcome[t] \in Terminal /\ outcome[t] # "reloadRequired"
  BY DEF Terminal
<1>. QED
  BY <1>1, NextShape, StepSettlesOnce

(* A call that its record owns is one that is waited for.                  *)
LEMMA OwnerIsLive ==
  ASSUME TypeInv, QueueConsistent, NEW c \in calls, ownsResponse(c)
  PROVE  isLive(c) /\ c.tx \in ToSet(queue) /\ outcome[c.tx] = "pending"
<1>1. c.tx \in ToSet(queue)
  BY HeadIsFirst DEF ownsResponse, TypeInv, TypeOK, CoordinatorTypes
<1>2. outcome[c.tx] = "pending"
  BY <1>1, CallTypes DEF ownsResponse, QueueConsistent, ReceiptsMatchQueue
<1>. QED
  BY <1>1, <1>2 DEF isLive, ownsResponse

LEMMA CallsKept ==
  ASSUME TypeInv, CallsOwned,
         calls' \subseteq calls, epoch' = epoch,
         inFlight' # NoTx => inFlight # NoTx,
         \A t \in Tx : outcome[t] = "cancelled" => outcome'[t] = "cancelled",
         \A c \in calls : ownsResponse(c) => c \in calls' /\ ownsResponse(c)'
  PROVE  CallsOwned'
<1>1. \A c \in calls' : isLive(c)' => isLive(c)
  BY CallTypes DEF isLive
<1>. QED
  BY <1>1 DEF CallsOwned, SingleFlight, isLive

LEMMA CallsLate ==
  ASSUME TypeInv, CallsOwned,
         calls' \subseteq calls, epoch' = epoch + 1, inFlight' = NoTx
  PROVE  CallsOwned'
<1>1. \A c \in calls' : c.epoch <= epoch' /\ c.epoch # epoch'
  BY CallTypes DEF CallsOwned
<1>. QED
  BY <1>1 DEF CallsOwned, SingleFlight, isLive

LEMMA CallsOver ==
  ASSUME CallsOwned,
         calls' \subseteq calls, epoch' = epoch, inFlight' = NoTx,
         \A c \in calls' : ~isLive(c)'
  PROVE  CallsOwned'
BY DEF CallsOwned, SingleFlight, isLive

(* Two calls that are waited for are one.                                  *)
LEMMA OnlyOneIsLive ==
  ASSUME CallsOwned, NEW c \in calls, NEW d \in calls, isLive(c), isLive(d)
  PROVE  c = d
BY DEF CallsOwned, SingleFlight, isLive

LEMMA NoneIsLive ==
  ASSUME TypeInv, CallsOwned, NEW c \in calls, mode # "active" \/ inFlight = NoTx
  PROVE  ~isLive(c)
BY CallTypes, NamesAssumption DEF CallsOwned, ownsResponse

(* When a call that owns its record is over, nobody waits for a call.      *)
LEMMA OwnerWasTheLast ==
  ASSUME AllInv, [Next]_vars, NEW c \in calls, ownsResponse(c),
         calls' = calls \ {c}, epoch' = epoch, inFlight' = NoTx
  PROVE  CallsOwned'
<1>1. ASSUME NEW d \in calls' PROVE ~isLive(d)'
  <2>1. isLive(d)' => isLive(d)
    BY CallTypes, CancelledForEver DEF isLive, AllInv
  <2>. QED
    BY <2>1, OwnerIsLive, OnlyOneIsLive DEF AllInv, WakeInv
<1>. QED
  BY <1>1, CallsOver DEF AllInv, WakeInv

-----------------------------------------------------------------------------
(* Waiters, and the ways in which a step ends.                             *)

LEMMA NobodyWaits ==
  ASSUME NEW result, result # "waiting", waiter' = settleIdle(result)
  PROVE  WaitersHaveWork'
BY DEF settleIdle, WaitersHaveWork

LEMMA Continues ==
  ASSUME WaitersHaveWork, continueOrSettle(queue'), mode' = "active"
  PROVE  DrainComes' /\ WaitersHaveWork'
<1>1. CASE queue' = <<>>
  BY <1>1, NobodyWaits DEF continueOrSettle, DrainComes
<1>2. CASE queue' # <<>>
  BY <1>2 DEF continueOrSettle, DrainComes, WaitersHaveWork
<1>. QED
  BY <1>1, <1>2

(* The document is left.                                                   *)
LEMMA Leaves ==
  ASSUME AllInv, NEW s, NEW result, result # "waiting",
         abandonQueue(s), waiter' = settleIdle(result),
         mode' # "recovering", calls' \subseteq calls
  PROVE  WakeInv'
<1>1. CallsOwned'
  BY CallsLate DEF AllInv, WakeInv, abandonQueue
<1>2. DrainComes' /\ RecoveryOwned'
  BY DEF abandonQueue, DrainComes, RecoveryOwned
<1>3. WaitersHaveWork'
  BY NobodyWaits
<1>. QED
  BY <1>1, <1>2, <1>3 DEF WakeInv

LEMMA Invalidates ==
  ASSUME AllInv, invalidateCurrentContext, calls' \subseteq calls
  PROVE  WakeInv'
BY Leaves DEF invalidateCurrentContext

(* The queue is suspended.  Calls of a recovery were over before it began. *)
LEMMA Suspends ==
  ASSUME CallsOwned', NEW q, NEW retryable, suspend(q, retryable)
  PROVE  WakeInv'
<1>1. DrainComes' /\ RecoveryOwned'
  BY DEF suspend, DrainComes, RecoveryOwned
<1>2. WaitersHaveWork'
  BY NobodyWaits DEF suspend
<1>. QED
  BY <1>1, <1>2 DEF WakeInv

(* Outside the mode active no call is waited for.                          *)
LEMMA NoCallIsOwned ==
  ASSUME AllInv, [Next]_vars, mode # "active", UNCHANGED <<calls, epoch>>,
         inFlight' # NoTx => inFlight # NoTx
  PROVE  CallsOwned'
<1>1. \A c \in calls : ~ownsResponse(c)
  BY DEF ownsResponse
<1>. QED
  BY <1>1, CallsKept, CancelledForEver DEF AllInv, WakeInv

(* Nothing happens but that what nobody waits for is over.                 *)
LEMMA Unmoved ==
  ASSUME AllInv, UNCHANGED <<mode, queue, inFlight, epoch, drainScheduled, outcome, inc, waiter>>,
         calls' \subseteq calls,
         \A c \in calls : ownsResponse(c) => c \in calls',
         \A r \in recoveries : ownsRecovery(r) => \E x \in recoveries' : ownsRecovery(x)'
  PROVE  WakeInv'
<1>1. \A c \in calls : ownsResponse(c) => c \in calls' /\ ownsResponse(c)'
  BY DEF ownsResponse
<1>2. CallsOwned'
  BY <1>1, CallsKept DEF AllInv, WakeInv
<1>3. RecoveryOwned'
  BY DEF AllInv, WakeInv, RecoveryOwned
<1>. QED
  BY <1>2, <1>3 DEF AllInv, WakeInv, DrainComes, WaitersHaveWork

-----------------------------------------------------------------------------
(* The operations.                                                         *)

LEMMA EnqueueWakes ==
  ASSUME AllInv, [Next]_vars, NEW t \in Tx, NEW d \in Tx \cup {NoTx}, Enqueue(t, d)
  PROVE  WakeInv'
<1>1. CASE ~current
  BY <1>1, Invalidates DEF Enqueue, awaitVars
<1>2. CASE current
  <2>1. /\ mode = "active" /\ mode' = "active" /\ drainScheduled'
        /\ queue' = Append(queue, t)
        /\ UNCHANGED <<inFlight, epoch, inc, waiter, calls>>
        /\ outcome[t] = "none"
    BY <1>2 DEF Enqueue, awaitVars, transactionIds
  <2>2. queue \in Seq(Tx) /\ IsInjective(queue) /\ t \notin ToSet(queue)
    BY <2>1 DEF AllInv, TypeInv, TypeOK, CoordinatorTypes, QueueConsistent, ReceiptsMatchQueue
  <2>3. queue' # <<>> /\ (queue # <<>> => Head(queue') = Head(queue))
    BY <2>1, <2>2, AppendFacts
  <2>4. \A c \in calls : ownsResponse(c) => c \in calls' /\ ownsResponse(c)'
    BY <2>1, <2>3 DEF ownsResponse
  <2>5. CallsOwned'
    BY <2>1, <2>4, CallsKept, CancelledForEver DEF AllInv, WakeInv
  <2>6. DrainComes' /\ RecoveryOwned' /\ WaitersHaveWork'
    BY <2>1, <2>3 DEF DrainComes, RecoveryOwned, WaitersHaveWork
  <2>. QED
    BY <2>5, <2>6 DEF WakeInv
<1>. QED
  BY <1>1, <1>2

(* Who asks is told to wait only if there is work in the queue.            *)
LEMMA WaitingMeansWork ==
  ASSUME AllInv, idleResult = "waiting"
  PROVE  queue # <<>> /\ mode \in {"active", "recovering"}
<1>1. mode \in {"active", "recovering"}
  BY DEF idleResult, AllInv, TypeInv, TypeOK, CoordinatorTypes, Modes
<1>2. CASE mode = "active"
  BY <1>2 DEF idleResult, AllInv, QueueConsistent, HeadIsInFlight
<1>3. CASE mode = "recovering"
  BY <1>3 DEF AllInv, WakeInv, RecoveryOwned, ownsRecovery
<1>. QED
  BY <1>1, <1>2, <1>3

LEMMA WhenIdleWakes ==
  ASSUME AllInv, NEW w \in Waiters, WhenIdle(w)
  PROVE  WakeInv'
<1>1. UNCHANGED <<coordVars, outcome, inc, awaitVars>>
      /\ waiter' = [waiter EXCEPT ![w] = idleResult]
  BY DEF WhenIdle
<1>2. \A c \in calls : ownsResponse(c) => c \in calls' /\ ownsResponse(c)'
  BY <1>1 DEF ownsResponse, coordVars, awaitVars
<1>3. CallsOwned'
  BY <1>1, <1>2, CallsKept DEF AllInv, WakeInv, coordVars, awaitVars
<1>4. DrainComes' /\ RecoveryOwned'
  BY <1>1 DEF AllInv, WakeInv, DrainComes, RecoveryOwned, ownsRecovery, coordVars, awaitVars
<1>5. WaitersHaveWork'
  <2>. SUFFICES ASSUME NEW x \in Waiters, waiter'[x] = "waiting"
                PROVE  queue # <<>> /\ mode \in {"active", "recovering"}
    BY <1>1 DEF WaitersHaveWork, coordVars
  <2>1. CASE x = w
    BY <1>1, <2>1, WaitingMeansWork DEF AllInv, TypeInv, TypeOK, RecordTypes
  <2>2. CASE x # w
    BY <1>1, <2>2 DEF AllInv, WakeInv, WaitersHaveWork, TypeInv, TypeOK, RecordTypes
  <2>. QED
    BY <2>1, <2>2
<1>. QED
  BY <1>3, <1>4, <1>5 DEF WakeInv

LEMMA RetryWakes ==
  ASSUME AllInv, [Next]_vars, RetryIndeterminate
  PROVE  WakeInv'
<1>1. CASE ~current
  BY <1>1, Invalidates DEF RetryIndeterminate, awaitVars
<1>2. CASE current
  <2>1. /\ mode = "reloadRequired" /\ mode' = "active" /\ drainScheduled'
        /\ UNCHANGED <<inFlight, epoch, waiter, calls>>
    BY <1>2 DEF RetryIndeterminate, awaitVars
  <2>2. CallsOwned'
    BY <2>1, NoCallIsOwned
  <2>3. DrainComes' /\ RecoveryOwned' /\ WaitersHaveWork'
    BY <2>1 DEF AllInv, WakeInv, DrainComes, RecoveryOwned, WaitersHaveWork
  <2>. QED
    BY <2>2, <2>3 DEF WakeInv
<1>. QED
  BY <1>1, <1>2

LEMMA CancelPendingWakes ==
  ASSUME AllInv, [Next]_vars, NEW t \in Tx, CancelPending(t)
  PROVE  WakeInv'
<1>1. /\ mode = "active" /\ queue # <<>> /\ Last(queue) = t
      /\ UNCHANGED <<mode, inFlight, epoch, inc, calls, recoveries>>
  BY DEF CancelPending
<1>2. CASE inFlight # t
  <2>1. /\ queue' = Front(queue) /\ continueOrSettle(queue')
    BY <1>2 DEF CancelPending, cancelBeforeDispatch
  <2>2. /\ Front(queue) # <<>> => Head(Front(queue)) = Head(queue)
        /\ Front(queue) = <<>> => Head(queue) = Last(queue)
    BY <1>1, FrontFacts DEF AllInv, TypeInv, TypeOK, CoordinatorTypes, QueueConsistent
  <2>3. \A c \in calls : ownsResponse(c) => c \in calls' /\ ownsResponse(c)'
    BY <1>1, <1>2, <2>1, <2>2 DEF ownsResponse
  <2>4. CallsOwned'
    BY <1>1, <2>3, CallsKept, CancelledForEver DEF AllInv, WakeInv
  <2>5. DrainComes' /\ WaitersHaveWork'
    BY <1>1, <2>1, Continues DEF AllInv, WakeInv
  <2>. QED
    BY <1>1, <2>4, <2>5 DEF WakeInv, RecoveryOwned
<1>3. CASE inFlight = t
  BY <1>1, <1>3, Unmoved DEF CancelPending, cancelStarted, ownsRecovery
<1>. QED
  BY <1>2, <1>3

LEMMA ResyncWakes ==
  ASSUME AllInv, [Next]_vars, NEW n, ResolveAfterResync(n)
  PROVE  WakeInv'
<1>1. CASE ~current
  BY <1>1, Invalidates DEF ResolveAfterResync, awaitVars
<1>2. CASE current
  <2>1. /\ mode = "reloadRequired" /\ mode' = "active" /\ queue' = <<>>
        /\ waiter' = settleIdle("idle")
        /\ UNCHANGED <<inFlight, epoch, calls>>
    BY <1>2 DEF ResolveAfterResync, awaitVars
  <2>2. CallsOwned'
    BY <2>1, NoCallIsOwned
  <2>3. DrainComes' /\ RecoveryOwned'
    BY <2>1 DEF DrainComes, RecoveryOwned
  <2>4. WaitersHaveWork'
    BY <2>1, NobodyWaits
  <2>. QED
    BY <2>2, <2>3, <2>4 DEF WakeInv
<1>. QED
  BY <1>1, <1>2

LEMMA LeavingWakes ==
  ASSUME AllInv, (\E n : ReplaceDocument(n)) \/ Destroy
  PROVE  WakeInv'
<1>1. CASE \E n : ReplaceDocument(n)
  BY <1>1, Leaves DEF ReplaceDocument, awaitVars
<1>2. CASE Destroy
  BY <1>2, Leaves DEF Destroy, awaitVars
<1>. QED
  BY <1>1, <1>2

(* The drain is gone, but what it found to do is under way.                *)
LEMMA DrainWakes ==
  ASSUME AllInv, [Next]_vars, Drain
  PROVE  WakeInv'
<1>1. CASE ~canDispatch /\ UNCHANGED <<mode, queue, inFlight, epoch, outcome, waiter, calls>>
  <2>1. UNCHANGED <<inc, recoveries>>
    BY DEF Drain
  <2>2. CallsOwned'
    <3>1. \A c \in calls : ownsResponse(c) => c \in calls' /\ ownsResponse(c)'
      BY <1>1, <2>1 DEF ownsResponse
    <3>. QED
      BY <1>1, <3>1, CallsKept DEF AllInv, WakeInv
  <2>3. DrainComes'
    BY <1>1 DEF DrainComes, canDispatch
  <2>4. RecoveryOwned' /\ WaitersHaveWork'
    BY <1>1, <2>1 DEF AllInv, WakeInv, RecoveryOwned, ownsRecovery, WaitersHaveWork
  <2>. QED
    BY <2>2, <2>3, <2>4 DEF WakeInv
<1>2. CASE invalidateCurrentContext /\ UNCHANGED calls
  BY <1>2, Invalidates
<1>3. CASE /\ canDispatch /\ dispatch(Head(queue))
           /\ UNCHANGED <<mode, queue, epoch, outcome, waiter>>
  <2>. DEFINE t == Head(queue)
  <2>1. /\ inFlight' = t
        /\ mode = "active" /\ queue # <<>> /\ inFlight = NoTx
        /\ UNCHANGED <<inc, recoveries>>
    BY <1>3 DEF dispatch, canDispatch, Drain
  <2>2. PICK d : /\ d = [tx |-> t, inc |-> inc[t], epoch |-> epoch,
                         version |-> version[t], exp |-> srcRev, reply |-> NoReply]
                  /\ calls' = calls \cup {d}
    BY <1>3 DEF dispatch
  <2>3. t \in Tx /\ t # NoTx /\ epoch \in Nat
    BY <2>1, HeadTailProperties, NamesAssumption DEF AllInv, TypeInv, TypeOK, CoordinatorTypes
  <2>4. \A c \in calls : ~isLive(c)'
    BY <1>3, <2>1, NoneIsLive DEF isLive, AllInv, WakeInv
  <2>5. d.epoch = epoch /\ d.tx = t /\ d.inc = inc[t]
    BY <2>2
  <2>6. ownsResponse(d)'
    BY <1>3, <2>1, <2>5 DEF ownsResponse
  <2>7. \A c \in calls' : c.epoch <= epoch'
    BY <1>3, <2>3, <2>5, <2>2 DEF AllInv, WakeInv, CallsOwned
  <2>8. \A c \in calls' : isLive(c)' => c = d
    BY <2>4, <2>2
  <2>9. CallsOwned'
    <3>1. \A c \in calls' : isLive(c)' => ownsResponse(c)'
      BY <2>6, <2>8
    <3>2. SingleFlight'
      BY <2>8 DEF SingleFlight, isLive
    <3>3. d \in calls'
      BY <2>2
    <3>. QED
      BY <2>6, <2>7, <3>1, <3>2, <3>3 DEF CallsOwned
  <2>10. DrainComes' /\ RecoveryOwned' /\ WaitersHaveWork'
    BY <1>3, <2>1, <2>3 DEF AllInv, WakeInv, DrainComes, RecoveryOwned, WaitersHaveWork
  <2>. QED
    BY <2>9, <2>10 DEF WakeInv
<1>. QED
  BY <1>1, <1>2, <1>3 DEF Drain

-----------------------------------------------------------------------------
(* The continuations.                                                      *)

(* An answer that nobody waits for is dropped.                             *)
LEMMA LateAnswerWakes ==
  ASSUME AllInv, NEW c \in calls, ~ownsResponse(c), calls' = calls \ {c}, dropLate
  PROVE  WakeInv'
BY Unmoved DEF dropLate, coordVars, recordVars, ownsRecovery

LEMMA UnansweredWakes ==
  ASSUME AllInv, [Next]_vars, NEW c \in calls, ownsResponse(c), calls' = calls \ {c},
         NEW retryable, commitUnanswered(retryable)
  PROVE  WakeInv'
<1>1. suspend(queue, retryable) /\ epoch' = epoch /\ inFlight' = NoTx
  BY DEF commitUnanswered, suspend
<1>2. CallsOwned'
  BY <1>1, OwnerWasTheLast
<1>. QED
  BY <1>1, <1>2, Suspends

LEMMA AcknowledgedWakes ==
  ASSUME AllInv, [Next]_vars, NEW c \in calls, ownsResponse(c), calls' = calls \ {c},
         acknowledged(c.tx, c.reply.rev)
  PROVE  WakeInv'
<1>1. /\ mode' = "active" /\ epoch' = epoch /\ inFlight' = NoTx
      /\ continueOrSettle(queue')
  BY DEF acknowledged, ownsResponse
<1>2. CallsOwned'
  BY <1>1, OwnerWasTheLast
<1>3. DrainComes' /\ WaitersHaveWork'
  BY <1>1, Continues DEF AllInv, WakeInv
<1>. QED
  BY <1>1, <1>2, <1>3 DEF WakeInv, RecoveryOwned

(* A recovery begins, and it is the one that owns the head of the queue.   *)
LEMMA FailureWakes ==
  ASSUME AllInv, [Next]_vars, NEW c \in calls, ownsResponse(c), calls' = calls \ {c},
         explicitFailure(c.tx, c.reply)
  PROVE  WakeInv'
<1>. DEFINE r == [tx |-> c.tx, epoch |-> epoch, failure |-> c.reply, phase |-> "rollback"]
<1>1. /\ mode' = "recovering" /\ epoch' = epoch /\ inFlight' = NoTx
      /\ queue' = queue /\ waiter' = waiter /\ r \in recoveries'
      /\ queue # <<>> /\ Head(queue) = c.tx /\ mode = "active"
  BY DEF explicitFailure, recordVars, ownsResponse
<1>2. CallsOwned'
  BY <1>1, OwnerWasTheLast
<1>3. ownsRecovery(r)'
  BY <1>1 DEF ownsRecovery
<1>4. DrainComes' /\ RecoveryOwned'
  BY <1>1, <1>3 DEF DrainComes, RecoveryOwned
<1>5. WaitersHaveWork'
  BY <1>1 DEF AllInv, WakeInv, WaitersHaveWork
<1>. QED
  BY <1>2, <1>4, <1>5 DEF WakeInv

LEMMA CommitAnswersWake ==
  ASSUME AllInv, [Next]_vars, NEW c \in calls, CommitReturns(c) \/ CommitThrows(c)
  PROVE  WakeInv'
<1>1. calls' = calls \ {c}
  BY DEF CommitReturns, CommitThrows
<1>2. CASE ~ownsResponse(c) /\ dropLate
  BY <1>1, <1>2, LateAnswerWakes
<1>3. CASE answerToLostContext
  BY <1>1, <1>3, Invalidates DEF answerToLostContext
<1>4. CASE ownsResponse(c) /\ \E b \in BOOLEAN : commitUnanswered(b)
  BY <1>1, <1>4, UnansweredWakes
<1>5. CASE ownsResponse(c) /\ acknowledged(c.tx, c.reply.rev)
  BY <1>1, <1>5, AcknowledgedWakes
<1>6. CASE ownsResponse(c) /\ explicitFailure(c.tx, c.reply)
  BY <1>1, <1>6, FailureWakes
<1>. QED
  BY <1>2, <1>3, <1>4, <1>5, <1>6 DEF CommitReturns, CommitThrows

(* A commit that was cancelled is not waited for any more.                 *)
LEMMA CancelAgreedWakes ==
  ASSUME AllInv, [Next]_vars, NEW c \in cancels, ownsResponse(c), cancelAgreed(c),
         UNCHANGED <<mode, epoch, calls, recoveries>>
  PROVE  WakeInv'
<1>1. c.tx \in Tx /\ outcome[c.tx] = "pending"
  <2>1. c.tx \in Tx
    BY DEF AllInv, TypeInv, TypeOK, AwaitTypes, Cancels
  <2>2. c.tx \in ToSet(queue)
    BY HeadIsFirst DEF ownsResponse, AllInv, TypeInv, TypeOK, CoordinatorTypes
  <2>. QED
    BY <2>1, <2>2 DEF ownsResponse, AllInv, QueueConsistent, ReceiptsMatchQueue
<1>2. outcome'[c.tx] = "cancelled"
  BY <1>1 DEF cancelAgreed, settleOutcome
<1>3. ASSUME NEW d \in calls' PROVE ~isLive(d)'
  <2>1. isLive(d)' => isLive(d)
    BY CallTypes, CancelledForEver DEF isLive, AllInv
  <2>2. isLive(d) => d.tx = c.tx
    BY DEF AllInv, WakeInv, CallsOwned, ownsResponse
  <2>. QED
    BY <1>2, <2>1, <2>2 DEF isLive
<1>4. CallsOwned'
  BY <1>3, CallsOver DEF AllInv, WakeInv, cancelAgreed
<1>5. mode' = "active" /\ continueOrSettle(queue')
  BY DEF cancelAgreed, ownsResponse
<1>6. DrainComes' /\ WaitersHaveWork'
  BY <1>5, Continues DEF AllInv, WakeInv
<1>. QED
  BY <1>4, <1>5, <1>6 DEF WakeInv, RecoveryOwned

LEMMA CancelAnswersWake ==
  ASSUME AllInv, [Next]_vars, NEW c \in cancels, CancelReturns(c) \/ CancelThrows(c)
  PROVE  WakeInv'
<1>1. UNCHANGED <<mode, epoch, inc, calls, recoveries>>
  BY DEF CancelReturns, CancelThrows, recordVars
<1>2. CASE ownsResponse(c) /\ cancelAgreed(c)
  BY <1>1, <1>2, CancelAgreedWakes
<1>3. CASE UNCHANGED <<queue, inFlight, drainScheduled, outcome, waiter>>
  BY <1>1, <1>3, Unmoved DEF ownsRecovery
<1>. QED
  BY <1>2, <1>3 DEF CancelReturns, CancelThrows, recordVars

LEMMA AbandonedRecoveryWakes ==
  ASSUME AllInv, NEW r \in recoveries, recoveries' = recoveries \ {r},
         recoveryAbandoned(r), UNCHANGED calls
  PROVE  WakeInv'
<1>1. CASE ~ownsRecovery(r) /\ UNCHANGED <<coordVars, recordVars>>
  <2>1. \A x \in recoveries : ownsRecovery(x) => x \in recoveries' /\ ownsRecovery(x)'
    BY <1>1 DEF ownsRecovery, coordVars
  <2>. QED
    BY <1>1, <2>1, Unmoved DEF coordVars, recordVars
<1>2. CASE invalidateCurrentContext
  BY <1>2, Invalidates
<1>. QED
  BY <1>1, <1>2 DEF recoveryAbandoned

(* A recovery ends, with its descendants back in the queue or without any. *)
LEMMA RecoveredWakes ==
  ASSUME AllInv, [Next]_vars, NEW r, NEW q, ownsRecovery(r), recovered(r, q),
         UNCHANGED <<calls, epoch, inFlight>>
  PROVE  WakeInv'
<1>1. mode = "recovering" /\ mode' = "active" /\ continueOrSettle(queue')
  BY DEF recovered, ownsRecovery
<1>2. CallsOwned'
  BY <1>1, NoCallIsOwned
<1>3. DrainComes' /\ WaitersHaveWork'
  BY <1>1, Continues DEF AllInv, WakeInv
<1>. QED
  BY <1>1, <1>2, <1>3 DEF WakeInv, RecoveryOwned

LEMMA FailedRecoveryWakes ==
  ASSUME AllInv, [Next]_vars, NEW r, NEW q, ownsRecovery(r), suspend(q, FALSE),
         UNCHANGED <<calls, epoch>>
  PROVE  WakeInv'
<1>1. mode = "recovering" /\ inFlight' = NoTx
  BY DEF ownsRecovery, suspend
<1>2. CallsOwned'
  BY <1>1, NoCallIsOwned
<1>. QED
  BY <1>2, Suspends

LEMMA RollbacksWake ==
  ASSUME AllInv, [Next]_vars, NEW r \in recoveries, RollbackSucceeds(r) \/ RollbackFails(r)
  PROVE  WakeInv'
<1>1. UNCHANGED calls
  BY DEF RollbackSucceeds, RollbackFails
<1>2. CASE recoveryAbandoned(r) /\ recoveries' = recoveries \ {r}
  BY <1>1, <1>2, AbandonedRecoveryWakes
<1>3. CASE ownsRecovery(r) /\ suspend(queue, FALSE) /\ UNCHANGED epoch
  BY <1>1, <1>3, FailedRecoveryWakes
<1>4. CASE ownsRecovery(r) /\ recovered(r, <<>>) /\ UNCHANGED <<inFlight, epoch>>
  BY <1>1, <1>4, RecoveredWakes
<1>5. CASE /\ ownsRecovery(r)
           /\ recoveries' = (recoveries \ {r}) \cup {[r EXCEPT !.phase = "replay"]}
           /\ UNCHANGED <<coordVars, outcome, waiter, inc>>
  <2>. DEFINE x == [r EXCEPT !.phase = "replay"]
  <2>1. x.epoch = r.epoch /\ x.tx = r.tx
    BY DEF AllInv, TypeInv, TypeOK, AwaitTypes, Recoveries
  <2>2. x \in recoveries' /\ ownsRecovery(x)'
    BY <1>5, <2>1 DEF ownsRecovery, coordVars
  <2>. QED
    BY <1>1, <1>5, <2>2, Unmoved DEF coordVars
<1>. QED
  BY <1>2, <1>3, <1>4, <1>5 DEF RollbackSucceeds, RollbackFails

LEMMA ReplaysWake ==
  ASSUME AllInv, [Next]_vars, NEW r \in recoveries, ReplaySucceeds(r) \/ ReplayFails(r)
  PROVE  WakeInv'
<1>1. UNCHANGED calls /\ recoveries' = recoveries \ {r}
  BY DEF ReplaySucceeds, ReplayFails
<1>2. CASE recoveryAbandoned(r)
  BY <1>1, <1>2, AbandonedRecoveryWakes
<1>3. CASE /\ ownsRecovery(r) /\ recovered(r, Tail(queue)) /\ UNCHANGED <<inFlight, epoch>>
  BY <1>1, <1>3, RecoveredWakes
<1>4. CASE ownsRecovery(r) /\ suspend(Tail(queue), FALSE) /\ UNCHANGED epoch
  BY <1>1, <1>4, FailedRecoveryWakes
<1>. QED
  BY <1>2, <1>3, <1>4 DEF ReplaySucceeds, ReplayFails

-----------------------------------------------------------------------------
(* The world.                                                              *)

(* A request that was processed is still the same call.                    *)
LEMMA ProcessedWakes ==
  ASSUME AllInv, NEW c \in calls, ServerProcesses(c)
  PROVE  WakeInv'
<1>1. PICK answer : calls' = (calls \ {c}) \cup {[c EXCEPT !.reply = answer]}
  BY DEF ServerProcesses
<1>. DEFINE d == [c EXCEPT !.reply = answer]
<1>2. d.tx = c.tx /\ d.inc = c.inc /\ d.epoch = c.epoch
  BY CallTypes DEF AllInv, Calls
<1>3. UNCHANGED <<coordVars, recordVars, recoveries>>
  BY DEF ServerProcesses
<1>. HIDE DEF d
<1>4. \A x \in calls : /\ isLive(x)' <=> isLive(x)
                       /\ ownsResponse(x)' <=> ownsResponse(x)
  BY <1>3 DEF isLive, ownsResponse, coordVars, recordVars
<1>5. /\ isLive(d)' <=> isLive(c)
      /\ ownsResponse(d)' <=> ownsResponse(c)
  BY <1>2, <1>3 DEF isLive, ownsResponse, coordVars, recordVars
<1>6. calls' = (calls \ {c}) \cup {d}
  BY <1>1 DEF d
<1>7. CallsOwned'
  <2>1. \A x \in calls' : x.epoch <= epoch'
    BY <1>2, <1>3, <1>6 DEF AllInv, WakeInv, CallsOwned, coordVars
  <2>2. \A x \in calls' : isLive(x)' => ownsResponse(x)'
    BY <1>4, <1>5, <1>6 DEF AllInv, WakeInv, CallsOwned
  <2>3. \A x, y \in calls' : isLive(x)' /\ isLive(y)' => x = y
    BY <1>4, <1>5, <1>6, OnlyOneIsLive DEF AllInv, WakeInv
  <2>4. SingleFlight'
    BY <2>3 DEF SingleFlight, isLive
  <2>5. inFlight' # NoTx => \E x \in calls' : ownsResponse(x)'
    BY <1>3, <1>4, <1>5, <1>6 DEF AllInv, WakeInv, CallsOwned, coordVars
  <2>. QED
    BY <2>1, <2>2, <2>4, <2>5 DEF CallsOwned
<1>8. DrainComes' /\ RecoveryOwned' /\ WaitersHaveWork'
  BY <1>3
  DEF AllInv, WakeInv, DrainComes, RecoveryOwned, WaitersHaveWork, ownsRecovery, coordVars, recordVars
<1>. QED
  BY <1>7, <1>8 DEF WakeInv

LEMMA WorldWakes ==
  ASSUME AllInv,
         \/ \E z \in zombies : ServerProcessesLate(z)
         \/ \E c \in cancels : ServerCancels(c)
         \/ ForeignCommit
         \/ LoseContext
         \/ UNCHANGED vars
  PROVE  WakeInv'
<1>1. UNCHANGED <<coordVars, recordVars, calls, recoveries>>
  BY DEF ServerProcessesLate, ServerCancels, ForeignCommit, LoseContext, vars, awaitVars
<1>. QED
  BY <1>1, Unmoved DEF coordVars, recordVars, ownsRecovery

LEMMA WakeNext == AllInv /\ [Next]_vars => WakeInv'
<1>. SUFFICES ASSUME AllInv, [Next]_vars PROVE WakeInv'
  OBVIOUS
<1>1. ASSUME NEW t \in Tx, NEW d \in Tx \cup {NoTx}, Enqueue(t, d) PROVE WakeInv'
  BY <1>1, EnqueueWakes
<1>2. ASSUME NEW w \in Waiters, WhenIdle(w) PROVE WakeInv'
  BY <1>2, WhenIdleWakes
<1>3. ASSUME NEW t \in Tx, CancelPending(t) PROVE WakeInv'
  BY <1>3, CancelPendingWakes
<1>4. ASSUME NEW n \in srcRev .. Len(log), ResolveAfterResync(n) PROVE WakeInv'
  BY <1>4, ResyncWakes
<1>5. ASSUME NEW n \in srcRev .. Len(log), ReplaceDocument(n) PROVE WakeInv'
  BY <1>5, LeavingWakes
<1>6. CASE RetryIndeterminate
  BY <1>6, RetryWakes
<1>7. CASE Destroy
  BY <1>7, LeavingWakes
<1>8. CASE Drain
  BY <1>8, DrainWakes
<1>9. ASSUME NEW c \in calls, CommitReturns(c) \/ CommitThrows(c) PROVE WakeInv'
  BY <1>9, CommitAnswersWake
<1>10. ASSUME NEW c \in cancels, CancelReturns(c) \/ CancelThrows(c) PROVE WakeInv'
  BY <1>10, CancelAnswersWake
<1>11. ASSUME NEW r \in recoveries, RollbackSucceeds(r) \/ RollbackFails(r) PROVE WakeInv'
  BY <1>11, RollbacksWake
<1>12. ASSUME NEW r \in recoveries, ReplaySucceeds(r) \/ ReplayFails(r) PROVE WakeInv'
  BY <1>12, ReplaysWake
<1>13. ASSUME NEW c \in calls, ServerProcesses(c) PROVE WakeInv'
  BY <1>13, ProcessedWakes
<1>. QED
  BY <1>1, <1>2, <1>3, <1>4, <1>5, <1>6, <1>7, <1>8, <1>9, <1>10, <1>11, <1>12, <1>13,
     WorldWakes DEF Next

(* Whatever can move has somebody who will move it, for any number of      *)
(* transactions, callers of whenIdle(), retries and replacements: a queue  *)
(* has a drain or a call to come, a recovery is awaited, only one commit   *)
(* is under way, and who waits for the coordinator waits for work that is  *)
(* there.                                                                  *)
THEOREM CoordinatorIsNeverWedged == Spec => []NeverWedged
<1>1. Init => AllInv
  BY TypeInit, QueueInit, WakeInit DEF AllInv
<1>2. AllInv /\ [Next]_vars => AllInv'
  BY TypeNext, QueueNext, WakeNext DEF AllInv
<1>3. AllInv => NeverWedged
  <2>. SUFFICES ASSUME AllInv PROVE NeverWedged
    OBVIOUS
  <2>1. SingleFlight
    BY DEF AllInv, WakeInv, CallsOwned
  <2>2. \A t \in Tx : outcome[t] = "pending" =>
          t \in ToSet(queue) /\ mode \in {"active", "recovering"}
    BY DEF AllInv, QueueConsistent, ReceiptsMatchQueue
  <2>3. mode = "active" /\ queue # <<>> =>
          drainScheduled \/ \E c \in calls : ownsResponse(c)
    BY DEF AllInv, WakeInv, CallsOwned, DrainComes
  <2>4. mode = "recovering" => \E r \in recoveries : ownsRecovery(r)
    BY DEF AllInv, WakeInv, RecoveryOwned
  <2>. QED
    BY <2>1, <2>2, <2>3, <2>4 DEF NeverWedged, AllInv, WakeInv, WaitersHaveWork
<1>. QED
  BY <1>1, <1>2, <1>3, PTL DEF Spec
=============================================================================
