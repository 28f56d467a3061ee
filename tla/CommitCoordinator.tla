------------------------- MODULE CommitCoordinator -------------------------
(***************************************************************************)
(* The remote commit coordinator                                           *)
(* (packages/datasource/src/remote-commit-coordinator.ts) between a local  *)
(* document that has already applied the transactions and a DataSource     *)
(* that confirms them: one commit in flight, the rest queued behind it.    *)
(*                                                                         *)
(* The part of the state that is not the coordinator's is external: the    *)
(* document and the rollback / replay hooks (the editor), the network, and *)
(* the DataSource (modelled on packages/datasource/src/memory.ts).         *)
(*                                                                         *)
(* Abstractions.  A transaction is a name, which stands for its            *)
(* transaction id and its idempotency key (both unique for ever, lines     *)
(* 346-347).  A source revision is the length of the DataSource's log that *)
(* it denotes.  A local revision is the content of the document it         *)
(* denotes, the sequence of the commits applied to it.  A pending record's *)
(* identity is its transaction and its incarnation, which retry renews.    *)
(* Audit events and error payloads are left out; the audit, predicate and  *)
(* id-factory callbacks are taken not to call the coordinator back.        *)
(***************************************************************************)
EXTENDS Integers, FiniteSets, SequencesExt

CONSTANTS
  Tx,               \* local transactions
  NoTx,             \* no transaction
  Foreign,          \* a commit another client made at the DataSource
  Waiters,          \* callers of whenIdle()
  MaxForeign,       \* bound on commits by other clients
  MaxRetries,       \* bound on retries of one transaction
  MaxEpoch,         \* bound on document replacements and lost contexts
  CanCancel,        \* capabilities.cancelPendingCommit
  CancelReportsHead \* a cancel reply carries the DataSource's newest revision

ASSUME NamesAssumption == NoTx \notin Tx /\ Foreign \notin Tx \cup {NoTx}
ASSUME BoundsAssumption == {MaxForeign, MaxRetries, MaxEpoch} \subseteq Nat
ASSUME FlagsAssumption == {CanCancel, CancelReportsHead} \subseteq BOOLEAN

VARIABLES
  mode,           \* #mode
  queue,          \* #queue, as transactions
  inFlight,       \* #inFlight, or NoTx
  cancelling,     \* #cancellingRecord, or NoTx
  suspended,      \* #suspended: none, or whether its recovery is retryable
  epoch,          \* #epoch
  drainScheduled, \* #drainScheduled: a drain microtask is pending
  srcRev,         \* #sourceRevision
  outcome,        \* what the newest receipt of a transaction has resolved to
  inc,            \* incarnation of a transaction's pending record
  attempt,        \* PendingRecord.attempt
  version,        \* how often a transaction's patch has been rebased
  dep,            \* patch.dependsOnTransactionId
  waiter,         \* what each whenIdle() promise has resolved to
  calls,          \* awaited commit() requests, with the answer once there is one
  cancels,        \* awaited cancelCommit() requests
  recoveries,     \* awaited rollbackAtomically() / replayInIsolation() calls
  local,          \* external: the commits the local document consists of
  current,        \* external: what isCurrentDocument(context) returns
  log,            \* external: the DataSource's document, the commits it accepted
  refused,        \* external: transactions the DataSource agreed to cancel
  zombies         \* external: requests whose caller was told they failed

coordVars  == <<mode, queue, inFlight, cancelling, suspended, epoch,
                drainScheduled, srcRev>>
recordVars == <<outcome, inc, attempt, version, dep, waiter>>
awaitVars  == <<calls, cancels, recoveries>>
worldVars  == <<local, current, log, refused, zombies>>
vars == <<coordVars, recordVars, awaitVars, worldVars>>

Modes == {"active", "recovering", "reloadRequired", "stale", "destroyed"}
Failures == {"rejected", "conflicted"}
Terminal == Failures \cup {"acknowledged", "reloadRequired", "cancelled",
                           "stale", "aborted"}

(* A reply of the DataSource: NoReply until it has processed the request.  *)
Reply(status, rev) == [status |-> status, rev |-> rev]
NoReply == Reply("none", 0)
Replies == [status : {"none", "acknowledged"} \cup Failures, rev : Nat]

Calls   == [tx : Tx, inc : Nat, epoch : Nat, version : Nat, exp : Nat,
            reply : Replies]
Cancels == [tx : Tx, inc : Nat, epoch : Nat,
            reply : [status : {"none", "yes", "no"}, rev : Nat]]
Recoveries == [tx : Tx, epoch : Nat, failure : [status : Failures, rev : Nat],
               phase : {"rollback", "replay"}]
Zombies == [tx : Tx, exp : Nat]

CoordinatorTypes ==
  /\ mode \in Modes
  /\ queue \in Seq(Tx)
  /\ inFlight \in Tx \cup {NoTx}
  /\ cancelling \in Tx \cup {NoTx}
  /\ suspended \in {"no", "retryable", "final"}
  /\ epoch \in Nat
  /\ drainScheduled \in BOOLEAN
  /\ srcRev \in Nat

RecordTypes ==
  /\ outcome \in [Tx -> {"none", "pending"} \cup Terminal]
  /\ inc \in [Tx -> Nat]
  /\ attempt \in [Tx -> Nat]
  /\ version \in [Tx -> Nat]
  /\ dep \in [Tx -> Tx \cup {NoTx}]
  /\ waiter \in [Waiters -> {"off", "waiting", "idle", "reloadRequired",
                             "stale", "destroyed"}]

AwaitTypes ==
  /\ calls \subseteq Calls
  /\ cancels \subseteq Cancels
  /\ recoveries \subseteq Recoveries

WorldTypes ==
  /\ local \in Seq(Tx \cup {Foreign})
  /\ current \in BOOLEAN
  /\ log \in Seq(Tx \cup {Foreign})
  /\ refused \subseteq Tx
  /\ zombies \subseteq Zombies

TypeOK == CoordinatorTypes /\ RecordTypes /\ AwaitTypes /\ WorldTypes

Init ==
  /\ mode = "active"
  /\ queue = <<>>
  /\ inFlight = NoTx
  /\ cancelling = NoTx
  /\ suspended = "no"
  /\ epoch = 0
  /\ drainScheduled = FALSE
  /\ srcRev = 0
  /\ outcome = [t \in Tx |-> "none"]
  /\ inc = [t \in Tx |-> 0]
  /\ attempt = [t \in Tx |-> 0]
  /\ version = [t \in Tx |-> 0]
  /\ dep = [t \in Tx |-> NoTx]
  /\ waiter = [w \in Waiters |-> "off"]
  /\ calls = {}
  /\ cancels = {}
  /\ recoveries = {}
  /\ local = <<>>
  /\ current = TRUE
  /\ log = <<>>
  /\ refused = {}
  /\ zombies = {}

-----------------------------------------------------------------------------
(* Helpers shared by the operations.                                       *)

(* #transactionIds (and #idempotencyKeys): never forgotten.                *)
transactionIds == {t \in Tx : outcome[t] # "none"}

(* Mutant: a resolved receipt resolves again.                              *)
settlesTwice(T, status) ==
  [t \in Tx |-> IF t \in T THEN status ELSE outcome[t]]

(* #settleOutcome: a record resolves once.                                 *)
settleOutcome(T, status) ==
  [t \in Tx |-> IF t \in T /\ outcome[t] = "pending" THEN status ELSE outcome[t]]

(* #settleIdle: resolves every waiting whenIdle() promise.                 *)
settleIdle(result) ==
  [w \in Waiters |-> IF waiter[w] = "waiting" THEN result ELSE waiter[w]]

(* #continueOrSettle, for a queue that has become q in mode 'active'.      *)
continueOrSettle(q) ==
  IF q = <<>>
    THEN waiter' = settleIdle("idle") /\ UNCHANGED drainScheduled
    ELSE drainScheduled' = TRUE /\ UNCHANGED waiter

(* Leaving the document: #invalidateCurrentContext, replaceDocument and    *)
(* destroy abandon the queue, whatever is in flight, in a new epoch.       *)
abandonQueue(status) ==
  /\ epoch' = epoch + 1
  /\ inFlight' = NoTx
  /\ queue' = <<>>
  /\ suspended' = "no"
  /\ outcome' = settleOutcome(ToSet(queue), status)

(* #invalidateCurrentContext, in a mode other than stale and destroyed.    *)
invalidateCurrentContext ==
  /\ abandonQueue("stale")
  /\ mode' = "stale"
  /\ waiter' = settleIdle("stale")
  /\ UNCHANGED srcRev

(* #suspend: keep the records q, resolve their receipts to reloadRequired. *)
suspend(q, retryable) ==
  /\ mode' = "reloadRequired"
  /\ queue' = q
  /\ inFlight' = NoTx
  /\ suspended' = IF retryable THEN "retryable" ELSE "final"
  /\ waiter' = settleIdle("reloadRequired")

(* #ownsResponse, for the continuation of a commit or cancelCommit call.   *)
ownsResponse(c) ==
  /\ c.epoch = epoch
  /\ mode = "active"
  /\ inFlight = c.tx /\ inc[c.tx] = c.inc
  /\ queue # <<>> /\ Head(queue) = c.tx

(* #ownsRecovery up to the isCurrentDocument check.                        *)
ownsRecovery(r) ==
  /\ r.epoch = epoch
  /\ mode = "recovering"
  /\ queue # <<>> /\ Head(queue) = r.tx

(* External: the document after the DataSource's first n commits.          *)
sourceDocument(n) == SubSeq(log, 1, n)

-----------------------------------------------------------------------------
(* The public operations of the coordinator.                               *)

(* enqueue(): the caller has committed t on top of the local document, so  *)
(* its previousRevision is the document before t; a caller whose document  *)
(* does not end with the tail's transaction is refused (lines 437-448).    *)
(* dependsOn is what the caller's patch names; it survives only into an    *)
(* empty queue, and only when the coordinator knows it.                    *)
Enqueue(t, dependsOn) ==
  /\ mode = "active" /\ cancelling = NoTx
  /\ IF ~current
       THEN /\ dependsOn = NoTx
            /\ invalidateCurrentContext
            /\ UNCHANGED <<cancelling, drainScheduled, inc, attempt, version,
                           dep, local>>
       ELSE /\ t \notin transactionIds
            /\ IF queue # <<>>
                 THEN /\ Last(local) = Last(queue)
                      /\ dependsOn = NoTx
                      /\ dep' = [dep EXCEPT ![t] = Last(queue)]
                 ELSE /\ dependsOn \in transactionIds \cup {NoTx}
                      /\ dep' = [dep EXCEPT ![t] = dependsOn]
            /\ queue' = Append(queue, t)
            /\ outcome' = [outcome EXCEPT ![t] = "pending"]
            /\ drainScheduled' = TRUE
            /\ local' = Append(local, t)
            /\ UNCHANGED <<mode, inFlight, cancelling, suspended, epoch, srcRev,
                           inc, attempt, version, waiter>>
  /\ UNCHANGED <<awaitVars, current, log, refused, zombies>>

(* Mutants: idle is what is not in flight; a mode is an answer.            *)
idleWhenNothingInFlight ==
  CASE mode \in {"destroyed", "stale", "reloadRequired"} -> mode
    [] mode = "active" /\ inFlight = NoTx -> "idle"
    [] OTHER -> "waiting"

idleResultIsMode ==
  CASE mode = "active" /\ queue = <<>> /\ inFlight = NoTx -> "idle"
    [] mode = "active" -> "waiting"
    [] OTHER -> mode

(* whenIdle().                                                             *)
idleResult ==
  CASE mode \in {"destroyed", "stale", "reloadRequired"} -> mode
    [] mode = "active" /\ queue = <<>> /\ inFlight = NoTx -> "idle"
    [] OTHER -> "waiting"

WhenIdle(w) ==
  /\ waiter[w] = "off"
  /\ waiter' = [waiter EXCEPT ![w] = idleResult]
  /\ UNCHANGED <<coordVars, outcome, inc, attempt, version, dep, awaitVars,
                 worldVars>>

(* retryIndeterminate() with the recoveryId of the current suspension.     *)
RetryIndeterminate ==
  /\ mode = "reloadRequired" /\ suspended = "retryable"
  /\ \A t \in ToSet(queue) : inc[t] < MaxRetries
  /\ IF ~current
       THEN invalidateCurrentContext /\ UNCHANGED <<drainScheduled, inc>>
       ELSE /\ inc' = [t \in Tx |-> IF t \in ToSet(queue) THEN inc[t] + 1
                                                          ELSE inc[t]]
            /\ outcome' = [t \in Tx |-> IF t \in ToSet(queue) THEN "pending"
                                                              ELSE outcome[t]]
            /\ suspended' = "no"
            /\ mode' = "active"
            /\ drainScheduled' = TRUE
            /\ UNCHANGED <<queue, inFlight, epoch, srcRev, waiter>>
  /\ UNCHANGED <<cancelling, attempt, version, dep, awaitVars, worldVars>>

(* cancelPending() of the tail.  The caller undoes the transaction on its  *)
(* document when the call answers that it is cancelled.                    *)
cancelBeforeDispatch(t) ==
  /\ queue' = Front(queue)
  /\ outcome' = settleOutcome({t}, "cancelled")
  /\ local' = Front(local)
  /\ continueOrSettle(queue')
  /\ UNCHANGED <<cancelling, cancels>>

cancelStarted(t) ==
  /\ CanCancel
  /\ cancelling' = t
  /\ cancels' = cancels \cup {[tx |-> t, inc |-> inc[t], epoch |-> epoch,
                               reply |-> NoReply]}
  /\ UNCHANGED <<queue, outcome, local, waiter, drainScheduled>>

CancelPending(t) ==
  /\ mode = "active" /\ cancelling = NoTx
  /\ queue # <<>> /\ Last(queue) = t
  /\ IF inFlight # t THEN cancelBeforeDispatch(t) ELSE cancelStarted(t)
  /\ UNCHANGED <<mode, inFlight, suspended, epoch, srcRev, inc, attempt, version,
                 dep, calls, recoveries, current, log, refused, zombies>>

(* resolveAfterResync(): the caller has reloaded its document from the     *)
(* DataSource, at a revision that may no longer be the newest one.         *)
ResolveAfterResync(n) ==
  /\ mode = "reloadRequired"
  /\ IF ~current
       THEN invalidateCurrentContext /\ UNCHANGED local
       ELSE /\ queue' = <<>>
            /\ suspended' = "no"
            /\ srcRev' = n
            /\ mode' = "active"
            /\ waiter' = settleIdle("idle")
            /\ local' = sourceDocument(n)
            /\ UNCHANGED <<inFlight, epoch, outcome>>
  /\ UNCHANGED <<cancelling, drainScheduled, inc, attempt, version, dep,
                 awaitVars, current, log, refused, zombies>>

(* replaceDocument(): a new generation of the document, loaded at n.       *)
ReplaceDocument(n) ==
  /\ mode # "destroyed" /\ epoch < MaxEpoch
  /\ abandonQueue("stale")
  /\ cancelling' = NoTx
  /\ waiter' = settleIdle("stale")
  /\ srcRev' = n
  /\ mode' = "active"
  /\ local' = sourceDocument(n)
  /\ current' = TRUE
  /\ UNCHANGED <<drainScheduled, inc, attempt, version, dep, awaitVars, log,
                 refused, zombies>>

Destroy ==
  /\ mode # "destroyed"
  /\ abandonQueue("aborted")
  /\ cancelling' = NoTx
  /\ waiter' = settleIdle("destroyed")
  /\ mode' = "destroyed"
  /\ UNCHANGED <<drainScheduled, srcRev, inc, attempt, version, dep, awaitVars,
                 worldVars>>

-----------------------------------------------------------------------------
(* The drain microtask: #drain up to its await.                            *)

canDispatch == mode = "active" /\ inFlight = NoTx /\ queue # <<>>

dispatch(t) ==
  /\ inFlight' = t
  /\ attempt' = [attempt EXCEPT ![t] = @ + 1]
  /\ calls' = calls \cup {[tx |-> t, inc |-> inc[t], epoch |-> epoch,
                           version |-> version[t], exp |-> srcRev,
                           reply |-> NoReply]}

Drain ==
  /\ drainScheduled
  /\ drainScheduled' = FALSE
  /\ \/ /\ ~canDispatch
        /\ UNCHANGED <<mode, queue, inFlight, suspended, epoch, srcRev, outcome,
                       attempt, waiter, calls>>
     \/ /\ canDispatch /\ ~current
        /\ invalidateCurrentContext
        /\ UNCHANGED <<attempt, calls>>
     \/ /\ canDispatch /\ current
        /\ dispatch(Head(queue))
        /\ UNCHANGED <<mode, queue, suspended, epoch, srcRev, outcome, waiter>>
  /\ UNCHANGED <<cancelling, inc, version, dep, cancels, recoveries, worldVars>>

-----------------------------------------------------------------------------
(* The continuation of #drain: the commit() call c returns or throws.      *)

(* A late answer, to a call that no longer owns the head of the queue.     *)
dropLate ==
  UNCHANGED <<coordVars, recordVars, recoveries>>

(* The answer arrives in a context that is no longer current.              *)
answerToLostContext ==
  /\ invalidateCurrentContext
  /\ cancelling' = NoTx
  /\ UNCHANGED <<drainScheduled, inc, attempt, version, dep, recoveries>>

(* Mutants: a thrown commit counts as rejected; only the record that was   *)
(* in flight is told.                                                      *)
unansweredIsRejected(retryable) ==
  /\ suspend(queue, retryable)
  /\ outcome' = settleOutcome(ToSet(queue), "rejected")
  /\ cancelling' = NoTx
  /\ UNCHANGED <<epoch, drainScheduled, srcRev, inc, attempt, version, dep,
                 recoveries>>

unansweredTellsHead(retryable) ==
  /\ suspend(queue, retryable)
  /\ outcome' = settleOutcome({Head(queue)}, "reloadRequired")
  /\ cancelling' = NoTx
  /\ UNCHANGED <<epoch, drainScheduled, srcRev, inc, attempt, version, dep,
                 recoveries>>

(* A thrown commit is indeterminate and may be retried; an answer that is  *)
(* not a commit response is a protocol violation and may not.              *)
commitUnanswered(retryable) ==
  /\ suspend(queue, retryable)
  /\ outcome' = settleOutcome(ToSet(queue), "reloadRequired")
  /\ cancelling' = NoTx
  /\ UNCHANGED <<epoch, drainScheduled, srcRev, inc, attempt, version, dep,
                 recoveries>>

(* Mutant: nobody who waits for an idle coordinator is told.               *)
acknowledgedUnsettled(t, rev) ==
  /\ srcRev' = rev
  /\ queue' = Tail(queue)
  /\ inFlight' = NoTx
  /\ cancelling' = NoTx
  /\ outcome' = settleOutcome({t}, "acknowledged")
  /\ drainScheduled' = TRUE
  /\ UNCHANGED <<waiter, mode, suspended, epoch, inc, attempt, version, dep,
                 recoveries>>

acknowledged(t, rev) ==
  /\ srcRev' = rev
  /\ queue' = Tail(queue)
  /\ inFlight' = NoTx
  /\ cancelling' = NoTx
  /\ outcome' = settleOutcome({t}, "acknowledged")
  /\ continueOrSettle(queue')
  /\ UNCHANGED <<mode, suspended, epoch, inc, attempt, version, dep, recoveries>>

(* Mutants: #inFlight is not reset; the failure is reported before the     *)
(* document is rolled back.                                                *)
failureStaysInFlight(t, reply) ==
  /\ mode' = "recovering"
  /\ cancelling' = NoTx
  /\ recoveries' = recoveries \cup {[tx |-> t, epoch |-> epoch,
                                     failure |-> reply, phase |-> "rollback"]}
  /\ UNCHANGED <<inFlight, queue, suspended, epoch, drainScheduled, srcRev,
                 recordVars>>

failureReportedFirst(t, reply) ==
  /\ mode' = "recovering"
  /\ inFlight' = NoTx
  /\ cancelling' = NoTx
  /\ recoveries' = recoveries \cup {[tx |-> t, epoch |-> epoch,
                                     failure |-> reply, phase |-> "rollback"]}
  /\ outcome' = settleOutcome({t}, reply.status)
  /\ UNCHANGED <<queue, suspended, epoch, drainScheduled, srcRev, inc, attempt,
                 version, dep, waiter>>

(* #recoverExplicitFailure up to its first await.                          *)
explicitFailure(t, reply) ==
  /\ mode' = "recovering"
  /\ inFlight' = NoTx
  /\ cancelling' = NoTx
  /\ recoveries' = recoveries \cup {[tx |-> t, epoch |-> epoch,
                                     failure |-> reply, phase |-> "rollback"]}
  /\ UNCHANGED <<queue, suspended, epoch, drainScheduled, srcRev, recordVars>>

CommitReturns(c) ==
  /\ c.reply # NoReply
  /\ calls' = calls \ {c}
  /\ \/ ~ownsResponse(c) /\ dropLate
     \/ ownsResponse(c) /\ ~current /\ answerToLostContext
     \/ /\ ownsResponse(c) /\ current
        /\ \/ c.reply.status = "acknowledged" /\ acknowledged(c.tx, c.reply.rev)
           \/ c.reply.status \in Failures /\ explicitFailure(c.tx, c.reply)
           \/ commitUnanswered(FALSE)
  /\ UNCHANGED <<cancels, worldVars>>

(* The call fails on the way, whether or not the DataSource has processed, *)
(* or will still process, the request.                                     *)
CommitThrows(c) ==
  /\ calls' = calls \ {c}
  /\ zombies' = IF c.reply = NoReply
                  THEN zombies \cup {[tx |-> c.tx, exp |-> c.exp]}
                  ELSE zombies
  /\ \/ ~ownsResponse(c) /\ dropLate
     \/ ownsResponse(c) /\ ~current /\ answerToLostContext
     \/ ownsResponse(c) /\ current /\ commitUnanswered(TRUE)
  /\ UNCHANGED <<cancels, local, current, log, refused>>

-----------------------------------------------------------------------------
(* #cancelInFlight after its await: the cancelCommit() call c returns.     *)

ownsCancellation(c) == cancelling = c.tx /\ inc[c.tx] = c.inc

clearCancellation(c) ==
  cancelling' = IF ownsCancellation(c) THEN NoTx ELSE cancelling

(* Mutants: the receipt stays pending; the callers of whenIdle are         *)
(* forgotten.                                                              *)
cancelAgreedKeepsReceipt(c) ==
  /\ inFlight' = NoTx
  /\ queue' = Front(queue)
  /\ cancelling' = NoTx
  /\ local' = Front(local)
  /\ continueOrSettle(queue')
  /\ UNCHANGED <<srcRev, outcome>>

cancelAgreedUnsettled(c) ==
  /\ inFlight' = NoTx
  /\ queue' = Front(queue)
  /\ cancelling' = NoTx
  /\ outcome' = settleOutcome({c.tx}, "cancelled")
  /\ local' = Front(local)
  /\ UNCHANGED <<srcRev, waiter, drainScheduled>>

cancelAgreed(c) ==
  /\ srcRev' = IF CancelReportsHead THEN c.reply.rev ELSE srcRev
  /\ inFlight' = NoTx
  /\ queue' = Front(queue)
  /\ cancelling' = NoTx
  /\ outcome' = settleOutcome({c.tx}, "cancelled")
  /\ local' = Front(local)
  /\ continueOrSettle(queue')

CancelReturns(c) ==
  /\ c.reply # NoReply
  /\ cancels' = cancels \ {c}
  /\ IF c.reply.status = "yes" /\ ownsCancellation(c) /\ ownsResponse(c)
       THEN cancelAgreed(c)
       ELSE /\ clearCancellation(c)
            /\ UNCHANGED <<queue, inFlight, drainScheduled, srcRev, outcome,
                           waiter, local>>
  /\ UNCHANGED <<mode, suspended, epoch, inc, attempt, version, dep, calls,
                 recoveries, current, log, refused, zombies>>

(* It throws, or its answer is not a cancel response.                      *)
CancelThrows(c) ==
  /\ cancels' = cancels \ {c}
  /\ clearCancellation(c)
  /\ UNCHANGED <<mode, queue, inFlight, suspended, epoch, drainScheduled, srcRev,
                 recordVars, calls, recoveries, worldVars>>

-----------------------------------------------------------------------------
(* The continuations of #recoverExplicitFailure.                           *)

(* A recovery that is no longer owned stops; one whose context was lost    *)
(* invalidates it.                                                         *)
recoveryAbandoned(r) ==
  \/ ~ownsRecovery(r) /\ UNCHANGED <<coordVars, recordVars>>
  \/ /\ ownsRecovery(r) /\ ~current
     /\ invalidateCurrentContext
     /\ UNCHANGED <<cancelling, drainScheduled, inc, attempt, version, dep>>

(* #acceptConflictSourceRevision.                                          *)
acceptedRevision(r) ==
  IF r.failure.status = "conflicted" THEN r.failure.rev ELSE srcRev

(* Mutant: the revision a conflict reports is not adopted.                 *)
recoveredAtOldRevision(r, descendants) ==
  /\ queue' = descendants
  /\ outcome' = settleOutcome({r.tx}, r.failure.status)
  /\ mode' = "active"
  /\ continueOrSettle(descendants)
  /\ UNCHANGED srcRev

(* Everything after the failed head: descendants.                          *)
recovered(r, descendants) ==
  /\ queue' = descendants
  /\ srcRev' = acceptedRevision(r)
  /\ outcome' = settleOutcome({r.tx}, r.failure.status)
  /\ mode' = "active"
  /\ continueOrSettle(descendants)

(* rollbackAtomically() refuses, or fails: the document is as it was.      *)
RollbackFails(r) ==
  /\ r.phase = "rollback"
  /\ recoveries' = recoveries \ {r}
  /\ \/ recoveryAbandoned(r)
     \/ /\ ownsRecovery(r) /\ current
        /\ suspend(queue, FALSE)
        /\ outcome' = settleOutcome(ToSet(queue), "reloadRequired")
        /\ UNCHANGED <<cancelling, epoch, drainScheduled, srcRev, inc, attempt,
                       version, dep>>
  /\ UNCHANGED <<calls, cancels, worldVars>>

(* rollbackAtomically() has taken every queued transaction out of the      *)
(* document and, for a conflict, brought in the reported remote commits.   *)
RollbackSucceeds(r) ==
  /\ r.phase = "rollback"
  /\ \/ /\ recoveryAbandoned(r)
        /\ recoveries' = recoveries \ {r}
        /\ UNCHANGED local
     \/ /\ ownsRecovery(r) /\ current
        /\ local' = sourceDocument(acceptedRevision(r))
        /\ IF Tail(queue) = <<>>
             THEN /\ recovered(r, <<>>)
                  /\ recoveries' = recoveries \ {r}
                  /\ UNCHANGED <<inFlight, cancelling, suspended, epoch>>
             ELSE /\ recoveries' = (recoveries \ {r})
                                     \cup {[r EXCEPT !.phase = "replay"]}
                  /\ UNCHANGED <<coordVars, outcome, waiter>>
        /\ UNCHANGED <<inc, attempt, version, dep>>
  /\ UNCHANGED <<calls, cancels, current, log, refused, zombies>>

(* Mutants: the chain is linked backwards; other dependencies are lost.    *)
rebasedBackwards(descendants) ==
  [t \in Tx |->
    IF t \notin ToSet(descendants) THEN dep[t]
    ELSE LET i == CHOOSE j \in DOMAIN descendants : descendants[j] = t
         IN IF i = Len(descendants) THEN NoTx ELSE descendants[i + 1]]

rebasedAlone(descendants) ==
  [t \in Tx |->
    IF t \notin ToSet(descendants) THEN NoTx
    ELSE LET i == CHOOSE j \in DOMAIN descendants : descendants[j] = t
         IN IF i = 1 THEN NoTx ELSE descendants[i - 1]]

(* captureReplayResult: the replayed chain starts without a dependency.    *)
rebasedDependency(descendants) ==
  [t \in Tx |->
    IF t \notin ToSet(descendants) THEN dep[t]
    ELSE LET i == CHOOSE j \in DOMAIN descendants : descendants[j] = t
         IN IF i = 1 THEN NoTx ELSE descendants[i - 1]]

(* replayInIsolation() has put the descendants back, rebased.              *)
ReplaySucceeds(r) ==
  /\ r.phase = "replay"
  /\ recoveries' = recoveries \ {r}
  /\ \/ recoveryAbandoned(r) /\ UNCHANGED local
     \/ LET descendants == Tail(queue) IN
        /\ ownsRecovery(r) /\ current
        /\ recovered(r, descendants)
        /\ version' = [t \in Tx |-> IF t \in ToSet(descendants)
                                     THEN version[t] + 1 ELSE version[t]]
        /\ dep' = rebasedDependency(descendants)
        /\ local' = local \o descendants
        /\ UNCHANGED <<inFlight, cancelling, suspended, epoch, inc, attempt>>
  /\ UNCHANGED <<calls, cancels, current, log, refused, zombies>>

(* replayInIsolation() fails, or returns something else than the chain.    *)
ReplayFails(r) ==
  /\ r.phase = "replay"
  /\ recoveries' = recoveries \ {r}
  /\ \/ recoveryAbandoned(r)
     \/ /\ ownsRecovery(r) /\ current
        /\ suspend(Tail(queue), FALSE)
        /\ outcome' = [settleOutcome(ToSet(Tail(queue)), "reloadRequired")
                         EXCEPT ![r.tx] = r.failure.status]
        /\ UNCHANGED <<cancelling, epoch, drainScheduled, srcRev, inc, attempt,
                       version, dep>>
  /\ UNCHANGED <<calls, cancels, worldVars>>

-----------------------------------------------------------------------------
(* External: the DataSource, other clients and the owner of the document.  *)

(* memory.ts #commitCaptured: a key that was committed gets the stored     *)
(* response, a stale expected revision a conflict, and anything else is    *)
(* committed or rejected.  Whether a patch is valid depends on the patch   *)
(* and the document alone, so a rejected request is rejected for ever.     *)
(* answer is the reply it returns.                                         *)
serverCommits(t, exp, answer) ==
  LET accepted == {i \in DOMAIN log : log[i] = t}
      isNew    == accepted = {} /\ t \notin refused
  IN
  \/ /\ accepted # {}
     /\ answer = Reply("acknowledged", CHOOSE i \in accepted : TRUE)
     /\ UNCHANGED <<log, refused>>
  \/ /\ isNew /\ exp # Len(log)
     /\ answer = Reply("conflicted", Len(log))
     /\ UNCHANGED <<log, refused>>
  \/ /\ isNew /\ exp = Len(log)
     /\ answer = Reply("acknowledged", Len(log) + 1)
     /\ log' = Append(log, t)
     /\ UNCHANGED refused
  \/ /\ accepted = {}
     /\ answer = Reply("rejected", 0)
     /\ refused' = refused \cup {t}
     /\ UNCHANGED log

Answers == [status : {"acknowledged"} \cup Failures, rev : 0..Len(log) + 1]

ServerProcesses(c) ==
  /\ c.reply = NoReply
  /\ \E answer \in Answers :
       /\ serverCommits(c.tx, c.exp, answer)
       /\ calls' = (calls \ {c}) \cup {[c EXCEPT !.reply = answer]}
  /\ UNCHANGED <<coordVars, recordVars, cancels, recoveries, local, current,
                 zombies>>

(* A request whose caller gave up arrives late.                            *)
ServerProcessesLate(z) ==
  /\ \E answer \in Answers : serverCommits(z.tx, z.exp, answer)
  /\ zombies' = zombies \ {z}
  /\ UNCHANGED <<coordVars, recordVars, awaitVars, local, current>>

(* cancelCommit: a commit the DataSource does not have yet it may refuse   *)
(* for ever; one it has cannot be cancelled.                               *)
ServerCancels(c) ==
  /\ c.reply = NoReply
  /\ \E agreed \in BOOLEAN :
       /\ agreed => c.tx \notin ToSet(log)
       /\ refused' = IF agreed THEN refused \cup {c.tx} ELSE refused
       /\ cancels' = (cancels \ {c}) \cup
            {[c EXCEPT !.reply = Reply(IF agreed THEN "yes" ELSE "no", Len(log))]}
  /\ UNCHANGED <<coordVars, recordVars, calls, recoveries, local, current, log,
                 zombies>>

(* Another client commits.                                                 *)
ForeignCommit ==
  /\ Cardinality({i \in DOMAIN log : log[i] = Foreign}) < MaxForeign
  /\ log' = Append(log, Foreign)
  /\ UNCHANGED <<coordVars, recordVars, awaitVars, local, current, refused,
                 zombies>>

(* The owner of the document turns to another one.                         *)
LoseContext ==
  /\ current /\ epoch < MaxEpoch
  /\ current' = FALSE
  /\ UNCHANGED <<coordVars, recordVars, awaitVars, local, log, refused, zombies>>

-----------------------------------------------------------------------------
Next ==
  \/ \E t \in Tx, d \in Tx \cup {NoTx} : Enqueue(t, d)
  \/ \E w \in Waiters : WhenIdle(w)
  \/ RetryIndeterminate
  \/ \E t \in Tx : CancelPending(t)
  \/ \E n \in srcRev..Len(log) : ResolveAfterResync(n)
  \/ \E n \in srcRev..Len(log) : ReplaceDocument(n)
  \/ Destroy
  \/ Drain
  \/ \E c \in calls : CommitReturns(c) \/ CommitThrows(c)
  \/ \E c \in cancels : CancelReturns(c) \/ CancelThrows(c)
  \/ \E r \in recoveries : RollbackSucceeds(r) \/ RollbackFails(r)
  \/ \E r \in recoveries : ReplaySucceeds(r) \/ ReplayFails(r)
  \/ \E c \in calls : ServerProcesses(c)
  \/ \E z \in zombies : ServerProcessesLate(z)
  \/ \E c \in cancels : ServerCancels(c)
  \/ ForeignCommit
  \/ LoseContext

Spec == Init /\ [][Next]_vars

(* A scheduled microtask runs; the DataSource and the hooks answer, and    *)
(* their promises settle.  Nothing obliges a caller to retry, to resync,   *)
(* to replace or to destroy.                                               *)
Fairness ==
  /\ WF_vars(Drain)
  /\ WF_vars(\E c \in calls : ServerProcesses(c))
  /\ WF_vars(\E c \in calls : CommitReturns(c) \/ CommitThrows(c))
  /\ WF_vars(\E c \in cancels : ServerCancels(c))
  /\ WF_vars(\E c \in cancels : CancelReturns(c) \/ CancelThrows(c))
  /\ WF_vars(\E r \in recoveries : RollbackSucceeds(r) \/ RollbackFails(r))
  /\ WF_vars(\E r \in recoveries : ReplaySucceeds(r) \/ ReplayFails(r))

FairSpec == Spec /\ Fairness

-----------------------------------------------------------------------------
(* Safety.                                                                 *)

(* As long as the coordinator can still continue with its queue, the local *)
(* document is the DataSource's document at #sourceRevision followed by    *)
(* the queued transactions: nothing is missing, doubled or out of order    *)
(* (#drain, #cancelInFlight, #recoverExplicitFailure).                     *)
canContinue ==
  \/ mode = "active"
  \/ mode = "recovering" /\ \E r \in recoveries : ownsRecovery(r)
                                                  /\ r.phase = "rollback"
  \/ mode = "reloadRequired" /\ suspended = "retryable"

DocumentIsSourcePlusQueue ==
  canContinue => local = sourceDocument(srcRev) \o queue

(* A resolved receipt tells the truth about the DataSource: acknowledged   *)
(* transactions are in its document; rejected, conflicted and cancelled    *)
(* ones are not and never will be (#settleOutcome and its callers).  A     *)
(* record renewed by retryIndeterminate is left to CancelledIsNotCommitted. *)
ReceiptIsTruthful ==
  \A t \in Tx :
    /\ outcome[t] = "acknowledged" => t \in ToSet(log)
    /\ outcome[t] \in Failures => t \notin ToSet(log)
    /\ outcome[t] = "cancelled" /\ inc[t] = 0 => t \notin ToSet(log)

(* The DataSource never holds a transaction while the one it depends on is *)
(* still waiting in the queue, nor before an acknowledged one it depends   *)
(* on (withDependency in enqueue and captureReplayResult).                 *)
DependencyFirst ==
  \A i \in DOMAIN log :
    LET t == log[i] IN
    t \in Tx /\ dep[t] # NoTx =>
      /\ dep[t] \notin ToSet(queue)
      /\ outcome[dep[t]] = "acknowledged" =>
           \E j \in 1 .. i - 1 : log[j] = dep[t]

(* Remote commits are strictly serial: of the calls that were not          *)
(* abandoned, at most one is awaited (#inFlight guards #drain).            *)
SingleFlight ==
  \A c, d \in {e \in calls : e.epoch = epoch /\ outcome[e.tx] # "cancelled"} :
    c = d

(* No lost wake-up and no second one: a receipt that is pending is queued, *)
(* a queue that can move has a drain scheduled or one awaited call that    *)
(* owns its head, a recovery is being awaited, and nobody waits for an     *)
(* idle coordinator to become idle (#scheduleDrain, #continueOrSettle,     *)
(* #settleIdle).                                                           *)
NeverWedged ==
  /\ SingleFlight
  /\ \A t \in Tx : outcome[t] = "pending" =>
       t \in ToSet(queue) /\ mode \in {"active", "recovering"}
  /\ mode = "active" /\ queue # <<>> =>
       drainScheduled \/ \E c \in calls : ownsResponse(c)
  /\ mode = "recovering" => \E r \in recoveries : ownsRecovery(r)
  /\ \A w \in Waiters : waiter[w] = "waiting" =>
       queue # <<>> /\ mode \in {"active", "recovering"}

(* Only the head of the queue can have been sent to the DataSource, so     *)
(* recovery may rebase, and cancelPending may drop, everything behind it   *)
(* (#drain, #recoverExplicitFailure).                                      *)
OnlyHeadSent ==
  \A i \in DOMAIN queue : i > 1 => attempt[queue[i]] = 0

(* The modes, the queue and the receipts agree: the fields that #drain,    *)
(* cancelPending, #suspend and #recoverExplicitFailure set at different    *)
(* times never contradict each other.                                      *)
HeadIsInFlight ==
  inFlight # NoTx => mode = "active" /\ queue # <<>> /\ Head(queue) = inFlight

CancellationOwnsQueue ==
  cancelling # NoTx =>
    \/ mode = "stale"
    \/ mode = "active" /\ queue = <<cancelling>> /\ inFlight = cancelling

ReceiptsMatchQueue ==
  /\ \A t \in Tx : outcome[t] = "pending" <=>
       t \in ToSet(queue) /\ mode \in {"active", "recovering"}
  /\ mode = "reloadRequired" => \A t \in ToSet(queue) : outcome[t] = "reloadRequired"
  /\ mode \in {"stale", "destroyed"} => queue = <<>>
  /\ suspended # "no" <=> mode = "reloadRequired"
  /\ \A t \in Tx : outcome[t] = "none" => attempt[t] = 0

QueueConsistent ==
  /\ IsInjective(queue)
  /\ HeadIsInFlight
  /\ CancellationOwnsQueue
  /\ ReceiptsMatchQueue
  /\ OnlyHeadSent

-----------------------------------------------------------------------------
(* Action properties.                                                      *)

(* A receipt resolves at most once; only retryIndeterminate, with a new    *)
(* receipt, takes a transaction back from reloadRequired (#settleOutcome). *)
SettledOnce ==
  [][\A t \in Tx : outcome[t] \in Terminal /\ outcome'[t] # outcome[t] =>
       /\ outcome[t] = "reloadRequired" /\ outcome'[t] = "pending"
       /\ inc'[t] = inc[t] + 1]_vars

(* A key names one patch: a transaction that was ever sent is not rebased, *)
(* nor is its dependency rewritten (#recoverExplicitFailure).              *)
SentPatchIsFixed ==
  [][\A t \in Tx : attempt[t] > 0 =>
       version'[t] = version[t] /\ dep'[t] = dep[t]]_vars

(* The receipt of a rejected or conflicted transaction resolves only when  *)
(* the document no longer contains it (#settleExplicitFailure comes after  *)
(* rollbackAtomically in #recoverExplicitFailure).                         *)
RolledBackBeforeReported ==
  [][\A t \in Tx : outcome'[t] \in Failures /\ outcome[t] \notin Failures =>
       t \notin ToSet(local')]_vars

(* When whenIdle() answers idle, the document is one the DataSource has:   *)
(* no local transaction is unconfirmed (#idleResult, #settleIdle).         *)
IdleIsPersisted ==
  [][\A w \in Waiters : waiter'[w] = "idle" /\ waiter[w] # "idle" =>
       local' = sourceDocument(srcRev)' ]_vars

-----------------------------------------------------------------------------
(* The coordinator keeps the promises of PersistenceQueue: its receipts    *)
(* move as a queue whose oldest is confirmed or fails, whose newest is     *)
(* cancelled, and the rest of which shares one fate.                       *)
Promise == INSTANCE PersistenceQueue WITH
  status  <- outcome,
  pending <- IF mode \in {"active", "recovering"} THEN queue ELSE <<>>,
  held    <- IF mode = "reloadRequired" THEN queue ELSE <<>>

PromiseKept == Promise!QSpec

-----------------------------------------------------------------------------
(* Liveness, under FairSpec.                                               *)

(* Every receipt resolves, whatever fails (BomRemoteCommitReceipt).        *)
ReceiptResolves == \A t \in Tx : outcome[t] = "pending" ~> outcome[t] # "pending"

(* Every whenIdle() promise resolves.                                      *)
IdleResolves == \A w \in Waiters : waiter[w] = "waiting" ~> waiter[w] # "waiting"

-----------------------------------------------------------------------------
(* What the documents promise and the code does not keep.                  *)

(* A cancelled transaction is not in the DataSource's document: cancelling *)
(* without asking the DataSource is for transactions that were never sent  *)
(* (cancelPending, after retryIndeterminate).                              *)
CancelledIsNotCommitted ==
  \A t \in Tx : outcome[t] = "cancelled" => t \notin ToSet(log)

(* The coordinator never expects a revision of the DataSource that holds a *)
(* commit of another client the local document lacks: committing on it     *)
(* would overwrite that commit unseen (#cancelInFlight).                   *)
NoSilentOverwrite ==
  mode = "active" /\ inFlight # NoTx =>
    \A i \in 1 .. srcRev : log[i] = Foreign => i \in DOMAIN local /\ local[i] = Foreign
=============================================================================
