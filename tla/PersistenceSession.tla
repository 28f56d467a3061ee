-------------------------- MODULE PersistenceSession --------------------------
(***************************************************************************)
(* The persistence session of an editor that is bound to a DataSource.     *)
(* All that touches the document goes through the editor's mutation queue  *)
(* (#enqueue), one work at a time: commands, undo, the handling of         *)
(* outcomes, remote envelopes, rollbacks, and the installation of a        *)
(* reloaded document.  What happens between two works (the coordinator,    *)
(* cancellations, loads, the subscription) interleaves with them, and      *)
(* every work was queued by a session that may be gone when it runs.       *)
(*                                                                         *)
(* A change adds a row of its own, or is a compensation that drops the     *)
(* row of another change.  The coordinator is reduced to what the session  *)
(* sees of it; CommitCoordinator models it in full.                        *)
(***************************************************************************)
EXTENDS Naturals, SequencesExt

CONSTANTS
    MaxOwn,          \* bound: local transactions, compensations included
    MaxOther,        \* bound: transactions of other editors
    HistoryEntries,  \* the engine's history budget, which may be 0
    MaxFaults,       \* bound: lost messages and answers, failed loads, refused commits
    MaxEpochs,       \* bound: sessions
    MaxUndos,        \* bound: calls of undo and replaceSource
    Cancels,         \* capabilities.cancelPendingCommit
    SendsOperations  \* does a conflict carry the remote operations?

ASSUME SessionAssumption ==
    /\ {MaxOwn, MaxOther, HistoryEntries, MaxFaults, MaxEpochs, MaxUndos} \subseteq Nat
    /\ {Cancels, SendsOperations} \subseteq BOOLEAN

Own   == {<<"own", n>> : n \in 1..MaxOwn}
Other == {<<"other", n>> : n \in 1..MaxOther}
None  == <<"none", 0>>
Change == {[tx |-> t, of |-> o] : t \in Own \cup Other, o \in Own \cup Other}

VARIABLES
    log,        \* the DataSource: the changes of its revisions 1, 2, ...
    late,       \* commit requests whose sender no longer waits for them
    wire,       \* revisions on their way to the subscriber
    engine,     \* doc, history (the undo stack), redo (is there an entry to redo?)
                \* and source (sourceRevision)
    session,    \* epoch, owners, order, own, rev, base, pre, stopped, reloading;
                \* raced, for the properties: an undo took the wrong entry or none
    coordinator,\* mode, queue, rev, expected, flight, answer, cancelling
    receipts,   \* what the receipt of an own transaction has resolved to
    tail,       \* the editor's mutation queue
    barrier,    \* #persistenceMutationBarrier
    undo,       \* the sourceUndo under way
    reload,     \* #performPersistenceReload: "no", "waiting", "loading", "queued"
    replacing,  \* the replaceSource or recoverPersistence under way
    spent       \* own, other, faults, undos: what the bounds count

sourceVars == <<log, late, wire>>
editorVars == <<engine, session, coordinator, receipts, tail>>
callVars   == <<barrier, undo, reload, replacing>>
vars == <<sourceVars, editorVars, callVars, spent>>

compensates(c) == c.of # c.tx
applicable(doc, c) == compensates(c) = (c.of \in ToSet(doc))
applyChange(doc, c) ==
    IF compensates(c) THEN SelectSeq(doc, LAMBDA t : t # c.of) ELSE Append(doc, c.tx)
sourceDocument(n) == FoldLeft(applyChange, <<>>, SubSeq(log, 1, n))
shift(queue) == SubSeq(queue, 2, Len(queue))
txOf(changes) == [k \in DOMAIN changes |-> changes[k].tx]

-----------------------------------------------------------------------------
(* The session *)

newSession(epoch, n) ==
    [epoch |-> epoch, owners |-> <<>>, order |-> <<>>,
     own |-> [t \in Own |-> [status |-> "none", rev |-> 0]],
     rev |-> n, base |-> n, pre |-> {}, stopped |-> FALSE, reloading |-> FALSE,
     raced |-> FALSE]
newCoordinator(n) ==
    [mode |-> "active", queue |-> <<>>, rev |-> n, expected |-> n,
     flight |-> "idle", answer |-> "none", seen |-> n, cancelling |-> FALSE]
newEngine(n) ==
    [doc |-> sourceDocument(n), history |-> <<>>, redo |-> FALSE, source |-> n]

noUndo == [at |-> "no", target |-> None, owner |-> None, epoch |-> 0, tx |-> None,
           reply |-> "none"]
noReplacement == [at |-> "no", how |-> "none", epoch |-> 0,
                  records |-> <<>>, taken |-> <<>>]

Init ==
    /\ log = <<>> /\ late = {} /\ wire = <<>>
    /\ engine = newEngine(0) /\ session = newSession(1, 0)
    /\ coordinator = newCoordinator(0)
    /\ receipts = [t \in Own |-> "none"] /\ tail = <<>>
    /\ barrier = FALSE /\ undo = noUndo /\ reload = "no" /\ replacing = noReplacement
    /\ spent = [own |-> 0, other |-> 0, faults |-> 0, undos |-> 0]

replacementPending == replacing.at # "no"
isSessionCurrent(epoch) == session.epoch = epoch

\* #persistenceForMutation
mutable ==
    /\ ~replacementPending /\ ~barrier
    /\ coordinator.mode = "active" /\ ~session.stopped /\ ~session.reloading

\* #transitionOwnTransaction.  A transaction that the session does not own
\* has the status "none".
transition(own, tx, status) ==
    [own EXCEPT ![tx].status = IF @ = "none" THEN @ ELSE status]
removePendingRecord(order, tx) == SelectSeq(order, LAMBDA c : c.tx # tx)

\* #requestPersistenceReload, as a function of the session.
requestReload(s) ==
    IF s.reloading THEN s
    ELSE [s EXCEPT !.reloading = TRUE, !.stopped = TRUE,
                   !.own = [t \in Own |->
                              IF t \in ToSet(txOf(s.order))
                              THEN [@[t] EXCEPT !.status = "reloadRequired"] ELSE @[t]]]

\* ... and the start of #performPersistenceReload.
reloadOf(next) ==
    IF next.reloading /\ ~session.reloading
    THEN (IF coordinator.queue # <<>> THEN "waiting" ELSE "loading") ELSE reload

work(kind) == [do |-> kind, epoch |-> session.epoch]
outcomes(changes, status) ==
    [k \in DOMAIN changes |->
        [do |-> "outcome", epoch |-> session.epoch, change |-> changes[k],
         status |-> status, rev |-> 0]]
settle(changes, status) ==
    [t \in Own |-> IF t \in ToSet(txOf(changes)) THEN status ELSE receipts[t]]

(* Mutant: undo waits for its transaction in the queue, and so holds it.      *)
TakeUnlessAwaiting == tail # <<>> /\ undo.at # "awaiting" /\ tail' = Tail(tail)

Take == tail # <<>> /\ tail' = Tail(tail)
spend(field) == spent' = [spent EXCEPT ![field] = @ + 1]
fault == spent.faults < MaxFaults /\ spend("faults")

-----------------------------------------------------------------------------
(* Local commits *)

(* Mutant: a compensation is taken for an entry of the undo history.         *)
registeredAsEntry(s, c, recordHistory) ==
    [s EXCEPT !.order = Append(@, c),
              !.own[c.tx] = [status |-> "pending", rev |-> 0],
              !.owners = Append(@, c.tx)]

\* The session after #registerLocalCommit; compensations leave no history.
registered(s, c, recordHistory) ==
    [s EXCEPT !.order = Append(@, c),
              !.own[c.tx] = [status |-> "pending", rev |-> 0],
              !.owners = IF recordHistory THEN Append(@, c.tx) ELSE @]
enqueued(c) == [coordinator EXCEPT !.queue = Append(@, c)]
accepts == coordinator.mode = "active" /\ ~coordinator.cancelling

\* The engine's history after an entry more; the oldest ones are evicted.
recorded(history, tx) ==
    LET all == Append(history, tx)
    IN  IF Len(all) > HistoryEntries THEN Tail(all) ELSE all

\* execute, applyPatch or transaction is called: the work waits in the queue.
Execute ==
    /\ spent.own < MaxOwn
    /\ spend("own")
    /\ tail' = Append(tail, [do |-> "execute", tx |-> <<"own", spent.own + 1>>])
    /\ UNCHANGED <<sourceVars, engine, session, coordinator, receipts, callVars>>

\* ... and runs, if mutations are allowed now.  The coordinator may have left
\* the active mode when the engine has committed, or find a reused key: then
\* the commit is taken back (#discardUnpublishedCommit), and the entry that it
\* evicted does not return; if it was evicted itself, the session reloads.
discarded(e, s) ==
    IF e.history = <<>>
    THEN [engine |-> e, session |-> requestReload(s)]
    ELSE [engine |-> [e EXCEPT !.doc = Front(@), !.history = Front(@)], session |-> s]
RunExecute ==
    /\ Take /\ Head(tail).do = "execute"
    /\ LET c    == [tx |-> Head(tail).tx, of |-> Head(tail).tx]
           done == [engine EXCEPT !.doc = applyChange(@, c), !.redo = FALSE,
                                  !.history = recorded(@, c.tx)]
       IN  \/ ~mutable /\ UNCHANGED <<engine, session, coordinator, spent>>
           \/ /\ mutable /\ accepts
              /\ engine' = done /\ session' = registered(session, c, TRUE)
              /\ coordinator' = enqueued(c)
              /\ UNCHANGED spent
           \/ /\ mutable /\ fault
              /\ \E left \in {discarded(done, session)} :
                    engine' = left.engine /\ session' = left.session
              /\ UNCHANGED coordinator
    /\ reload' = reloadOf(session')
    /\ UNCHANGED <<sourceVars, receipts, barrier, undo, replacing>>

\* #handlePersistenceOutcome, as a function of the session and the engine: an
\* acknowledgement, a demand to reload, or a refusal or cancellation.
handled(s, e, c, status, rev) ==
    LET next == [s EXCEPT !.own = transition(@, c.tx, status),
                          !.order = removePendingRecord(@, c.tx)]
    IN  CASE status = "acknowledged" /\ s.own[c.tx].rev \notin {0, rev} ->
               [session |-> requestReload([s EXCEPT !.own = transition(@, c.tx, "reloadRequired")]),
                engine |-> e]
          [] status = "acknowledged" /\ s.own[c.tx].rev \in {0, rev} ->
               [session |-> [next EXCEPT !.own[c.tx].rev = rev],
                engine |-> [e EXCEPT !.source = rev]]
          [] status = "reloadRequired" ->
               [session |-> requestReload([s EXCEPT !.own = transition(@, c.tx, status)]),
                engine |-> e]
          [] OTHER -> [session |-> next, engine |-> e]

RunOutcome ==
    /\ Take /\ Head(tail).do = "outcome"
    /\ IF isSessionCurrent(Head(tail).epoch)
       THEN \E next \in {handled(session, engine, Head(tail).change, Head(tail).status,
                                 Head(tail).rev)} :
              session' = next.session /\ engine' = next.engine /\ reload' = reloadOf(next.session)
       ELSE UNCHANGED <<session, engine, reload>>
    /\ UNCHANGED <<sourceVars, coordinator, receipts, barrier, undo, replacing, spent>>

-----------------------------------------------------------------------------
(* The coordinator and the DataSource *)

\* The oldest transaction is sent, with the source revision that was confirmed.
Send ==
    /\ coordinator.mode = "active" /\ coordinator.queue # <<>>
    /\ coordinator.flight = "idle" /\ ~coordinator.cancelling
    /\ coordinator' = [coordinator EXCEPT !.flight = "sent", !.expected = coordinator.rev]
    /\ UNCHANGED <<sourceVars, engine, session, receipts, tail, callVars, spent>>

published(c) ==
    /\ log' = Append(log, c)
    /\ wire' = IF session.stopped THEN wire ELSE Append(wire, Len(log) + 1)

replies(answer) ==
    coordinator' = [coordinator EXCEPT !.flight = "answered", !.answer = answer,
                                       !.seen = Len(log')]

\* DataSource.commit: accepted, refused, or in conflict with newer revisions.
Commit ==
    /\ coordinator.flight = "sent"
    /\ \/ /\ coordinator.expected = Len(log)
          /\ published(Head(coordinator.queue)) /\ replies("acknowledged")
       \/ /\ coordinator.expected = Len(log)
          /\ UNCHANGED <<log, wire>> /\ replies("rejected")
       \/ /\ coordinator.expected # Len(log)
          /\ UNCHANGED <<log, wire>> /\ replies("conflicted")
    /\ UNCHANGED <<late, engine, session, receipts, tail, callVars, spent>>

\* commit() throws: the request may be on its way still, or have been applied.
CommitThrows ==
    /\ fault /\ coordinator.flight = "sent"
    /\ \/ /\ coordinator.expected = Len(log) /\ published(Head(coordinator.queue))
          /\ UNCHANGED late
       \/ /\ late' = late \cup {[change |-> Head(coordinator.queue),
                                 expected |-> coordinator.expected]}
          /\ UNCHANGED <<log, wire>>
    /\ replies("thrown")
    /\ UNCHANGED <<engine, session, receipts, tail, callVars>>

CommitLate ==
    /\ \E r \in late : /\ r.expected = Len(log) /\ published(r.change)
                       /\ late' = late \ {r}
    /\ UNCHANGED <<editorVars, callVars, spent>>

\* All receipts become reloadRequired, and the queue is kept.
suspended ==
    [coordinator EXCEPT !.mode = "reloadRequired", !.flight = "idle", !.cancelling = FALSE]

\* The answer arrives.  It also ends a cancellation that was asked for meanwhile.
Answered ==
    /\ coordinator.flight = "answered"
    /\ LET queue == coordinator.queue
           next  == [coordinator EXCEPT !.flight = "idle", !.cancelling = FALSE]
       IN  CASE coordinator.answer = "acknowledged" ->
                  /\ coordinator' = [next EXCEPT !.queue = shift(@),
                                            !.rev = coordinator.seen]
                  /\ receipts' = settle(<<Head(queue)>>, "acknowledged")
                  /\ tail' = Append(tail, [do |-> "outcome", epoch |-> session.epoch,
                                           change |-> Head(queue), status |-> "acknowledged",
                                           rev |-> coordinator.seen])
             [] coordinator.answer \in {"rejected", "conflicted"} ->
                  /\ coordinator' = [next EXCEPT !.mode = "recovering"]
                  /\ tail' = Append(tail, work("rollback"))
                  /\ UNCHANGED receipts
             [] coordinator.answer = "thrown" ->
                  /\ coordinator' = suspended
                  /\ receipts' = settle(queue, "reloadRequired")
                  /\ tail' = tail \o outcomes(queue, "reloadRequired")
    /\ UNCHANGED <<sourceVars, engine, session, callVars, spent>>

\* The remote changes that a conflict reports: all since the revision the
\* commit expected.
remoteOperations(n) == SubSeq(log, coordinator.expected + 1, n)
applied(doc, changes) ==
    FoldLeft(LAMBDA r, c : [ok  |-> r.ok /\ applicable(r.doc, c),
                            doc |-> applyChange(r.doc, c)],
             [ok |-> TRUE, doc |-> doc], changes)

\* #rollbackPersistence, in the queue: undo the suffix, apply the remote
\* changes of a conflict, replay the descendants of the failed transaction,
\* which then end the history and its owners again.
spliced(ids, n, replayed) == SubSeq(ids, 1, Len(ids) - n) \o replayed
rollbackAllowed(suffix) ==
    /\ ~compensates(Head(suffix)) /\ ~engine.redo
    /\ coordinator.answer = "conflicted" => SendsOperations
    /\ IsSuffix(txOf(suffix), session.owners)
    /\ IsSuffix(txOf(suffix), engine.history)

RunRollback ==
    /\ Take /\ Head(tail).do = "rollback"
    /\ LET suffix == coordinator.queue
           n      == coordinator.seen
           conflicted == coordinator.answer = "conflicted"
           rebuilt == applied(SelectSeq(engine.doc, LAMBDA t : t \notin ToSet(txOf(suffix))),
                              (IF conflicted THEN remoteOperations(n) ELSE <<>>)
                                \o shift(suffix))
           reconciled(ids) == spliced(ids, Len(suffix), txOf(shift(suffix)))
           conclude(result) == coordinator' = [coordinator EXCEPT !.mode = result]
       IN  IF ~isSessionCurrent(Head(tail).epoch)
           THEN UNCHANGED <<engine, session, coordinator>>
           ELSE IF rollbackAllowed(suffix) /\ rebuilt.ok
           THEN /\ engine' = [engine EXCEPT !.doc = rebuilt.doc, !.history = reconciled(@),
                                             !.source = IF conflicted THEN n ELSE @]
                /\ session' = [session EXCEPT !.owners = reconciled(@),
                                 !.own = [t \in Own |->
                                   IF t \in ToSet(txOf(shift(suffix)))
                                   THEN [status |-> "pending", rev |-> 0] ELSE @[t]],
                                 !.pre = IF conflicted THEN @ \cup {<<n, remoteOperations(n)>>}
                                         ELSE @]
                /\ conclude("rolledBack")
           ELSE conclude("rollbackFailed") /\ UNCHANGED <<engine, session>>
    /\ UNCHANGED <<sourceVars, receipts, callVars, spent>>

\* The coordinator goes on after the rollback hook, or suspends.
Recovered ==
    /\ coordinator.mode \in {"rolledBack", "rollbackFailed"}
    /\ LET queue == coordinator.queue
           conflicted == coordinator.answer = "conflicted"
       IN  IF coordinator.mode = "rolledBack"
           THEN /\ coordinator' = [coordinator EXCEPT !.mode = "active", !.queue = shift(@),
                                     !.rev = IF conflicted THEN coordinator.seen ELSE @]
                /\ receipts' = settle(<<Head(queue)>>, coordinator.answer)
                /\ tail' = tail \o outcomes(<<Head(queue)>>, coordinator.answer)
           ELSE /\ coordinator' = suspended
                /\ receipts' = settle(queue, "reloadRequired")
                /\ tail' = tail \o outcomes(queue, "reloadRequired")
    /\ UNCHANGED <<sourceVars, engine, session, callVars, spent>>

-----------------------------------------------------------------------------
(* Remote changes *)

OtherCommits ==
    /\ spent.other < MaxOther /\ spend("other")
    /\ LET t == <<"other", spent.other + 1>> IN published([tx |-> t, of |-> t])
    /\ UNCHANGED <<late, editorVars, callVars>>

\* #captureRemoteEnvelope.  The envelope of revision n carries the sequence
\* number n and the previous revision n - 1.
Deliver ==
    /\ wire # <<>> /\ wire' = Tail(wire)
    /\ tail' = IF session.stopped THEN tail
               ELSE Append(tail, [do |-> "envelope", epoch |-> session.epoch,
                                  rev |-> Head(wire)])
    /\ UNCHANGED <<log, late, engine, session, coordinator, receipts, callVars, spent>>

Lose ==
    /\ fault /\ wire # <<>> /\ wire' = Tail(wire)
    /\ UNCHANGED <<log, late, editorVars, callVars>>

Duplicate ==
    /\ fault /\ wire # <<>> /\ wire' = <<Head(wire)>> \o wire
    /\ UNCHANGED <<log, late, editorVars, callVars>>

(* Mutant: remote changes are applied under pending local ones.              *)
verdictWhilePending(n) ==
    LET c == log[n]
    IN  IF session.base < n /\ n <= session.rev THEN "duplicate"
        ELSE IF n # session.rev + 1 THEN "fail"
        ELSE IF c.tx \in Own /\ session.own[c.tx].status # "none" THEN "echo"
        ELSE IF applicable(engine.doc, c) THEN "apply" ELSE "fail"

\* #handleRemoteEnvelope: what becomes of the envelope of revision n.
verdict(n) ==
    LET c   == log[n]
        own == IF c.tx \in Own THEN session.own[c.tx] ELSE [status |-> "none", rev |-> 0]
        pre == {p \in session.pre : p[1] = n}
        refused == own.status \in {"cancelled", "rejected", "conflicted", "reloadRequired"}
    IN  IF session.base < n /\ n <= session.rev THEN "duplicate"
        ELSE IF n # session.rev + 1 THEN "fail"
        ELSE IF own.status # "none"
        THEN IF refused \/ own.rev \notin {0, n} THEN "fail" ELSE "echo"
        ELSE IF pre # {}
        THEN IF \E p \in pre : p[2] = <<c>> THEN "applied before" ELSE "fail"
        ELSE IF \/ session.order # <<>> \/ coordinator.queue # <<>>
                \/ ~applicable(engine.doc, c)
        THEN "fail" ELSE "apply"

RunEnvelope ==
    /\ Take /\ Head(tail).do = "envelope"
    /\ LET n == Head(tail).rev
           c == log[n]
           patched == [engine EXCEPT !.doc = applyChange(@, c), !.redo = FALSE,
                                     !.history = recorded(@, c.tx)]
           fails == session' = requestReload(session)
           does(v) ==
             CASE v = "duplicate" -> UNCHANGED <<engine, session>>
               [] v = "fail" -> fails /\ UNCHANGED engine
               [] v = "echo" ->
                    /\ session' = [session EXCEPT !.rev = n, !.own[c.tx].rev = n]
                    /\ UNCHANGED engine
               [] v = "applied before" ->
                    /\ session' = [session EXCEPT !.rev = n, !.pre = {p \in @ : p[1] # n}]
                    /\ UNCHANGED engine
               [] v = "apply" /\ engine.source = n - 1 ->
                    /\ engine' = [patched EXCEPT !.source = n]
                    /\ session' = [session EXCEPT !.rev = n, !.owners = Append(@, c.tx)]
               [] v = "apply" /\ engine.source # n - 1 -> fails /\ engine' = patched
       IN  IF isSessionCurrent(Head(tail).epoch) /\ ~session.stopped
           THEN \E v \in {verdict(n)} : does(v)
           ELSE UNCHANGED <<engine, session>>
    /\ reload' = reloadOf(session')
    /\ UNCHANGED <<sourceVars, coordinator, receipts, barrier, undo, replacing, spent>>

\* The subscription reports an error, or that a resync is required.
SubscriptionFails ==
    /\ fault /\ ~session.stopped
    /\ session' = requestReload(session) /\ reload' = reloadOf(session')
    /\ UNCHANGED <<sourceVars, engine, coordinator, receipts, tail, barrier, undo, replacing>>

-----------------------------------------------------------------------------
(* Reload *)

\* whenIdle() answers, once every commit has an outcome or the coordinator gave up.
ReloadIdle ==
    /\ reload = "waiting"
    /\ \/ /\ coordinator.queue = <<>> /\ coordinator.mode = "active"
          /\ reload' = "loading" /\ UNCHANGED session
       \/ /\ coordinator.mode = "reloadRequired"
          /\ reload' = "no" /\ session' = [session EXCEPT !.reloading = FALSE]
    /\ UNCHANGED <<sourceVars, engine, coordinator, receipts, tail, barrier, undo, replacing, spent>>

installs(kind) == Append(tail, [do |-> kind, epoch |-> session.epoch, rev |-> Len(log)])

ReloadLoaded ==
    /\ reload = "loading" /\ reload' = "queued" /\ tail' = installs("reload")
    /\ UNCHANGED <<sourceVars, engine, session, coordinator, receipts, barrier, undo,
                   replacing, spent>>

ReloadFails ==
    /\ fault /\ reload = "loading" /\ reload' = "no"
    /\ session' = [session EXCEPT !.reloading = FALSE]
    /\ UNCHANGED <<sourceVars, engine, coordinator, receipts, tail, barrier, undo, replacing>>

\* #replaceDocument, #deactivatePersistenceSession and
\* #activatePersistenceSession.  A request in flight is left to the DataSource.
install(n) ==
    /\ engine' = newEngine(n) /\ session' = newSession(session.epoch + 1, n)
    /\ coordinator' = newCoordinator(n) /\ reload' = "no" /\ wire' = <<>>
    /\ receipts' = [t \in Own |-> IF t \in ToSet(txOf(coordinator.queue)) /\ receipts[t] = "none"
                                  THEN "aborted" ELSE receipts[t]]
    /\ late' = late \cup
         (IF coordinator.flight = "sent"
          THEN {[change |-> Head(coordinator.queue), expected |-> coordinator.expected]} ELSE {})

RunReload ==
    /\ Take /\ Head(tail).do = "reload"
    /\ IF isSessionCurrent(Head(tail).epoch)
       THEN install(Head(tail).rev)
       ELSE UNCHANGED <<engine, session, coordinator, receipts, reload, wire, late>>
    /\ UNCHANGED <<log, barrier, undo, replacing, spent>>

-----------------------------------------------------------------------------
(* Cancellation, undo *)

\* What cancelPending(t) does at once: only the newest transaction can be taken
\* back, it goes if it was not sent, and else the DataSource is asked.
cancelStarts(t) ==
    IF \/ coordinator.mode # "active" \/ coordinator.cancelling
       \/ coordinator.queue = <<>> \/ Last(coordinator.queue).tx # t
    THEN "declined"
    ELSE IF Len(coordinator.queue) > 1 \/ coordinator.flight = "idle" THEN "cancelled"
    ELSE IF Cancels THEN "asked" ELSE "declined"

takesBack ==
    /\ coordinator' = [coordinator EXCEPT !.queue = Front(@), !.cancelling = FALSE,
                         !.flight = IF Len(coordinator.queue) = 1 THEN "idle" ELSE @]
    /\ receipts' = settle(<<Last(coordinator.queue)>>, "cancelled")
    /\ tail' = tail \o outcomes(<<Last(coordinator.queue)>>, "cancelled")

Cancel(t) ==
    CASE cancelStarts(t) = "cancelled" -> takesBack
      [] cancelStarts(t) = "asked" ->
           /\ coordinator' = [coordinator EXCEPT !.cancelling = TRUE]
           /\ UNCHANGED <<receipts, tail>>
      [] cancelStarts(t) = "declined" -> UNCHANGED <<coordinator, receipts, tail>>

\* DataSource.cancelCommit agrees, if it did not answer the commit, or declines.
replied(reply) == undo' = [undo EXCEPT !.reply = IF @ = "asked" THEN reply ELSE @]
CancelAnswered ==
    /\ coordinator.cancelling
    /\ \/ coordinator.flight = "sent" /\ takesBack /\ replied("cancelled")
       \/ /\ coordinator' = [coordinator EXCEPT !.cancelling = FALSE] /\ replied("declined")
          /\ UNCHANGED <<receipts, tail>>
    /\ UNCHANGED <<sourceVars, engine, session, barrier, reload, replacing, spent>>

\* #sourceUndo, to the first await.
historyOwner == IF session.owners = <<>> THEN None ELSE Last(session.owners)
pendingTarget == IF session.order = <<>> THEN None ELSE Last(session.order).tx
UndoStarts ==
    /\ spent.undos < MaxUndos /\ spent.own < MaxOwn
    /\ spent' = [spent EXCEPT !.undos = @ + 1, !.own = @ + 1]
    /\ undo.at = "no" /\ mutable /\ historyOwner \notin Other
    /\ barrier' = TRUE
    /\ undo' = [target |-> pendingTarget, owner |-> historyOwner, epoch |-> session.epoch,
                tx |-> <<"own", spent.own + 1>>,
                reply |-> IF pendingTarget # None /\ pendingTarget = historyOwner
                          THEN cancelStarts(pendingTarget) ELSE "none",
                at |-> IF pendingTarget = None THEN "queued"
                       ELSE IF pendingTarget = historyOwner THEN "cancelling" ELSE "awaiting"]
    /\ CASE undo'.at = "cancelling" -> Cancel(pendingTarget)
         [] undo'.at = "queued" -> /\ tail' = Append(tail, work("undo"))
                                   /\ UNCHANGED <<coordinator, receipts>>
         [] undo'.at = "awaiting" -> UNCHANGED <<coordinator, receipts, tail>>
    /\ UNCHANGED <<sourceVars, engine, session, reload, replacing>>

\* cancelPending has replied: go on, wait for the outcome, or give up since the
\* session has gone.  A commit that was answered meanwhile is no cancellation.
UndoCancelled ==
    /\ undo.at = "cancelling" /\ ~coordinator.cancelling
    /\ IF isSessionCurrent(undo.epoch)
       THEN /\ undo' = [undo EXCEPT !.at =
                          IF undo.reply = "cancelled" THEN "enqueue" ELSE "awaiting"]
            /\ UNCHANGED barrier
       ELSE undo' = noUndo /\ barrier' = FALSE
    /\ UNCHANGED <<sourceVars, editorVars, reload, replacing, spent>>

UndoEnqueues ==
    /\ \/ undo.at = "enqueue"
       \/ undo.at = "awaiting" /\ receipts[undo.target] # "none"
    /\ undo' = [undo EXCEPT !.at = "queued"]
    /\ tail' = Append(tail, [do |-> "undo", epoch |-> undo.epoch])
    /\ UNCHANGED <<sourceVars, engine, session, coordinator, receipts, barrier, reload,
                   replacing, spent>>

\* The work of #sourceUndo: the outcome of the target first, then engine.undo(),
\* of which a compensation is committed unless cancelPending took the target back.
undone(e) ==
    [e EXCEPT !.history = Front(@), !.redo = TRUE,
              !.doc = SelectSeq(@, LAMBDA t : t # Last(e.history))]
RunUndo ==
    /\ Take /\ Head(tail).do = "undo"
    /\ LET target    == undo.target
           status    == IF target = None THEN "none" ELSE receipts[target]
           cancelled == undo.reply = "cancelled"
           targets == {c \in ToSet(session.order) : c.tx = target}
           settled ==
             IF cancelled \/ targets = {}
             THEN {[session |-> [session EXCEPT !.order = removePendingRecord(@, target)],
                    engine |-> engine]}
             ELSE {handled(session, engine, c, status, coordinator.rev) : c \in targets}
           compensation(e) == [tx |-> undo.tx, of |-> Last(e.history)]
           popped(s) == [s EXCEPT !.owners = IF @ = <<>> THEN @ ELSE Front(@)]
           seen(s, e) == [s EXCEPT !.raced = @ \/ Last(e.history) # undo.owner]
           missed(s) == [s EXCEPT !.raced = @ \/ cancelled]
           refused == status \in {"rejected", "conflicted", "reloadRequired"}
           does(s, e) ==
             IF refused \/ (e.history # <<>> /\ ~cancelled /\ ~accepts)
             THEN session' = s /\ engine' = e /\ UNCHANGED coordinator
             ELSE IF e.history = <<>>
             THEN session' = missed(s) /\ engine' = e /\ UNCHANGED coordinator
             ELSE IF cancelled
             THEN session' = popped(seen(s, e)) /\ engine' = undone(e) /\ UNCHANGED coordinator
             ELSE /\ session' = popped(registered(seen(s, e), compensation(e), FALSE))
                  /\ engine' = undone(e)
                  /\ coordinator' = enqueued(compensation(e))
       IN  IF isSessionCurrent(Head(tail).epoch)
           THEN \E next \in settled : does(next.session, next.engine)
           ELSE UNCHANGED <<session, engine, coordinator>>
    /\ undo' = noUndo /\ barrier' = FALSE /\ reload' = reloadOf(session')
    /\ UNCHANGED <<sourceVars, receipts, replacing, spent>>

-----------------------------------------------------------------------------
(* replaceSource and recoverPersistence *)

\* replaceSource first waits for pending transactions, or takes them back.
ReplaceStarts ==
    /\ spent.undos < MaxUndos /\ spend("undos") /\ session.epoch < MaxEpochs
    /\ ~replacementPending
    /\ \E at \in {"idle", "cancelling"} :
         LET quiet == coordinator.queue = <<>> \/ coordinator.mode = "reloadRequired"
         IN  /\ ~quiet /\ at = "cancelling" =>
                  /\ Cancels /\ Len(session.order) = Len(coordinator.queue)
                  /\ \A k \in DOMAIN session.order : ~compensates(session.order[k])
             /\ replacing' = [at |-> IF quiet THEN "loading" ELSE at, how |-> "replace",
                              epoch |-> session.epoch, records |-> session.order,
                              taken |-> <<>>]
             /\ barrier' = IF ~quiet /\ at = "cancelling" THEN TRUE ELSE barrier
    /\ UNCHANGED <<sourceVars, editorVars, undo, reload>>

ReplaceIdle ==
    /\ replacing.at = "idle"
    /\ \/ /\ coordinator.queue = <<>> /\ coordinator.mode = "active"
          /\ replacing' = [replacing EXCEPT !.at = "loading"]
       \/ /\ coordinator.mode = "reloadRequired" \/ session.epoch # replacing.epoch
          /\ replacing' = noReplacement
    /\ UNCHANGED <<sourceVars, editorVars, barrier, undo, reload, spent>>

\* #abortAndRollbackPendingPersistence: take back one after the other, the
\* newest first.  If one cannot be taken back, the document is reloaded.
ReplaceCancels ==
    /\ replacing.at = "cancelling" /\ replacing.records # <<>>
    /\ Cancel(Last(replacing.records).tx)
    /\ replacing' = [replacing EXCEPT !.at = "asked"]
    /\ UNCHANGED <<sourceVars, engine, session, barrier, undo, reload, spent>>

givesUp(next) ==
    /\ session' = next /\ reload' = reloadOf(next)
    /\ replacing' = noReplacement /\ barrier' = FALSE

ReplaceCancelled ==
    /\ replacing.at = "asked" /\ ~coordinator.cancelling
    /\ LET cancelled == receipts[Last(replacing.records).tx] = "cancelled"
           current   == isSessionCurrent(replacing.epoch)
       IN  IF cancelled /\ current
           THEN /\ replacing' = [replacing EXCEPT !.at = "cancelling", !.records = Front(@),
                                                  !.taken = <<Last(replacing.records)>> \o @]
                /\ UNCHANGED <<session, reload, barrier>>
           ELSE givesUp(IF current THEN requestReload(session) ELSE session)
    /\ UNCHANGED <<sourceVars, engine, coordinator, receipts, tail, undo, spent>>

ReplaceRollsBack ==
    /\ replacing.at = "cancelling" /\ replacing.records = <<>>
    /\ IF coordinator.queue = <<>>
       THEN /\ tail' = Append(tail, work("rollbackSuffix"))
            /\ replacing' = [replacing EXCEPT !.at = "rollingBack"]
            /\ barrier' = FALSE /\ UNCHANGED <<session, reload>>
       ELSE givesUp(requestReload(session)) /\ UNCHANGED tail
    /\ UNCHANGED <<sourceVars, engine, coordinator, receipts, undo, spent>>

\* #rollbackCancelledPersistenceSuffix, in the queue.
RunRollbackSuffix ==
    /\ Take /\ Head(tail).do = "rollbackSuffix"
    /\ LET taken == ToSet(txOf(replacing.taken))
           shortened(ids) == spliced(ids, Len(replacing.taken), <<>>)
           remaining == SelectSeq(engine.doc, LAMBDA t : t \notin taken)
           allowed == /\ ~engine.redo
                      /\ IsSuffix(txOf(replacing.taken), session.owners)
                      /\ IsSuffix(txOf(replacing.taken), engine.history)
       IN  IF ~isSessionCurrent(Head(tail).epoch)
           THEN replacing' = noReplacement /\ UNCHANGED <<engine, session, reload>>
           ELSE IF allowed
           THEN /\ engine' = [engine EXCEPT !.doc = remaining, !.history = shortened(@)]
                /\ session' = [session EXCEPT !.owners = shortened(@),
                                 !.order = SelectSeq(@, LAMBDA c : c.tx \notin taken),
                                 !.own = [t \in Own |-> IF t \in taken
                                   THEN [status |-> "cancelled", rev |-> coordinator.rev] ELSE @[t]]]
                /\ replacing' = [replacing EXCEPT !.at = "loading"] /\ UNCHANGED reload
           ELSE /\ session' = requestReload(session) /\ reload' = reloadOf(session')
                /\ replacing' = noReplacement /\ UNCHANGED engine
    /\ UNCHANGED <<sourceVars, coordinator, receipts, barrier, undo, spent>>

RecoverStarts ==
    /\ ~replacementPending /\ coordinator.mode = "reloadRequired" /\ session.epoch < MaxEpochs
    /\ replacing' = [noReplacement EXCEPT !.at = "loading", !.how = "recover",
                                          !.epoch = session.epoch]
    /\ UNCHANGED <<sourceVars, editorVars, barrier, undo, reload, spent>>

\* The document is loaded: its installation waits in the queue.  Or it is not.
ReplaceLoaded ==
    /\ replacing.at = "loading"
    /\ IF replacing.how = "replace" /\ ~isSessionCurrent(replacing.epoch)
       THEN replacing' = noReplacement /\ UNCHANGED tail
       ELSE replacing' = [replacing EXCEPT !.at = "queued"] /\ tail' = installs("replace")
    /\ UNCHANGED <<sourceVars, engine, session, coordinator, receipts, barrier, undo, reload, spent>>

ReplaceFails ==
    /\ fault /\ replacing.at = "loading" /\ replacing' = noReplacement
    /\ UNCHANGED <<sourceVars, editorVars, barrier, undo, reload>>

RunReplace ==
    /\ Take /\ Head(tail).do = "replace" /\ replacing' = noReplacement
    /\ IF /\ isSessionCurrent(replacing.epoch)
          /\ replacing.how = "recover" => coordinator.mode = "reloadRequired"
       THEN install(Head(tail).rev)
       ELSE UNCHANGED <<engine, session, coordinator, receipts, reload, wire, late>>
    /\ UNCHANGED <<log, barrier, undo, spent>>

-----------------------------------------------------------------------------
Works == \/ RunExecute \/ RunOutcome \/ RunRollback \/ RunEnvelope \/ RunReload
         \/ RunUndo \/ RunRollbackSuffix \/ RunReplace
Continues ==
    \/ UndoCancelled \/ UndoEnqueues \/ ReloadIdle \/ ReloadLoaded
    \/ ReplaceIdle \/ ReplaceCancels \/ ReplaceCancelled \/ ReplaceRollsBack \/ ReplaceLoaded
Coordinates == Send \/ Commit \/ Answered \/ Recovered \/ CancelAnswered
Calls == Execute \/ UndoStarts \/ ReplaceStarts \/ RecoverStarts
Environment ==
    \/ OtherCommits \/ Deliver \/ Lose \/ Duplicate \/ CommitThrows \/ CommitLate
    \/ SubscriptionFails \/ ReloadFails \/ ReplaceFails

Next == Works \/ Continues \/ Coordinates \/ Calls \/ Environment

\* The queue runs its works, awaited calls are resumed, and the DataSource
\* answers what it is asked.  Nobody has to call, commit or recover.
Fairness == WF_vars(Works) /\ WF_vars(Continues) /\ WF_vars(Coordinates)

Spec == Init /\ [][Next]_vars
FairSpec == Spec /\ Fairness

-----------------------------------------------------------------------------
(* Properties *)

\* While the session works normally, the local document is the document of
\* the newest revision that the editor knows of, plus the queued changes: none
\* is lost, applied twice, or left over after it was refused or taken back.
\* Excluded by name (raced): an undo whose entry was no longer the last one of
\* the engine's history, or had been evicted from it.
known == CHOOSE n \in {session.rev, engine.source, coordinator.rev} :
            \A m \in {session.rev, engine.source, coordinator.rev} : m <= n
unconfirmed ==
    SelectSeq(coordinator.queue, LAMBDA c : c \notin ToSet(SubSeq(log, 1, known)))
calm == /\ coordinator.mode = "active" /\ ~session.stopped
        /\ undo.at = "no" /\ ~replacementPending /\ ~session.raced
LocalIsSourcePlusQueue ==
    calm => engine.doc = FoldLeft(applyChange, sourceDocument(known), unconfirmed)

\* The session knows who made each entry of the engine's history.  A rollback
\* trusts that, and so does undo when it spares the changes of others.  A session
\* that has stopped may miss one: a remote change that was applied and whose
\* revision was then refused stays in the engine until the reload.
OwnersCoverHistory == ~session.stopped => IsSuffix(engine.history, session.owners)

\* An undo ends, whatever happens to the transaction it waits for: it waits
\* outside the queue, in which the coordinator rolls back.
UndoEnds == (undo.at # "no") ~> (undo.at = "no")

\* "Remote transactions must not be undone implicitly": a change of another
\* editor leaves the document only when the document is replaced.
RemoteIsNotUndone ==
    [][session'.epoch = session.epoch =>
         ToSet(engine.doc) \cap Other \subseteq ToSet(engine'.doc)]_vars
==============================================================================
