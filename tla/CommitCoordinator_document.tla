---------------------- MODULE CommitCoordinator_document ----------------------
(***************************************************************************)
(* Proof that the local document is the DataSource's document at           *)
(* #sourceRevision followed by the queue, as long as the coordinator can   *)
(* continue with its queue.  What makes it true when an acknowledgement    *)
(* arrives, perhaps long after the commit and after several attempts, is   *)
(* that nothing of the queue can be in the DataSource's log anywhere but   *)
(* right behind #sourceRevision.                                           *)
(*                                                                         *)
(* It is proved for a coordinator that keeps its #sourceRevision when a    *)
(* cancellation is agreed to: with CancelReportsHead it does not hold      *)
(* (NoSilentOverwrite).                                                    *)
(***************************************************************************)
EXTENDS CommitCoordinator_proofs

RecoveryOrder ==
  /\ \A r \in recoveries : r.epoch <= epoch
  /\ \A r \in recoveries : r.epoch = epoch => ownsRecovery(r)
  /\ \A r, s \in recoveries : r.epoch = epoch /\ s.epoch = epoch => r = s

(* Who was not dispatched is not at the DataSource, nor on the way.        *)
SentWasAttempted ==
  /\ \A i \in DOMAIN log : log[i] \in Tx => attempt[log[i]] > 0
  /\ \A c \in calls : attempt[c.tx] > 0
  /\ \A z \in zombies : attempt[z.tx] > 0

AnsweredTruthfully ==
  \A c \in calls : c.reply.status = "acknowledged" =>
    c.reply.rev \in DOMAIN log /\ log[c.reply.rev] = c.tx

(* The DataSource has a queued transaction, or will get it, only at the    *)
(* revision that follows #sourceRevision.                                  *)
SentAtRevision ==
  canContinue => \A t \in ToSet(queue) :
    /\ \A i \in DOMAIN log : log[i] = t => i = srcRev + 1
    /\ \A z \in zombies : z.tx = t => z.exp = srcRev
    /\ \A c \in calls : c.tx = t => c.exp = srcRev

ReplayStartsFromSource ==
  \A r \in recoveries : ownsRecovery(r) /\ r.phase = "replay" =>
    local = sourceDocument(acceptedRevision(r))

DocInv ==
  /\ RecoveryOrder
  /\ SentWasAttempted
  /\ AnsweredTruthfully
  /\ SentAtRevision
  /\ ReplayStartsFromSource
  /\ DocumentIsSourcePlusQueue

FullInv == AllInv /\ DocInv

LEMMA DocInit == Init => DocInv
<1>. SUFFICES ASSUME Init PROVE DocInv
  OBVIOUS
<1>1. queue = <<>> /\ local = <<>> /\ log = <<>> /\ srcRev = 0 /\ calls = {}
      /\ zombies = {} /\ recoveries = {}
  BY DEF Init
<1>2. sourceDocument(0) = <<>>
  BY SubSeqEmpty DEF sourceDocument
<1>3. DOMAIN log = {} /\ ToSet(queue) = {}
  BY <1>1 DEF ToSet
<1>4. local = sourceDocument(srcRev) \o queue
  BY <1>1, <1>2, EmptySeq, ConcatEmptySeq
<1>. QED
  BY <1>1, <1>3, <1>4
  DEF DocInv, RecoveryOrder, SentWasAttempted, AnsweredTruthfully, SentAtRevision,
      ReplayStartsFromSource, DocumentIsSourcePlusQueue

-----------------------------------------------------------------------------
(* What the parts of the invariant need of a step.                         *)

Commits == Tx \cup {Foreign}

LEMMA DocTypes ==
  ASSUME AllInv
  PROVE  /\ queue \in Seq(Tx) /\ queue \in Seq(Commits) /\ IsInjective(queue)
         /\ ToSet(queue) \subseteq Tx
         /\ log \in Seq(Commits) /\ Len(log) \in Nat /\ DOMAIN log = 1 .. Len(log)
         /\ srcRev \in 0 .. Len(log) /\ srcRev \in Nat
         /\ sourceDocument(srcRev) \in Seq(Commits)
         /\ attempt \in [Tx -> Nat] /\ epoch \in Nat
         /\ \A c \in calls : c \in Calls /\ c.tx \in Tx
         /\ \A z \in zombies : z.tx \in Tx
         /\ \A r \in recoveries : r \in Recoveries /\ r.epoch \in Nat
<1>1. queue \in Seq(Tx) /\ log \in Seq(Commits)
  BY DEF AllInv, TypeInv, TypeOK, CoordinatorTypes, WorldTypes, Commits
<1>2. queue \in Seq(Commits)
  BY <1>1, SeqMonotonic DEF Commits
<1>3. ToSet(queue) \subseteq Tx
  BY <1>1, ToSetFacts, ElementOfSeq
<1>4. Len(log) \in Nat /\ DOMAIN log = 1 .. Len(log)
  BY <1>1, ToSetFacts
<1>5. srcRev \in 0 .. Len(log)
  BY DEF AllInv, TypeInv, RevisionsExist
<1>6. sourceDocument(srcRev) \in Seq(Commits)
  BY <1>5, SourceDocumentIsSeq DEF AllInv, Commits
<1>7. /\ attempt \in [Tx -> Nat] /\ epoch \in Nat /\ IsInjective(queue)
      /\ \A c \in calls : c \in Calls /\ c.tx \in Tx
      /\ \A z \in zombies : z.tx \in Tx
      /\ \A r \in recoveries : r \in Recoveries /\ r.epoch \in Nat
  BY DEF AllInv, TypeInv, TypeOK, CoordinatorTypes, RecordTypes, AwaitTypes, WorldTypes,
         Calls, Zombies, Recoveries, QueueConsistent
<1>. QED
  BY <1>1, <1>2, <1>3, <1>4, <1>5, <1>6, <1>7

LEMMA RecoveriesKept ==
  ASSUME RecoveryOrder, recoveries' \subseteq recoveries, epoch' = epoch,
         \A r \in recoveries' : ownsRecovery(r) => ownsRecovery(r)'
  PROVE  RecoveryOrder'
BY DEF RecoveryOrder

LEMMA RecoveriesLate ==
  ASSUME AllInv, RecoveryOrder, recoveries' \subseteq recoveries, epoch' = epoch + 1
  PROVE  RecoveryOrder'
<1>1. \A r \in recoveries' : r.epoch <= epoch' /\ r.epoch # epoch'
  BY DocTypes DEF RecoveryOrder
<1>. QED
  BY <1>1 DEF RecoveryOrder

LEMMA RecoveryEnds ==
  ASSUME RecoveryOrder, NEW r \in recoveries, ownsRecovery(r),
         recoveries' = recoveries \ {r}, epoch' = epoch
  PROVE  RecoveryOrder'
<1>1. \A x \in recoveries' : x.epoch # epoch
  BY DEF RecoveryOrder, ownsRecovery
<1>. QED
  BY <1>1 DEF RecoveryOrder

LEMMA NoneRecovers ==
  ASSUME RecoveryOrder, mode # "recovering"
  PROVE  \A r \in recoveries : ~ownsRecovery(r) /\ r.epoch # epoch
BY DEF RecoveryOrder, ownsRecovery

(* The log and the attempts stay as they are; what nobody waits for any    *)
(* more may still be on its way.                                           *)
NothingIsSent ==
  /\ log' = log /\ attempt' = attempt
  /\ calls' \subseteq calls
  /\ \A z \in zombies' : z \in zombies \/ \E c \in calls : z.tx = c.tx /\ z.exp = c.exp

LEMMA SentKept ==
  ASSUME SentWasAttempted, AnsweredTruthfully, NothingIsSent
  PROVE  SentWasAttempted' /\ AnsweredTruthfully'
<1>1. SentWasAttempted'
  BY DEF NothingIsSent, SentWasAttempted
<1>2. AnsweredTruthfully'
  BY DEF NothingIsSent, AnsweredTruthfully
<1>. QED
  BY <1>1, <1>2

LEMMA RevisionKept ==
  ASSUME SentAtRevision, canContinue' => canContinue, NothingIsSent, srcRev' = srcRev,
         ToSet(queue') \subseteq ToSet(queue)
  PROVE  SentAtRevision'
<1>. SUFFICES ASSUME canContinue', NEW t \in ToSet(queue')
              PROVE  /\ \A i \in DOMAIN log' : log'[i] = t => i = srcRev' + 1
                     /\ \A z \in zombies' : z.tx = t => z.exp = srcRev'
                     /\ \A c \in calls' : c.tx = t => c.exp = srcRev'
  BY DEF SentAtRevision
<1>1. /\ \A i \in DOMAIN log : log[i] = t => i = srcRev + 1
      /\ \A z \in zombies : z.tx = t => z.exp = srcRev
      /\ \A c \in calls : c.tx = t => c.exp = srcRev
  BY DEF SentAtRevision
<1>. QED
  BY <1>1 DEF NothingIsSent

LEMMA RevisionOfUnsent ==
  ASSUME SentWasAttempted', ToSet(queue') \subseteq Tx, \A t \in ToSet(queue') : attempt'[t] = 0
  PROVE  SentAtRevision'
BY DEF SentWasAttempted, SentAtRevision

LEMMA NothingIsReplayed ==
  ASSUME mode' # "recovering"
  PROVE  ReplayStartsFromSource'
BY DEF ReplayStartsFromSource, ownsRecovery

-----------------------------------------------------------------------------
(* Steps that leave the document and the queue alone, or give it up.       *)

LEMMA Stays ==
  ASSUME FullInv, NothingIsSent, RecoveryOrder',
         UNCHANGED <<queue, srcRev, local>>, canContinue' => canContinue,
         \A r \in recoveries' : ownsRecovery(r)' /\ r.phase = "replay" =>
           r \in recoveries /\ ownsRecovery(r)
  PROVE  DocInv'
<1>1. SentWasAttempted' /\ AnsweredTruthfully'
  BY SentKept DEF FullInv, DocInv
<1>2. SentAtRevision'
  BY RevisionKept DEF FullInv, DocInv
<1>3. ReplayStartsFromSource'
  BY DEF FullInv, DocInv, ReplayStartsFromSource, acceptedRevision, sourceDocument, NothingIsSent
<1>4. DocumentIsSourcePlusQueue'
  BY DEF FullInv, DocInv, DocumentIsSourcePlusQueue, sourceDocument, NothingIsSent
<1>. QED
  BY <1>1, <1>2, <1>3, <1>4 DEF DocInv

LEMMA GivesUp ==
  ASSUME FullInv, NothingIsSent, RecoveryOrder', ~canContinue', mode' # "recovering"
  PROVE  DocInv'
<1>1. SentWasAttempted' /\ AnsweredTruthfully'
  BY SentKept DEF FullInv, DocInv
<1>. QED
  BY <1>1, NothingIsReplayed DEF DocInv, SentAtRevision, DocumentIsSourcePlusQueue

LEMMA LeavesDocument ==
  ASSUME FullInv, NothingIsSent, recoveries' \subseteq recoveries, epoch' = epoch + 1,
         mode' \in {"stale", "destroyed"}
  PROVE  DocInv'
<1>1. RecoveryOrder'
  BY RecoveriesLate DEF FullInv, DocInv
<1>. QED
  BY <1>1, GivesUp DEF canContinue

LEMMA InvalidatesDocument ==
  ASSUME FullInv, NothingIsSent, recoveries' \subseteq recoveries, invalidateCurrentContext
  PROVE  DocInv'
BY LeavesDocument DEF invalidateCurrentContext, abandonQueue

(* The document is the DataSource's, and nothing is queued.                *)
LEMMA Reloads ==
  ASSUME FullInv, NothingIsSent, RecoveryOrder', mode' = "active", queue' = <<>>,
         NEW n \in 0 .. Len(log), srcRev' = n, local' = sourceDocument(n)
  PROVE  DocInv'
<1>1. SentWasAttempted' /\ AnsweredTruthfully'
  BY SentKept DEF FullInv, DocInv
<1>2. ToSet(queue') = {}
  BY DEF ToSet
<1>3. SentAtRevision'
  BY <1>2 DEF SentAtRevision
<1>4. ReplayStartsFromSource'
  BY NothingIsReplayed
<1>5. sourceDocument(n) \in Seq(Commits)
  BY SourceDocumentIsSeq DEF FullInv, AllInv, Commits
<1>6. sourceDocument(n) \o <<>> = sourceDocument(n)
  BY <1>5, ConcatEmptySeq
<1>7. DocumentIsSourcePlusQueue'
  BY <1>6 DEF DocumentIsSourcePlusQueue, sourceDocument, NothingIsSent
<1>. QED
  BY <1>1, <1>3, <1>4, <1>7 DEF DocInv

(* A transaction is taken back that nobody can have sent but as the head.  *)
LEMMA DropsLastOfDocument ==
  ASSUME FullInv, NothingIsSent, mode = "active", queue # <<>>,
         queue' = Front(queue), local' = Front(local),
         UNCHANGED <<mode, srcRev, epoch, recoveries>>
  PROVE  DocInv'
<1>1. canContinue /\ local = sourceDocument(srcRev) \o queue
  BY DEF canContinue, FullInv, DocInv, DocumentIsSourcePlusQueue
<1>2. RecoveryOrder'
  BY RecoveriesKept DEF FullInv, DocInv, ownsRecovery
<1>3. SentWasAttempted' /\ AnsweredTruthfully'
  BY SentKept DEF FullInv, DocInv
<1>4. ToSet(queue') \subseteq ToSet(queue)
  BY DocTypes, FrontFacts DEF FullInv
<1>5. SentAtRevision'
  BY <1>1, <1>4, RevisionKept DEF FullInv, DocInv
<1>6. ReplayStartsFromSource'
  BY NothingIsReplayed
<1>7. Front(sourceDocument(srcRev) \o queue) = sourceDocument(srcRev) \o Front(queue)
  BY DocTypes, ConcatFront DEF FullInv
<1>8. DocumentIsSourcePlusQueue'
  BY <1>1, <1>7 DEF DocumentIsSourcePlusQueue, sourceDocument, NothingIsSent
<1>. QED
  BY <1>2, <1>3, <1>5, <1>6, <1>8 DEF DocInv
-----------------------------------------------------------------------------
(* The operations.                                                         *)

LEMMA EnqueueDoc ==
  ASSUME FullInv, NEW t \in Tx, NEW d \in Tx \cup {NoTx}, Enqueue(t, d)
  PROVE  DocInv'
<1>1. NothingIsSent /\ UNCHANGED <<recoveries, calls, zombies>>
  BY DEF Enqueue, awaitVars, NothingIsSent, invalidateCurrentContext
<1>2. CASE ~current
  BY <1>1, <1>2, InvalidatesDocument DEF Enqueue
<1>3. CASE current
  <2>1. /\ mode = "active" /\ mode' = "active" /\ outcome[t] = "none"
        /\ queue' = Append(queue, t) /\ local' = Append(local, t)
        /\ UNCHANGED <<srcRev, epoch>>
    BY <1>3 DEF Enqueue, transactionIds
  <2>2. attempt[t] = 0 /\ t \notin ToSet(queue)
    BY <2>1 DEF FullInv, AllInv, QueueConsistent, ReceiptsMatchQueue
  <2>3. ToSet(queue') = ToSet(queue) \cup {t}
    BY <2>1, <2>2, DocTypes, AppendFacts DEF FullInv
  <2>4. canContinue /\ local = sourceDocument(srcRev) \o queue
    BY <2>1 DEF canContinue, FullInv, DocInv, DocumentIsSourcePlusQueue
  <2>5. RecoveryOrder'
    BY <1>1, <2>1, RecoveriesKept, NoneRecovers DEF FullInv, DocInv
  <2>6. SentWasAttempted' /\ AnsweredTruthfully'
    BY <1>1, SentKept DEF FullInv, DocInv
  <2>7. SentAtRevision'
    <3>. SUFFICES ASSUME NEW x \in ToSet(queue')
                  PROVE  /\ \A i \in DOMAIN log : log[i] = x => i = srcRev + 1
                         /\ \A z \in zombies : z.tx = x => z.exp = srcRev
                         /\ \A c \in calls : c.tx = x => c.exp = srcRev
      BY <1>1, <2>1 DEF SentAtRevision, NothingIsSent
    <3>1. CASE x \in ToSet(queue)
      BY <2>4, <3>1 DEF FullInv, DocInv, SentAtRevision
    <3>2. CASE x = t
      BY <2>2, <3>2 DEF FullInv, DocInv, SentWasAttempted
    <3>. QED
      BY <2>3, <3>1, <3>2
  <2>8. ReplayStartsFromSource'
    BY <2>1, NothingIsReplayed
  <2>9. t \in Commits /\ queue \in Seq(Commits) /\ sourceDocument(srcRev) \in Seq(Commits)
    BY DocTypes DEF Commits, FullInv
  <2>10. Append(sourceDocument(srcRev) \o queue, t) = sourceDocument(srcRev) \o Append(queue, t)
    <3>1. sourceDocument(srcRev) \o queue \in Seq(Commits) /\ <<t>> \in Seq(Commits)
      BY <2>9, ConcatProperties
    <3>2. (sourceDocument(srcRev) \o queue) \o <<t>> = sourceDocument(srcRev) \o (queue \o <<t>>)
      BY <2>9, <3>1, ConcatAssociative
    <3>. QED
      BY <2>9, <3>1, <3>2, AppendIsConcat
  <2>11. DocumentIsSourcePlusQueue'
    BY <1>1, <2>1, <2>4, <2>10 DEF DocumentIsSourcePlusQueue, sourceDocument, NothingIsSent
  <2>. QED
    BY <2>5, <2>6, <2>7, <2>8, <2>11 DEF DocInv
<1>. QED
  BY <1>2, <1>3

LEMMA WhenIdleDoc ==
  ASSUME FullInv, NEW w \in Waiters, WhenIdle(w)
  PROVE  DocInv'
<1>1. UNCHANGED <<coordVars, attempt, awaitVars, worldVars>>
  BY DEF WhenIdle
<1>2. /\ UNCHANGED <<mode, queue, suspended, epoch, srcRev, local, recoveries>>
      /\ NothingIsSent
  BY <1>1 DEF coordVars, awaitVars, worldVars, NothingIsSent
<1>3. RecoveryOrder'
  BY <1>2, RecoveriesKept DEF FullInv, DocInv, ownsRecovery
<1>. QED
  BY <1>2, <1>3, Stays DEF canContinue, ownsRecovery

LEMMA RetryDoc ==
  ASSUME FullInv, RetryIndeterminate
  PROVE  DocInv'
<1>1. NothingIsSent /\ UNCHANGED <<recoveries, local>> /\ canContinue /\ mode # "recovering"
  BY DEF RetryIndeterminate, awaitVars, worldVars, NothingIsSent, canContinue
<1>2. CASE ~current
  BY <1>1, <1>2, InvalidatesDocument DEF RetryIndeterminate
<1>3. CASE current
  <2>1. mode' = "active" /\ UNCHANGED <<queue, epoch, srcRev>>
    BY <1>3 DEF RetryIndeterminate
  <2>2. RecoveryOrder'
    BY <1>1, <2>1, RecoveriesKept, NoneRecovers DEF FullInv, DocInv
  <2>. QED
    BY <1>1, <2>1, <2>2, Stays DEF ownsRecovery
<1>. QED
  BY <1>2, <1>3

LEMMA CancelPendingDoc ==
  ASSUME FullInv, NEW t \in Tx, CancelPending(t)
  PROVE  DocInv'
<1>1. /\ NothingIsSent /\ mode = "active" /\ queue # <<>>
      /\ UNCHANGED <<mode, srcRev, epoch, recoveries>>
  BY DEF CancelPending, NothingIsSent
<1>2. CASE inFlight # t
  BY <1>1, <1>2, DropsLastOfDocument DEF CancelPending, cancelBeforeDispatch
<1>3. CASE inFlight = t
  <2>1. UNCHANGED <<queue, local>> /\ canContinue
    BY <1>1, <1>3 DEF CancelPending, cancelStarted, canContinue
  <2>2. RecoveryOrder'
    BY <1>1, RecoveriesKept, NoneRecovers DEF FullInv, DocInv
  <2>. QED
    BY <1>1, <2>1, <2>2, Stays DEF ownsRecovery
<1>. QED
  BY <1>2, <1>3

LEMMA ResyncDoc ==
  ASSUME FullInv, NEW n \in srcRev .. Len(log), ResolveAfterResync(n)
  PROVE  DocInv'
<1>1. NothingIsSent /\ UNCHANGED recoveries /\ mode # "recovering"
  BY DEF ResolveAfterResync, awaitVars, NothingIsSent
<1>2. CASE ~current
  BY <1>1, <1>2, InvalidatesDocument DEF ResolveAfterResync
<1>3. CASE current
  <2>1. /\ mode' = "active" /\ queue' = <<>> /\ srcRev' = n
        /\ local' = sourceDocument(n) /\ epoch' = epoch
    BY <1>3 DEF ResolveAfterResync
  <2>2. n \in 0 .. Len(log)
    BY DocTypes DEF FullInv
  <2>3. RecoveryOrder'
    BY <1>1, <2>1, RecoveriesKept, NoneRecovers DEF FullInv, DocInv
  <2>. QED
    BY <1>1, <2>1, <2>2, <2>3, Reloads
<1>. QED
  BY <1>2, <1>3

LEMMA ReplaceDoc ==
  ASSUME FullInv, NEW n \in srcRev .. Len(log), ReplaceDocument(n)
  PROVE  DocInv'
<1>1. /\ NothingIsSent /\ UNCHANGED recoveries /\ epoch' = epoch + 1
      /\ mode' = "active" /\ queue' = <<>> /\ srcRev' = n /\ local' = sourceDocument(n)
  BY DEF ReplaceDocument, abandonQueue, awaitVars, NothingIsSent
<1>2. n \in 0 .. Len(log)
  BY DocTypes DEF FullInv
<1>3. RecoveryOrder'
  BY <1>1, RecoveriesLate DEF FullInv, DocInv
<1>. QED
  BY <1>1, <1>2, <1>3, Reloads

LEMMA DestroyDoc ==
  ASSUME FullInv, Destroy
  PROVE  DocInv'
<1>1. /\ NothingIsSent /\ UNCHANGED recoveries /\ epoch' = epoch + 1
      /\ mode' = "destroyed"
  BY DEF Destroy, abandonQueue, awaitVars, worldVars, NothingIsSent
<1>. QED
  BY <1>1, LeavesDocument

(* The head is sent at #sourceRevision.                                    *)
LEMMA DrainDoc ==
  ASSUME FullInv, Drain
  PROVE  DocInv'
<1>1. UNCHANGED <<recoveries, worldVars>>
  BY DEF Drain
<1>2. CASE UNCHANGED <<mode, queue, suspended, epoch, srcRev, attempt, calls>>
  <2>1. NothingIsSent /\ UNCHANGED local
    BY <1>1, <1>2 DEF NothingIsSent, worldVars
  <2>2. RecoveryOrder'
    BY <1>1, <1>2, RecoveriesKept DEF FullInv, DocInv, ownsRecovery
  <2>. QED
    BY <1>1, <1>2, <2>1, <2>2, Stays DEF canContinue, ownsRecovery
<1>3. CASE invalidateCurrentContext /\ UNCHANGED <<attempt, calls>>
  <2>1. NothingIsSent
    BY <1>1, <1>3 DEF NothingIsSent, worldVars
  <2>. QED
    BY <1>1, <1>3, <2>1, InvalidatesDocument
<1>4. CASE /\ canDispatch /\ dispatch(Head(queue))
           /\ UNCHANGED <<mode, queue, suspended, epoch, srcRev>>
  <2>1. /\ mode = "active" /\ queue # <<>> /\ canContinue
        /\ UNCHANGED <<local, log, zombies>>
    BY <1>1, <1>4 DEF canDispatch, canContinue, worldVars
  <2>2. PICK d : /\ d = [tx |-> Head(queue), inc |-> inc[Head(queue)], epoch |-> epoch,
                         version |-> version[Head(queue)], exp |-> srcRev, reply |-> NoReply]
                  /\ calls' = calls \cup {d}
    BY <1>4 DEF dispatch
  <2>3. d.tx = Head(queue) /\ d.exp = srcRev /\ d.reply.status # "acknowledged"
    BY <2>2 DEF NoReply, Reply
  <2>4. /\ Head(queue) \in Tx /\ attempt'[Head(queue)] > 0
        /\ \A t \in Tx : attempt[t] > 0 => attempt'[t] > 0
    <3>1. Head(queue) \in Tx
      BY <2>1, DocTypes, HeadTailProperties DEF FullInv
    <3>2. attempt' = [attempt EXCEPT ![Head(queue)] = @ + 1]
      BY <1>4 DEF dispatch
    <3>. QED
      BY <3>1, <3>2, DocTypes DEF FullInv
  <2>5. RecoveryOrder'
    BY <1>1, <1>4, RecoveriesKept DEF FullInv, DocInv, ownsRecovery
  <2>6. SentWasAttempted'
    BY <2>1, <2>2, <2>3, <2>4, DocTypes DEF FullInv, DocInv, SentWasAttempted
  <2>7. AnsweredTruthfully'
    BY <2>1, <2>2, <2>3 DEF FullInv, DocInv, AnsweredTruthfully
  <2>8. SentAtRevision'
    BY <1>4, <2>1, <2>2, <2>3 DEF FullInv, DocInv, SentAtRevision
  <2>9. ReplayStartsFromSource'
    BY <1>4, <2>1, NothingIsReplayed
  <2>10. DocumentIsSourcePlusQueue'
    BY <1>4, <2>1 DEF FullInv, DocInv, DocumentIsSourcePlusQueue, sourceDocument
  <2>. QED
    BY <2>5, <2>6, <2>7, <2>8, <2>9, <2>10 DEF DocInv
<1>. QED
  BY <1>2, <1>3, <1>4 DEF Drain

-----------------------------------------------------------------------------
(* The continuations.                                                      *)

(* The commit that is acknowledged is the first of the queue, and it is    *)
(* where the queue's first has to be: right behind #sourceRevision.        *)
LEMMA AcknowledgedDoc ==
  ASSUME FullInv, NothingIsSent, NEW c \in calls, ownsResponse(c),
         c.reply.status = "acknowledged", acknowledged(c.tx, c.reply.rev),
         UNCHANGED local
  PROVE  DocInv'
<1>. DEFINE rev == c.reply.rev
<1>1. /\ mode = "active" /\ queue # <<>> /\ Head(queue) = c.tx
      /\ srcRev' = rev /\ queue' = Tail(queue)
      /\ UNCHANGED <<mode, epoch, recoveries>>
  BY DEF ownsResponse, acknowledged
<1>2. canContinue /\ local = sourceDocument(srcRev) \o queue
  BY <1>1 DEF canContinue, FullInv, DocInv, DocumentIsSourcePlusQueue
<1>3. Head(queue) \in ToSet(queue) /\ ToSet(queue') \subseteq Tx
      /\ \A t \in ToSet(queue') : attempt[t] = 0
  BY <1>1, TailWasNotSent DEF FullInv, AllInv
<1>4. rev \in DOMAIN log /\ log[rev] = Head(queue)
  BY <1>1 DEF FullInv, DocInv, AnsweredTruthfully
<1>5. rev = srcRev + 1
  BY <1>2, <1>3, <1>4 DEF FullInv, DocInv, SentAtRevision
<1>6. RecoveryOrder'
  BY <1>1, RecoveriesKept DEF FullInv, DocInv, ownsRecovery
<1>7. SentWasAttempted' /\ AnsweredTruthfully'
  BY SentKept DEF FullInv, DocInv
<1>8. SentAtRevision'
  BY <1>3, <1>7, RevisionOfUnsent DEF NothingIsSent
<1>9. ReplayStartsFromSource'
  BY <1>1, NothingIsReplayed
<1>10. DocumentIsSourcePlusQueue'
  <2>1. /\ log \in Seq(Commits) /\ srcRev \in Nat /\ srcRev + 1 \in 1 .. Len(log)
        /\ queue \in Seq(Commits) /\ sourceDocument(srcRev) \in Seq(Commits)
    BY <1>4, <1>5, DocTypes DEF FullInv
  <2>2. sourceDocument(srcRev + 1) = Append(sourceDocument(srcRev), Head(queue))
    BY <1>4, <1>5, <2>1, PrefixGrows DEF sourceDocument
  <2>3. sourceDocument(srcRev + 1) \o Tail(queue) = sourceDocument(srcRev) \o queue
    BY <1>1, <2>1, <2>2, ConcatHead
  <2>. QED
    BY <1>1, <1>2, <1>5, <2>3 DEF DocumentIsSourcePlusQueue, sourceDocument, NothingIsSent
<1>. QED
  BY <1>6, <1>7, <1>8, <1>9, <1>10 DEF DocInv

LEMMA FailureDoc ==
  ASSUME FullInv, NothingIsSent, NEW c \in calls, ownsResponse(c),
         explicitFailure(c.tx, c.reply), UNCHANGED local
  PROVE  DocInv'
<1>1. PICK r : /\ r = [tx |-> c.tx, epoch |-> epoch, failure |-> c.reply, phase |-> "rollback"]
               /\ recoveries' = recoveries \cup {r}
  BY DEF explicitFailure
<1>2. r.epoch = epoch /\ r.tx = c.tx /\ r.phase # "replay"
  BY <1>1
<1>3. /\ mode = "active" /\ mode' = "recovering" /\ queue # <<>> /\ Head(queue) = c.tx
      /\ UNCHANGED <<queue, epoch, srcRev>> /\ canContinue
  BY DEF ownsResponse, explicitFailure, canContinue
<1>4. \A x \in recoveries : x.epoch # epoch
  BY <1>3, NoneRecovers DEF FullInv, DocInv
<1>5. ownsRecovery(r)'
  BY <1>2, <1>3 DEF ownsRecovery
<1>6. RecoveryOrder'
  <2>1. \A x \in recoveries' : x.epoch <= epoch'
    BY <1>1, <1>2, <1>3, DocTypes DEF FullInv, DocInv, RecoveryOrder
  <2>2. \A x \in recoveries' : x.epoch = epoch' => x = r
    BY <1>1, <1>3, <1>4
  <2>. QED
    BY <1>5, <2>1, <2>2 DEF RecoveryOrder
<1>7. \A x \in recoveries' : ownsRecovery(x)' => x = r
  BY <1>1, <1>3, <1>4 DEF ownsRecovery
<1>. QED
  BY <1>2, <1>3, <1>6, <1>7, Stays

LEMMA UnansweredDoc ==
  ASSUME FullInv, NothingIsSent, NEW c \in calls, ownsResponse(c),
         NEW retryable, commitUnanswered(retryable), UNCHANGED local
  PROVE  DocInv'
<1>1. /\ mode = "active" /\ mode' = "reloadRequired" /\ canContinue
      /\ UNCHANGED <<queue, epoch, srcRev, recoveries>>
  BY DEF ownsResponse, commitUnanswered, suspend, canContinue
<1>2. RecoveryOrder'
  BY <1>1, RecoveriesKept, NoneRecovers DEF FullInv, DocInv
<1>. QED
  BY <1>1, <1>2, Stays DEF ownsRecovery

LEMMA CommitAnswersDoc ==
  ASSUME FullInv, NEW c \in calls, CommitReturns(c) \/ CommitThrows(c)
  PROVE  DocInv'
<1>1. NothingIsSent /\ UNCHANGED local
  <2>1. attempt' = attempt
    BY DEF CommitReturns, CommitThrows, dropLate, answerToLostContext, acknowledged,
           explicitFailure, commitUnanswered, recordVars
  <2>2. CASE CommitReturns(c)
    BY <2>1, <2>2 DEF CommitReturns, worldVars, NothingIsSent
  <2>3. CASE CommitThrows(c)
    <3>1. /\ log' = log /\ local' = local /\ calls' \subseteq calls
          /\ zombies' \subseteq zombies \cup {[tx |-> c.tx, exp |-> c.exp]}
      BY <2>3 DEF CommitThrows
    <3>. QED
      BY <2>1, <3>1 DEF NothingIsSent
  <2>. QED
    BY <2>2, <2>3
<1>2. CASE dropLate
  <2>1. UNCHANGED <<mode, queue, suspended, epoch, srcRev, recoveries>>
    BY <1>2 DEF dropLate, coordVars
  <2>2. RecoveryOrder'
    BY <2>1, RecoveriesKept DEF FullInv, DocInv, ownsRecovery
  <2>. QED
    BY <1>1, <2>1, <2>2, Stays DEF canContinue, ownsRecovery
<1>3. CASE answerToLostContext
  BY <1>1, <1>3, InvalidatesDocument DEF answerToLostContext
<1>4. CASE ownsResponse(c) /\ \E b \in BOOLEAN : commitUnanswered(b)
  BY <1>1, <1>4, UnansweredDoc
<1>5. CASE ownsResponse(c) /\ c.reply.status = "acknowledged" /\ acknowledged(c.tx, c.reply.rev)
  BY <1>1, <1>5, AcknowledgedDoc
<1>6. CASE ownsResponse(c) /\ explicitFailure(c.tx, c.reply)
  BY <1>1, <1>6, FailureDoc
<1>. QED
  BY <1>2, <1>3, <1>4, <1>5, <1>6 DEF CommitReturns, CommitThrows

LEMMA CancelAnswersDoc ==
  ASSUME FullInv, ~CancelReportsHead, NEW c \in cancels, CancelReturns(c) \/ CancelThrows(c)
  PROVE  DocInv'
<1>1. NothingIsSent /\ UNCHANGED <<mode, suspended, epoch, recoveries>>
  BY DEF CancelReturns, CancelThrows, recordVars, worldVars, NothingIsSent
<1>2. CASE ownsResponse(c) /\ cancelAgreed(c)
  BY <1>1, <1>2, DropsLastOfDocument DEF ownsResponse, cancelAgreed
<1>3. CASE UNCHANGED <<queue, srcRev, local>>
  <2>1. RecoveryOrder'
    BY <1>1, <1>3, RecoveriesKept DEF FullInv, DocInv, ownsRecovery
  <2>. QED
    BY <1>1, <1>3, <2>1, Stays DEF canContinue, ownsRecovery
<1>. QED
  BY <1>2, <1>3 DEF CancelReturns, CancelThrows, worldVars

LEMMA AbandonedDoc ==
  ASSUME FullInv, NothingIsSent, NEW r \in recoveries, recoveryAbandoned(r),
         recoveries' = recoveries \ {r}, UNCHANGED local
  PROVE  DocInv'
<1>1. CASE ~ownsRecovery(r) /\ UNCHANGED <<coordVars, recordVars>>
  <2>1. UNCHANGED <<mode, queue, suspended, epoch, srcRev>>
    BY <1>1 DEF coordVars
  <2>2. RecoveryOrder'
    BY <2>1, RecoveriesKept DEF FullInv, DocInv, ownsRecovery
  <2>. QED
    BY <2>1, <2>2, Stays DEF canContinue, ownsRecovery
<1>2. CASE invalidateCurrentContext
  BY <1>2, InvalidatesDocument
<1>. QED
  BY <1>1, <1>2 DEF recoveryAbandoned

LEMMA FailedRecoveryDoc ==
  ASSUME FullInv, NothingIsSent, NEW r \in recoveries, ownsRecovery(r),
         recoveries' = recoveries \ {r}, NEW q, suspend(q, FALSE), UNCHANGED epoch
  PROVE  DocInv'
<1>1. mode' = "reloadRequired" /\ suspended' = "final"
  BY DEF suspend
<1>2. RecoveryOrder'
  BY RecoveryEnds DEF FullInv, DocInv
<1>. QED
  BY <1>1, <1>2, GivesUp DEF canContinue

(* The queue is out of the document, and is put back from the replay.      *)
LEMMA RolledBackDoc ==
  ASSUME FullInv, NothingIsSent, NEW r \in recoveries, ownsRecovery(r), r.phase = "rollback",
         local' = sourceDocument(acceptedRevision(r)),
         recoveries' = (recoveries \ {r}) \cup {[r EXCEPT !.phase = "replay"]},
         UNCHANGED coordVars
  PROVE  DocInv'
<1>1. PICK x : x = [r EXCEPT !.phase = "replay"]
  OBVIOUS
<1>2. x.epoch = r.epoch /\ x.tx = r.tx /\ x.failure = r.failure /\ x.phase = "replay"
  BY <1>1, DocTypes DEF FullInv, Recoveries
<1>3. recoveries' = (recoveries \ {r}) \cup {x}
  BY <1>1
<1>4. UNCHANGED <<mode, queue, suspended, epoch, srcRev>> /\ mode = "recovering"
  BY DEF coordVars, ownsRecovery
<1>5. \A y \in recoveries' : y.epoch = epoch => y = x
  BY <1>3 DEF FullInv, DocInv, RecoveryOrder, ownsRecovery
<1>6. ownsRecovery(x)'
  BY <1>2, <1>4 DEF ownsRecovery
<1>7. RecoveryOrder'
  <2>1. \A y \in recoveries' : y.epoch <= epoch'
    BY <1>2, <1>3, <1>4 DEF FullInv, DocInv, RecoveryOrder
  <2>. QED
    BY <1>4, <1>5, <1>6, <2>1 DEF RecoveryOrder
<1>8. \A y \in recoveries' : ownsRecovery(y)' => y = x
  BY <1>4, <1>5 DEF ownsRecovery
<1>9. ~canContinue'
  BY <1>2, <1>4, <1>8 DEF canContinue
<1>10. SentWasAttempted' /\ AnsweredTruthfully'
  BY SentKept DEF FullInv, DocInv
<1>11. ReplayStartsFromSource'
  <2>1. acceptedRevision(x)' = acceptedRevision(r)
    BY <1>2, <1>4 DEF acceptedRevision
  <2>2. sourceDocument(acceptedRevision(x))' = sourceDocument(acceptedRevision(r))
    BY <2>1 DEF sourceDocument, NothingIsSent
  <2>. QED
    BY <1>8, <2>2 DEF ReplayStartsFromSource
<1>. QED
  BY <1>7, <1>9, <1>10, <1>11 DEF DocInv, SentAtRevision, DocumentIsSourcePlusQueue

LEMMA RollbacksDoc ==
  ASSUME FullInv, NEW r \in recoveries, RollbackSucceeds(r) \/ RollbackFails(r)
  PROVE  DocInv'
<1>1. NothingIsSent
  BY DEF RollbackSucceeds, RollbackFails, recoveryAbandoned, invalidateCurrentContext,
         recordVars, worldVars, NothingIsSent
<1>2. r.phase = "rollback"
  BY DEF RollbackSucceeds, RollbackFails
<1>3. CASE recoveryAbandoned(r) /\ recoveries' = recoveries \ {r} /\ UNCHANGED local
  BY <1>1, <1>3, AbandonedDoc
<1>4. CASE /\ ownsRecovery(r) /\ suspend(queue, FALSE) /\ UNCHANGED epoch
           /\ recoveries' = recoveries \ {r}
  BY <1>1, <1>4, FailedRecoveryDoc
<1>5. CASE /\ ownsRecovery(r) /\ recovered(r, <<>>) /\ UNCHANGED epoch
           /\ recoveries' = recoveries \ {r}
           /\ local' = sourceDocument(acceptedRevision(r))
  <2>1. RecoveryOrder'
    BY <1>5, RecoveryEnds DEF FullInv, DocInv
  <2>2. /\ mode' = "active" /\ queue' = <<>> /\ srcRev' = acceptedRevision(r)
        /\ acceptedRevision(r) \in 0 .. Len(log)
    BY <1>5, acceptedRevisionExists DEF recovered, FullInv, AllInv
  <2>. QED
    BY <1>1, <1>5, <2>1, <2>2, Reloads
<1>6. CASE /\ ownsRecovery(r)
           /\ local' = sourceDocument(acceptedRevision(r))
           /\ recoveries' = (recoveries \ {r}) \cup {[r EXCEPT !.phase = "replay"]}
           /\ UNCHANGED coordVars
  BY <1>1, <1>2, <1>6, RolledBackDoc
<1>7. CASE RollbackSucceeds(r)
  BY <1>3, <1>5, <1>6, <1>7 DEF RollbackSucceeds
<1>8. CASE RollbackFails(r)
  BY <1>3, <1>4, <1>8 DEF RollbackFails, worldVars
<1>. QED
  BY <1>7, <1>8

LEMMA ReplayedDoc ==
  ASSUME FullInv, NothingIsSent, NEW r \in recoveries, ownsRecovery(r), r.phase = "replay",
         recoveries' = recoveries \ {r}, recovered(r, Tail(queue)), UNCHANGED epoch,
         local' = local \o Tail(queue)
  PROVE  DocInv'
<1>1. /\ queue # <<>> /\ mode' = "active" /\ queue' = Tail(queue)
      /\ srcRev' = acceptedRevision(r)
  BY DEF ownsRecovery, recovered
<1>2. RecoveryOrder'
  BY RecoveryEnds DEF FullInv, DocInv
<1>3. SentWasAttempted' /\ AnsweredTruthfully'
  BY SentKept DEF FullInv, DocInv
<1>4. ToSet(queue') \subseteq Tx /\ \A t \in ToSet(queue') : attempt[t] = 0
  BY <1>1, TailWasNotSent DEF FullInv, AllInv
<1>5. SentAtRevision'
  BY <1>3, <1>4, RevisionOfUnsent DEF NothingIsSent
<1>6. ReplayStartsFromSource'
  BY <1>1, NothingIsReplayed
<1>7. local = sourceDocument(acceptedRevision(r))
  BY DEF FullInv, DocInv, ReplayStartsFromSource
<1>8. DocumentIsSourcePlusQueue'
  BY <1>1, <1>7 DEF DocumentIsSourcePlusQueue, sourceDocument, NothingIsSent
<1>. QED
  BY <1>2, <1>3, <1>5, <1>6, <1>8 DEF DocInv

LEMMA ReplaysDoc ==
  ASSUME FullInv, NEW r \in recoveries, ReplaySucceeds(r) \/ ReplayFails(r)
  PROVE  DocInv'
<1>1. NothingIsSent
  BY DEF ReplaySucceeds, ReplayFails, recoveryAbandoned, invalidateCurrentContext,
         recordVars, worldVars, NothingIsSent
<1>2. r.phase = "replay" /\ recoveries' = recoveries \ {r}
  BY DEF ReplaySucceeds, ReplayFails
<1>3. CASE recoveryAbandoned(r) /\ UNCHANGED local
  BY <1>1, <1>2, <1>3, AbandonedDoc
<1>4. CASE ownsRecovery(r) /\ suspend(Tail(queue), FALSE) /\ UNCHANGED epoch
  BY <1>1, <1>2, <1>4, FailedRecoveryDoc
<1>5. CASE /\ ownsRecovery(r) /\ recovered(r, Tail(queue)) /\ UNCHANGED epoch
           /\ local' = local \o Tail(queue)
  BY <1>1, <1>2, <1>5, ReplayedDoc
<1>. QED
  BY <1>3, <1>4, <1>5 DEF ReplaySucceeds, ReplayFails, worldVars

-----------------------------------------------------------------------------
(* The world.                                                              *)

LEMMA AppendedLog ==
  ASSUME AllInv, NEW x \in Commits, log' = Append(log, x)
  PROVE  /\ DOMAIN log' = DOMAIN log \cup {Len(log) + 1}
         /\ log'[Len(log) + 1] = x
         /\ \A i \in DOMAIN log : log'[i] = log[i]
<1>1. log \in Seq(Commits) /\ Len(log) \in Nat /\ DOMAIN log = 1 .. Len(log)
  BY DocTypes
<1>2. /\ log' \in Seq(Commits) /\ Len(log') = Len(log) + 1
      /\ \A i \in 1 .. Len(log) : log'[i] = log[i]
      /\ log'[Len(log) + 1] = x
  BY <1>1, AppendProperties
<1>3. DOMAIN log' = 1 .. Len(log) + 1
  BY <1>2, ToSetFacts
<1>. QED
  BY <1>1, <1>2, <1>3

(* What the DataSource does to its log.  A request it accepts is one of    *)
(* the calls or of those nobody waits for any more, and says so.           *)
AcceptsAtTheEnd ==
  \/ log' = log
  \/ \E x \in Commits :
       /\ log' = Append(log, x)
       /\ x \in Tx => /\ attempt[x] > 0
                      /\ canContinue /\ x \in ToSet(queue) => srcRev = Len(log)

LEMMA Processes ==
  ASSUME FullInv, AcceptsAtTheEnd,
         UNCHANGED <<mode, queue, suspended, epoch, srcRev, attempt, local, recoveries>>,
         \A c \in calls' : \E b \in calls : c.tx = b.tx /\ c.exp = b.exp,
         zombies' \subseteq zombies, AnsweredTruthfully'
  PROVE  DocInv'
<1>1. \A n \in 0 .. Len(log) : sourceDocument(n)' = sourceDocument(n)
  BY DocTypes, PrefixOfAppend DEF FullInv, AcceptsAtTheEnd, sourceDocument
<1>2. \A i \in DOMAIN log' :
        \/ i \in DOMAIN log /\ log'[i] = log[i]
        \/ /\ i = Len(log) + 1
           /\ log'[i] \in Tx => /\ attempt[log'[i]] > 0
                                /\ canContinue /\ log'[i] \in ToSet(queue) => srcRev = Len(log)
  BY AppendedLog DEF AcceptsAtTheEnd, FullInv
<1>3. \A r \in recoveries : ownsRecovery(r)' <=> ownsRecovery(r)
  BY DEF ownsRecovery
<1>4. canContinue' <=> canContinue
  BY <1>3 DEF canContinue
<1>5. RecoveryOrder'
  BY <1>3, RecoveriesKept DEF FullInv, DocInv
<1>6. SentWasAttempted'
  BY <1>2 DEF FullInv, DocInv, SentWasAttempted
<1>7. SentAtRevision'
  <2>. SUFFICES ASSUME canContinue, NEW t \in ToSet(queue)
                PROVE  /\ \A i \in DOMAIN log' : log'[i] = t => i = srcRev + 1
                       /\ \A z \in zombies' : z.tx = t => z.exp = srcRev
                       /\ \A c \in calls' : c.tx = t => c.exp = srcRev
    BY <1>4 DEF SentAtRevision
  <2>1. /\ \A i \in DOMAIN log : log[i] = t => i = srcRev + 1
        /\ \A z \in zombies : z.tx = t => z.exp = srcRev
        /\ \A c \in calls : c.tx = t => c.exp = srcRev
    BY DEF FullInv, DocInv, SentAtRevision
  <2>2. t \in Tx
    BY DocTypes DEF FullInv
  <2>3. \A i \in DOMAIN log' : log'[i] = t => i = srcRev + 1
    BY <1>2, <2>1, <2>2
  <2>. QED
    BY <2>1, <2>3
<1>8. ReplayStartsFromSource'
  <2>. SUFFICES ASSUME NEW r \in recoveries, ownsRecovery(r), r.phase = "replay"
                PROVE  local = sourceDocument(acceptedRevision(r))'
    BY <1>3 DEF ReplayStartsFromSource
  <2>1. acceptedRevision(r)' = acceptedRevision(r) /\ acceptedRevision(r) \in 0 .. Len(log)
    BY acceptedRevisionExists DEF acceptedRevision, FullInv, AllInv
  <2>2. sourceDocument(acceptedRevision(r))' = SubSeq(log', 1, acceptedRevision(r))
    BY <2>1 DEF sourceDocument
  <2>3. SubSeq(log', 1, acceptedRevision(r)) = sourceDocument(acceptedRevision(r))
    BY <1>1, <2>1 DEF sourceDocument
  <2>. QED
    BY <2>2, <2>3 DEF FullInv, DocInv, ReplayStartsFromSource
<1>9. DocumentIsSourcePlusQueue'
  <2>1. sourceDocument(srcRev)' = sourceDocument(srcRev)
    BY <1>1, DocTypes DEF FullInv, sourceDocument
  <2>. QED
    BY <1>4, <2>1 DEF FullInv, DocInv, DocumentIsSourcePlusQueue
<1>. QED
  BY <1>5, <1>6, <1>7, <1>8, <1>9 DEF DocInv

LEMMA ServerCommitsDoc ==
  ASSUME FullInv, NEW t \in Tx, NEW exp, NEW answer, serverCommits(t, exp, answer),
         attempt[t] > 0, canContinue /\ t \in ToSet(queue) => exp = srcRev
  PROVE  /\ AcceptsAtTheEnd
         /\ answer.status = "acknowledged" =>
              answer.rev \in DOMAIN log' /\ log'[answer.rev] = t
         /\ \A i \in DOMAIN log : i \in DOMAIN log' /\ log'[i] = log[i]
<1>. DEFINE accepted == {i \in DOMAIN log : log[i] = t}
<1>1. CASE log' = log /\ answer.status # "acknowledged"
  BY <1>1 DEF AcceptsAtTheEnd
<1>2. CASE /\ accepted # {} /\ log' = log
           /\ answer = Reply("acknowledged", CHOOSE i \in accepted : TRUE)
  <2>1. answer.rev \in accepted
    BY <1>2 DEF Reply
  <2>. QED
    BY <1>2, <2>1 DEF AcceptsAtTheEnd
<1>3. CASE /\ exp = Len(log) /\ log' = Append(log, t)
           /\ answer = Reply("acknowledged", Len(log) + 1)
  <2>1. t \in Commits /\ answer.rev = Len(log) + 1
    BY <1>3 DEF Commits, Reply
  <2>2. AcceptsAtTheEnd
    BY <1>3, <2>1 DEF AcceptsAtTheEnd
  <2>. QED
    BY <1>3, <2>1, <2>2, AppendedLog DEF FullInv
<1>. QED
  BY <1>1, <1>2, <1>3 DEF serverCommits, Reply

LEMMA ServerProcessesDoc ==
  ASSUME FullInv, NEW c \in calls, ServerProcesses(c)
  PROVE  DocInv'
<1>1. PICK answer \in Answers :
        /\ serverCommits(c.tx, c.exp, answer)
        /\ calls' = (calls \ {c}) \cup {[c EXCEPT !.reply = answer]}
  BY DEF ServerProcesses
<1>2. PICK d : d = [c EXCEPT !.reply = answer]
  OBVIOUS
<1>3. d.tx = c.tx /\ d.exp = c.exp /\ d.reply = answer
  BY <1>2, DocTypes DEF FullInv, Calls
<1>4. calls' = (calls \ {c}) \cup {d}
  BY <1>1, <1>2
<1>5. /\ UNCHANGED <<mode, queue, suspended, epoch, srcRev, attempt, local, recoveries>>
      /\ zombies' = zombies
  BY DEF ServerProcesses, coordVars, recordVars
<1>6. c.tx \in Tx /\ attempt[c.tx] > 0 /\ (canContinue /\ c.tx \in ToSet(queue) => c.exp = srcRev)
  BY DocTypes DEF FullInv, DocInv, SentWasAttempted, SentAtRevision
<1>7. /\ AcceptsAtTheEnd
      /\ answer.status = "acknowledged" =>
           answer.rev \in DOMAIN log' /\ log'[answer.rev] = c.tx
      /\ \A i \in DOMAIN log : i \in DOMAIN log' /\ log'[i] = log[i]
  BY <1>1, <1>6, ServerCommitsDoc
<1>8. AnsweredTruthfully'
  BY <1>3, <1>4, <1>7 DEF FullInv, DocInv, AnsweredTruthfully
<1>9. \A x \in calls' : \E b \in calls : x.tx = b.tx /\ x.exp = b.exp
  BY <1>3, <1>4
<1>. QED
  BY <1>5, <1>7, <1>8, <1>9, Processes

LEMMA ProcessesLateDoc ==
  ASSUME FullInv, NEW z \in zombies, ServerProcessesLate(z)
  PROVE  DocInv'
<1>1. /\ UNCHANGED <<mode, queue, suspended, epoch, srcRev, attempt, local, recoveries, calls>>
      /\ zombies' \subseteq zombies
  BY DEF ServerProcessesLate, coordVars, recordVars, awaitVars
<1>2. PICK answer \in Answers : serverCommits(z.tx, z.exp, answer)
  BY DEF ServerProcessesLate
<1>3. z.tx \in Tx /\ attempt[z.tx] > 0 /\ (canContinue /\ z.tx \in ToSet(queue) => z.exp = srcRev)
  BY DocTypes DEF FullInv, DocInv, SentWasAttempted, SentAtRevision
<1>4. AcceptsAtTheEnd /\ \A i \in DOMAIN log : i \in DOMAIN log' /\ log'[i] = log[i]
  BY <1>2, <1>3, ServerCommitsDoc
<1>5. AnsweredTruthfully'
  BY <1>1, <1>4 DEF FullInv, DocInv, AnsweredTruthfully
<1>. QED
  BY <1>1, <1>4, <1>5, Processes

LEMMA ForeignCommitDoc ==
  ASSUME FullInv, ForeignCommit
  PROVE  DocInv'
<1>1. /\ UNCHANGED <<mode, queue, suspended, epoch, srcRev, attempt, local, recoveries,
                     calls, zombies>>
      /\ log' = Append(log, Foreign)
  BY DEF ForeignCommit, coordVars, recordVars, awaitVars
<1>2. Foreign \in Commits /\ Foreign \notin Tx
  BY NamesAssumption DEF Commits
<1>3. AcceptsAtTheEnd
  BY <1>1, <1>2 DEF AcceptsAtTheEnd
<1>4. \A i \in DOMAIN log : i \in DOMAIN log' /\ log'[i] = log[i]
  BY <1>1, <1>2, AppendedLog DEF FullInv
<1>5. AnsweredTruthfully'
  BY <1>1, <1>4 DEF FullInv, DocInv, AnsweredTruthfully
<1>. QED
  BY <1>1, <1>3, <1>5, Processes

LEMMA RestDoc ==
  ASSUME FullInv, (\E c \in cancels : ServerCancels(c)) \/ LoseContext \/ UNCHANGED vars
  PROVE  DocInv'
<1>1. /\ UNCHANGED <<mode, queue, suspended, epoch, srcRev, local, recoveries>>
      /\ NothingIsSent
  BY DEF ServerCancels, LoseContext, vars, coordVars, recordVars, awaitVars, worldVars,
         NothingIsSent
<1>2. RecoveryOrder'
  BY <1>1, RecoveriesKept DEF FullInv, DocInv, ownsRecovery
<1>. QED
  BY <1>1, <1>2, Stays DEF canContinue, ownsRecovery

LEMMA DocNext ==
  ASSUME ~CancelReportsHead
  PROVE  FullInv /\ [Next]_vars => DocInv'
<1>. SUFFICES ASSUME FullInv, [Next]_vars PROVE DocInv'
  OBVIOUS
<1>1. ASSUME NEW t \in Tx, NEW d \in Tx \cup {NoTx}, Enqueue(t, d) PROVE DocInv'
  BY <1>1, EnqueueDoc
<1>2. ASSUME NEW w \in Waiters, WhenIdle(w) PROVE DocInv'
  BY <1>2, WhenIdleDoc
<1>3. ASSUME NEW t \in Tx, CancelPending(t) PROVE DocInv'
  BY <1>3, CancelPendingDoc
<1>4. ASSUME NEW n \in srcRev .. Len(log), ResolveAfterResync(n) PROVE DocInv'
  BY <1>4, ResyncDoc
<1>5. ASSUME NEW n \in srcRev .. Len(log), ReplaceDocument(n) PROVE DocInv'
  BY <1>5, ReplaceDoc
<1>6. CASE RetryIndeterminate
  BY <1>6, RetryDoc
<1>7. CASE Destroy
  BY <1>7, DestroyDoc
<1>8. CASE Drain
  BY <1>8, DrainDoc
<1>9. ASSUME NEW c \in calls, CommitReturns(c) \/ CommitThrows(c) PROVE DocInv'
  BY <1>9, CommitAnswersDoc
<1>10. ASSUME NEW c \in cancels, CancelReturns(c) \/ CancelThrows(c) PROVE DocInv'
  BY <1>10, CancelAnswersDoc
<1>11. ASSUME NEW r \in recoveries, RollbackSucceeds(r) \/ RollbackFails(r) PROVE DocInv'
  BY <1>11, RollbacksDoc
<1>12. ASSUME NEW r \in recoveries, ReplaySucceeds(r) \/ ReplayFails(r) PROVE DocInv'
  BY <1>12, ReplaysDoc
<1>13. ASSUME NEW c \in calls, ServerProcesses(c) PROVE DocInv'
  BY <1>13, ServerProcessesDoc
<1>14. ASSUME NEW z \in zombies, ServerProcessesLate(z) PROVE DocInv'
  BY <1>14, ProcessesLateDoc
<1>15. CASE ForeignCommit
  BY <1>15, ForeignCommitDoc
<1>. QED
  BY <1>1, <1>2, <1>3, <1>4, <1>5, <1>6, <1>7, <1>8, <1>9, <1>10, <1>11, <1>12, <1>13,
     <1>14, <1>15, RestDoc DEF Next

(* As long as the coordinator can continue with its queue, the local       *)
(* document is the DataSource's document at #sourceRevision followed by    *)
(* the queue, for any number of transactions, foreign commits, retries,    *)
(* recoveries and replacements, whatever the network loses or delays,      *)
(* unless a cancellation moves #sourceRevision.                            *)
THEOREM DocumentFollowsTheSource ==
  ASSUME ~CancelReportsHead
  PROVE  Spec => []DocumentIsSourcePlusQueue
<1>1. Init => FullInv
  BY TypeInit, QueueInit, WakeInit, DocInit DEF FullInv, AllInv
<1>2. FullInv /\ [Next]_vars => FullInv'
  BY TypeNext, QueueNext, WakeNext, DocNext DEF FullInv, AllInv
<1>3. FullInv => DocumentIsSourcePlusQueue
  BY DEF FullInv, DocInv
<1>. QED
  BY <1>1, <1>2, <1>3, PTL DEF Spec

-----------------------------------------------------------------------------
(***************************************************************************)
(* Proof that receipts tell the truth, and that what they tell is true of  *)
(* the local document too when they tell it.  A receipt that says that a   *)
(* transaction failed or was cancelled is about the future: no request     *)
(* that was lost or is late may bring the transaction into the             *)
(* DataSource's log.  What makes it so is that the DataSource refused the  *)
(* transaction, or that all its requests expect a revision that has        *)
(* passed.                                                                 *)
(***************************************************************************)

(* The requests for t that are on the way expect a revision that is gone.  *)
Outdated(t) ==
  /\ \A c \in calls : c.tx = t => c.exp < Len(log)
  /\ \A z \in zombies : z.tx = t => z.exp < Len(log)

(* t is not in the log and will never be, unless it is sent again.         *)
Doomed(t) == t \notin ToSet(log) /\ (t \in refused \/ Outdated(t))

RefusedIsNotCommitted == \A t \in refused : t \notin ToSet(log)

AgreedIsRefused == \A c \in cancels : c.reply.status = "yes" => c.tx \in refused

(* A failure that is answered, or recovered from, and one that is told.    *)
FailuresAreDoomed ==
  /\ \A c \in calls : isLive(c) /\ c.reply.status \in Failures => Doomed(c.tx)
  /\ \A r \in recoveries : r.epoch = epoch => Doomed(r.tx)
  /\ \A t \in Tx : outcome[t] \in Failures => Doomed(t)

CancelledIsDoomed == \A t \in Tx : outcome[t] = "cancelled" /\ inc[t] = 0 => Doomed(t)

AcknowledgedIsCommitted == \A t \in Tx : outcome[t] = "acknowledged" => t \in ToSet(log)

(* Without a retry, what was sent and still waits is what is in flight.    *)
SentIsInFlight ==
  mode = "active" => \A t \in ToSet(queue) :
    attempt[t] > 0 /\ inc[t] = 0 => inFlight # NoTx

ReceiptInv ==
  /\ RefusedIsNotCommitted
  /\ AgreedIsRefused
  /\ FailuresAreDoomed
  /\ CancelledIsDoomed
  /\ AcknowledgedIsCommitted
  /\ SentIsInFlight

TruthInv == FullInv /\ ReceiptInv

LEMMA ReceiptInit == Init => ReceiptInv
<1>. SUFFICES ASSUME Init PROVE ReceiptInv
  OBVIOUS
<1>1. ToSet(queue) = {}
  BY DEF Init, ToSet
<1>. QED
  BY <1>1
  DEF Init, ReceiptInv, RefusedIsNotCommitted, AgreedIsRefused, FailuresAreDoomed, CancelledIsDoomed,
      AcknowledgedIsCommitted, SentIsInFlight, Failures

-----------------------------------------------------------------------------
(* What a step does to the requests that are on the way and to the world.  *)

RequestsAreOld ==
  /\ \A c \in calls' : \E b \in calls : c.tx = b.tx /\ c.exp = b.exp
  /\ \A z \in zombies' : z \in zombies \/ \E c \in calls : z.tx = c.tx /\ z.exp = c.exp

Dispatches ==
  /\ canDispatch
  /\ \E d : d.tx = Head(queue) /\ d.reply = NoReply /\ calls' = calls \cup {d}
  /\ UNCHANGED <<outcome, log, refused, zombies>>

Serves(t, exp, answer) == RequestsAreOld /\ serverCommits(t, exp, answer)

Refuses ==
  /\ RequestsAreOld /\ log' = log
  /\ \E t : refused' = refused \cup {t} /\ t \notin ToSet(log)

WorldStep ==
  \/ RequestsAreOld /\ UNCHANGED <<log, refused>>
  \/ RequestsAreOld /\ log' = Append(log, Foreign) /\ UNCHANGED refused
  \/ Dispatches
  \/ \E q \in calls \cup zombies, answer \in Answers : Serves(q.tx, q.exp, answer)
  \/ Refuses

(* An answer is an old one or has just been given.                         *)
AnswersAreTheServers ==
  \A c \in calls' : c.reply.status \in Failures =>
    \/ c \in calls
    \/ \E b \in calls : /\ c.tx = b.tx /\ c.exp = b.exp /\ c.epoch = b.epoch
                        /\ Serves(b.tx, b.exp, c.reply)
                        /\ UNCHANGED <<epoch, outcome>>

AgreementsAreTheServers ==
  \A c \in cancels' : c.reply.status = "yes" => c \in cancels \/ c.tx \in refused'

RecoveriesHaveACause ==
  \A r \in recoveries' :
    \/ \E s \in recoveries : s.tx = r.tx /\ s.epoch = r.epoch
    \/ \E c \in calls : ownsResponse(c) /\ c.reply.status \in Failures /\ r.tx = c.tx

Renewed == [t \in Tx |-> IF t \in ToSet(queue) THEN inc[t] + 1 ELSE inc[t]]

StepFacts ==
  /\ WorldStep
  /\ AnswersAreTheServers
  /\ AgreementsAreTheServers
  /\ RecoveriesHaveACause
  /\ epoch' \in {epoch, epoch + 1}
  /\ inc' \in {inc, Renewed}

(* Steps of the coordinator that send nothing.                             *)
LEMMA QuietFacts ==
  ASSUME NothingIsSent, refused' = refused, recoveries' \subseteq recoveries,
         \A c \in cancels' : c \in cancels \/ c.reply = NoReply,
         epoch' \in {epoch, epoch + 1}, inc' \in {inc, Renewed}
  PROVE  StepFacts
<1>1. WorldStep
  BY DEF NothingIsSent, WorldStep, RequestsAreOld
<1>2. AnswersAreTheServers /\ RecoveriesHaveACause
  BY DEF NothingIsSent, AnswersAreTheServers, RecoveriesHaveACause
<1>3. AgreementsAreTheServers
  BY DEF AgreementsAreTheServers, NoReply, Reply
<1>. QED
  BY <1>1, <1>2, <1>3 DEF StepFacts

LEMMA OperationFacts ==
  ASSUME \/ \E t \in Tx, d \in Tx \cup {NoTx} : Enqueue(t, d)
         \/ \E w \in Waiters : WhenIdle(w)
         \/ RetryIndeterminate
         \/ \E n \in srcRev .. Len(log) : ResolveAfterResync(n)
         \/ \E n \in srcRev .. Len(log) : ReplaceDocument(n)
         \/ Destroy
  PROVE  StepFacts
<1>1. /\ UNCHANGED <<calls, cancels, recoveries, log, refused, zombies>>
      /\ epoch' \in {epoch, epoch + 1}
  BY DEF Enqueue, WhenIdle, RetryIndeterminate, ResolveAfterResync, ReplaceDocument, Destroy,
         abandonQueue, invalidateCurrentContext, coordVars, awaitVars, worldVars
<1>2. attempt' = attempt
  BY DEF Enqueue, WhenIdle, RetryIndeterminate, ResolveAfterResync, ReplaceDocument, Destroy
<1>3. inc' \in {inc, Renewed}
  BY DEF Enqueue, WhenIdle, RetryIndeterminate, ResolveAfterResync, ReplaceDocument, Destroy, Renewed
<1>. QED
  BY <1>1, <1>2, <1>3, QuietFacts DEF NothingIsSent

LEMMA CancelPendingFacts ==
  ASSUME NEW t \in Tx, CancelPending(t)
  PROVE  StepFacts
<1>1. /\ UNCHANGED <<calls, recoveries, log, refused, zombies, epoch, attempt, inc>>
  BY DEF CancelPending
<1>2. \A c \in cancels' : c \in cancels \/ c.reply = NoReply
  BY DEF CancelPending, cancelBeforeDispatch, cancelStarted
<1>. QED
  BY <1>1, <1>2, QuietFacts DEF NothingIsSent

LEMMA DrainFacts ==
  ASSUME Drain
  PROVE  StepFacts
<1>1. UNCHANGED <<inc, cancels, recoveries, log, refused, zombies>>
  BY DEF Drain, worldVars
<1>2. CASE UNCHANGED <<attempt, calls>> /\ epoch' \in {epoch, epoch + 1}
  BY <1>1, <1>2, QuietFacts DEF NothingIsSent
<1>3. CASE canDispatch /\ dispatch(Head(queue)) /\ UNCHANGED <<epoch, outcome>>
  <2>1. PICK d : /\ d = [tx |-> Head(queue), inc |-> inc[Head(queue)], epoch |-> epoch,
                         version |-> version[Head(queue)], exp |-> srcRev, reply |-> NoReply]
                 /\ calls' = calls \cup {d}
    BY <1>3 DEF dispatch
  <2>2. d.tx = Head(queue) /\ d.reply = NoReply /\ NoReply.status \notin Failures
    BY <2>1 DEF NoReply, Reply, Failures
  <2>3. WorldStep
    BY <1>1, <1>3, <2>1, <2>2 DEF WorldStep, Dispatches
  <2>4. AnswersAreTheServers
    BY <2>1, <2>2 DEF AnswersAreTheServers
  <2>. QED
    BY <1>1, <1>3, <2>3, <2>4
    DEF StepFacts, AgreementsAreTheServers, RecoveriesHaveACause
<1>. QED
  BY <1>2, <1>3 DEF Drain, invalidateCurrentContext, abandonQueue

LEMMA AnswerFacts ==
  ASSUME NEW c \in calls, CommitReturns(c) \/ CommitThrows(c)
  PROVE  StepFacts
<1>1. /\ UNCHANGED <<inc, cancels, log, refused, attempt>>
      /\ calls' \subseteq calls
  BY DEF CommitReturns, CommitThrows, dropLate, answerToLostContext, acknowledged,
         explicitFailure, commitUnanswered, recordVars, worldVars
<1>2. \A z \in zombies' : z \in zombies \/ \E b \in calls : z.tx = b.tx /\ z.exp = b.exp
  <2>1. CASE CommitReturns(c)
    BY <2>1 DEF CommitReturns, worldVars
  <2>2. CASE CommitThrows(c)
    <3>1. zombies' \subseteq zombies \cup {[tx |-> c.tx, exp |-> c.exp]}
      BY <2>2 DEF CommitThrows
    <3>. QED
      BY <3>1
  <2>. QED
    BY <2>1, <2>2
<1>3. NothingIsSent
  BY <1>1, <1>2 DEF NothingIsSent
<1>4. epoch' \in {epoch, epoch + 1}
  BY DEF CommitReturns, CommitThrows, dropLate, answerToLostContext, acknowledged, coordVars,
         explicitFailure, commitUnanswered, invalidateCurrentContext, abandonQueue
<1>5. CASE recoveries' = recoveries
  BY <1>1, <1>3, <1>4, <1>5, QuietFacts
<1>6. CASE ownsResponse(c) /\ c.reply.status \in Failures /\ explicitFailure(c.tx, c.reply)
  <2>1. RecoveriesHaveACause
    BY <1>6 DEF explicitFailure, RecoveriesHaveACause
  <2>2. WorldStep
    BY <1>1, <1>3 DEF NothingIsSent, WorldStep, RequestsAreOld
  <2>. QED
    BY <1>1, <1>4, <2>1, <2>2
    DEF StepFacts, AnswersAreTheServers, AgreementsAreTheServers
<1>. QED
  BY <1>5, <1>6
  DEF CommitReturns, CommitThrows, dropLate, answerToLostContext, acknowledged, commitUnanswered

LEMMA CancelAnswerFacts ==
  ASSUME NEW c \in cancels, CancelReturns(c) \/ CancelThrows(c)
  PROVE  StepFacts
<1>1. /\ UNCHANGED <<calls, recoveries, log, refused, zombies, epoch, attempt, inc>>
      /\ cancels' \subseteq cancels
  BY DEF CancelReturns, CancelThrows, recordVars, worldVars
<1>. QED
  BY <1>1, QuietFacts DEF NothingIsSent

LEMMA RecoveryFacts ==
  ASSUME TruthInv, NEW r \in recoveries,
         \/ RollbackSucceeds(r) \/ RollbackFails(r)
         \/ ReplaySucceeds(r) \/ ReplayFails(r)
  PROVE  StepFacts
<1>1. UNCHANGED <<calls, cancels, log, refused, zombies>>
  BY DEF RollbackSucceeds, RollbackFails, ReplaySucceeds, ReplayFails, worldVars
<1>2. UNCHANGED <<attempt, inc>>
  BY DEF RollbackSucceeds, RollbackFails, ReplaySucceeds, ReplayFails, recoveryAbandoned,
         invalidateCurrentContext, recordVars
<1>3. epoch' \in {epoch, epoch + 1}
  BY DEF RollbackSucceeds, RollbackFails, ReplaySucceeds, ReplayFails, recoveryAbandoned,
         invalidateCurrentContext, abandonQueue, coordVars
<1>4. CASE recoveries' = recoveries \ {r}
  BY <1>1, <1>2, <1>3, <1>4, QuietFacts DEF NothingIsSent
<1>5. CASE recoveries' = (recoveries \ {r}) \cup {[r EXCEPT !.phase = "replay"]}
  <2>1. PICK x : x = [r EXCEPT !.phase = "replay"]
    OBVIOUS
  <2>2. x.tx = r.tx /\ x.epoch = r.epoch
    BY <2>1, DocTypes DEF TruthInv, FullInv, Recoveries
  <2>3. RecoveriesHaveACause
    BY <1>5, <2>1, <2>2 DEF RecoveriesHaveACause
  <2>4. WorldStep
    BY <1>1 DEF WorldStep, RequestsAreOld
  <2>. QED
    BY <1>1, <1>2, <1>3, <2>3, <2>4 DEF StepFacts, AnswersAreTheServers, AgreementsAreTheServers
<1>. QED
  BY <1>4, <1>5 DEF RollbackSucceeds, RollbackFails, ReplaySucceeds, ReplayFails

LEMMA ServerFacts ==
  ASSUME TruthInv, NEW c \in calls, ServerProcesses(c)
  PROVE  StepFacts
<1>1. PICK answer \in Answers :
        /\ serverCommits(c.tx, c.exp, answer)
        /\ calls' = (calls \ {c}) \cup {[c EXCEPT !.reply = answer]}
  BY DEF ServerProcesses
<1>2. PICK d : d = [c EXCEPT !.reply = answer]
  OBVIOUS
<1>3. d.tx = c.tx /\ d.exp = c.exp /\ d.epoch = c.epoch /\ d.reply = answer
  BY <1>2, DocTypes DEF TruthInv, FullInv, Calls
<1>4. calls' = (calls \ {c}) \cup {d}
  BY <1>1, <1>2
<1>5. UNCHANGED <<epoch, outcome, inc, cancels, recoveries, zombies>>
  BY DEF ServerProcesses, coordVars, recordVars
<1>6. RequestsAreOld
  BY <1>3, <1>4, <1>5 DEF RequestsAreOld
<1>7. Serves(c.tx, c.exp, answer)
  BY <1>1, <1>6 DEF Serves
<1>8. WorldStep
  BY <1>7 DEF WorldStep
<1>9. AnswersAreTheServers
  BY <1>3, <1>4, <1>5, <1>7 DEF AnswersAreTheServers
<1>. QED
  BY <1>5, <1>8, <1>9 DEF StepFacts, AgreementsAreTheServers, RecoveriesHaveACause

LEMMA WorldFacts ==
  ASSUME TruthInv,
         \/ \E z \in zombies : ServerProcessesLate(z)
         \/ \E c \in cancels : ServerCancels(c)
         \/ ForeignCommit \/ LoseContext \/ UNCHANGED vars
  PROVE  StepFacts
<1>1. CASE \E z \in zombies : ServerProcessesLate(z)
  <2>1. PICK z \in zombies : ServerProcessesLate(z)
    BY <1>1
  <2>2. /\ UNCHANGED <<epoch, inc, calls, cancels, recoveries>>
        /\ zombies' \subseteq zombies
    BY <2>1 DEF ServerProcessesLate, coordVars, recordVars, awaitVars
  <2>3. RequestsAreOld
    BY <2>2 DEF RequestsAreOld
  <2>4. \E answer \in Answers : Serves(z.tx, z.exp, answer)
    BY <2>1, <2>3 DEF ServerProcessesLate, Serves
  <2>5. WorldStep
    BY <2>4 DEF WorldStep
  <2>. QED
    BY <2>2, <2>5
    DEF StepFacts, AnswersAreTheServers, AgreementsAreTheServers, RecoveriesHaveACause
<1>2. CASE \E c \in cancels : ServerCancels(c)
  <2>1. PICK c \in cancels : ServerCancels(c)
    BY <1>2
  <2>2. UNCHANGED <<epoch, inc, calls, recoveries, log, zombies>>
    BY <2>1 DEF ServerCancels, coordVars, recordVars
  <2>3. RequestsAreOld
    BY <2>2 DEF RequestsAreOld
  <2>4. PICK agreed \in BOOLEAN :
          /\ agreed => c.tx \notin ToSet(log)
          /\ refused' = IF agreed THEN refused \cup {c.tx} ELSE refused
          /\ cancels' = (cancels \ {c}) \cup
               {[c EXCEPT !.reply = Reply(IF agreed THEN "yes" ELSE "no", Len(log))]}
    BY <2>1 DEF ServerCancels
  <2>5. WorldStep
    BY <2>2, <2>3, <2>4 DEF WorldStep, Refuses
  <2>6. AgreementsAreTheServers
    <3>1. PICK d : d = [c EXCEPT !.reply = Reply(IF agreed THEN "yes" ELSE "no", Len(log))]
      OBVIOUS
    <3>2. d.tx = c.tx /\ d.reply.status = (IF agreed THEN "yes" ELSE "no")
      BY <3>1 DEF TruthInv, FullInv, AllInv, TypeInv, TypeOK, AwaitTypes, Cancels, Reply
    <3>3. cancels' = (cancels \ {c}) \cup {d}
      BY <2>4, <3>1
    <3>. QED
      BY <2>4, <3>2, <3>3 DEF AgreementsAreTheServers
  <2>. QED
    BY <2>2, <2>5, <2>6 DEF StepFacts, AnswersAreTheServers, RecoveriesHaveACause
<1>3. CASE ForeignCommit
  <2>1. /\ UNCHANGED <<epoch, inc, calls, cancels, recoveries, zombies, refused>>
        /\ log' = Append(log, Foreign)
    BY <1>3 DEF ForeignCommit, coordVars, recordVars, awaitVars
  <2>2. WorldStep
    BY <2>1 DEF WorldStep, RequestsAreOld
  <2>. QED
    BY <2>1, <2>2
    DEF StepFacts, AnswersAreTheServers, AgreementsAreTheServers, RecoveriesHaveACause
<1>4. CASE LoseContext \/ UNCHANGED vars
  BY <1>4, QuietFacts
  DEF LoseContext, vars, coordVars, recordVars, awaitVars, worldVars, NothingIsSent
<1>. QED
  BY <1>1, <1>2, <1>3, <1>4

LEMMA NextFacts ==
  ASSUME TruthInv, [Next]_vars
  PROVE  StepFacts
<1>1. ASSUME NEW t \in Tx, CancelPending(t) PROVE StepFacts
  BY <1>1, CancelPendingFacts
<1>2. CASE Drain
  BY <1>2, DrainFacts
<1>3. ASSUME NEW c \in calls, CommitReturns(c) \/ CommitThrows(c) PROVE StepFacts
  BY <1>3, AnswerFacts
<1>4. ASSUME NEW c \in cancels, CancelReturns(c) \/ CancelThrows(c) PROVE StepFacts
  BY <1>4, CancelAnswerFacts
<1>5. ASSUME NEW r \in recoveries,
             RollbackSucceeds(r) \/ RollbackFails(r) \/ ReplaySucceeds(r) \/ ReplayFails(r)
      PROVE  StepFacts
  BY <1>5, RecoveryFacts
<1>6. ASSUME NEW c \in calls, ServerProcesses(c) PROVE StepFacts
  BY <1>6, ServerFacts
<1>. QED
  BY <1>1, <1>2, <1>3, <1>4, <1>5, <1>6, OperationFacts, WorldFacts DEF Next

-----------------------------------------------------------------------------
(* What is doomed stays doomed, and what is refused is not committed.      *)

LEMMA LogOfServer ==
  ASSUME NEW t, NEW exp, NEW answer, serverCommits(t, exp, answer)
  PROVE  /\ \/ UNCHANGED <<log, refused>>
            \/ log' = log /\ refused' = refused \cup {t} /\ t \notin ToSet(log)
            \/ /\ log' = Append(log, t) /\ exp = Len(log)
               /\ t \notin refused /\ refused' = refused
         /\ answer.status = "rejected" => t \notin ToSet(log) /\ log' = log /\ t \in refused'
         /\ answer.status = "conflicted" => t \notin ToSet(log) /\ log' = log /\ exp # Len(log)
<1>. DEFINE accepted == {i \in DOMAIN log : log[i] = t}
<1>1. accepted = {} => t \notin ToSet(log)
  BY DEF ToSet
<1>2. \/ answer.status = "acknowledged" /\ UNCHANGED <<log, refused>>
      \/ /\ accepted = {} /\ exp # Len(log) /\ answer.status = "conflicted"
         /\ UNCHANGED <<log, refused>>
      \/ /\ exp = Len(log) /\ t \notin refused /\ answer.status = "acknowledged"
         /\ log' = Append(log, t) /\ refused' = refused
      \/ /\ accepted = {} /\ answer.status = "rejected"
         /\ refused' = refused \cup {t} /\ log' = log
  BY DEF serverCommits, Reply
<1>. HIDE DEF accepted
<1>. QED
  BY <1>1, <1>2

LEMMA SetOfAppendedLog ==
  ASSUME AllInv, NEW x \in Commits, log' = Append(log, x)
  PROVE  ToSet(log') = ToSet(log) \cup {x} /\ Len(log') = Len(log) + 1
<1>1. log \in Seq(Commits)
  BY DocTypes
<1>2. Len(log') = Len(log) + 1
  BY <1>1, AppendProperties
<1>3. ToSet(log') = ToSet(log) \cup {x}
  BY AppendedLog DEF ToSet
<1>. QED
  BY <1>2, <1>3

(* How the log and the refusals grow.                                      *)
Grows ==
  \/ UNCHANGED <<log, refused>>
  \/ log' = log /\ \E t : refused' = refused \cup {t} /\ t \notin ToSet(log)
  \/ /\ refused' = refused
     /\ \E x \in Commits :
          /\ log' = Append(log, x) /\ x \notin refused
          /\ x \in Tx => \E q \in calls \cup zombies : q.tx = x /\ q.exp = Len(log)

LEMMA StepGrows ==
  ASSUME TruthInv, WorldStep
  PROVE  Grows
<1>1. CASE UNCHANGED <<log, refused>>
  BY <1>1 DEF Grows
<1>2. CASE log' = Append(log, Foreign) /\ UNCHANGED refused
  <2>1. Foreign \in Commits /\ Foreign \notin Tx
    BY NamesAssumption DEF Commits
  <2>2. Foreign \notin refused
    BY <2>1 DEF TruthInv, FullInv, AllInv, TypeInv, TypeOK, WorldTypes
  <2>. QED
    BY <1>2, <2>1, <2>2 DEF Grows
<1>3. CASE \E q \in calls \cup zombies, answer \in Answers : Serves(q.tx, q.exp, answer)
  <2>1. PICK q \in calls \cup zombies, answer \in Answers : serverCommits(q.tx, q.exp, answer)
    BY <1>3 DEF Serves
  <2>2. q.tx \in Commits
    BY DocTypes DEF TruthInv, FullInv, Commits
  <2>. QED
    BY <2>1, <2>2, LogOfServer DEF Grows
<1>4. CASE Refuses
  BY <1>4 DEF Refuses, Grows
<1>5. CASE Dispatches
  BY <1>1, <1>5 DEF Dispatches
<1>. QED
  BY <1>1, <1>2, <1>3, <1>4, <1>5 DEF WorldStep

LEMMA GrowthFacts ==
  ASSUME TruthInv, Grows
  PROVE  /\ ToSet(log) \subseteq ToSet(log') /\ Len(log') >= Len(log)
         /\ refused \subseteq refused'
         /\ RefusedIsNotCommitted'
<1>1. CASE UNCHANGED <<log, refused>>
  BY <1>1, DocTypes DEF TruthInv, FullInv, ReceiptInv, RefusedIsNotCommitted
<1>2. CASE log' = log /\ \E t : refused' = refused \cup {t} /\ t \notin ToSet(log)
  BY <1>2, DocTypes DEF TruthInv, FullInv, ReceiptInv, RefusedIsNotCommitted
<1>3. CASE refused' = refused /\ \E x \in Commits : log' = Append(log, x) /\ x \notin refused
  BY <1>3, DocTypes, SetOfAppendedLog DEF TruthInv, FullInv, ReceiptInv, RefusedIsNotCommitted
<1>. QED
  BY <1>1, <1>2, <1>3 DEF Grows

LEMMA DoomedForEver ==
  ASSUME TruthInv, WorldStep, NEW t \in Tx, Doomed(t),
         canDispatch /\ outcome' = outcome => Head(queue) # t
  PROVE  Doomed(t)'
<1>1. Grows
  BY StepGrows
<1>2. Len(log) \in Nat /\ Len(log') >= Len(log) /\ refused \subseteq refused'
  BY <1>1, GrowthFacts, DocTypes DEF TruthInv, FullInv
<1>3. t \notin ToSet(log')
  <2>1. CASE log' = log
    BY <2>1 DEF Doomed
  <2>2. ASSUME NEW x \in Commits, log' = Append(log, x), x \notin refused,
               x \in Tx => \E q \in calls \cup zombies : q.tx = x /\ q.exp = Len(log)
        PROVE  t \notin ToSet(log')
    <3>1. x # t
      BY <1>2, <2>2 DEF Doomed, Outdated
    <3>. QED
      BY <2>2, <3>1, SetOfAppendedLog DEF Doomed, TruthInv, FullInv
  <2>. QED
    BY <1>1, <2>1, <2>2 DEF Grows
<1>4. CASE t \in refused
  BY <1>2, <1>3, <1>4 DEF Doomed
<1>5. CASE Outdated(t) /\ RequestsAreOld
  <2>1. \A c \in calls' : c.tx = t => c.exp < Len(log)
    BY <1>5 DEF Outdated, RequestsAreOld
  <2>2. \A z \in zombies' : z.tx = t => z.exp < Len(log)
    BY <1>5 DEF Outdated, RequestsAreOld
  <2>3. /\ \A c \in calls' : c.exp \in Nat
        /\ \A z \in zombies' : z.exp \in Nat
    BY <1>5, DocTypes
    DEF RequestsAreOld, TruthInv, FullInv, AllInv, TypeInv, TypeOK, AwaitTypes, WorldTypes, Calls, Zombies
  <2>4. Len(log') \in Nat
    <3>1. CASE log' = log
      BY <1>2, <3>1
    <3>2. CASE \E x \in Commits : log' = Append(log, x)
      BY <1>2, <3>2, SetOfAppendedLog DEF TruthInv, FullInv
    <3>. QED
      BY <1>1, <3>1, <3>2 DEF Grows
  <2>5. Outdated(t)'
    BY <1>2, <2>1, <2>2, <2>3, <2>4 DEF Outdated
  <2>. QED
    BY <1>3, <2>5 DEF Doomed
<1>6. CASE Outdated(t) /\ Dispatches
  <2>1. PICK d : d.tx = Head(queue) /\ calls' = calls \cup {d}
    BY <1>6 DEF Dispatches
  <2>2. d.tx # t /\ UNCHANGED <<log, zombies>>
    BY <1>6, <2>1 DEF Dispatches
  <2>3. Outdated(t)'
    BY <1>6, <2>1, <2>2 DEF Outdated
  <2>. QED
    BY <1>3, <2>3 DEF Doomed
<1>7. RequestsAreOld \/ Dispatches
  BY DEF WorldStep, Serves, Refuses
<1>. QED
  BY <1>4, <1>5, <1>6, <1>7 DEF Doomed

-----------------------------------------------------------------------------
(* Where receipts come from.                                               *)

LEMMA SettledBy ==
  ASSUME NEW T, NEW s, NEW t \in Tx, settleOutcome(T, s)[t] # outcome[t]
  PROVE  t \in T /\ settleOutcome(T, s)[t] = s
BY DEF settleOutcome

(* The document is the source's, perhaps with the descendants put back.    *)
RolledBack ==
  \E n \in 0 .. Len(log) : local' \in {sourceDocument(n), sourceDocument(n) \o Tail(queue)}

(* What a receipt that changes to a final one goes back to.                *)
TrueReceipt(t) ==
  /\ outcome'[t] = "acknowledged" =>
       \E c \in calls : c.tx = t /\ c.reply.status = "acknowledged"
  /\ outcome'[t] \in Failures =>
       /\ \E r \in recoveries : ownsRecovery(r) /\ r.tx = t
       /\ RolledBack
  /\ outcome'[t] = "cancelled" =>
       /\ mode = "active" /\ t \in ToSet(queue)
       /\ inFlight # t \/ \E c \in cancels : c.tx = t /\ c.reply.status = "yes"

Untold == {"none", "pending", "reloadRequired", "stale", "aborted"}

LEMMA UntoldIsTrue ==
  ASSUME NEW t, outcome'[t] \in Untold
  PROVE  TrueReceipt(t)
BY DEF Untold, TrueReceipt, Failures

LEMMA LeavingIsUntold ==
  ASSUME NEW t \in Tx, outcome'[t] # outcome[t],
         NEW T, NEW s \in Untold, outcome' = settleOutcome(T, s)
  PROVE  TrueReceipt(t)
BY SettledBy, UntoldIsTrue

LEMMA InvalidationIsUntold ==
  ASSUME NEW t \in Tx, outcome'[t] # outcome[t], invalidateCurrentContext
  PROVE  TrueReceipt(t)
BY LeavingIsUntold DEF invalidateCurrentContext, abandonQueue, Untold

LEMMA NewReceipt ==
  ASSUME TruthInv, [Next]_vars, NEW t \in Tx, outcome'[t] # outcome[t]
  PROVE  TrueReceipt(t)
<1>1. ASSUME NEW x \in Tx, NEW d \in Tx \cup {NoTx}, Enqueue(x, d) PROVE TrueReceipt(t)
  <2>1. CASE invalidateCurrentContext
    BY <2>1, InvalidationIsUntold
  <2>2. CASE outcome' = [outcome EXCEPT ![x] = "pending"]
    <3>1. outcome'[t] = "pending"
      BY <2>2, DocTypes DEF TruthInv, FullInv, AllInv, TypeInv, TypeOK, RecordTypes
    <3>. QED
      BY <3>1, UntoldIsTrue DEF Untold
  <2>. QED
    BY <1>1, <2>1, <2>2 DEF Enqueue
<1>2. CASE RetryIndeterminate
  <2>1. CASE invalidateCurrentContext
    BY <2>1, InvalidationIsUntold
  <2>2. CASE outcome' = [x \in Tx |-> IF x \in ToSet(queue) THEN "pending" ELSE outcome[x]]
    BY <2>2, UntoldIsTrue DEF Untold
  <2>. QED
    BY <1>2, <2>1, <2>2 DEF RetryIndeterminate
<1>3. ASSUME NEW x \in Tx, CancelPending(x) PROVE TrueReceipt(t)
  <2>1. /\ mode = "active" /\ queue # <<>> /\ inFlight # x /\ Last(queue) = x
        /\ outcome' = settleOutcome({x}, "cancelled")
    BY <1>3 DEF CancelPending, cancelBeforeDispatch, cancelStarted
  <2>2. t = x /\ outcome'[t] = "cancelled"
    BY <2>1, SettledBy
  <2>3. x \in ToSet(queue)
    BY <2>1, DocTypes, LastIsElement DEF TruthInv, FullInv, ToSet
  <2>. QED
    BY <2>1, <2>2, <2>3 DEF TrueReceipt, Failures
<1>4. CASE \/ \E n \in srcRev .. Len(log) : ResolveAfterResync(n) \/ ReplaceDocument(n)
           \/ Destroy \/ Drain
  <2>1. CASE invalidateCurrentContext
    BY <2>1, InvalidationIsUntold
  <2>2. CASE \E s \in {"stale", "aborted"} : abandonQueue(s)
    BY <2>2, LeavingIsUntold DEF abandonQueue, Untold
  <2>3. CASE outcome' = outcome
    BY <2>3
  <2>. QED
    BY <1>4, <2>1, <2>2, <2>3 DEF ResolveAfterResync, ReplaceDocument, Destroy, Drain
<1>5. ASSUME NEW c \in calls, CommitReturns(c) \/ CommitThrows(c) PROVE TrueReceipt(t)
  <2>1. CASE answerToLostContext
    BY <2>1, InvalidationIsUntold DEF answerToLostContext
  <2>2. CASE \E b \in BOOLEAN : commitUnanswered(b)
    BY <2>2, LeavingIsUntold DEF commitUnanswered, Untold
  <2>3. CASE c.reply.status = "acknowledged" /\ acknowledged(c.tx, c.reply.rev)
    <3>1. t = c.tx /\ outcome'[t] = "acknowledged"
      BY <2>3, SettledBy DEF acknowledged
    <3>. QED
      BY <2>3, <3>1 DEF TrueReceipt, Failures
  <2>4. CASE dropLate \/ explicitFailure(c.tx, c.reply)
    BY <2>4 DEF dropLate, explicitFailure, recordVars
  <2>. QED
    BY <1>5, <2>1, <2>2, <2>3, <2>4 DEF CommitReturns, CommitThrows
<1>6. ASSUME NEW c \in cancels, CancelReturns(c) \/ CancelThrows(c) PROVE TrueReceipt(t)
  <2>1. c.reply.status = "yes" /\ ownsResponse(c) /\ cancelAgreed(c)
    BY <1>6 DEF CancelReturns, CancelThrows, recordVars
  <2>2. t = c.tx /\ outcome'[t] = "cancelled"
    BY <2>1, SettledBy DEF cancelAgreed
  <2>3. mode = "active" /\ t \in ToSet(queue)
    BY <2>1, <2>2, DocTypes, HeadIsFirst DEF ownsResponse, TruthInv, FullInv
  <2>. QED
    BY <2>1, <2>2, <2>3 DEF TrueReceipt, Failures
<1>7. ASSUME NEW r \in recoveries,
             RollbackSucceeds(r) \/ RollbackFails(r) \/ ReplaySucceeds(r) \/ ReplayFails(r)
      PROVE  TrueReceipt(t)
  <2>0. acceptedRevision(r) \in 0 .. Len(log)
    BY acceptedRevisionExists DEF TruthInv, FullInv, AllInv
  <2>1. CASE invalidateCurrentContext
    BY <2>1, InvalidationIsUntold
  <2>2. CASE \E T : outcome' = settleOutcome(T, "reloadRequired")
    BY <2>2, LeavingIsUntold DEF Untold
  <2>3. CASE ownsRecovery(r) /\ RolledBack /\ \E q : recovered(r, q)
    <3>1. t = r.tx /\ outcome'[t] = r.failure.status
      BY <2>3, SettledBy DEF recovered
    <3>2. r.failure.status \in Failures
      BY DocTypes DEF TruthInv, FullInv, Recoveries
    <3>. QED
      BY <2>3, <3>1, <3>2 DEF TrueReceipt, Failures
  <2>4. CASE /\ ownsRecovery(r) /\ RolledBack
             /\ outcome' = [settleOutcome(ToSet(Tail(queue)), "reloadRequired")
                              EXCEPT ![r.tx] = r.failure.status]
    <3>1. r.failure.status \in Failures
      BY DocTypes DEF TruthInv, FullInv, Recoveries
    <3>2. CASE t = r.tx
      <4>1. outcome'[t] = r.failure.status
        BY <2>4, <3>2 DEF settleOutcome
      <4>. QED
        BY <2>4, <3>1, <3>2, <4>1 DEF TrueReceipt, Failures
    <3>3. CASE t # r.tx
      <4>1. outcome'[t] = settleOutcome(ToSet(Tail(queue)), "reloadRequired")[t]
        BY <2>4, <3>3 DEF settleOutcome
      <4>. QED
        BY <4>1, SettledBy, UntoldIsTrue DEF Untold
    <3>. QED
      BY <3>2, <3>3
  <2>5. CASE outcome' = outcome
    BY <2>5
  <2>6. CASE recoveryAbandoned(r)
    BY <2>1, <2>5, <2>6 DEF recoveryAbandoned, recordVars
  <2>7. CASE RollbackFails(r)
    BY <1>7, <2>2, <2>6, <2>7 DEF RollbackFails
  <2>8. CASE RollbackSucceeds(r)
    BY <1>7, <2>0, <2>3, <2>5, <2>6, <2>8 DEF RollbackSucceeds, RolledBack
  <2>9. CASE ReplaySucceeds(r)
    <3>1. CASE ownsRecovery(r) /\ recovered(r, Tail(queue)) /\ local' = local \o Tail(queue)
      <4>1. local' = sourceDocument(acceptedRevision(r)) \o Tail(queue)
        BY <2>9, <3>1 DEF ReplaySucceeds, TruthInv, FullInv, DocInv, ReplayStartsFromSource
      <4>2. RolledBack
        BY <2>0, <4>1 DEF RolledBack
      <4>. QED
        BY <2>3, <3>1, <4>2
    <3>. QED
      BY <2>6, <2>9, <3>1 DEF ReplaySucceeds
  <2>10. CASE ReplayFails(r)
    <3>1. CASE /\ ownsRecovery(r)
               /\ outcome' = [settleOutcome(ToSet(Tail(queue)), "reloadRequired")
                                EXCEPT ![r.tx] = r.failure.status]
      <4>1. local' = sourceDocument(acceptedRevision(r))
        BY <2>10, <3>1
        DEF ReplayFails, worldVars, TruthInv, FullInv, DocInv, ReplayStartsFromSource
      <4>2. RolledBack
        BY <2>0, <4>1 DEF RolledBack
      <4>. QED
        BY <2>4, <3>1, <4>2
    <3>. QED
      BY <2>6, <2>10, <3>1 DEF ReplayFails
  <2>. QED
    BY <1>7, <2>7, <2>8, <2>9, <2>10
<1>8. CASE \/ \E w \in Waiters : WhenIdle(w)
           \/ \E c \in calls : ServerProcesses(c)
           \/ \E z \in zombies : ServerProcessesLate(z)
           \/ \E c \in cancels : ServerCancels(c)
           \/ ForeignCommit \/ LoseContext \/ UNCHANGED vars
  BY <1>8 DEF WhenIdle, ServerProcesses, ServerProcessesLate, ServerCancels, ForeignCommit,
              LoseContext, vars, recordVars
<1>. QED
  BY <1>1, <1>2, <1>3, <1>4, <1>5, <1>6, <1>7, <1>8 DEF Next

-----------------------------------------------------------------------------
(* The parts of the invariant.                                             *)

LEMMA StepIsFactual ==
  ASSUME TruthInv, [Next]_vars
  PROVE  /\ StepFacts
         /\ ToSet(log) \subseteq ToSet(log') /\ Len(log') >= Len(log)
         /\ refused \subseteq refused'
         /\ RefusedIsNotCommitted'
<1>1. StepFacts
  BY NextFacts
<1>2. Grows
  BY <1>1, StepGrows DEF StepFacts
<1>. QED
  BY <1>1, <1>2, GrowthFacts

(* Unless it is dispatched.                                                *)
LEMMA StaysDoomed ==
  ASSUME TruthInv, [Next]_vars, NEW t \in Tx, Doomed(t),
         \/ mode = "recovering" \/ inFlight # NoTx
         \/ outcome[t] # "pending" \/ outcome' # outcome
  PROVE  Doomed(t)'
<1>1. WorldStep
  BY StepIsFactual DEF StepFacts
<1>2. canDispatch /\ outcome' = outcome => Head(queue) # t
  <2>1. canDispatch => outcome[Head(queue)] = "pending"
    BY DocTypes, HeadIsFirst
    DEF canDispatch, TruthInv, FullInv, AllInv, QueueConsistent, ReceiptsMatchQueue
  <2>. QED
    BY <2>1 DEF canDispatch
<1>. QED
  BY <1>1, <1>2, DoomedForEver

LEMMA OwnersAreInFlight ==
  ASSUME AllInv, NEW c \in calls, ownsResponse(c)
  PROVE  inFlight = c.tx /\ inFlight # NoTx /\ canContinue /\ c.tx \in ToSet(queue) /\ isLive(c)
<1>1. c.tx \in Tx /\ c.tx \in ToSet(queue) /\ isLive(c)
  BY OwnerIsLive, DocTypes DEF AllInv
<1>. QED
  BY <1>1, NamesAssumption DEF ownsResponse, canContinue

(* What is answered with a failure will not be committed.                  *)
LEMMA AnsweredIsDoomed ==
  ASSUME TruthInv, NEW b \in calls, ownsResponse(b), NEW answer,
         answer.status \in Failures, Serves(b.tx, b.exp, answer)
  PROVE  Doomed(b.tx)'
<1>1. /\ b.tx \in ToSet(queue) /\ canContinue
  BY OwnersAreInFlight DEF TruthInv, FullInv
<1>2. /\ RequestsAreOld
      /\ answer.status = "rejected" => b.tx \notin ToSet(log) /\ log' = log /\ b.tx \in refused'
      /\ answer.status = "conflicted" =>
           b.tx \notin ToSet(log) /\ log' = log /\ b.exp # Len(log)
  BY LogOfServer DEF Serves
<1>3. CASE answer.status = "rejected"
  BY <1>2, <1>3 DEF Doomed
<1>4. CASE answer.status = "conflicted"
  <2>1. /\ \A z \in zombies : z.tx = b.tx => z.exp = srcRev
        /\ \A c \in calls : c.tx = b.tx => c.exp = srcRev
    BY <1>1 DEF TruthInv, FullInv, DocInv, SentAtRevision
  <2>2. srcRev < Len(log)
    BY <1>2, <1>4, <2>1, DocTypes DEF TruthInv, FullInv
  <2>3. /\ \A z \in zombies' : z.tx = b.tx => z.exp = srcRev
        /\ \A c \in calls' : c.tx = b.tx => c.exp = srcRev
    BY <1>2, <2>1 DEF RequestsAreOld
  <2>4. Outdated(b.tx)'
    BY <1>2, <1>4, <2>2, <2>3 DEF Outdated
  <2>. QED
    BY <1>2, <1>4, <2>4 DEF Doomed
<1>. QED
  BY <1>3, <1>4 DEF Failures

LEMMA FailedCallsNext ==
  ASSUME TruthInv, [Next]_vars, NEW c \in calls', isLive(c)', c.reply.status \in Failures
  PROVE  Doomed(c.tx)'
<1>1. StepFacts
  BY StepIsFactual
<1>2. CASE c \in calls
  <2>1. c.tx \in Tx /\ c.epoch <= epoch /\ c.epoch \in Nat /\ epoch \in Nat
    BY <1>2, CallTypes DEF TruthInv, FullInv, AllInv, WakeInv, CallsOwned
  <2>2. c.epoch = epoch
    BY <1>1, <2>1 DEF StepFacts, isLive
  <2>3. isLive(c)
    BY <2>1, <2>2, CancelledForEver DEF isLive, TruthInv, FullInv, AllInv
  <2>4. ownsResponse(c) /\ Doomed(c.tx)
    BY <1>2, <2>3
    DEF TruthInv, FullInv, AllInv, WakeInv, CallsOwned, ReceiptInv, FailuresAreDoomed
  <2>. QED
    BY <1>2, <2>1, <2>4, OwnersAreInFlight, StaysDoomed DEF TruthInv, FullInv
<1>3. ASSUME NEW b \in calls, c.tx = b.tx, c.exp = b.exp, c.epoch = b.epoch,
             Serves(b.tx, b.exp, c.reply), UNCHANGED <<epoch, outcome>>
      PROVE  Doomed(c.tx)'
  <2>1. isLive(b)
    BY <1>3 DEF isLive
  <2>2. ownsResponse(b)
    BY <2>1 DEF TruthInv, FullInv, AllInv, WakeInv, CallsOwned
  <2>3. Doomed(b.tx)'
    BY <1>3, <2>2, AnsweredIsDoomed
  <2>. QED
    BY <1>3, <2>3
<1>. QED
  BY <1>1, <1>2, <1>3 DEF StepFacts, AnswersAreTheServers

LEMMA OwnFailureIsDoomed ==
  ASSUME TruthInv, NEW c \in calls, ownsResponse(c), c.reply.status \in Failures
  PROVE  Doomed(c.tx)
BY OwnersAreInFlight DEF TruthInv, FullInv, ReceiptInv, FailuresAreDoomed

LEMMA RecoveriesNext ==
  ASSUME TruthInv, [Next]_vars, NEW r \in recoveries', r.epoch = epoch'
  PROVE  Doomed(r.tx)'
<1>1. StepFacts
  BY StepIsFactual
<1>2. ASSUME NEW x \in recoveries, x.tx = r.tx, x.epoch = r.epoch
      PROVE  Doomed(r.tx)'
  <2>1. x.epoch <= epoch /\ x.epoch \in Nat /\ epoch \in Nat /\ x.tx \in Tx
    BY DocTypes DEF TruthInv, FullInv, DocInv, RecoveryOrder, Recoveries
  <2>2. x.epoch = epoch
    BY <1>1, <1>2, <2>1 DEF StepFacts
  <2>3. ownsRecovery(x) /\ Doomed(x.tx)
    BY <2>2 DEF TruthInv, FullInv, DocInv, RecoveryOrder, ReceiptInv, FailuresAreDoomed
  <2>4. Doomed(x.tx)'
    BY <2>1, <2>3, StaysDoomed DEF ownsRecovery
  <2>. QED
    BY <1>2, <2>4
<1>3. ASSUME NEW c \in calls, ownsResponse(c), c.reply.status \in Failures, r.tx = c.tx
      PROVE  Doomed(r.tx)'
  <2>1. Doomed(c.tx) /\ inFlight # NoTx /\ c.tx \in Tx
    BY <1>3, OwnFailureIsDoomed, OwnersAreInFlight, DocTypes DEF TruthInv, FullInv
  <2>2. Doomed(c.tx)'
    BY <2>1, StaysDoomed
  <2>. QED
    BY <1>3, <2>2
<1>. QED
  BY <1>1, <1>2, <1>3 DEF StepFacts, RecoveriesHaveACause

LEMMA ToldFailuresNext ==
  ASSUME TruthInv, [Next]_vars, NEW t \in Tx, outcome'[t] \in Failures
  PROVE  Doomed(t)'
<1>1. CASE outcome'[t] = outcome[t]
  <2>1. Doomed(t) /\ outcome[t] # "pending"
    BY <1>1 DEF TruthInv, ReceiptInv, FailuresAreDoomed, Failures
  <2>. QED
    BY <2>1, StaysDoomed
<1>2. CASE outcome'[t] # outcome[t]
  <2>1. PICK r \in recoveries : ownsRecovery(r) /\ r.tx = t
    BY <1>2, NewReceipt DEF TrueReceipt
  <2>2. Doomed(t) /\ mode = "recovering"
    BY <2>1 DEF ownsRecovery, TruthInv, ReceiptInv, FailuresAreDoomed
  <2>. QED
    BY <2>2, StaysDoomed
<1>. QED
  BY <1>1, <1>2

LEMMA FailuresNext ==
  ASSUME TruthInv, [Next]_vars
  PROVE  FailuresAreDoomed'
BY FailedCallsNext, RecoveriesNext, ToldFailuresNext DEF FailuresAreDoomed

(* What waits in the queue, not in flight and not retried, was never sent. *)
LEMMA WaitingIsDoomed ==
  ASSUME TruthInv, NEW t \in ToSet(queue), mode = "active", inFlight # t, inc[t] = 0
  PROVE  Doomed(t)
<1>1. t \in Tx /\ queue # <<>> /\ attempt[t] \in Nat
  BY DocTypes, EmptyQueue DEF TruthInv, FullInv
<1>2. attempt[t] = 0
  <2>1. CASE inFlight = NoTx
    BY <1>1, <2>1 DEF TruthInv, ReceiptInv, SentIsInFlight
  <2>2. CASE inFlight # NoTx
    <3>1. t # Head(queue)
      BY <2>2 DEF TruthInv, FullInv, AllInv, QueueConsistent, HeadIsInFlight
    <3>. QED
      BY <1>1, <3>1, TailWasNotSent DEF TruthInv, FullInv, AllInv
  <2>. QED
    BY <2>1, <2>2
<1>3. /\ t \notin ToSet(log)
      /\ \A c \in calls : c.tx # t
      /\ \A z \in zombies : z.tx # t
  BY <1>1, <1>2 DEF TruthInv, FullInv, DocInv, SentWasAttempted, ToSet
<1>. QED
  BY <1>3 DEF Doomed, Outdated

LEMMA CancelledNext ==
  ASSUME TruthInv, [Next]_vars
  PROVE  CancelledIsDoomed'
<1>. SUFFICES ASSUME NEW t \in Tx, outcome'[t] = "cancelled", inc'[t] = 0
              PROVE  Doomed(t)'
  BY DEF CancelledIsDoomed
<1>1. inc[t] = 0
  <2>1. inc[t] \in Nat /\ inc' \in {inc, Renewed}
    BY StepIsFactual, CallTypes DEF StepFacts, TruthInv, FullInv, AllInv
  <2>. QED
    BY <2>1 DEF Renewed
<1>2. CASE outcome'[t] = outcome[t]
  <2>1. Doomed(t) /\ outcome[t] # "pending"
    BY <1>1, <1>2 DEF TruthInv, ReceiptInv, CancelledIsDoomed
  <2>. QED
    BY <2>1, StaysDoomed
<1>3. CASE outcome'[t] # outcome[t]
  <2>1. /\ mode = "active" /\ t \in ToSet(queue)
        /\ inFlight # t \/ \E c \in cancels : c.tx = t /\ c.reply.status = "yes"
    BY <1>3, NewReceipt DEF TrueReceipt
  <2>2. Doomed(t)
    <3>1. CASE inFlight # t
      BY <1>1, <2>1, <3>1, WaitingIsDoomed
    <3>2. CASE \E c \in cancels : c.tx = t /\ c.reply.status = "yes"
      BY <3>2 DEF TruthInv, ReceiptInv, AgreedIsRefused, RefusedIsNotCommitted, Doomed
    <3>. QED
      BY <2>1, <3>1, <3>2
  <2>. QED
    BY <1>3, <2>2, StaysDoomed
<1>. QED
  BY <1>2, <1>3

LEMMA AcknowledgedNext ==
  ASSUME TruthInv, [Next]_vars
  PROVE  AcknowledgedIsCommitted'
<1>. SUFFICES ASSUME NEW t \in Tx, outcome'[t] = "acknowledged"
              PROVE  t \in ToSet(log)
  BY StepIsFactual DEF AcknowledgedIsCommitted
<1>1. CASE outcome'[t] = outcome[t]
  BY <1>1 DEF TruthInv, ReceiptInv, AcknowledgedIsCommitted
<1>2. CASE outcome'[t] # outcome[t]
  <2>1. PICK c \in calls : c.tx = t /\ c.reply.status = "acknowledged"
    BY <1>2, NewReceipt DEF TrueReceipt
  <2>. QED
    BY <2>1 DEF TruthInv, FullInv, DocInv, AnsweredTruthfully, ToSet
<1>. QED
  BY <1>1, <1>2

LEMMA InFlightNext ==
  ASSUME TruthInv, [Next]_vars
  PROVE  SentIsInFlight'
<1>. SUFFICES ASSUME mode' = "active", NEW t \in ToSet(queue'), attempt'[t] > 0, inc'[t] = 0
              PROVE  inFlight' # NoTx
  BY DEF SentIsInFlight
<1>1. QueueStep
  BY NextShape DEF TruthInv, FullInv, AllInv
<1>2. ASSUME t \in ToSet(queue), attempt' = attempt, mode = "active" PROVE inFlight # NoTx
  <2>1. inc[t] \in Nat /\ inc' \in {inc, Renewed} /\ t \in Tx
    BY <1>2, StepIsFactual, CallTypes, DocTypes DEF StepFacts, TruthInv, FullInv, AllInv
  <2>2. inc[t] = 0
    BY <2>1 DEF Renewed
  <2>. QED
    BY <1>2, <2>2 DEF TruthInv, ReceiptInv, SentIsInFlight
<1>3. CASE Stutters \/ Reconsiders
  BY <1>2, <1>3 DEF Stutters, Reconsiders
<1>4. ASSUME NEW x \in Tx, Appends(x) PROVE inFlight' # NoTx
  <2>1. attempt[x] = 0 /\ x \notin ToSet(queue)
    BY <1>4 DEF Appends, TruthInv, FullInv, AllInv, QueueConsistent, ReceiptsMatchQueue
  <2>2. ToSet(queue') = ToSet(queue) \cup {x}
    BY <1>4, <2>1, DocTypes, AppendFacts DEF Appends, TruthInv, FullInv
  <2>. QED
    BY <1>2, <1>4, <2>1, <2>2 DEF Appends
<1>5. CASE \/ \E s \in {"stale", "aborted"} : Abandons(s)
           \/ Forgets
  BY <1>5 DEF Abandons, Forgets, abandonQueue, ToSet
<1>6. CASE \/ \E b \in BOOLEAN : Holds(b)
           \/ \E s \in Failures : HoldsTail(s)
           \/ Recovers
  BY <1>6 DEF Holds, HoldsTail, Recovers, suspend
<1>7. CASE Renews
  <2>1. t \in Tx /\ inc[t] \in Nat /\ t \in ToSet(queue)
    BY <1>7, CallTypes, DocTypes DEF Renews, TruthInv, FullInv, AllInv
  <2>. QED
    BY <1>7, <2>1 DEF Renews
<1>8. ASSUME NEW s, DropsHead(s) PROVE inFlight' # NoTx
  BY <1>8, TailWasNotSent DEF DropsHead, TruthInv, FullInv, AllInv
<1>9. CASE DropsLast
  <2>1. /\ ToSet(queue') = ToSet(queue) \ {Last(queue)}
    BY <1>9, DocTypes, FrontFacts DEF DropsLast, TruthInv, FullInv
  <2>2. CASE inFlight' = inFlight
    BY <1>2, <1>9, <2>1, <2>2 DEF DropsLast
  <2>3. CASE inFlight = Last(queue)
    <3>1. inFlight # NoTx
      BY <1>9, <2>3, DocTypes, LastIsElement, NamesAssumption DEF DropsLast, TruthInv, FullInv
    <3>2. Head(queue) = Last(queue)
      BY <2>3, <3>1 DEF TruthInv, FullInv, AllInv, QueueConsistent, HeadIsInFlight
    <3>. QED
      BY <1>9, <2>1, <3>2, TailWasNotSent DEF DropsLast, TruthInv, FullInv, AllInv
  <2>. QED
    BY <1>9, <2>2, <2>3 DEF DropsLast
<1>10. CASE Sends
  BY <1>10, DocTypes, HeadIsElement, HeadIsFirst, NamesAssumption DEF Sends, TruthInv, FullInv
<1>. QED
  BY <1>1, <1>3, <1>4, <1>5, <1>6, <1>7, <1>8, <1>9, <1>10 DEF QueueStep

LEMMA ReceiptNext ==
  ASSUME TruthInv, [Next]_vars
  PROVE  ReceiptInv'
<1>1. AgreedIsRefused'
  <2>1. AgreementsAreTheServers /\ refused \subseteq refused'
    BY StepIsFactual DEF StepFacts
  <2>. QED
    BY <2>1 DEF AgreementsAreTheServers, AgreedIsRefused, TruthInv, ReceiptInv
<1>. QED
  BY <1>1, StepIsFactual, FailuresNext, CancelledNext, AcknowledgedNext, InFlightNext
  DEF ReceiptInv

(* A receipt that has resolved tells the truth, now and for ever: what it  *)
(* says is acknowledged is in the DataSource's log, and what it says       *)
(* failed or was cancelled is not, whatever requests are still on the way. *)
THEOREM ReceiptsTellTheTruth ==
  ASSUME ~CancelReportsHead
  PROVE  Spec => []ReceiptIsTruthful
<1>1. Init => TruthInv
  BY TypeInit, QueueInit, WakeInit, DocInit, ReceiptInit DEF TruthInv, FullInv, AllInv
<1>2. TruthInv /\ [Next]_vars => TruthInv'
  BY TypeNext, QueueNext, WakeNext, DocNext, ReceiptNext DEF TruthInv, FullInv, AllInv
<1>3. TruthInv => ReceiptIsTruthful
  BY DEF TruthInv, ReceiptInv, FailuresAreDoomed, CancelledIsDoomed, AcknowledgedIsCommitted,
         Doomed, ReceiptIsTruthful
<1>. QED
  BY <1>1, <1>2, <1>3, PTL DEF Spec

-----------------------------------------------------------------------------
(* What the document is when something is told.                            *)

LEMMA RolledBackDocument ==
  ASSUME TruthInv, RolledBack, queue # <<>>, Head(queue) \notin ToSet(log)
  PROVE  Head(queue) \notin ToSet(local')
<1>1. PICK n \in 0 .. Len(log) :
        local' \in {sourceDocument(n), sourceDocument(n) \o Tail(queue)}
  BY DEF RolledBack
<1>2. /\ sourceDocument(n) \in Seq(Commits) /\ Len(sourceDocument(n)) = n
      /\ \A i \in 1 .. n : sourceDocument(n)[i] = log[i]
  BY DocTypes, PrefixProperties DEF TruthInv, FullInv, sourceDocument
<1>3. \A i \in 1 .. n : sourceDocument(n)[i] # Head(queue)
  <2>1. \A i \in 1 .. n : i \in DOMAIN log
    BY DocTypes DEF TruthInv, FullInv
  <2>. QED
    BY <1>2, <2>1 DEF ToSet
<1>4. Tail(queue) \in Seq(Commits)
  BY DocTypes, HeadTailProperties DEF TruthInv, FullInv
<1>5. \A i \in 1 .. Len(Tail(queue)) : Tail(queue)[i] # Head(queue)
  BY <1>4, TailWasNotSent, ToSetFacts DEF TruthInv, FullInv, AllInv, ToSet
<1>6. CASE local' = sourceDocument(n)
  BY <1>2, <1>3, <1>6, ToSetFacts
<1>7. CASE local' = sourceDocument(n) \o Tail(queue)
  <2>1. PICK u : u = sourceDocument(n)
    OBVIOUS
  <2>2. PICK v : v = Tail(queue)
    OBVIOUS
  <2>3. /\ u \o v \in Seq(Commits) /\ Len(u \o v) = Len(u) + Len(v)
        /\ \A i \in 1 .. Len(u) + Len(v) :
             (u \o v)[i] = IF i <= Len(u) THEN u[i] ELSE v[i - Len(u)]
    BY <1>2, <1>4, <2>1, <2>2, ConcatProperties
  <2>4. Len(u) \in Nat /\ Len(v) \in Nat /\ DOMAIN (u \o v) = 1 .. Len(u) + Len(v)
    BY <1>2, <1>4, <2>1, <2>2, <2>3, ToSetFacts
  <2>5. ASSUME NEW i \in 1 .. Len(u) + Len(v) PROVE (u \o v)[i] # Head(queue)
    <3>1. CASE i <= Len(u)
      BY <1>2, <1>3, <2>1, <2>3, <2>4, <3>1
    <3>2. CASE ~(i <= Len(u))
      <4>1. i - Len(u) \in 1 .. Len(v)
        BY <2>4, <3>2
      <4>. QED
        BY <1>5, <2>2, <2>3, <3>2, <4>1
    <3>. QED
      BY <3>1, <3>2
  <2>. QED
    BY <1>7, <2>1, <2>2, <2>4, <2>5 DEF ToSet
<1>. QED
  BY <1>1, <1>6, <1>7

LEMMA StepRollsBackFirst ==
  ASSUME TruthInv, [Next]_vars, NEW t \in Tx,
         outcome'[t] \in Failures, outcome[t] \notin Failures
  PROVE  t \notin ToSet(local')
<1>1. RolledBack
  BY NewReceipt DEF TrueReceipt
<1>2. PICK r \in recoveries : ownsRecovery(r) /\ r.tx = t
  BY NewReceipt DEF TrueReceipt
<1>3. queue # <<>> /\ Head(queue) = t /\ t \notin ToSet(log)
  BY <1>2 DEF ownsRecovery, TruthInv, ReceiptInv, FailuresAreDoomed, Doomed
<1>. QED
  BY <1>1, <1>3, RolledBackDocument

(* When a failure is told, the document no longer has the transaction.     *)
THEOREM RollbackComesFirst ==
  ASSUME ~CancelReportsHead
  PROVE  Spec => RolledBackBeforeReported
<1>1. Init => TruthInv
  BY TypeInit, QueueInit, WakeInit, DocInit, ReceiptInit DEF TruthInv, FullInv, AllInv
<1>2. TruthInv /\ [Next]_vars => TruthInv'
  BY TypeNext, QueueNext, WakeNext, DocNext, ReceiptNext DEF TruthInv, FullInv, AllInv
<1>3. TruthInv /\ [Next]_vars =>
        [\A t \in Tx : outcome'[t] \in Failures /\ outcome[t] \notin Failures =>
           t \notin ToSet(local')]_vars
  BY StepRollsBackFirst
<1>. QED
  BY <1>1, <1>2, <1>3, PTL DEF Spec, RolledBackBeforeReported

(* Who is told that the coordinator is idle.                               *)
LEMMA IdleHasNoQueue ==
  ASSUME AllInv, [Next]_vars, NEW w \in Waiters, waiter'[w] = "idle", waiter[w] # "idle"
  PROVE  mode' = "active" /\ queue' = <<>>
<1>. DEFINE Told(q) == mode' = "active" /\ queue' = q /\ continueOrSettle(q)
<1>1. ASSUME NEW q, Told(q) PROVE mode' = "active" /\ queue' = <<>>
  BY <1>1 DEF continueOrSettle
<1>2. CASE waiter' = waiter
  BY <1>2
<1>3. ASSUME NEW result, result # "idle", waiter' = settleIdle(result) PROVE FALSE
  BY <1>3 DEF settleIdle
<1>. HIDE DEF Told
<1>4. CASE invalidateCurrentContext
  BY <1>3, <1>4 DEF invalidateCurrentContext
<1>5. ASSUME NEW q, NEW b, suspend(q, b) PROVE FALSE
  BY <1>3, <1>5 DEF suspend
<1>6. ASSUME NEW x \in Waiters, WhenIdle(x) PROVE mode' = "active" /\ queue' = <<>>
  <2>1. waiter' = [waiter EXCEPT ![x] = idleResult] /\ UNCHANGED <<mode, queue>>
    BY <1>6 DEF WhenIdle, coordVars
  <2>2. w = x /\ idleResult = "idle"
    BY <2>1 DEF AllInv, TypeInv, TypeOK, RecordTypes
  <2>. QED
    BY <2>1, <2>2 DEF idleResult
<1>7. CASE \/ \E t \in Tx, d \in Tx \cup {NoTx} : Enqueue(t, d)
           \/ RetryIndeterminate \/ Drain
           \/ \E n \in srcRev .. Len(log) : ReplaceDocument(n)
           \/ Destroy
  BY <1>2, <1>3, <1>4, <1>7 DEF Enqueue, RetryIndeterminate, Drain, ReplaceDocument, Destroy
<1>8. CASE \E n \in srcRev .. Len(log) : ResolveAfterResync(n)
  BY <1>4, <1>8 DEF ResolveAfterResync
<1>9. ASSUME NEW t \in Tx, CancelPending(t) PROVE mode' = "active" /\ queue' = <<>>
  <2>1. CASE cancelBeforeDispatch(t)
    BY <1>9, <2>1, <1>1 DEF CancelPending, cancelBeforeDispatch, Told
  <2>2. CASE cancelStarted(t)
    BY <1>2, <2>2 DEF cancelStarted
  <2>. QED
    BY <1>9, <2>1, <2>2 DEF CancelPending
<1>10. ASSUME NEW c \in calls, CommitReturns(c) \/ CommitThrows(c)
       PROVE  mode' = "active" /\ queue' = <<>>
  <2>1. CASE dropLate \/ answerToLostContext \/ explicitFailure(c.tx, c.reply)
    BY <1>2, <1>4, <2>1 DEF dropLate, answerToLostContext, explicitFailure, recordVars
  <2>2. CASE \E b \in BOOLEAN : commitUnanswered(b)
    BY <1>5, <2>2 DEF commitUnanswered
  <2>3. CASE ownsResponse(c) /\ acknowledged(c.tx, c.reply.rev)
    BY <1>1, <2>3 DEF ownsResponse, acknowledged, Told
  <2>. QED
    BY <1>10, <2>1, <2>2, <2>3 DEF CommitReturns, CommitThrows
<1>11. ASSUME NEW c \in cancels, CancelReturns(c) \/ CancelThrows(c)
       PROVE  mode' = "active" /\ queue' = <<>>
  <2>1. CASE ownsResponse(c) /\ cancelAgreed(c) /\ mode' = mode
    BY <1>1, <2>1 DEF ownsResponse, cancelAgreed, Told
  <2>. QED
    BY <1>2, <1>11, <2>1 DEF CancelReturns, CancelThrows, recordVars
<1>12. ASSUME NEW r \in recoveries,
              RollbackSucceeds(r) \/ RollbackFails(r) \/ ReplaySucceeds(r) \/ ReplayFails(r)
       PROVE  mode' = "active" /\ queue' = <<>>
  <2>1. CASE recoveryAbandoned(r)
    BY <1>2, <1>4, <2>1 DEF recoveryAbandoned, recordVars
  <2>2. CASE \E q, b : suspend(q, b)
    BY <1>5, <2>2
  <2>3. CASE \E q : recovered(r, q)
    BY <1>1, <2>3 DEF recovered, Told
  <2>. QED
    BY <1>2, <1>12, <2>1, <2>2, <2>3
    DEF RollbackSucceeds, RollbackFails, ReplaySucceeds, ReplayFails
<1>13. CASE \/ \E c \in calls : ServerProcesses(c)
            \/ \E z \in zombies : ServerProcessesLate(z)
            \/ \E c \in cancels : ServerCancels(c)
            \/ ForeignCommit \/ LoseContext \/ UNCHANGED vars
  BY <1>2, <1>13
  DEF ServerProcesses, ServerProcessesLate, ServerCancels, ForeignCommit, LoseContext, vars,
      recordVars
<1>. QED
  BY <1>6, <1>7, <1>8, <1>9, <1>10, <1>11, <1>12, <1>13 DEF Next

LEMMA EmptyQueueIsPersisted ==
  ASSUME FullInv, mode = "active", queue = <<>>
  PROVE  local = sourceDocument(srcRev)
<1>1. local = sourceDocument(srcRev) \o <<>>
  BY DEF FullInv, DocInv, DocumentIsSourcePlusQueue, canContinue
<1>2. sourceDocument(srcRev) \in Seq(Commits)
  BY DocTypes DEF FullInv
<1>. QED
  BY <1>1, <1>2, ConcatEmptySeq

(* An answer that the coordinator is idle is given when the document is    *)
(* one that the DataSource has.                                            *)
THEOREM IdleMeansPersisted ==
  ASSUME ~CancelReportsHead
  PROVE  Spec => IdleIsPersisted
<1>. DEFINE Persisted == mode = "active" /\ queue = <<>> => local = sourceDocument(srcRev)
<1>1. Init => FullInv
  BY TypeInit, QueueInit, WakeInit, DocInit DEF FullInv, AllInv
<1>2. FullInv /\ [Next]_vars => FullInv'
  BY TypeNext, QueueNext, WakeNext, DocNext DEF FullInv, AllInv
<1>3. FullInv => Persisted
  BY EmptyQueueIsPersisted
<1>4. FullInv /\ Persisted' /\ [Next]_vars =>
        [\A w \in Waiters : waiter'[w] = "idle" /\ waiter[w] # "idle" =>
           local' = sourceDocument(srcRev)']_vars
  BY IdleHasNoQueue DEF FullInv
<1>. QED
  BY <1>1, <1>2, <1>3, <1>4, PTL DEF Spec, IdleIsPersisted

-----------------------------------------------------------------------------
(***************************************************************************)
(* Proof that the DataSource commits what a transaction depends on before  *)
(* the transaction: while it waits, the queue is the chain of its          *)
(* dependencies, and once it is sent, what it depends on has left the      *)
(* queue, for good or into the log.                                        *)
(***************************************************************************)

KnownDependency == \A t \in Tx : dep[t] # NoTx => outcome[dep[t]] # "none"

(* Each but the head depends on the one in front of it.                    *)
QueueIsChain == \A i \in DOMAIN queue : i > 1 => dep[queue[i]] = queue[i - 1]

(* What may be sent, or was, does not depend on what waits.                *)
maySend(t) == attempt[t] > 0 \/ (queue # <<>> /\ t = Head(queue))

SentAfterDependency ==
  \A t \in Tx : dep[t] # NoTx /\ maySend(t) => dep[t] \notin ToSet(queue)

LogIsOrdered ==
  \A i \in DOMAIN log :
    log[i] \in Tx /\ dep[log[i]] # NoTx /\ outcome[dep[log[i]]] = "acknowledged" =>
      \E j \in 1 .. i - 1 : log[j] = dep[log[i]]

DependencyInv ==
  /\ KnownDependency
  /\ QueueIsChain
  /\ SentAfterDependency
  /\ LogIsOrdered

OrderInv == TruthInv /\ DependencyInv

LEMMA DependencyInit == Init => DependencyInv
<1>. SUFFICES ASSUME Init PROVE DependencyInv
  OBVIOUS
<1>1. \A t \in Tx : dep[t] = NoTx
  BY DEF Init
<1>2. DOMAIN queue = {} /\ DOMAIN log = {}
  BY DEF Init
<1>. QED
  BY <1>1, <1>2
  DEF DependencyInv, KnownDependency, QueueIsChain, SentAfterDependency, LogIsOrdered

-----------------------------------------------------------------------------
(* What a step does to the queue and to its dependencies.                  *)

Shrinks ==
  \/ queue' \in {queue, <<>>}
  \/ queue # <<>> /\ queue' \in {Tail(queue), Front(queue)}

Adds(t, d) ==
  /\ mode = "active" /\ outcome[t] = "none"
  /\ queue' = Append(queue, t)
  /\ dep' = [dep EXCEPT ![t] = d]
  /\ IF queue = <<>> THEN d # NoTx => outcome[d] # "none" ELSE d = Last(queue)

Rebases ==
  /\ mode = "recovering" /\ queue # <<>>
  /\ queue' = Tail(queue)
  /\ dep' = rebasedDependency(Tail(queue))

DependencyStep ==
  \/ dep' = dep /\ Shrinks
  \/ \E t \in Tx, d \in Tx \cup {NoTx} : Adds(t, d)
  \/ Rebases

LEMMA OperationDependencies ==
  ASSUME TypeInv,
         \/ \E t \in Tx, d \in Tx \cup {NoTx} : Enqueue(t, d)
         \/ \E w \in Waiters : WhenIdle(w)
         \/ RetryIndeterminate
         \/ \E t \in Tx : CancelPending(t)
         \/ \E n \in srcRev .. Len(log) : ResolveAfterResync(n)
         \/ \E n \in srcRev .. Len(log) : ReplaceDocument(n)
         \/ Destroy
         \/ Drain
  PROVE  DependencyStep
<1>1. ASSUME NEW t \in Tx, NEW d \in Tx \cup {NoTx}, Enqueue(t, d) PROVE DependencyStep
  <2>1. CASE ~current
    BY <1>1, <2>1 DEF Enqueue, invalidateCurrentContext, abandonQueue, DependencyStep, Shrinks
  <2>2. CASE current
    <3>1. /\ mode = "active" /\ outcome[t] = "none" /\ queue' = Append(queue, t)
      BY <1>1, <2>2 DEF Enqueue, transactionIds
    <3>2. CASE queue = <<>>
      <4>1. Adds(t, d)
        BY <1>1, <2>2, <3>1, <3>2, NamesAssumption DEF Enqueue, Adds, transactionIds
      <4>. QED
        BY <4>1 DEF DependencyStep
    <3>3. CASE queue # <<>>
      <4>1. Last(queue) \in Tx
        BY <3>3, LastIsElement DEF TypeInv, TypeOK, CoordinatorTypes
      <4>2. Adds(t, Last(queue))
        BY <1>1, <2>2, <3>1, <3>3 DEF Enqueue, Adds
      <4>. QED
        BY <4>1, <4>2 DEF DependencyStep
    <3>. QED
      BY <3>2, <3>3
  <2>. QED
    BY <2>1, <2>2
<1>2. CASE \E t \in Tx : CancelPending(t)
  BY <1>2 DEF CancelPending, cancelBeforeDispatch, cancelStarted, DependencyStep, Shrinks
<1>3. CASE \/ \E w \in Waiters : WhenIdle(w)
           \/ RetryIndeterminate
           \/ \E n \in srcRev .. Len(log) : ResolveAfterResync(n) \/ ReplaceDocument(n)
           \/ Destroy
           \/ Drain
  BY <1>3
  DEF WhenIdle, RetryIndeterminate, ResolveAfterResync, ReplaceDocument, Destroy, Drain,
      invalidateCurrentContext, abandonQueue, coordVars, DependencyStep, Shrinks
<1>. QED
  BY <1>1, <1>2, <1>3

LEMMA RecoveryDependencies ==
  ASSUME NEW r \in recoveries,
         RollbackSucceeds(r) \/ RollbackFails(r) \/ ReplaySucceeds(r) \/ ReplayFails(r)
  PROVE  DependencyStep
<1>1. CASE recoveryAbandoned(r)
  BY <1>1
  DEF recoveryAbandoned, invalidateCurrentContext, abandonQueue, coordVars, recordVars,
      DependencyStep, Shrinks
<1>2. CASE /\ ownsRecovery(r) /\ dep' = dep
           /\ queue' \in {queue, Tail(queue)}
  BY <1>2 DEF ownsRecovery, DependencyStep, Shrinks
<1>3. CASE RollbackSucceeds(r)
  <2>1. CASE ownsRecovery(r) /\ dep' = dep /\ Tail(queue) = <<>> /\ recovered(r, <<>>)
    BY <1>2, <2>1 DEF recovered
  <2>2. CASE ownsRecovery(r) /\ dep' = dep /\ UNCHANGED coordVars
    BY <1>2, <2>2 DEF coordVars
  <2>. QED
    BY <1>1, <1>3, <2>1, <2>2 DEF RollbackSucceeds
<1>4. CASE RollbackFails(r)
  BY <1>1, <1>2, <1>4 DEF RollbackFails, suspend
<1>5. CASE ReplayFails(r)
  BY <1>1, <1>2, <1>5 DEF ReplayFails, suspend
<1>6. CASE ReplaySucceeds(r)
  <2>1. CASE ownsRecovery(r) /\ recovered(r, Tail(queue)) /\ dep' = rebasedDependency(Tail(queue))
    BY <2>1 DEF ownsRecovery, recovered, DependencyStep, Rebases
  <2>. QED
    BY <1>1, <1>6, <2>1 DEF ReplaySucceeds
<1>. QED
  BY <1>3, <1>4, <1>5, <1>6

LEMMA NextDependencies ==
  ASSUME TypeInv, [Next]_vars
  PROVE  DependencyStep
<1>1. ASSUME NEW c \in calls, CommitReturns(c) \/ CommitThrows(c) PROVE DependencyStep
  <2>1. CASE dropLate \/ answerToLostContext \/ explicitFailure(c.tx, c.reply)
    BY <2>1
    DEF dropLate, answerToLostContext, explicitFailure, invalidateCurrentContext, abandonQueue,
        coordVars, recordVars, DependencyStep, Shrinks
  <2>2. CASE \E b \in BOOLEAN : commitUnanswered(b)
    BY <2>2 DEF commitUnanswered, suspend, DependencyStep, Shrinks
  <2>3. CASE ownsResponse(c) /\ acknowledged(c.tx, c.reply.rev)
    BY <2>3 DEF ownsResponse, acknowledged, DependencyStep, Shrinks
  <2>. QED
    BY <1>1, <2>1, <2>2, <2>3 DEF CommitReturns, CommitThrows
<1>2. ASSUME NEW c \in cancels, CancelReturns(c) \/ CancelThrows(c) PROVE DependencyStep
  <2>1. CASE ownsResponse(c) /\ cancelAgreed(c) /\ dep' = dep
    BY <2>1 DEF ownsResponse, cancelAgreed, DependencyStep, Shrinks
  <2>2. CASE UNCHANGED <<queue, dep>>
    BY <2>2 DEF DependencyStep, Shrinks
  <2>. QED
    BY <1>2, <2>1, <2>2 DEF CancelReturns, CancelThrows, recordVars
<1>3. ASSUME NEW r \in recoveries,
             RollbackSucceeds(r) \/ RollbackFails(r) \/ ReplaySucceeds(r) \/ ReplayFails(r)
      PROVE  DependencyStep
  BY <1>3, RecoveryDependencies
<1>4. CASE \/ \E c \in calls : ServerProcesses(c)
           \/ \E z \in zombies : ServerProcessesLate(z)
           \/ \E c \in cancels : ServerCancels(c)
           \/ ForeignCommit \/ LoseContext \/ UNCHANGED vars
  BY <1>4
  DEF ServerProcesses, ServerProcessesLate, ServerCancels, ForeignCommit, LoseContext, vars,
      coordVars, recordVars, DependencyStep, Shrinks
<1>. QED
  BY <1>1, <1>2, <1>3, <1>4, OperationDependencies DEF Next

-----------------------------------------------------------------------------
(* The receipts and the dispatches, as far as dependencies tell them apart.*)

LEMMA NeverForgotten ==
  ASSUME TypeInv, QueueStep, NEW t \in Tx, outcome[t] # "none"
  PROVE  outcome'[t] # "none"
<1>1. ASSUME NEW T, NEW s, s # "none" PROVE settleOutcome(T, s)[t] # "none"
  BY <1>1 DEF settleOutcome
<1>2. CASE Stutters \/ Forgets \/ Sends \/ Recovers \/ Reconsiders
  BY <1>2 DEF Stutters, Forgets, Sends, Recovers, Reconsiders
<1>3. CASE \E x \in Tx : Appends(x)
  BY <1>3 DEF Appends, TypeInv, TypeOK, RecordTypes
<1>4. CASE \E s \in {"stale", "aborted"} : Abandons(s)
  BY <1>1, <1>4 DEF Abandons, abandonQueue
<1>5. CASE \E b \in BOOLEAN : Holds(b)
  BY <1>1, <1>5 DEF Holds
<1>6. CASE \E s \in Failures : HoldsTail(s)
  <2>1. PICK s \in Failures : HoldsTail(s)
    BY <1>6
  <2>2. s # "none" /\ settleOutcome(ToSet(Tail(queue)), "reloadRequired")[t] # "none"
    BY <1>1 DEF Failures
  <2>3. outcome'[t] = IF t = Head(queue)
                        THEN s ELSE settleOutcome(ToSet(Tail(queue)), "reloadRequired")[t]
    BY <2>1 DEF HoldsTail, settleOutcome
  <2>. QED
    BY <2>2, <2>3
<1>7. CASE Renews
  BY <1>7 DEF Renews
<1>8. CASE \E s \in Failures \cup {"acknowledged"} : DropsHead(s)
  BY <1>1, <1>8 DEF DropsHead, Failures
<1>9. CASE DropsLast
  BY <1>1, <1>9 DEF DropsLast
<1>. QED
  BY <1>2, <1>3, <1>4, <1>5, <1>6, <1>7, <1>8, <1>9 DEF QueueStep

LEMMA DispatchedMayBeSent ==
  ASSUME TypeInv, QueueStep, NEW t \in Tx, attempt'[t] > 0
  PROVE  maySend(t)
<1>1. CASE attempt' = attempt
  BY <1>1 DEF maySend
<1>2. CASE Sends
  BY <1>2 DEF Sends, maySend, TypeInv, TypeOK, RecordTypes
<1>. QED
  BY <1>1, <1>2
  DEF QueueStep, Stutters, Appends, Abandons, Holds, HoldsTail, Renews, Forgets, DropsHead,
      DropsLast, Recovers, Reconsiders

(* What was not waiting is not acknowledged now if it was not before.      *)
LEMMA WasAcknowledged ==
  ASSUME AllInv, [Next]_vars, NEW d \in Tx, d \notin ToSet(queue),
         outcome[d] # "none", outcome'[d] = "acknowledged"
  PROVE  outcome[d] = "acknowledged"
<1>1. outcome[d] # "pending"
  BY DEF AllInv, QueueConsistent, ReceiptsMatchQueue
<1>2. outcome[d] \in Terminal
  BY <1>1 DEF AllInv, TypeInv, TypeOK, RecordTypes
<1>3. QueueStep
  BY NextShape DEF AllInv
<1>. QED
  BY <1>2, <1>3, StepSettlesOnce DEF AllInv

(* What a queue that only shrinks keeps of it.                             *)
LEMMA ShrinkFacts ==
  ASSUME AllInv, Shrinks
  PROVE  /\ ToSet(queue') \subseteq ToSet(queue)
         /\ \/ \A i \in DOMAIN queue' : i \in DOMAIN queue /\ queue'[i] = queue[i]
            \/ /\ queue # <<>> /\ queue' = Tail(queue)
               /\ \A i \in DOMAIN queue' : i \in Nat /\ i + 1 \in DOMAIN queue
                                           /\ queue'[i] = queue[i + 1]
         /\ queue' # <<>> => queue # <<>>
         /\ queue' # <<>> => Head(queue') = Head(queue) \/ queue' = Tail(queue)
<1>1. CASE queue' = queue
  BY <1>1
<1>2. CASE queue' = <<>>
  BY <1>2 DEF ToSet
<1>3. CASE queue # <<>> /\ queue' = Front(queue)
  BY <1>3, DocTypes, FrontFacts
<1>4. CASE queue # <<>> /\ queue' = Tail(queue)
  <2>1. /\ ToSet(Tail(queue)) = ToSet(queue) \ {Head(queue)}
        /\ \A i \in DOMAIN Tail(queue) : i + 1 \in DOMAIN queue /\ Tail(queue)[i] = queue[i + 1]
    BY <1>4, DocTypes, TailFacts
  <2>2. DOMAIN Tail(queue) \subseteq Nat
    BY <1>4, DocTypes, HeadTailProperties, ToSetFacts
  <2>. QED
    BY <1>4, <2>1, <2>2
<1>. QED
  BY <1>1, <1>2, <1>3, <1>4 DEF Shrinks

LEMMA RebaseFacts ==
  ASSUME AllInv, Rebases
  PROVE  /\ \A t \in Tx : t \notin ToSet(queue') => dep'[t] = dep[t]
         /\ \A i \in DOMAIN queue' :
              queue'[i] \in Tx /\ dep'[queue'[i]] = IF i = 1 THEN NoTx ELSE queue'[i - 1]
<1>1. PICK q : q = Tail(queue)
  OBVIOUS
<1>2. /\ q \in Seq(Tx) /\ IsInjective(q) /\ queue' = q
      /\ dep' = rebasedDependency(q)
  BY <1>1, DocTypes, TailFacts, HeadTailProperties DEF Rebases
<1>3. ASSUME NEW i \in DOMAIN q
      PROVE  q[i] \in Tx /\ dep'[q[i]] = IF i = 1 THEN NoTx ELSE q[i - 1]
  <2>1. q[i] \in ToSet(q) /\ q[i] \in Tx
    BY <1>2, ToSetFacts, ElementOfSeq DEF ToSet
  <2>. DEFINE k == CHOOSE j \in DOMAIN q : q[j] = q[i]
  <2>2. k = i
    BY <1>2 DEF IsInjective
  <2>3. rebasedDependency(q)[q[i]] = IF k = 1 THEN NoTx ELSE q[k - 1]
    BY <2>1 DEF rebasedDependency
  <2>. HIDE DEF k
  <2>. QED
    BY <1>2, <2>1, <2>2, <2>3
<1>. QED
  BY <1>2, <1>3 DEF rebasedDependency

LEMMA AddFacts ==
  ASSUME AllInv, NEW t \in Tx, NEW d \in Tx \cup {NoTx}, Adds(t, d)
  PROVE  /\ t \notin ToSet(queue) /\ attempt[t] = 0
         /\ ToSet(queue') = ToSet(queue) \cup {t}
         /\ DOMAIN queue' = DOMAIN queue \cup {Len(queue) + 1}
         /\ queue'[Len(queue) + 1] = t
         /\ \A i \in DOMAIN queue : queue'[i] = queue[i] /\ queue[i] # t
         /\ queue' # <<>>
         /\ queue # <<>> => Head(queue') = Head(queue) /\ d = queue[Len(queue)] /\ d \in ToSet(queue)
         /\ queue = <<>> => Head(queue') = t
         /\ dep'[t] = d /\ \A x \in Tx : x # t => dep'[x] = dep[x]
<1>1. queue \in Seq(Tx) /\ IsInjective(queue) /\ DOMAIN queue = 1 .. Len(queue) /\ Len(queue) \in Nat
  BY DocTypes, ToSetFacts
<1>2. t \notin ToSet(queue) /\ attempt[t] = 0
  BY DEF Adds, AllInv, QueueConsistent, ReceiptsMatchQueue
<1>3. /\ ToSet(queue') = ToSet(queue) \cup {t} /\ queue' # <<>>
      /\ queue # <<>> => Head(queue') = Head(queue)
  BY <1>1, <1>2, AppendFacts DEF Adds
<1>4. /\ queue' \in Seq(Tx) /\ Len(queue') = Len(queue) + 1
      /\ \A i \in 1 .. Len(queue) : queue'[i] = queue[i]
      /\ queue'[Len(queue) + 1] = t
  BY <1>1, AppendProperties DEF Adds
<1>5. DOMAIN queue' = DOMAIN queue \cup {Len(queue) + 1}
  <2>1. DOMAIN queue' = 1 .. Len(queue) + 1
    BY <1>4, ToSetFacts
  <2>. QED
    BY <1>1, <2>1
<1>6. \A i \in DOMAIN queue : queue'[i] = queue[i] /\ queue[i] # t
  BY <1>1, <1>2, <1>4 DEF ToSet
<1>7. queue # <<>> => d = queue[Len(queue)] /\ d \in ToSet(queue)
  <2>1. queue # <<>> => d = queue[Len(queue)] /\ Len(queue) \in 1 .. Len(queue)
    BY <1>1, LastIsElement DEF Adds
  <2>. QED
    BY <1>1, <2>1 DEF ToSet
<1>8. queue = <<>> => Head(queue') = t
  BY <1>1, <1>4, HeadIsFirst, <1>3
<1>9. dep'[t] = d /\ \A x \in Tx : x # t => dep'[x] = dep[x]
  BY DEF Adds, AllInv, TypeInv, TypeOK, RecordTypes
<1>. QED
  BY <1>2, <1>3, <1>4, <1>5, <1>6, <1>7, <1>8, <1>9

-----------------------------------------------------------------------------
(* The parts of the invariant.                                             *)

LEMMA OrderTypes ==
  ASSUME AllInv
  PROVE  /\ dep \in [Tx -> Tx \cup {NoTx}]
         /\ \A t \in ToSet(queue) : t \in Tx
         /\ DOMAIN queue \subseteq Nat
         /\ \A i \in DOMAIN queue : queue[i] \in ToSet(queue)
<1>1. DOMAIN queue \subseteq Nat
  BY DocTypes, ToSetFacts
<1>. QED
  BY <1>1, DocTypes DEF AllInv, TypeInv, TypeOK, RecordTypes, ToSet

LEMMA KnownNext ==
  ASSUME OrderInv, [Next]_vars
  PROVE  KnownDependency'
<1>. SUFFICES ASSUME NEW t \in Tx, dep'[t] # NoTx
              PROVE  outcome'[dep'[t]] # "none"
  BY DEF KnownDependency
<1>1. QueueStep /\ AllInv /\ TypeInv /\ DependencyStep
  BY NextShape, NextDependencies DEF OrderInv, TruthInv, FullInv, AllInv
<1>2. ASSUME dep'[t] = dep[t] PROVE outcome'[dep'[t]] # "none"
  <2>1. dep[t] \in Tx /\ outcome[dep[t]] # "none"
    BY <1>1, <1>2, OrderTypes DEF OrderInv, DependencyInv, KnownDependency
  <2>. QED
    BY <1>1, <1>2, <2>1, NeverForgotten
<1>3. ASSUME NEW x \in ToSet(queue), mode \in {"active", "recovering"}
      PROVE  outcome'[x] # "none"
  <2>1. x \in Tx
    BY <1>1, OrderTypes
  <2>2. outcome[x] = "pending"
    BY <1>1, <1>3, <2>1 DEF AllInv, QueueConsistent, ReceiptsMatchQueue
  <2>. QED
    BY <1>1, <2>1, <2>2, NeverForgotten
<1>4. ASSUME NEW x \in Tx, NEW d \in Tx \cup {NoTx}, Adds(x, d)
      PROVE  outcome'[dep'[t]] # "none"
  <2>1. CASE t = x
    <3>1. dep'[t] = d /\ d \in Tx
      BY <1>1, <1>4, <2>1, AddFacts
    <3>2. CASE queue = <<>>
      BY <1>1, <1>4, <3>1, <3>2, NamesAssumption, NeverForgotten DEF Adds
    <3>3. CASE queue # <<>>
      <4>1. d \in ToSet(queue)
        BY <1>1, <1>4, <3>3, AddFacts
      <4>2. mode = "active"
        BY <1>4 DEF Adds
      <4>. QED
        BY <1>3, <3>1, <4>1, <4>2
    <3>. QED
      BY <3>2, <3>3
  <2>2. CASE t # x
    BY <1>1, <1>2, <1>4, <2>2, AddFacts
  <2>. QED
    BY <2>1, <2>2
<1>5. CASE Rebases
  <2>1. CASE t \notin ToSet(queue')
    BY <1>1, <1>2, <1>5, <2>1, RebaseFacts
  <2>2. CASE t \in ToSet(queue')
    <3>1. PICK i \in DOMAIN queue' : t = queue'[i]
      BY <2>2 DEF ToSet
    <3>2. i # 1 /\ dep'[t] = queue'[i - 1]
      BY <1>1, <1>5, <3>1, RebaseFacts
    <3>3. /\ queue' \in Seq(Tx) /\ DOMAIN queue' = 1 .. Len(queue') /\ Len(queue') \in Nat
          /\ ToSet(queue') \subseteq ToSet(queue)
      BY <1>1, <1>5, DocTypes, TailFacts, HeadTailProperties, ToSetFacts DEF Rebases
    <3>4. i - 1 \in DOMAIN queue'
      BY <3>1, <3>2, <3>3
    <3>5. dep'[t] \in ToSet(queue)
      BY <3>2, <3>3, <3>4 DEF ToSet
    <3>. QED
      BY <1>3, <1>5, <3>5 DEF Rebases
  <2>. QED
    BY <2>1, <2>2
<1>. QED
  BY <1>1, <1>2, <1>4, <1>5 DEF DependencyStep

LEMMA ChainNext ==
  ASSUME OrderInv, [Next]_vars
  PROVE  QueueIsChain'
<1>. SUFFICES ASSUME NEW i \in DOMAIN queue', i > 1
              PROVE  dep'[queue'[i]] = queue'[i - 1]
  BY DEF QueueIsChain
<1>1. AllInv /\ DependencyStep
  BY NextDependencies DEF OrderInv, TruthInv, FullInv, AllInv
<1>2. /\ DOMAIN queue = 1 .. Len(queue) /\ Len(queue) \in Nat
      /\ \A j \in DOMAIN queue : j > 1 => dep[queue[j]] = queue[j - 1]
  BY <1>1, DocTypes, ToSetFacts DEF OrderInv, DependencyInv, QueueIsChain
<1>3. CASE dep' = dep /\ Shrinks
  <2>1. /\ queue' \in Seq(Tx) /\ DOMAIN queue' = 1 .. Len(queue') /\ Len(queue') \in Nat
    <3>1. queue' \in Seq(Tx)
      <4>1. queue \in Seq(Tx) /\ <<>> \in Seq(Tx)
        BY <1>1, DocTypes
      <4>2. queue # <<>> => Tail(queue) \in Seq(Tx)
        BY <4>1, HeadTailProperties
      <4>3. queue # <<>> => Front(queue) \in Seq(Tx)
        BY <4>1, FrontProperties
      <4>. QED
        BY <1>3, <4>1, <4>2, <4>3 DEF Shrinks
    <3>. QED
      BY <3>1, ToSetFacts
  <2>2. i - 1 \in DOMAIN queue'
    BY <2>1
  <2>3. CASE \A j \in DOMAIN queue' : j \in DOMAIN queue /\ queue'[j] = queue[j]
    BY <1>2, <1>3, <2>2, <2>3
  <2>4. CASE \A j \in DOMAIN queue' : j \in Nat /\ j + 1 \in DOMAIN queue /\ queue'[j] = queue[j + 1]
    <3>1. queue'[i] = queue[i + 1] /\ queue'[i - 1] = queue[i] /\ i + 1 \in DOMAIN queue
      BY <2>1, <2>2, <2>4
    <3>2. dep[queue[i + 1]] = queue[i]
      BY <1>2, <2>1, <3>1
    <3>. QED
      BY <1>3, <3>1, <3>2
  <2>. QED
    BY <1>1, <1>3, <2>3, <2>4, ShrinkFacts
<1>4. ASSUME NEW x \in Tx, NEW d \in Tx \cup {NoTx}, Adds(x, d)
      PROVE  dep'[queue'[i]] = queue'[i - 1]
  <2>1. /\ DOMAIN queue' = DOMAIN queue \cup {Len(queue) + 1}
        /\ queue'[Len(queue) + 1] = x
        /\ \A j \in DOMAIN queue : queue'[j] = queue[j] /\ queue[j] # x
        /\ queue # <<>> => d = queue[Len(queue)]
        /\ dep'[x] = d /\ \A y \in Tx : y # x => dep'[y] = dep[y]
    BY <1>1, <1>4, AddFacts
  <2>2. CASE i \in DOMAIN queue
    <3>1. i - 1 \in DOMAIN queue /\ queue[i] \in Tx
      BY <1>1, <1>2, <2>2, OrderTypes
    <3>. QED
      BY <1>2, <2>1, <2>2, <3>1
  <2>3. CASE i = Len(queue) + 1
    <3>1. Len(queue) \in DOMAIN queue /\ queue # <<>> /\ i - 1 = Len(queue)
      BY <1>2, <2>3
    <3>. QED
      BY <2>1, <2>3, <3>1
  <2>. QED
    BY <2>1, <2>2, <2>3
<1>5. CASE Rebases
  BY <1>1, <1>5, RebaseFacts
<1>. QED
  BY <1>1, <1>3, <1>4, <1>5 DEF DependencyStep

LEMMA SentNext ==
  ASSUME OrderInv, [Next]_vars
  PROVE  SentAfterDependency'
<1>. SUFFICES ASSUME NEW t \in Tx, dep'[t] # NoTx, maySend(t)'
              PROVE  dep'[t] \notin ToSet(queue')
  BY DEF SentAfterDependency
<1>1. AllInv /\ TypeInv /\ DependencyStep /\ QueueStep
  BY NextDependencies, NextShape DEF OrderInv, TruthInv, FullInv, AllInv
<1>2. ASSUME maySend(t), dep'[t] = dep[t], ToSet(queue') \subseteq ToSet(queue)
      PROVE  dep'[t] \notin ToSet(queue')
  BY <1>2 DEF OrderInv, DependencyInv, SentAfterDependency
<1>3. attempt'[t] > 0 => maySend(t)
  BY <1>1, DispatchedMayBeSent
<1>4. CASE dep' = dep /\ Shrinks
  <2>1. CASE maySend(t)
    BY <1>1, <1>2, <1>4, <2>1, ShrinkFacts
  <2>2. CASE ~maySend(t)
    <3>1. queue' # <<>> /\ t = Head(queue')
      BY <1>3, <2>2 DEF maySend
    <3>2. queue # <<>> /\ queue' = Tail(queue)
      BY <1>1, <1>4, <2>2, <3>1, ShrinkFacts DEF maySend
    <3>3. queue' \in Seq(Tx) /\ queue'[1] = t /\ 1 \in DOMAIN queue'
      <4>1. queue' \in Seq(Tx)
        BY <1>1, <3>2, DocTypes, HeadTailProperties
      <4>. QED
        BY <3>1, <4>1, HeadIsFirst, ToSetFacts
    <3>4. 2 \in DOMAIN queue /\ queue[2] = t /\ queue[1] = Head(queue)
      BY <1>1, <3>2, <3>3, DocTypes, TailFacts, HeadIsFirst
    <3>5. dep[t] = Head(queue)
      BY <3>4 DEF OrderInv, DependencyInv, QueueIsChain
    <3>. QED
      BY <1>1, <1>4, <3>2, <3>5, TailWasNotSent DEF AllInv
  <2>. QED
    BY <2>1, <2>2
<1>5. ASSUME NEW x \in Tx, NEW d \in Tx \cup {NoTx}, Adds(x, d)
      PROVE  dep'[t] \notin ToSet(queue')
  <2>1. CASE t = x
    <3>1. queue = <<>>
      BY <1>1, <1>3, <1>5, <2>1, AddFacts, HeadIsFirst, DocTypes DEF maySend
    <3>2. ToSet(queue') = {x}
      BY <1>1, <1>5, <3>1, AddFacts DEF ToSet
    <3>3. dep'[t] = d /\ outcome[d] # "none" /\ outcome[x] = "none"
      <4>1. dep'[t] = d
        BY <1>1, <1>5, <2>1, AddFacts
      <4>. QED
        BY <1>5, <3>1, <4>1 DEF Adds
    <3>. QED
      BY <3>2, <3>3
  <2>2. CASE t # x
    <3>1. dep'[t] = dep[t] /\ ToSet(queue') = ToSet(queue) \cup {x}
      BY <1>1, <1>5, <2>2, AddFacts
    <3>2. maySend(t)
      BY <1>1, <1>3, <1>5, <2>2, AddFacts DEF maySend
    <3>3. dep[t] \notin ToSet(queue) /\ dep[t] # x
      BY <1>5, <3>1, <3>2
      DEF OrderInv, DependencyInv, SentAfterDependency, KnownDependency, Adds
    <3>. QED
      BY <3>1, <3>3
  <2>. QED
    BY <2>1, <2>2
<1>6. CASE Rebases
  <2>1. queue' \in Seq(Tx) /\ ToSet(queue') \subseteq ToSet(queue)
        /\ \A x \in ToSet(queue') : ~maySend(x) /\ x \in Tx
    <3>1. /\ queue' \in Seq(Tx) /\ ToSet(queue') = ToSet(queue) \ {Head(queue)}
      BY <1>1, <1>6, DocTypes, TailFacts, HeadTailProperties DEF Rebases
    <3>2. \A x \in ToSet(queue') : attempt[x] = 0
      BY <1>1, <1>6, TailWasNotSent DEF Rebases, AllInv
    <3>. QED
      BY <1>1, <3>1, <3>2, DocTypes DEF maySend
  <2>2. CASE t \notin ToSet(queue')
    <3>1. maySend(t)
      BY <1>3, <2>1, <2>2, HeadIsFirst DEF maySend
    <3>. QED
      BY <1>1, <1>2, <1>6, <2>1, <2>2, <3>1, RebaseFacts
  <2>3. CASE t \in ToSet(queue')
    <3>1. queue' # <<>> /\ t = queue'[1] /\ 1 \in DOMAIN queue'
      BY <1>3, <2>1, <2>3, HeadIsFirst, ToSetFacts DEF maySend
    <3>. QED
      BY <1>1, <1>6, <3>1, RebaseFacts
  <2>. QED
    BY <2>2, <2>3
<1>. QED
  BY <1>1, <1>4, <1>5, <1>6 DEF DependencyStep

LEMMA OrderNext ==
  ASSUME OrderInv, [Next]_vars
  PROVE  LogIsOrdered'
<1>1. /\ AllInv /\ TypeInv /\ QueueConsistent /\ Grows
  BY StepIsFactual, NextFacts, StepGrows DEF StepFacts, OrderInv, TruthInv, FullInv, AllInv
<1>2. ASSUME NEW t \in Tx, attempt[t] > 0, dep'[t] # NoTx, outcome'[dep'[t]] = "acknowledged"
      PROVE  dep'[t] = dep[t] /\ outcome[dep[t]] = "acknowledged" /\ dep[t] \in Tx
  <2>1. dep'[t] = dep[t]
    BY <1>1, <1>2, SentPatchKept
  <2>2. dep[t] \in Tx /\ dep[t] \notin ToSet(queue) /\ outcome[dep[t]] # "none"
    BY <1>1, <1>2, <2>1, OrderTypes
    DEF OrderInv, DependencyInv, SentAfterDependency, KnownDependency, maySend
  <2>. QED
    BY <1>1, <1>2, <2>1, <2>2, WasAcknowledged
<1>3. log \in Seq(Commits) /\ DOMAIN log = 1 .. Len(log) /\ Len(log) \in Nat
  BY <1>1, DocTypes
<1>. SUFFICES ASSUME NEW i \in DOMAIN log', log'[i] \in Tx, dep'[log'[i]] # NoTx,
                     outcome'[dep'[log'[i]]] = "acknowledged"
              PROVE  \E j \in 1 .. i - 1 : log'[j] = dep'[log'[i]]
  BY DEF LogIsOrdered
<1>4. ASSUME i \in DOMAIN log, \A j \in DOMAIN log : log'[j] = log[j]
      PROVE  \E j \in 1 .. i - 1 : log'[j] = dep'[log'[i]]
  <2>1. attempt[log[i]] > 0
    BY <1>4 DEF OrderInv, TruthInv, FullInv, DocInv, SentWasAttempted
  <2>2. /\ dep'[log[i]] = dep[log[i]] /\ dep[log[i]] # NoTx
        /\ outcome[dep[log[i]]] = "acknowledged"
    BY <1>2, <1>4, <2>1
  <2>3. PICK j \in 1 .. i - 1 : log[j] = dep[log[i]]
    BY <1>4, <2>2 DEF OrderInv, DependencyInv, LogIsOrdered
  <2>4. j \in DOMAIN log
    BY <1>3, <1>4
  <2>. QED
    BY <1>4, <2>2, <2>3, <2>4
<1>5. CASE log' = log
  BY <1>4, <1>5
<1>6. ASSUME NEW x \in Commits, log' = Append(log, x),
             x \in Tx => \E q \in calls \cup zombies : q.tx = x /\ q.exp = Len(log)
      PROVE  \E j \in 1 .. i - 1 : log'[j] = dep'[log'[i]]
  <2>1. /\ DOMAIN log' = DOMAIN log \cup {Len(log) + 1}
        /\ log'[Len(log) + 1] = x
        /\ \A j \in DOMAIN log : log'[j] = log[j]
    BY <1>1, <1>6, AppendedLog
  <2>2. CASE i \in DOMAIN log
    BY <1>4, <2>1, <2>2
  <2>3. CASE i = Len(log) + 1
    <3>1. x \in Tx /\ attempt[x] > 0
      BY <1>6, <2>1, <2>3 DEF OrderInv, TruthInv, FullInv, DocInv, SentWasAttempted
    <3>2. dep'[x] = dep[x] /\ outcome[dep[x]] = "acknowledged" /\ dep[x] \in Tx
      BY <1>2, <2>1, <2>3, <3>1
    <3>3. PICK j \in DOMAIN log : log[j] = dep[x]
      BY <3>2 DEF OrderInv, TruthInv, ReceiptInv, AcknowledgedIsCommitted, ToSet
    <3>4. j \in 1 .. i - 1
      BY <1>3, <2>3
    <3>. QED
      BY <2>1, <2>3, <3>2, <3>3, <3>4
  <2>. QED
    BY <2>1, <2>2, <2>3
<1>. QED
  BY <1>1, <1>5, <1>6 DEF Grows

(* The DataSource never has a transaction while what it depends on waits,  *)
(* nor before what it depends on, if that was acknowledged.                *)
THEOREM DependenciesComeFirst ==
  ASSUME ~CancelReportsHead
  PROVE  Spec => []DependencyFirst
<1>1. Init => OrderInv
  BY TypeInit, QueueInit, WakeInit, DocInit, ReceiptInit, DependencyInit
  DEF OrderInv, TruthInv, FullInv, AllInv
<1>2. OrderInv /\ [Next]_vars => OrderInv'
  <2>1. OrderInv /\ [Next]_vars => TruthInv'
    BY TypeNext, QueueNext, WakeNext, DocNext, ReceiptNext
    DEF OrderInv, TruthInv, FullInv, AllInv
  <2>. QED
    BY <2>1, KnownNext, ChainNext, SentNext, OrderNext DEF OrderInv, DependencyInv
<1>3. OrderInv => DependencyFirst
  BY DEF OrderInv, TruthInv, FullInv, DocInv, SentWasAttempted, DependencyInv,
         SentAfterDependency, LogIsOrdered, maySend, DependencyFirst
<1>. QED
  BY <1>1, <1>2, <1>3, PTL DEF Spec
=============================================================================
