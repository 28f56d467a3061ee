----------------------------- MODULE SourceReads -----------------------------
(***************************************************************************)
(* A partial document whose children are loaded from its source page by    *)
(* page, and queries that the source answers.  A read is asked for at the  *)
(* source revision of the session, and its answer may come after a commit  *)
(* of this editor, an envelope of another client, a reload or another      *)
(* source.  A page that is still current is merged by a task of the        *)
(* mutation queue, and the document with it replaces the one before, under *)
(* a session of its own.                                                   *)
(*                                                                         *)
(* The source answers with the revision it is at (external).  A commit is  *)
(* one step here and its acknowledgement another: CommitCoordinator and    *)
(* PersistenceSession have the rest.                                       *)
(***************************************************************************)
EXTENDS Naturals, SequencesExt

CONSTANTS
    LazyParents,        \* rows whose children the source keeps
    PageCount,          \* [LazyParents -> Nat]: the pages their children come in
    NoParent,           \* of a query
    MaxSourceMoves, MaxReads, MaxReloads   \* bounds

ASSUME SourceReadsAssumption ==
    /\ \A p \in LazyParents : PageCount[p] \in Nat \ {0}
    /\ NoParent \notin LazyParents
    /\ {MaxSourceMoves, MaxReads, MaxReloads} \subseteq Nat

VARIABLES
    remote,    \* the source: [revision, wire], the envelopes that are on their way
    held,      \* the document: [generation, local, revision, pending, rows, whole]
    link,      \* the session: [revision, stopped, reloading, own]
    intake,    \* the mutation queue
    reads,     \* the reads that have not ended
    swapping,  \* #sourceReplacementPending
    asked,     \* how many reads and reloads were started
    gone       \* destroyed

sourceVars == <<remote, held, link, intake, reads, swapping, asked, gone>>

-----------------------------------------------------------------------------
childrenOn(p, page, r) == {[under |-> p, page |-> page, revision |-> r]}

newLink(r) == [revision |-> r, stopped |-> FALSE, reloading |-> FALSE, own |-> {}]

\* Whatever replaces the document gets a session that starts at its revision.
installed(document, r) ==
    /\ held' = [document EXCEPT !.generation = held.generation + 1, !.revision = r]
    /\ link' = newLink(r)

\* What is loaded when a document comes from the source: no children yet.
bare == [held EXCEPT !.rows = {}, !.whole = {}, !.pending = FALSE, !.local = 0]

SourceInit ==
    /\ remote = [revision |-> 0, wire |-> <<>>]
    /\ held = [generation |-> 0, local |-> 0, revision |-> 0, pending |-> FALSE,
               rows |-> {}, whole |-> {}]
    /\ link = newLink(0)
    /\ intake = <<>>
    /\ reads = {}
    /\ swapping = FALSE
    /\ asked = [reads |-> 0, reloads |-> 0]
    /\ gone = FALSE

\* The commit of a revision, by this editor or by another client.
moves(own) ==
    remote' = [revision |-> remote.revision + 1,
               wire |-> Append(remote.wire, [base |-> remote.revision, own |-> own])]

brought(rows, r) == {[row EXCEPT !.revision = r] : row \in rows}

\* The rest of a task that failed: the session stops and loads again.
reloadRequested == [link EXCEPT !.stopped = TRUE, !.reloading = TRUE]

-----------------------------------------------------------------------------
(* Commits and envelopes.                                                  *)

OtherCommits ==
    /\ remote.revision < MaxSourceMoves
    /\ moves(FALSE)
    /\ UNCHANGED <<held, link, intake, reads, swapping, asked, gone>>

LocalCommits ==
    /\ ~gone /\ ~swapping /\ ~link.stopped /\ ~held.pending
    /\ remote.revision < MaxSourceMoves
    /\ held' = [held EXCEPT !.pending = TRUE, !.local = @ + 1]
    /\ UNCHANGED <<remote, link, intake, reads, swapping, asked, gone>>

\* The acknowledgement moves the document on, the session waits for the echo.
Acknowledged ==
    /\ ~gone /\ held.pending /\ remote.revision = held.revision
    /\ remote.revision < MaxSourceMoves
    /\ moves(TRUE)
    /\ held' = [held EXCEPT !.pending = FALSE, !.revision = remote'.revision,
                            !.rows = brought(@, remote'.revision)]
    /\ link' = [link EXCEPT !.own = @ \cup {held.revision}]
    /\ UNCHANGED <<intake, reads, swapping, asked, gone>>

Conflicts ==
    /\ ~gone /\ held.pending /\ remote.revision # held.revision
    /\ held' = [held EXCEPT !.pending = FALSE, !.local = @ - 1]
    /\ link' = reloadRequested
    /\ UNCHANGED <<remote, intake, reads, swapping, asked, gone>>

EnvelopeArrives ==
    /\ ~gone /\ remote.wire # <<>>
    /\ remote' = [remote EXCEPT !.wire = Tail(@)]
    /\ intake' = IF link.stopped THEN intake
                 ELSE Append(intake, [task |-> "envelope", generation |-> held.generation,
                                      envelope |-> Head(remote.wire)])
    /\ UNCHANGED <<held, link, reads, swapping, asked, gone>>

atIntake(task) ==
    ~gone /\ intake # <<>> /\ intake[1].task = task

isSessionCurrent(generation) == ~gone /\ generation = held.generation

RunEnvelope ==
    /\ atIntake("envelope")
    /\ intake' = Tail(intake)
    /\ \E e \in {intake[1].envelope} :
        \/ /\ ~isSessionCurrent(intake[1].generation) \/ link.stopped
           /\ UNCHANGED <<held, link>>
        \/ /\ isSessionCurrent(intake[1].generation) /\ ~link.stopped
           /\ \/ /\ e.base # link.revision \/ (held.pending /\ ~e.own)
                 /\ link' = reloadRequested
                 /\ UNCHANGED held
              \/ /\ e.base = link.revision /\ e.own /\ e.base \in link.own
                 /\ link' = [link EXCEPT !.revision = e.base + 1]
                 /\ UNCHANGED held
              \/ /\ e.base = link.revision /\ ~(e.own /\ e.base \in link.own) /\ ~held.pending
                 /\ link' = [link EXCEPT !.revision = e.base + 1]
                 /\ held' = [held EXCEPT !.local = @ + 1, !.revision = e.base + 1,
                                         !.rows = brought(@, e.base + 1)]
    /\ UNCHANGED <<remote, reads, swapping, asked, gone>>

-----------------------------------------------------------------------------
(* Reads.                                                                  *)

asks(kind, p, page) ==
    [kind |-> kind, under |-> p, page |-> page, expected |-> link.revision,
     generation |-> held.generation, local |-> held.local, stage |-> "asked", revision |-> 0]

begins(read) ==
    /\ ~gone /\ asked.reads < MaxReads
    /\ reads' = reads \cup {read}
    /\ asked' = [asked EXCEPT !.reads = @ + 1]
    /\ UNCHANGED <<remote, held, link, intake, swapping, gone>>

QueryDataSource == begins(asks("query", NoParent, 0))

\* The first page, or the one whose cursor came with the last page.
LoadDataSourceChildren(p) ==
    /\ p \notin held.whole
    /\ ~held.pending
    /\ \E page \in {1} \cup {row.page + 1 : row \in {c \in held.rows : c.under = p}} :
          page <= PageCount[p] /\ begins(asks("children", p, page))

\* An answer, one that is no page, or none because the source failed.
SourceAnswers(read) ==
    /\ read \in reads /\ read.stage = "asked"
    /\ \E stage \in {"answered", "malformed", "failed"} :
          reads' = (reads \ {read}) \cup {[read EXCEPT !.stage = stage, !.revision = remote.revision]}
    /\ UNCHANGED <<remote, held, link, intake, swapping, asked, gone>>

\* The signal of the caller, or abortDataSourceReads.
ReadAborted(read) ==
    /\ read \in reads /\ read.stage # "queued"
    /\ reads' = reads \ {read}
    /\ UNCHANGED <<remote, held, link, intake, swapping, asked, gone>>

(* Mutant: only the session is asked for again.                            *)
trustsTheSession(read) == isSessionCurrent(read.generation)

stillCurrentRead(read) ==
    /\ isSessionCurrent(read.generation)
    /\ link.revision = read.expected
    /\ read.kind = "children" => held.local = read.local /\ ~swapping /\ ~held.pending

ReadContinues(read) ==
    /\ read \in reads /\ read.stage \in {"answered", "malformed", "failed"}
    /\ LET isReply == read.stage # "failed" /\ stillCurrentRead(read)
           isGood == read.stage = "answered" /\ read.revision = read.expected
           merges == isReply /\ isGood /\ read.kind = "children"
       IN /\ link' = IF isReply /\ ~isGood THEN reloadRequested ELSE link
          /\ reads' = (reads \ {read}) \cup
                        (IF merges THEN {[read EXCEPT !.stage = "queued"]} ELSE {})
          /\ intake' = IF merges THEN Append(intake, [task |-> "merge", read |-> read]) ELSE intake
    /\ UNCHANGED <<remote, held, swapping, asked, gone>>

\* A listener may prevent the document with the page, and a page that
\* contradicts what is loaded makes the session load again.
RunMerge ==
    /\ atIntake("merge")
    /\ intake' = Tail(intake)
    /\ \E read \in {intake[1].read} :
         /\ reads' = reads \ {[read EXCEPT !.stage = "queued"]}
         /\ \/ UNCHANGED <<held, link>>
            \/ stillCurrentRead(read) /\ link' = reloadRequested /\ UNCHANGED held
            \/ /\ stillCurrentRead(read)
               /\ installed([held EXCEPT
                    !.rows = @ \cup childrenOn(read.under, read.page, read.revision),
                    !.whole = IF read.page = PageCount[read.under] THEN @ \cup {read.under} ELSE @],
                    held.revision)
    /\ UNCHANGED <<remote, swapping, asked, gone>>

-----------------------------------------------------------------------------
(* Reloads, another source, the end.                                       *)

\* What was loaded waits in the queue with the revision it has.
ReloadLoaded ==
    /\ ~gone /\ link.reloading /\ ~held.pending
    /\ asked.reloads < MaxReloads
    /\ \A i \in DOMAIN intake : intake[i].task # "reload"
    /\ intake' = Append(intake, [task |-> "reload", generation |-> held.generation,
                                 revision |-> remote.revision])
    /\ asked' = [asked EXCEPT !.reloads = @ + 1]
    /\ UNCHANGED <<remote, held, link, reads, swapping, gone>>

RunReload ==
    /\ atIntake("reload")
    /\ intake' = Tail(intake)
    /\ \/ UNCHANGED <<held, link>>
       \/ isSessionCurrent(intake[1].generation) /\ installed(bare, intake[1].revision)
    /\ UNCHANGED <<remote, reads, swapping, asked, gone>>

ReplaceSource ==
    /\ ~gone /\ ~swapping /\ asked.reloads < MaxReloads
    /\ swapping' = TRUE
    /\ reads' = {read \in reads : read.stage = "queued"}
    /\ asked' = [asked EXCEPT !.reloads = @ + 1]
    /\ UNCHANGED <<remote, held, link, intake, gone>>

\* The load is over, and the queue had no task before: or it failed.
SourceReplaced ==
    /\ ~gone /\ swapping /\ intake = <<>>
    /\ swapping' = FALSE
    /\ \/ UNCHANGED <<held, link>>
       \/ ~held.pending /\ installed(bare, remote.revision)
    /\ UNCHANGED <<remote, intake, reads, asked, gone>>

EditorDestroyed ==
    /\ ~gone
    /\ gone' = TRUE
    /\ reads' = {}
    /\ intake' = <<>>
    /\ UNCHANGED <<remote, held, link, swapping, asked>>

SourceNext ==
    \/ OtherCommits \/ LocalCommits \/ Acknowledged \/ Conflicts
    \/ EnvelopeArrives \/ RunEnvelope
    \/ QueryDataSource
    \/ \E p \in LazyParents : LoadDataSourceChildren(p)
    \/ \E read \in reads : SourceAnswers(read) \/ ReadAborted(read) \/ ReadContinues(read)
    \/ RunMerge
    \/ ReloadLoaded \/ RunReload
    \/ ReplaceSource \/ SourceReplaced
    \/ EditorDestroyed

-----------------------------------------------------------------------------
(* Properties.                                                             *)

(* A document is never put together from two revisions of its source: all  *)
(* children in it are of the revision it is at, and a row that counts as   *)
(* complete has the children of every page, read one after the other.      *)
(* While the session runs it is at the revision of the document, but for   *)
(* commits of this editor whose echo it has not seen (editor.ts:1835).     *)
PagesFitTheirDocument ==
    /\ \A row \in held.rows : row.revision = held.revision
    /\ \A p \in LazyParents :
         LET pages == {row.page : row \in {c \in held.rows : c.under = p}}
         IN /\ pages = 1..Cardinality(pages)
            /\ p \in held.whole <=> Cardinality(pages) = PageCount[p]
    /\ ~link.stopped =>
         /\ link.revision <= held.revision
         /\ \A r \in link.revision..(held.revision - 1) : r \in link.own

=============================================================================
