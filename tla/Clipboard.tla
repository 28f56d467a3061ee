------------------------------ MODULE Clipboard ------------------------------
(***************************************************************************)
(* Copy, cut and paste of cells and of branches.  What is cut or copied is *)
(* handed to the renderer, which writes it to the clipboard of the system; *)
(* a cut removes it from the document only when the write was reported, as *)
(* a task of the mutation queue.  A paste is a task too: it parses what    *)
(* the clipboard held, maybe in a worker, prepares its commands and        *)
(* commits them.  Meanwhile the user selects, the view and the document    *)
(* change, and the editor is unmounted or destroyed.                       *)
(*                                                                         *)
(* The order of siblings is left to BomTree, and the geometry of a paste   *)
(* of cells to CellCommands: cells go here to as many selected rows.       *)
(***************************************************************************)
EXTENDS Naturals, SequencesExt

CONSTANTS
    FirstForest,     \* [row -> [under, value, group]]
    Top,             \* above the roots
    Blank, Masked,   \* an unset value, and one a policy masks
    NoPayload,
    FreshRows,       \* the rows that inserts and pastes create, the least first
    MaxPendingWrites,                \* MAX_PENDING_CLIPBOARD_WRITES
    MaxClipSteps, MaxClipTasks       \* bounds: steps of user and host, queued tasks

ASSUME ClipboardAssumption ==
    /\ {MaxPendingWrites, MaxClipSteps, MaxClipTasks} \subseteq Nat
    /\ DOMAIN FirstForest \cup FreshRows \subseteq Nat \ {Top}
    /\ IsFiniteSet(DOMAIN FirstForest) /\ IsFiniteSet(FreshRows)
    /\ DOMAIN FirstForest \cap FreshRows = {}

VARIABLES
    forest,      \* the published document: [row -> [under, value, group]]
    chosenRows,  \* #selection, the rows; the least one is active
    clock,       \* [revision, generation, published, target, mount]
    phase,       \* #lifecycle: mounted, unmounted or destroyed
    ledger,      \* #pendingClipboardWrites: the payloads with their bases
    writes,      \* the writes of the renderer that have not settled
    board,       \* the clipboard of the system
    clipTasks,   \* the mutation queue, the running task first
    moved,       \* ghost: the cuts that were committed
    clipSteps

clipVars == <<forest, chosenRows, clock, phase, ledger, writes, board, clipTasks, moved, clipSteps>>

-----------------------------------------------------------------------------
(* Documents.                                                              *)

\* The rows of the branches at some roots.
branchOf(roots, f) ==
    LET down[n \in 0..Cardinality(DOMAIN f)] ==
            IF n = 0 THEN roots
            ELSE down[n - 1] \cup {r \in DOMAIN f : f[r].under \in down[n - 1]}
    IN down[Cardinality(DOMAIN f)]

\* #branchSelection: no root lies below another.
nested(roots, f) ==
    \E r \in roots : f[r].under # Top /\
        f[r].under \in branchOf(roots, f)

least(rows) == CHOOSE r \in rows : \A s \in rows : r <= s

firstRow(f) == IF DOMAIN f = {} THEN {} ELSE {least(DOMAIN f)}

\* The document with more rows.
planted(new, f) ==
    [r \in DOMAIN new \cup DOMAIN f |-> IF r \in DOMAIN new THEN new[r] ELSE f[r]]

unused == FreshRows \ (DOMAIN forest \cup UNION {DOMAIN m.removed : m \in ToSet(moved)})

-----------------------------------------------------------------------------
ClipboardInit ==
    /\ forest = FirstForest
    /\ chosenRows = firstRow(FirstForest)
    /\ clock = [revision |-> 0, generation |-> 0, published |-> 0, target |-> 0, mount |-> 0]
    /\ phase = "mounted"
    /\ ledger = {}
    /\ writes = {}
    /\ board = NoPayload
    /\ clipTasks = <<>>
    /\ moved = <<>>
    /\ clipSteps = 0

ClipStep ==
    /\ phase # "destroyed" /\ clipSteps < MaxClipSteps
    /\ clipSteps' = clipSteps + 1

queues(t) == Len(clipTasks) < MaxClipTasks /\ clipTasks' = Append(clipTasks, t)

clipTask(kind) ==
    [kind |-> kind, stage |-> "waiting", base |-> clock, aborted |-> FALSE,
     formats |-> {}, payload |-> NoPayload, row |-> Top]

\* Another document or another view of it: the selection that is left over
\* moves the target, and so does a view that changed.
PublishesForest(f, keepsRevision) ==
    LET kept == chosenRows \cap DOMAIN f
    IN /\ forest' = f
       /\ chosenRows' = IF kept = {} THEN firstRow(f) ELSE kept
       /\ clock' = [clock EXCEPT
              !.published = @ + 1,
              !.revision = IF keepsRevision THEN @ ELSE @ + 1,
              !.target = IF kept = chosenRows /\ ~keepsRevision THEN @ ELSE @ + 1]

SelectRows ==
    /\ ClipStep
    /\ chosenRows' \in {{r} : r \in DOMAIN forest} \cup {{r, s} : r, s \in DOMAIN forest}
    /\ chosenRows' # chosenRows
    /\ clock' = [clock EXCEPT !.target = @ + 1]
    /\ UNCHANGED <<forest, phase, ledger, writes, board, clipTasks, moved>>

ViewMoves ==
    /\ ClipStep
    /\ PublishesForest(forest, TRUE)
    /\ UNCHANGED <<phase, ledger, writes, board, clipTasks, moved>>

-----------------------------------------------------------------------------
(* Copy and cut, up to the write.  A listener or a policy that changes the *)
(* published state meanwhile makes the call return nothing.                *)

\* What the policy let through.  A branch and a cut take original values only.
serialized(rows, masks) ==
    [r \in rows |-> IF masks THEN [forest[r] EXCEPT !.value = Masked] ELSE forest[r]]

payloadOf(op, rows, masks) ==
    [id |-> clipSteps', op |-> op, content |-> serialized(rows, masks), base |-> clock]

Requests(payload) ==
    /\ ClipStep
    /\ phase = "mounted"
    /\ chosenRows # {}
    /\ Cardinality(ledger) < MaxPendingWrites
    /\ ledger' = ledger \cup {payload}
    /\ writes' = writes \cup {[payload |-> payload, landed |-> FALSE]}
    /\ UNCHANGED <<forest, chosenRows, clock, phase, board, clipTasks, moved>>

CopyCells(masks) == Requests(payloadOf("copy", chosenRows, masks))

\* #prepareCutCommands: no cell may be unset already.
CutCells ==
    /\ \A r \in chosenRows : forest[r].value # Blank
    /\ Requests(payloadOf("cut", chosenRows, FALSE))

WriteBranch(op) ==
    /\ ~nested(chosenRows, forest)
    /\ Requests(payloadOf(op, branchOf(chosenRows, forest), FALSE))

\* The system takes the payload, in whatever order the writes end.
WriteLands(w) ==
    /\ w \in writes /\ ~w.landed
    /\ board' = w.payload
    /\ writes' = (writes \ {w}) \cup {[w EXCEPT !.landed = TRUE]}
    /\ UNCHANGED <<forest, chosenRows, clock, phase, ledger, clipTasks, moved, clipSteps>>

cutsNow(w) == w.landed /\ w.payload.op \in {"cut", "cut-branch"}

\* #recordClipboardWrite, called while the renderer that wrote is there.
WriteReported(w) ==
    /\ w \in writes
    /\ writes' = writes \ {w}
    /\ IF phase = "mounted" /\ w.payload.base.mount = clock.mount /\ w.payload \in ledger
       THEN /\ ledger' = ledger \ {w.payload}
            /\ IF cutsNow(w)
               THEN queues([clipTask("cut") EXCEPT !.payload = w.payload])
               ELSE UNCHANGED clipTasks
       ELSE UNCHANGED <<ledger, clipTasks>>
    /\ UNCHANGED <<forest, chosenRows, clock, phase, board, moved, clipSteps>>

-----------------------------------------------------------------------------
(* The queue.                                                              *)

\* The formats the browser hands over are the ones that parse.
PasteBoard(formats) ==
    /\ ClipStep
    /\ board # NoPayload
    /\ queues([clipTask("paste") EXCEPT !.payload = board, !.formats = formats])
    /\ UNCHANGED <<forest, chosenRows, clock, phase, ledger, writes, board, moved>>

AbortPaste(i) ==
    /\ phase # "destroyed"
    /\ i \in DOMAIN clipTasks /\ clipTasks[i].kind = "paste" /\ ~clipTasks[i].aborted
    /\ clipTasks' = [clipTasks EXCEPT ![i].aborted = TRUE]
    /\ UNCHANGED <<forest, chosenRows, clock, phase, ledger, writes, board, moved, clipSteps>>

HostMutation(kind, r) ==
    /\ ClipStep
    /\ queues([clipTask(kind) EXCEPT !.row = r])
    /\ UNCHANGED <<forest, chosenRows, clock, phase, ledger, writes, board, moved>>

headed(kind, stage) ==
    clipTasks # <<>> /\ clipTasks[1].kind = kind /\ clipTasks[1].stage = stage

advanced(stage) == clipTasks' = [clipTasks EXCEPT ![1].stage = stage]

TaskEnds == clipTasks' = Tail(clipTasks)

\* #enqueue refuses a task of a destroyed editor, and a commit may be
\* prevented by a listener or refused by the persistence session.
TaskDropped ==
    /\ clipTasks # <<>>
    /\ TaskEnds
    /\ UNCHANGED <<forest, chosenRows, clock, phase, ledger, writes, board, moved, clipSteps>>

HostChanges ==
    /\ phase # "destroyed" /\ clipTasks # <<>>
    /\ \E t \in {clipTasks[1]} :
        \/ /\ headed("edit", "waiting") /\ t.row \in DOMAIN forest
           /\ PublishesForest([forest EXCEPT ![t.row].value = clock.revision + 1], FALSE)
        \/ /\ headed("insert", "waiting") /\ t.row \in DOMAIN forest /\ unused # {}
           /\ LET row == [under |-> t.row, value |-> clock.revision + 1, group |-> FALSE]
              IN PublishesForest(planted([n \in {least(unused)} |-> row], forest), FALSE)
    /\ TaskEnds
    /\ UNCHANGED <<phase, ledger, writes, board, moved, clipSteps>>

\* setDocument loads another document, with a revision of its own.
DocumentReplaced ==
    /\ phase # "destroyed"
    /\ headed("document", "waiting")
    /\ forest' = FirstForest
    /\ chosenRows' = firstRow(FirstForest)
    /\ clock' = [clock EXCEPT !.generation = @ + 1, !.published = @ + 1, !.revision = 0,
                              !.target = IF chosenRows' = chosenRows THEN @ ELSE @ + 1]
    /\ TaskEnds
    /\ UNCHANGED <<phase, ledger, writes, board, moved, clipSteps>>

(* Mutant: the document may have changed, if it is still the same one.     *)
ignoresRevision(base) ==
    base.mount = clock.mount /\ base.generation = clock.generation

stillCurrent(base) ==
    /\ base.mount = clock.mount
    /\ base.generation = clock.generation
    /\ base.revision = clock.revision

StartCut ==
    /\ phase # "destroyed"
    /\ headed("cut", "waiting")
    /\ stillCurrent(clipTasks[1].payload.base)
    /\ advanced("committing")
    /\ UNCHANGED <<forest, chosenRows, clock, phase, ledger, writes, board, moved, clipSteps>>

\* The cells are unset, or the branches that are there now are deleted.
CommitCut ==
    /\ phase # "destroyed"
    /\ headed("cut", "committing")
    /\ \E p \in {clipTasks[1].payload} :
         \E rows \in {IF p.op = "cut" THEN DOMAIN p.content
                      ELSE branchOf({r \in DOMAIN p.content : p.content[r].under \notin DOMAIN p.content}
                                      \cap DOMAIN forest, forest)} :
            /\ p.op = "cut" => \A r \in rows : forest[r].value = p.content[r].value  \* expectedValueHash
            /\ PublishesForest(IF p.op = "cut"
                         THEN [r \in DOMAIN forest |-> IF r \in rows THEN [forest[r] EXCEPT !.value = Blank]
                                                       ELSE forest[r]]
                         ELSE [r \in DOMAIN forest \ rows |-> forest[r]], FALSE)
            /\ moved' = Append(moved, [payload |-> p, removed |-> [r \in rows |-> forest[r]],
                                       generation |-> clock.generation])
    /\ TaskEnds
    /\ UNCHANGED <<phase, ledger, writes, board, clipSteps>>

-----------------------------------------------------------------------------
(* Paste.                                                                  *)

\* #pasteStaleness: state and target are those the task started with, the
\* target that of the call.
pasteIsStale(t) == t.base.published # clock.published \/ t.base.target # clock.target

\* A large text is parsed in a worker; if the worker fails, here.
StartClipPaste ==
    /\ phase # "destroyed"
    /\ headed("paste", "waiting") /\ ~clipTasks[1].aborted
    /\ clipTasks' = [clipTasks EXCEPT ![1].base.published = clock.published, ![1].stage = "parsing"]
    /\ UNCHANGED <<forest, chosenRows, clock, phase, ledger, writes, board, moved, clipSteps>>

\* The internal format of a branch keeps it; every other one gives cells.
isBranch(t) == t.payload.op \in {"copy-branch", "cut-branch"} /\ "internal" \in t.formats

goesOn(t) == phase # "destroyed" /\ ~t.aborted /\ ~pasteIsStale(t)

Parsed ==
    /\ headed("paste", "parsing")
    /\ clipTasks[1].formats # {}
    /\ goesOn(clipTasks[1])
    /\ advanced("preparing")
    /\ UNCHANGED <<forest, chosenRows, clock, phase, ledger, writes, board, moved, clipSteps>>

\* The order of the rows in a branch, and the new row of each.
renamed(content) ==
    {names \in [DOMAIN content -> unused] :
        \A r, s \in DOMAIN content : r < s => names[r] < names[s]}

PreparePaste ==
    /\ headed("paste", "preparing")
    /\ goesOn(clipTasks[1])
    /\ chosenRows # {}
    /\ isBranch(clipTasks[1]) \/ Cardinality(chosenRows) = Cardinality(DOMAIN clipTasks[1].payload.content)
    /\ advanced("committing")
    /\ UNCHANGED <<forest, chosenRows, clock, phase, ledger, writes, board, moved, clipSteps>>

\* A branch goes into the active row if that is a group, or else beside it.
branchPasted(content, names) ==
    LET active == least(chosenRows)
        home == IF forest[active].group THEN active ELSE forest[active].under
        source(n) == CHOOSE r \in DOMAIN content : names[r] = n
        copy == [n \in {names[r] : r \in DOMAIN content} |->
                   [content[source(n)] EXCEPT
                      !.under = IF @ \in DOMAIN content THEN names[@] ELSE home]]
    IN planted(copy, forest)

cellsPasted(content) ==
    LET place(rows, r) == Cardinality({s \in rows : s < r})
    IN [r \in DOMAIN forest |->
          IF r \notin chosenRows THEN forest[r]
          ELSE [forest[r] EXCEPT !.value =
                  content[CHOOSE s \in DOMAIN content :
                            place(DOMAIN content, s) = place(chosenRows, r)].value]]

\* The abort signal and the staleness are checked again before it applies.
CommitPaste ==
    /\ headed("paste", "committing")
    /\ goesOn(clipTasks[1])
    /\ \E content \in {clipTasks[1].payload.content} :
         IF isBranch(clipTasks[1])
         THEN /\ Cardinality(DOMAIN content) <= Cardinality(unused)
              /\ \E names \in renamed(content) : PublishesForest(branchPasted(content, names), FALSE)
         ELSE PublishesForest(cellsPasted(content), FALSE)
    /\ TaskEnds
    /\ UNCHANGED <<phase, ledger, writes, board, moved, clipSteps>>

-----------------------------------------------------------------------------
\* The clipboard worker is disposed; a parse in it goes on without.
Unmount ==
    /\ ClipStep
    /\ clock' = [clock EXCEPT !.mount = @ + 1]
    /\ ledger' = IF phase = "mounted" THEN {} ELSE ledger
    /\ phase' = "unmounted"
    /\ UNCHANGED <<forest, chosenRows, writes, board, clipTasks, moved>>

Mount ==
    /\ phase = "unmounted"
    /\ phase' = "mounted"
    /\ UNCHANGED <<forest, chosenRows, clock, ledger, writes, board, clipTasks, moved, clipSteps>>

DestroyEditor ==
    /\ phase # "destroyed"
    /\ phase' = "destroyed"
    /\ clock' = [clock EXCEPT !.mount = @ + 1]
    /\ ledger' = {}
    /\ UNCHANGED <<forest, chosenRows, writes, board, clipTasks, moved, clipSteps>>

ClipboardNext ==
    \/ SelectRows \/ ViewMoves
    \/ \E masks \in BOOLEAN : CopyCells(masks)
    \/ CutCells
    \/ \E op \in {"copy-branch", "cut-branch"} : WriteBranch(op)
    \/ \E w \in writes : WriteLands(w) \/ WriteReported(w)
    \/ \E formats \in {{}, {"text"}, {"internal", "text"}} : PasteBoard(formats)
    \/ \E i \in DOMAIN clipTasks : AbortPaste(i)
    \/ \E kind \in {"edit", "insert"}, r \in chosenRows : HostMutation(kind, r)
    \/ HostMutation("document", Top)
    \/ TaskDropped \/ HostChanges \/ DocumentReplaced
    \/ StartCut \/ CommitCut
    \/ StartClipPaste \/ Parsed \/ PreparePaste \/ CommitPaste
    \/ Unmount \/ Mount \/ DestroyEditor

-----------------------------------------------------------------------------
(* Properties.                                                             *)

(* Cutting loses nothing: a cut that was committed took away exactly the   *)
(* rows and the values that had been handed to the system clipboard, none  *)
(* of them masked, none added or changed in between, in the document they  *)
(* came from, and took them once.  A cut that still waits for its write is *)
(* one of this mount, and none is left by a destroyed editor               *)
(* (editor.ts:8759 and 10638).                                             *)
CutTakesWhatWasWritten ==
    /\ \A i \in DOMAIN moved :
        /\ moved[i].removed = moved[i].payload.content
        /\ moved[i].generation = moved[i].payload.base.generation
        /\ \A w \in writes : w.payload # moved[i].payload
        /\ \A j \in DOMAIN moved : moved[i].payload.id = moved[j].payload.id => i = j
    /\ \A p \in ledger : p.base.mount = clock.mount /\ \E w \in writes : w.payload = p
    /\ phase = "destroyed" => ledger = {}

=============================================================================
