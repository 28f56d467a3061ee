---------------------------- MODULE EditorHistory ----------------------------
(***************************************************************************)
(* The editor's undo and redo stacks.  They interleave three kinds of      *)
(* entries: document transactions, whose patches the engine keeps in       *)
(* stacks of its own; column layouts; and row heights.  Undo looks at the  *)
(* top entry: a view entry is restored at once, a document entry is undone *)
(* by the engine, and the stacks move when that transaction finishes.      *)
(* Column and height operations are synchronous and can fall between.      *)
(***************************************************************************)
EXTENDS Naturals, SequencesExt

CONSTANTS
    FirstLayout,      \* the columns at the start: [id, shown, frozen, object]
    OtherLayout,      \* a layout the host sets
    HistoryLimit,     \* history.maxEntries, for the engine and for the editor
    MaxHistorySteps   \* bound: user steps

ASSUME HistoryAssumption == {HistoryLimit, MaxHistorySteps} \subseteq Nat

VARIABLES
    columns,    \* #columns; "object" is the identity of a column definition
    cursor,     \* #selection, as the columns of its active cell and of its range
    heights,    \* the row heights of the published projection
    undoStack, redoStack,     \* #historyUndo, #historyRedo
    engineUndo, engineRedo,   \* the transactions in the engine's stacks
    redoBarred, \* #columnHistoryInvalidatesDocumentRedo
    resizing,   \* #columnResizeHistorySession, or the empty sequence
    acting,     \* the transaction the queue runs: "none", "record", "undo", "redo"
    strayed,    \* did the engine or a stack move without the other (see HistoriesAgree)?
    mixed,      \* did another column change fall into a resize session?
    historySteps

historyVars == <<columns, cursor, heights, undoStack, redoStack, engineUndo, engineRedo,
                 redoBarred, resizing, acting, strayed, mixed, historySteps>>

-----------------------------------------------------------------------------
ids(cols) == [i \in DOMAIN cols |-> cols[i].id]

visibleColumnDefinitions(cols) == ids(SelectSeq(cols, LAMBDA c : c.shown))

indexIn(s, x) == CHOOSE i \in DOMAIN s : s[i] = x

\* The nearest column that stays visible, the one to the right first; 0 when
\* none does.
fallbackAfterColumnVisibility(active, before, visibleNow) ==
    LET at == indexIn(ids(before), active)
        near(d, right) == IF right THEN at + d ELSE at - d
        offers(d, right) == near(d, right) \in DOMAIN before /\
                            Contains(visibleNow, before[near(d, right)].id)
        distances == {d \in 1..Len(before) - 1 : offers(d, TRUE) \/ offers(d, FALSE)}
        nearest == CHOOSE d \in distances : \A e \in distances : d <= e
    IN IF distances = {} THEN 0 ELSE before[near(nearest, offers(nearest, TRUE))].id

\* 0 stands for no fallback, the empty sequence for no range.
sanitizeCursor(c, visibleNow, fallback) ==
    CASE Contains(visibleNow, c.active) ->
           IF ToSet(c.range) \subseteq ToSet(visibleNow) THEN c ELSE [c EXCEPT !.range = <<>>]
      [] OTHER -> [active |-> IF Contains(visibleNow, fallback) THEN fallback ELSE visibleNow[1],
                   range |-> <<>>]

moveCursor(after) ==
    sanitizeCursor(cursor, visibleColumnDefinitions(after),
        IF Contains(visibleColumnDefinitions(after), cursor.active) THEN 0
        ELSE fallbackAfterColumnVisibility(cursor.active, columns, visibleColumnDefinitions(after)))

isDocument(e) == e.kind = "document"
documents(stack) ==
    LET kept[n \in 0..Len(stack)] ==
          IF n = 0 THEN <<>>
          ELSE IF isDocument(stack[n]) THEN Append(kept[n - 1], stack[n]) ELSE kept[n - 1]
    IN kept[Len(stack)]

dropOldestDocument(stack) ==
    LET i == CHOOSE k \in DOMAIN stack :
                isDocument(stack[k]) /\ \A j \in 1..k - 1 : ~isDocument(stack[j])
    IN RemoveAt(stack, i)

(* Mutant: too many document entries cost the newest one.                  *)
trimsNewest(stack, kept) ==
    LET drop(s, n) == IF Len(documents(s)) > kept /\ isDocument(Last(s)) THEN Front(s) ELSE s
        fitted == FoldLeft(drop, stack, [n \in 1..Len(stack) |-> n])
    IN SubSeq(fitted, IF Len(fitted) > HistoryLimit THEN Len(fitted) - HistoryLimit + 1 ELSE 1,
              Len(fitted))

newest(s, n) == SubSeq(s, IF Len(s) > n THEN Len(s) - n + 1 ELSE 1, Len(s))

dropSurplus(stack, kept) ==
    IF Len(documents(stack)) > kept THEN dropOldestDocument(stack) ELSE stack

\* Document entries follow the engine's count, then all follow the limit.
trimHistoryInteraction(stack, kept) ==
    LET fitted[n \in 0..Len(stack)] ==
          IF n = 0 THEN stack ELSE dropSurplus(fitted[n - 1], kept)
    IN newest(fitted[Len(stack)], HistoryLimit)

viewEntry(kind, before, after, from, to) ==
    [kind |-> kind, tx |-> 0, before |-> before, after |-> after, from |-> from, to |-> to]

documentEntry(tx, from, to) ==
    [kind |-> "document", tx |-> tx, before |-> <<>>, after |-> <<>>, from |-> from, to |-> to]

EditorHistoryInit ==
    /\ columns = FirstLayout
    /\ cursor = [active |-> FirstLayout[1].id, range |-> <<>>]
    /\ heights = 0
    /\ undoStack = <<>> /\ redoStack = <<>>
    /\ engineUndo = <<>> /\ engineRedo = <<>>
    /\ redoBarred = FALSE
    /\ resizing = <<>>
    /\ acting = "none"
    /\ strayed = FALSE
    /\ mixed = FALSE
    /\ historySteps = 0

HistoryStep == historySteps < MaxHistorySteps /\ historySteps' = historySteps + 1

engineVars == <<engineUndo, engineRedo, acting>>

-----------------------------------------------------------------------------
(* Column operations.                                                      *)

recordColumnHistory(before, after, from, to) ==
    IF before = after
    THEN UNCHANGED <<undoStack, redoStack, redoBarred, strayed>>
    ELSE /\ undoStack' = trimHistoryInteraction(
                Append(undoStack, viewEntry("columns", before, after, from, to)), Len(engineUndo))
         /\ redoStack' = <<>>
         /\ redoBarred' = (redoBarred \/ engineRedo # <<>>)
         /\ strayed' = (strayed \/ acting \in {"undo", "redo"})

ColumnsBecome(after, to) ==
    /\ columns' = after
    /\ cursor' = to
    /\ recordColumnHistory(columns, after, cursor, to)
    /\ mixed' = (mixed \/ resizing # <<>>)
    /\ UNCHANGED <<heights, resizing, engineVars>>

touched(c) == [c EXCEPT !.object = historySteps + 1]

\* Within a resize session for the same column nothing is recorded.
ResizeColumn(i) ==
    /\ HistoryStep
    /\ i \in DOMAIN columns
    /\ \E after \in {[columns EXCEPT ![i] = touched(@)]} :
        IF resizing # <<>> /\ resizing[1].id = columns[i].id
        THEN /\ columns' = after
             /\ UNCHANGED <<cursor, heights, undoStack, redoStack, redoBarred, resizing,
                            strayed, mixed, engineVars>>
        ELSE ColumnsBecome(after, cursor)

BeginColumnResize(i) ==
    /\ HistoryStep
    /\ i \in DOMAIN columns
    /\ resizing' = <<[id |-> columns[i].id, columns |-> columns, cursor |-> cursor]>>
    /\ mixed' = (mixed \/ (resizing # <<>> /\ resizing[1].columns # columns))
    /\ UNCHANGED <<columns, cursor, heights, undoStack, redoStack, redoBarred, strayed, engineVars>>

EndColumnResize ==
    /\ resizing # <<>>
    /\ resizing' = <<>>
    /\ recordColumnHistory(resizing[1].columns, columns, resizing[1].cursor, cursor)
    /\ UNCHANGED <<columns, cursor, heights, mixed, engineVars, historySteps>>

\* Any order is taken that leaves the first column where it is.
ReorderColumns(i, j) ==
    /\ HistoryStep
    /\ {i, j} \subseteq DOMAIN columns \ {1}
    /\ i < j
    /\ ColumnsBecome([columns EXCEPT ![i] = columns[j], ![j] = columns[i]], cursor)

SetColumnFrozen(i, frozen) ==
    /\ HistoryStep
    /\ i \in DOMAIN columns
    /\ i = 1 => frozen = "start"
    /\ columns[i].frozen # frozen
    /\ \E changed \in {[columns EXCEPT ![i] = [touched(@) EXCEPT !.frozen = frozen]]} :
        ColumnsBecome(
            SelectSeq(changed, LAMBDA c : c.frozen = "start") \o
            SelectSeq(changed, LAMBDA c : c.frozen = "no") \o
            SelectSeq(changed, LAMBDA c : c.frozen = "end"), cursor)

InsertColumn(i, before) ==
    /\ HistoryStep
    /\ i \in DOMAIN columns
    /\ ~(i = 1 /\ before)
    /\ ColumnsBecome(
           InsertAt(columns, IF before THEN i ELSE i + 1,
               [touched(columns[i]) EXCEPT !.id = 100 + historySteps, !.shown = TRUE]), cursor)

DeleteColumns(requested) ==
    /\ HistoryStep
    /\ requested # {}
    /\ requested \subseteq ToSet(ids(columns)) \ {columns[1].id}
    /\ \E after \in {SelectSeq(columns, LAMBDA c : c.id \notin requested)} :
        /\ visibleColumnDefinitions(after) # <<>>
        /\ ColumnsBecome(after, moveCursor(after))

SetColumnVisibility(requested, shown) ==
    /\ HistoryStep
    /\ requested # {}
    /\ requested \subseteq ToSet(ids(columns))
    /\ ~shown => columns[1].id \notin requested
    /\ \E after \in {[i \in DOMAIN columns |->
            IF columns[i].id \in requested
            THEN [touched(columns[i]) EXCEPT !.shown = shown] ELSE columns[i]]} :
        /\ visibleColumnDefinitions(after) # <<>>
        /\ ColumnsBecome(after, moveCursor(after))

\* setColumns, applyViewTemplate and clearColumnFormat: the view entries go.
ReplaceColumns(layout) ==
    /\ HistoryStep
    /\ \E after \in {[i \in DOMAIN layout |-> touched(layout[i])]} :
        /\ columns' = after
        /\ cursor' = moveCursor(after)
    /\ resizing' = <<>>
    /\ undoStack' = documents(undoStack)
    /\ redoStack' = documents(redoStack)
    /\ redoBarred' = FALSE
    /\ mixed' = FALSE
    /\ UNCHANGED <<heights, strayed, engineVars>>

SelectColumn(c, extend) ==
    /\ HistoryStep
    /\ Contains(visibleColumnDefinitions(columns), c)
    /\ cursor' = [active |-> c,
                  range |-> IF extend /\ cursor.active # c THEN <<cursor.active, c>> ELSE <<>>]
    /\ UNCHANGED <<columns, heights, undoStack, redoStack, redoBarred, resizing, strayed, mixed,
                   engineVars>>

\* A height clears what could be redone, but does not bar the engine's redo.
SetRowHeight(h) ==
    /\ HistoryStep
    /\ heights # h
    /\ heights' = h
    /\ undoStack' = trimHistoryInteraction(
            Append(undoStack, viewEntry("row-height", heights, h, cursor, cursor)), Len(engineUndo))
    /\ redoStack' = <<>>
    /\ strayed' = (strayed \/ acting \in {"undo", "redo"})
    /\ UNCHANGED <<columns, cursor, redoBarred, resizing, mixed, engineVars>>

-----------------------------------------------------------------------------
(* Transactions, undo and redo.                                            *)

StartCommand ==
    /\ HistoryStep
    /\ acting = "none"
    /\ acting' = "record"
    /\ UNCHANGED <<columns, cursor, heights, undoStack, redoStack, engineUndo, engineRedo,
                   redoBarred, resizing, strayed, mixed>>

Rejected ==
    /\ acting # "none"
    /\ acting' = "none"
    /\ UNCHANGED <<columns, cursor, heights, undoStack, redoStack, engineUndo, engineRedo,
                   redoBarred, resizing, strayed, mixed, historySteps>>

FinishCommand ==
    /\ acting = "record"
    /\ acting' = "none"
    /\ engineUndo' = newest(Append(engineUndo, historySteps), HistoryLimit)
    /\ engineRedo' = <<>>
    /\ undoStack' = trimHistoryInteraction(
            Append(undoStack, documentEntry(historySteps, cursor, cursor)), Len(engineUndo'))
    /\ redoStack' = <<>>
    /\ redoBarred' = FALSE
    /\ UNCHANGED <<columns, cursor, heights, resizing, strayed, mixed, historySteps>>

\* The entry on top moves to the other stack.
Moves(action) ==
    IF action = "undo"
    THEN /\ undoStack' = trimHistoryInteraction(
                IF undoStack = <<>> THEN undoStack ELSE Front(undoStack), Len(engineUndo'))
         /\ redoStack' = trimHistoryInteraction(
                IF undoStack = <<>> THEN redoStack ELSE Append(redoStack, Last(undoStack)),
                Len(engineRedo'))
    ELSE /\ redoStack' = trimHistoryInteraction(
                IF redoStack = <<>> THEN redoStack ELSE Front(redoStack), Len(engineRedo'))
         /\ undoStack' = trimHistoryInteraction(
                IF redoStack = <<>> THEN undoStack ELSE Append(undoStack, Last(redoStack)),
                Len(engineUndo'))

stackOf(action) == IF action = "undo" THEN undoStack ELSE redoStack

ApplyColumnHistory(action) ==
    /\ HistoryStep
    /\ acting = "none"
    /\ stackOf(action) # <<>>
    /\ Last(stackOf(action)).kind = "columns"
    /\ \E entry \in {Last(stackOf(action))} :
        /\ columns' = IF action = "undo" THEN entry.before ELSE entry.after
        /\ cursor' = sanitizeCursor(IF action = "undo" THEN entry.from ELSE entry.to,
                                    visibleColumnDefinitions(columns'), 0)
    /\ UNCHANGED engineVars
    /\ Moves(action)
    /\ mixed' = (mixed \/ resizing # <<>>)
    /\ UNCHANGED <<heights, redoBarred, resizing, strayed>>

ApplyRowHeightHistory(action) ==
    /\ HistoryStep
    /\ acting = "none"
    /\ stackOf(action) # <<>>
    /\ Last(stackOf(action)).kind = "row-height"
    /\ \E entry \in {Last(stackOf(action))} :
        heights' = IF action = "undo" THEN entry.before ELSE entry.after
    /\ UNCHANGED engineVars
    /\ Moves(action)
    /\ UNCHANGED <<columns, cursor, redoBarred, resizing, strayed, mixed>>

\* A redo is refused when a column change took its entry away.
StartHistoryAction(action) ==
    /\ HistoryStep
    /\ acting = "none"
    /\ stackOf(action) # <<>> => isDocument(Last(stackOf(action)))
    /\ ~(action = "redo" /\ redoStack = <<>> /\ redoBarred)
    /\ acting' = action
    /\ UNCHANGED <<columns, cursor, heights, undoStack, redoStack, engineUndo, engineRedo,
                   redoBarred, resizing, strayed, mixed>>

FinishHistoryAction(action) ==
    /\ acting = action
    /\ acting' = "none"
    /\ IF action = "undo"
       THEN /\ engineUndo # <<>>
            /\ engineUndo' = Front(engineUndo)
            /\ engineRedo' = Append(engineRedo, Last(engineUndo))
       ELSE /\ engineRedo # <<>>
            /\ engineRedo' = Front(engineRedo)
            /\ engineUndo' = Append(engineUndo, Last(engineRedo))
    /\ Moves(action)
    /\ strayed' = (strayed \/ stackOf(action) = <<>>)
    /\ cursor' = IF stackOf(action) = <<>> \/ ~isDocument(Last(stackOf(action))) THEN cursor
                 ELSE sanitizeCursor(IF action = "undo" THEN Last(undoStack).from
                                     ELSE Last(redoStack).to,
                                     visibleColumnDefinitions(columns), 0)
    /\ UNCHANGED <<columns, heights, redoBarred, resizing, mixed, historySteps>>

ReplaceDocumentHistory ==
    /\ HistoryStep
    /\ acting = "none"
    /\ undoStack' = <<>> /\ redoStack' = <<>>
    /\ engineUndo' = <<>> /\ engineRedo' = <<>>
    /\ strayed' = FALSE
    /\ cursor' = [active |-> visibleColumnDefinitions(columns)[1], range |-> <<>>]
    /\ heights' = 0
    /\ UNCHANGED <<columns, redoBarred, resizing, acting, mixed>>

Places == 1..Len(FirstLayout) + MaxHistorySteps
SomeColumns == {{c} : c \in ToSet(ids(columns))} \cup {{columns[i].id, columns[i + 1].id} : i \in 1..Len(columns) - 1}

EditorHistoryNext ==
    \/ \E i \in Places : ResizeColumn(i) \/ BeginColumnResize(i)
    \/ EndColumnResize
    \/ \E i, j \in Places : ReorderColumns(i, j)
    \/ \E i \in Places, frozen \in {"start", "no", "end"} : SetColumnFrozen(i, frozen)
    \/ \E i \in Places, before \in BOOLEAN : InsertColumn(i, before)
    \/ \E requested \in SomeColumns : DeleteColumns(requested)
    \/ \E requested \in SomeColumns, show \in BOOLEAN : SetColumnVisibility(requested, show)
    \/ ReplaceColumns(OtherLayout)
    \/ \E c \in ToSet(ids(columns)), extend \in BOOLEAN : SelectColumn(c, extend)
    \/ \E h \in 0..2 : SetRowHeight(h)
    \/ StartCommand \/ Rejected \/ FinishCommand
    \/ \E action \in {"undo", "redo"} :
        \/ ApplyColumnHistory(action)
        \/ ApplyRowHeightHistory(action)
        \/ StartHistoryAction(action)
        \/ FinishHistoryAction(action)
    \/ ReplaceDocumentHistory

-----------------------------------------------------------------------------
(* Properties.                                                             *)

txs(stack) == [i \in DOMAIN documents(stack) |-> documents(stack)[i].tx]

topColumns(stack) ==
    SelectLastInSeq(stack, LAMBDA e : e.kind = "columns")

(* The newest column entry to undo ends in the columns on the screen and   *)
(* the next one to redo begins with them: undo and redo never jump to a    *)
(* layout the user did not have (editor.ts:8103).  Excluded while a resize *)
(* is open, and after another column change fell into one.                 *)
ColumnsFollowHistory ==
    ~strayed /\ ~mixed /\ resizing = <<>> =>
        /\ topColumns(undoStack) # 0 => undoStack[topColumns(undoStack)].after = columns
        /\ topColumns(redoStack) # 0 => redoStack[topColumns(redoStack)].before = columns

(* The document entries of both stacks are the newest transactions of the  *)
(* engine's stacks, in the same order, so that the view an undo restores   *)
(* is the view of the transaction it undoes (editor.ts:7978), and so do    *)
(* the column entries fit the columns.  Excluded are the ways the code     *)
(* lets them stray: an undo or redo of the engine for which the view has   *)
(* no entry, as a height change or setColumns dropped it, or newer entries *)
(* crowded it out; and a view change during an undo.                       *)
HistoriesAgree ==
    /\ ColumnsFollowHistory
    /\ ~strayed => /\ IsSuffix(txs(undoStack), engineUndo)
                   /\ IsSuffix(txs(redoStack), engineRedo)

=============================================================================
