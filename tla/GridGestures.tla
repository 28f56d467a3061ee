---------------------------- MODULE GridGestures ----------------------------
(***************************************************************************)
(* The pointer gestures, the key strokes and the in-cell editor of the     *)
(* canvas renderer.  Five gestures may be under way, each owned by the     *)
(* pointer that began it; three of them scroll the grid in an animation    *)
(* frame of their own.  Hits are taken from the layout of the last frame,  *)
(* while the view model may have been replaced since.                      *)
(*                                                                         *)
(* A pointer that is down keeps its capture until it is up, is cancelled   *)
(* or loses it, as browsers guarantee for setPointerCapture.  What the     *)
(* callbacks do to the editor comes back as another view model.            *)
(***************************************************************************)
EXTENDS Naturals, SequencesExt

CONSTANTS
    Pointers, NoPointer, AnyPointer,
    Views,           \* view models: [columns, hidden, group, rows, parent, selected, lastSource,
                     \*   active (a column, 0 for none), axis ("cells", "column"),
                     \*   range (the columns the column selection runs between, {} for none)]
    NoRow,
    MaxPresses, MaxStrokes, MaxUpdates   \* bounds: pointerdown, key and draft events, updates

\* normalizeEditorColumns refuses two columns of one id; the active column
\* is one of them, for sanitizeSelection drops a selection of no column.
ASSUME GestureAssumption ==
    /\ NoPointer \notin Pointers
    /\ \A v \in Views : /\ v.columns \in Seq(ToSet(v.columns)) /\ IsInjective(v.columns)
                         /\ v.active \in ToSet(v.columns) \cup {0}

VARIABLES
    viewModel, \* #viewModel
    shownLayout, \* the view model #layout was built from
    gestures,  \* the five sessions, their frames and the pending key stroke
    draft,     \* the in-cell editor: [open, pending, composing, asked]
    buttons,   \* the pointers that are down
    attached,     \* ~#destroyed
    gestureSteps

gestureVars == <<viewModel, shownLayout, gestures, draft, buttons, attached, gestureSteps>>

GestureKinds == {"resize", "reorder", "tree", "fill", "select"}

NoGesture ==
    [owner   |-> [k \in GestureKinds |-> NoPointer],
     reorder |-> [column |-> 0, order |-> <<>>],            \* #columnReorder
     tree    |-> [rows |-> {}, moved |-> FALSE, target |-> NoRow],   \* #treeMove
     fill    |-> [last |-> 0, changed |-> FALSE],           \* #fillHandleDrag
     dragged |-> FALSE,      \* #selectionDrag.moved
     frames  |-> {},         \* the auto-scroll frames requested
     opened  |-> 0,          \* beginColumnResize calls less endColumnResize calls
     stroke  |-> "none",     \* scope of the first stroke of a pending key sequence
     lawful  |-> TRUE]       \* every request fitted the view model it was made on

NoDraft == [open |-> FALSE, pending |-> FALSE, composing |-> FALSE, asked |-> 0]

GestureInit ==
    /\ viewModel \in Views
    /\ shownLayout = viewModel
    /\ gestures = NoGesture
    /\ draft = NoDraft
    /\ buttons = {}
    /\ attached = TRUE
    /\ gestureSteps = [presses |-> 0, strokes |-> 0, updates |-> 0]

-----------------------------------------------------------------------------
(* Ending a gesture.  AnyPointer ends it whoever owns it.                  *)

ends(g, kind, p) == g.owner[kind] # NoPointer /\ p \in {AnyPointer, g.owner[kind]}

released(g, kind) == [g EXCEPT !.owner[kind] = NoPointer,
                               !.frames = @ \ {kind},
                               !.stroke = "none"]

endSelectionDrag(g, p) ==
    IF ends(g, "select", p) THEN [released(g, "select") EXCEPT !.dragged = FALSE] ELSE g

endColumnResize(g, p) ==
    IF ends(g, "resize", p) THEN [released(g, "resize") EXCEPT !.opened = @ - 1] ELSE g

positionIn(s, e) == IF e \in ToSet(s) THEN CHOOSE i \in DOMAIN s : s[i] = e ELSE 0

\* visibleColumnDefinitions of the first n columns, for each n.
shownAmong(columns, v) ==
    LET shown[n \in 0..Len(columns)] ==
          IF n = 0 THEN <<>>
          ELSE IF columns[n] \in v.hidden THEN shown[n - 1] ELSE Append(shown[n - 1], columns[n])
    IN shown

shownColumns(columns, v) == shownAmong(columns, v)[Len(columns)]

\* An order the editor takes, in which only this column has moved among
\* those on the screen, to the side of one of its frozen group.
isLawfulOrder(order, column, v) ==
    LET before == shownColumns(v.columns, v)
        after == shownColumns(order, v)
        place == positionIn(after, column)
    IN /\ Len(order) = Len(v.columns)
       /\ ToSet(order) = ToSet(v.columns)
       /\ order[1] = v.columns[1]
       /\ column \in ToSet(before) \cap ToSet(after)
       /\ RemoveAt(after, place) = RemoveAt(before, positionIn(before, column))
       /\ \E i \in {place - 1, place + 1} \cap DOMAIN after : v.group[after[i]] = v.group[column]

endColumnReorder(g, p, commit) ==
    IF ~ends(g, "reorder", p) THEN g
    ELSE [released(g, "reorder") EXCEPT
            !.reorder = NoGesture.reorder,
            !.lawful = @ /\ (commit /\ g.reorder.order # <<>> =>
                                isLawfulOrder(g.reorder.order, g.reorder.column, viewModel))]

ancestorsOf(row, v) ==
    LET above[r \in DOMAIN v.parent] ==
          IF v.parent[r] \notin DOMAIN v.parent THEN {}
          ELSE {v.parent[r]} \cup above[v.parent[r]]
    IN above[row]

isTreeMoveTargetAllowed(rows, target, v) ==
    /\ target \in DOMAIN v.parent
    /\ target \notin rows
    /\ ancestorsOf(target, v) \cap rows = {}

endTreeMove(g, p, commit) ==
    IF ~ends(g, "tree", p) THEN g
    ELSE [released(g, "tree") EXCEPT
            !.tree = NoGesture.tree,
            !.lawful = @ /\ (commit /\ g.tree.moved /\ g.tree.target # NoRow =>
                                isTreeMoveTargetAllowed(g.tree.rows, g.tree.target, viewModel))]

\* select and then fillDown or fillSeries are invoked when it ends changed.
endFillHandleDrag(g, p) ==
    IF ends(g, "fill", p) THEN [released(g, "fill") EXCEPT !.fill = NoGesture.fill] ELSE g

cancelled(g, p) ==
    endSelectionDrag(
        endFillHandleDrag(
            endTreeMove(
                endColumnReorder(endColumnResize(g, p), p, FALSE), p, FALSE), p), p)

-----------------------------------------------------------------------------
(* Beginning one.                                                          *)

idle == ~draft.open

owned(g, kind, p) == [g EXCEPT !.owner[kind] = p]

beginColumnResize(g, p) ==
    LET cleared == [endColumnResize(endFillHandleDrag(endSelectionDrag(g, AnyPointer), AnyPointer),
                                    AnyPointer) EXCEPT !.stroke = "none"]
    IN [owned(cleared, "resize", p) EXCEPT !.opened = @ + 1]

beginColumnReorder(g, p, column, columnIdle) ==
    LET cleared == endColumnReorder(g, AnyPointer, FALSE)
        visible == shownColumns(viewModel.columns, viewModel)
    IN IF columnIdle /\ column \in ToSet(Tail(visible))
       THEN [owned(endFillHandleDrag(endSelectionDrag(cleared, AnyPointer), AnyPointer), "reorder", p)
               EXCEPT !.reorder = [column |-> column, order |-> <<>>]]
       ELSE cleared

treeMoveOccurrenceIds(row) == IF row \in viewModel.selected THEN viewModel.selected ELSE {row}

beginTreeMove(g, p, row, rowIdle) ==
    LET cleared == endTreeMove(g, AnyPointer, FALSE)
        alone == endColumnReorder(endColumnResize(endFillHandleDrag(
                     endSelectionDrag(cleared, AnyPointer), AnyPointer), AnyPointer), AnyPointer, FALSE)
    IN IF rowIdle /\ row \in DOMAIN viewModel.parent
       THEN [owned(alone, "tree", p) EXCEPT
               !.stroke = "none",
               !.tree = [NoGesture.tree EXCEPT !.rows = treeMoveOccurrenceIds(row)]]
       ELSE cleared

canUseFillHandle == idle /\ viewModel.lastSource > 0

beginFillHandleDrag(g, p) ==
    LET cleared == [endFillHandleDrag(endSelectionDrag(g, AnyPointer), AnyPointer)
                      EXCEPT !.stroke = "none"]
    IN [owned(cleared, "fill", p) EXCEPT !.fill = [last |-> viewModel.lastSource, changed |-> FALSE]]

beginSelectionDrag(g, p, additive) ==
    LET cleared == [endSelectionDrag(g, AnyPointer) EXCEPT !.stroke = "none"]
    IN IF additive THEN cleared ELSE owned(cleared, "select", p)

-----------------------------------------------------------------------------
(* Moving the pointer.  A hit is a column header and the half that was     *)
(* hit, a row, or nothing; all of them of the layout.                      *)

\* orderWithVisibleColumns: hidden columns keep their places.
orderWithVisibleColumns(v, shown) ==
    LET rank(i) == Len(shownAmong(v.columns, v)[i])
    IN [i \in DOMAIN v.columns |->
          IF v.columns[i] \in v.hidden THEN v.columns[i] ELSE shown[rank(i)]]

reorderedTo(v, column, target, before) ==
    LET visible == shownColumns(v.columns, v)
        source == positionIn(visible, column)
        aim == positionIn(visible, target)
    IN IF source <= 1 \/ aim <= 1 \/ source = aim THEN <<>>
       ELSE IF v.group[column] # v.group[target] THEN <<>>
       ELSE LET place == IF before THEN aim ELSE aim + 1
                order == orderWithVisibleColumns(v, InsertAt(RemoveAt(visible, source),
                            IF source < place THEN place - 1 ELSE place, column))
            IN IF order = v.columns THEN <<>> ELSE order

columnHits == {[column |-> c, before |-> b] :
                 c \in ToSet(shownColumns(shownLayout.columns, shownLayout)) \cup {0}, b \in BOOLEAN}
rowHits == 0..Len(shownLayout.rows)

extendColumnReorderAt(g, hit) ==
    [g EXCEPT !.reorder.order =
        IF hit.column = 0 THEN <<>> ELSE reorderedTo(viewModel, g.reorder.column, hit.column, hit.before)]

setTreeMovePreview(g, moved, target) == [g EXCEPT !.tree.moved = moved, !.tree.target = target]

extendTreeMoveAt(g, far, hit) ==
    LET moved == g.tree.moved \/ far
        row == IF hit = 0 THEN NoRow ELSE shownLayout.rows[hit]
    IN setTreeMovePreview(g, moved,
           IF moved /\ isTreeMoveTargetAllowed(g.tree.rows, row, viewModel) THEN row ELSE NoRow)

\* Below the last row the target stays; at or above the source it is reset.
extendFillHandleAt(g, hit) ==
    [g EXCEPT !.fill.changed = IF hit = 0 THEN @ ELSE hit > g.fill.last]

extendSelectionDragAt(g, far) == [g EXCEPT !.dragged = @ \/ far]

\* onPointerMove: the first session of the pointer takes the move.  The
\* result is the set of the outcomes, one for each place that may be hit.
firstOwned(g, p) ==
    CASE g.owner["resize"] = p -> "resize"
      [] g.owner["resize"] # p /\ g.owner["reorder"] = p -> "reorder"
      [] p \notin {g.owner["resize"], g.owner["reorder"]} /\ g.owner["tree"] = p -> "tree"
      [] p \notin {g.owner["resize"], g.owner["reorder"], g.owner["tree"]} /\ g.owner["fill"] = p -> "fill"
      [] OTHER -> "select"

extensions(g, kind) ==
    CASE kind = "resize"  -> {g}
      [] kind = "reorder" -> {extendColumnReorderAt(g, hit) : hit \in columnHits}
      [] kind = "tree"    -> {extendTreeMoveAt(g, far, hit) : far \in BOOLEAN, hit \in rowHits}
      [] kind = "fill"    -> {extendFillHandleAt(g, hit) : hit \in rowHits}
      [] kind = "select"  -> {extendSelectionDragAt(g, far) : far \in BOOLEAN}

scheduled(g, kind) ==
    IF kind = "fill" \/ (kind = "tree" /\ g.tree.moved) \/ (kind = "select" /\ g.dragged)
    THEN [g EXCEPT !.frames = @ \cup {kind}] ELSE g

committed(g, kind, p) ==
    CASE kind = "resize"  -> endColumnResize(g, p)
      [] kind = "reorder" -> endColumnReorder(g, p, TRUE)
      [] kind = "tree"    -> endTreeMove(g, p, TRUE)
      [] kind = "fill"    -> endFillHandleDrag(g, p)
      [] kind = "select"  -> endSelectionDrag(g, p)

(* Mutant: the gesture ends where the pointer was last seen moving.        *)
endsUnmoved(g, p) == {committed(g, firstOwned(g, p), p)}

\* onPointerUp makes the last move itself, then commits.
lifted(g, p) ==
    {committed(h, firstOwned(g, p), p) : h \in extensions(g, firstOwned(g, p))}

-----------------------------------------------------------------------------
(* The in-cell editor.                                                     *)

canAsk(d) == d.open /\ ~d.pending /\ ~d.composing
asking(d) == [d EXCEPT !.pending = TRUE, !.asked = @ + 1]

\* requestCommit or cancel; the callback is pending until the next update.
onPortalBlur(d) == IF canAsk(d) THEN asking(d) ELSE d

Stroke(kind) == gestureSteps' = [gestureSteps EXCEPT ![kind] = @ + 1]

PortalKey ==
    /\ attached /\ canAsk(draft) /\ gestureSteps.strokes < MaxStrokes
    /\ \/ draft' = asking(draft) /\ gestures' = [gestures EXCEPT !.stroke = "none"]
       \/ gestures.stroke # "editing"
          /\ gestures' = [gestures EXCEPT !.stroke = "editing"] /\ UNCHANGED draft
    /\ Stroke("strokes")
    /\ UNCHANGED <<viewModel, shownLayout, buttons, attached>>

PortalBlur ==
    /\ attached /\ draft.open /\ gestureSteps.strokes < MaxStrokes
    /\ draft' = onPortalBlur(draft)
    /\ Stroke("strokes")
    /\ UNCHANGED <<viewModel, shownLayout, gestures, buttons, attached>>

PortalComposition ==
    /\ attached /\ draft.open /\ gestureSteps.strokes < MaxStrokes
    /\ draft' = [draft EXCEPT !.composing = ~@]
    /\ Stroke("strokes")
    /\ UNCHANGED <<viewModel, shownLayout, gestures, buttons, attached>>

\* onGridKeyDown: the scope is that of the gesture; the sequence is matched,
\* goes on, or is dropped, and a command of the focused grid is not run in a drag.
dragging(g) == g.owner["select"] # NoPointer \/ g.owner["fill"] # NoPointer

GridKey ==
    /\ attached /\ gestureSteps.strokes < MaxStrokes
    /\ LET scope == IF dragging(gestures) THEN "dragging" ELSE "focused"
       IN gestures' \in {[gestures EXCEPT !.stroke = s] : s \in {"none", scope}}
    /\ Stroke("strokes")
    /\ UNCHANGED <<viewModel, shownLayout, draft, buttons, attached>>

-----------------------------------------------------------------------------
(* The column commands of the keyboard, which the grid asks the editor for *)
(* on the view model it has.                                               *)

columnsShown == shownColumns(viewModel.columns, viewModel)
activeAt == positionIn(columnsShown, viewModel.active)

selectedColumnIds ==
    LET boundary == {positionIn(columnsShown, c) : c \in viewModel.range}
    IN CASE viewModel.active = 0 -> {}
         [] viewModel.active # 0 /\ viewModel.axis = "cells" ->
              {viewModel.active} \cap ToSet(columnsShown)
         [] viewModel.active # 0 /\ viewModel.axis = "column" /\ viewModel.range = {} ->
              {viewModel.active}
         [] OTHER -> {columnsShown[i] : i \in {j \in DOMAIN columnsShown :
                        0 \notin boundary /\ \E a, b \in boundary : a <= j /\ j <= b}}

canResizeActiveColumn == viewModel.axis = "cells" /\ activeAt > 0
canHideActiveColumn == viewModel.axis = "cells" /\ activeAt > 1
canShowAllColumns == ToSet(viewModel.columns) \cap viewModel.hidden # {}
canInsertColumns == activeAt > 0
canSetActiveColumnFrozen == activeAt > 1
canDeleteColumns ==
    /\ selectedColumnIds # {}
    /\ viewModel.columns[1] \notin selectedColumnIds
    /\ Len(columnsShown) > Cardinality(selectedColumnIds)

\* The neighbour to the left (at - 1) or to the right (at + 1) of the active column.
canReorderActiveColumn(target) ==
    /\ viewModel.axis = "cells" /\ activeAt > 1
    /\ target \in {activeAt - 1, activeAt + 1} \cap 2..Len(columnsShown)
    /\ viewModel.group[columnsShown[target]] = viewModel.group[viewModel.active]

\* The two exchange their places; what is hidden between them stays.
reorderActiveColumn(target) ==
    LET other == columnsShown[target]
    IN [i \in DOMAIN viewModel.columns |->
          CASE viewModel.columns[i] = viewModel.active -> other
            [] viewModel.columns[i] # viewModel.active /\ viewModel.columns[i] = other -> viewModel.active
            [] OTHER -> viewModel.columns[i]]

\* What the editor takes of these requests: it hides and deletes columns it
\* has, never the first one nor the last that is shown; it shows hidden ones.
takesAway(columns) ==
    /\ columns # {} /\ columns \subseteq ToSet(viewModel.columns)
    /\ viewModel.columns[1] \notin columns
    /\ ToSet(columnsShown) \ columns # {}
takesVisible(columns) ==
    columns # {} /\ columns \subseteq ToSet(viewModel.columns) /\ columns \cap viewModel.hidden # {}
takesReference(column) == column \in ToSet(viewModel.columns)
takesFrozen(column) == takesReference(column) /\ column # viewModel.columns[1]

Asks(taken) == gestures' = [gestures EXCEPT !.stroke = "none", !.lawful = @ /\ taken]

\* The key of a command that cannot run does nothing but drop the pending
\* stroke.  An insertion goes before the active column; when that is the
\* first one, the editor refuses it.
ColumnCommand ==
    /\ attached /\ idle /\ ~dragging(gestures) /\ gestureSteps.strokes < MaxStrokes
    /\ \/ canResizeActiveColumn /\ Asks(takesReference(viewModel.active))
       \/ \E target \in DOMAIN columnsShown :
            /\ canReorderActiveColumn(target)
            /\ Asks(isLawfulOrder(reorderActiveColumn(target), viewModel.active, viewModel))
       \/ canHideActiveColumn /\ Asks(takesAway({viewModel.active}))
       \/ canShowAllColumns /\ Asks(takesVisible(ToSet(viewModel.columns) \cap viewModel.hidden))
       \/ canInsertColumns /\ Asks(takesReference(viewModel.active))
       \/ canDeleteColumns /\ Asks(takesAway(selectedColumnIds))
       \/ canSetActiveColumnFrozen /\ Asks(takesFrozen(viewModel.active))
    /\ Stroke("strokes")
    /\ UNCHANGED <<viewModel, shownLayout, draft, buttons, attached>>

-----------------------------------------------------------------------------
(* Events.                                                                 *)

\* Taking the focus from the in-cell editor blurs it first.
OnPointerDown ==
    /\ attached /\ gestureSteps.presses < MaxPresses
    /\ \E p \in Pointers \ buttons, d \in {draft, onPortalBlur(draft)} :
         /\ draft' = d
         /\ buttons' = buttons \cup {p}
         /\ \/ /\ idle
               /\ gestures' = beginColumnResize(gestures, p)
            \/ \E c \in ToSet(shownColumns(shownLayout.columns, shownLayout)) :
                 gestures' = beginColumnReorder(gestures, p, c, idle)
            \/ \E i \in DOMAIN shownLayout.rows :
                 gestures' = beginTreeMove(gestures, p, shownLayout.rows[i], idle)
            \/ /\ canUseFillHandle
               /\ gestures' = beginFillHandleDrag(gestures, p)
            \/ \E additive \in BOOLEAN : gestures' = beginSelectionDrag(gestures, p, additive)
            \/ UNCHANGED gestures      \* an expander, a cell renderer's own target, or nothing
    /\ Stroke("presses")
    /\ UNCHANGED <<viewModel, shownLayout, attached>>

owners(g) == {g.owner[k] : k \in GestureKinds} \ {NoPointer}

OnPointerMove ==
    /\ attached
    /\ \E p \in owners(gestures) :
         LET kind == firstOwned(gestures, p)
         IN gestures' \in {scheduled(g, kind) : g \in extensions(gestures, kind)}
    /\ UNCHANGED <<viewModel, shownLayout, draft, buttons, attached, gestureSteps>>

OnPointerUp ==
    /\ attached
    /\ \E p \in buttons :
         /\ buttons' = buttons \ {p}
         /\ gestures' \in (IF p \in owners(gestures) THEN lifted(gestures, p) ELSE {gestures})
    /\ UNCHANGED <<viewModel, shownLayout, draft, attached, gestureSteps>>

\* A lost capture ends the gesture while the button may still be down.
OnPointerCancel ==
    /\ attached
    /\ \E p \in buttons : /\ buttons' \in {buttons, buttons \ {p}}
                          /\ gestures' = cancelled(gestures, p)
    /\ UNCHANGED <<viewModel, shownLayout, draft, attached, gestureSteps>>

\* The frame scrolls, extends the gesture to the row now under the pointer
\* and asks for the next frame, or stops at the edge.
FrameRuns(kind) ==
    /\ attached /\ kind \in gestures.frames
    /\ LET g == [gestures EXCEPT !.frames = @ \ {kind}]
       IN gestures' \in {g} \cup {scheduled(h, kind) : h \in extensions(g, kind)}
    /\ UNCHANGED <<viewModel, shownLayout, draft, buttons, attached, gestureSteps>>

AutoScrollTreeMove == FrameRuns("tree")
AutoScrollFillHandle == FrameRuns("fill")
AutoScrollSelection == FrameRuns("select")

\* A closed draft frees the portal.
syncPortal(d) == IF d.open THEN d ELSE NoDraft

\* performRender: the layout catches up, and so does the portal.
RenderFrame ==
    /\ attached /\ (shownLayout # viewModel \/ (~draft.open /\ draft.pending))
    /\ shownLayout' = viewModel
    /\ draft' = syncPortal(draft)
    /\ UNCHANGED <<viewModel, gestures, buttons, attached, gestureSteps>>

\* update: another view model, and with it the state of the edit.
Update ==
    /\ attached /\ gestureSteps.updates < MaxUpdates
    /\ viewModel' \in Views
    /\ \E open, composing \in BOOLEAN :
         /\ composing => open
         /\ draft' = [open |-> open, pending |-> FALSE, composing |-> composing, asked |-> 0]
    /\ Stroke("updates")
    /\ UNCHANGED <<shownLayout, gestures, buttons, attached>>

\* destroy drops the sessions; an open resize is not ended with the editor.
DestroyRenderer ==
    /\ attached
    /\ attached' = FALSE
    /\ gestures' = [NoGesture EXCEPT !.lawful = gestures.lawful]
    /\ draft' = NoDraft
    /\ UNCHANGED <<viewModel, shownLayout, buttons, gestureSteps>>

GestureNext ==
    \/ OnPointerDown \/ OnPointerMove \/ OnPointerUp \/ OnPointerCancel
    \/ AutoScrollTreeMove \/ AutoScrollFillHandle \/ AutoScrollSelection
    \/ PortalKey \/ PortalBlur \/ PortalComposition \/ GridKey \/ ColumnCommand
    \/ RenderFrame \/ Update \/ DestroyRenderer

-----------------------------------------------------------------------------
(* What the editor is asked by the grid is sound whatever the pointers do: *)
(* every beginColumnResize is answered by one endColumnResize; a gesture   *)
(* never outlives its pointer and a pointer has one gesture at a time; no  *)
(* frame scrolls for a gesture that has ended; a column order or a drop    *)
(* target that is committed fits the view model of that moment, although   *)
(* the hit came from an older layout, and so do the columns a command of   *)
(* the keyboard names; a key sequence begun in a drag is not completed     *)
(* outside it, nor the other way round; and one state of a draft is        *)
(* committed or cancelled at most once.                                    *)
GesturesAreSound ==
    /\ gestures.opened = (IF gestures.owner["resize"] # NoPointer THEN 1 ELSE 0)
    /\ \A k \in GestureKinds : gestures.owner[k] \in buttons \cup {NoPointer}
    /\ \A k, l \in GestureKinds : gestures.owner[k] = gestures.owner[l] => k = l \/ gestures.owner[k] = NoPointer
    /\ \A k \in gestures.frames : gestures.owner[k] # NoPointer
    /\ gestures.lawful
    /\ gestures.stroke = "dragging" => dragging(gestures)
    /\ gestures.stroke = "focused" => ~dragging(gestures)
    /\ draft.asked <= 1

=============================================================================
