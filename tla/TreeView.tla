------------------------------ MODULE TreeView ------------------------------
(***************************************************************************)
(* The tree as the editor shows it: expansion, the view query, the         *)
(* selection, and the structural commands that start from the selection.   *)
(* View operations change the published state at once; a command waits in  *)
(* the mutation queue, prepares a projection before the engine applies it, *)
(* and publishes that projection when it finishes.  VisibleProjection      *)
(* models how the rows of a projection are kept; here they are the walk    *)
(* through its expanded rows.                                              *)
(***************************************************************************)
EXTENDS Naturals, FiniteSets, SequencesExt

CONSTANTS
    TreeRows, TreeRoot,
    NewRow,            \* the occurrence an insertion makes
    FirstTree,         \* parent -> children, the document at the start
    OtherTree,         \* the document that replaces it
    Columns,           \* the visible columns in order
    Matches,           \* what a query can match, as sets of rows
    MaxTreeSteps,      \* bound: calls of the user
    MaxCommands        \* bound: commands waiting in the queue

ASSUME TreeAssumption ==
    /\ {MaxTreeSteps, MaxCommands} \subseteq Nat
    /\ IsFiniteSet(TreeRows)
    /\ Columns \in Seq(ToSet(Columns)) /\ Columns # <<>>
    /\ NewRow \in TreeRows
    /\ {FirstTree, OtherTree} \subseteq [TreeRows \cup {TreeRoot} -> Seq(TreeRows)]

VARIABLES
    published,  \* #published: the tree, expanded rows and query of its projection
    viewQuery,  \* #viewQuery: the rows it matches
    selection,  \* #selection: [active, range, ranges, mode]
    commands,   \* the mutation queue
    prepared,   \* #prepared: the state to publish, or the empty sequence
    steps

treeVars == <<published, viewQuery, selection, commands, prepared, steps>>

-----------------------------------------------------------------------------
(* Trees and projections.                                                  *)

Nowhere == <<>>

inTree(kids)      == UNION {ToSet(kids[p]) : p \in DOMAIN kids}
parentIn(kids, r) == CHOOSE p \in DOMAIN kids : Contains(kids[p], r)

Holders == TreeRows \cup {TreeRoot}

\* No tree is deeper than it has rows.
Depths == 0..Cardinality(TreeRows)

ancestors(kids, r) ==
    LET path[n \in Depths] ==
            [s \in Holders |->
                IF n = 0 \/ parentIn(kids, s) \notin TreeRows THEN <<>>
                ELSE Append(path[n - 1][parentIn(kids, s)], parentIn(kids, s))]
    IN path[Cardinality(TreeRows)][r]

below(kids, r) == {s \in inTree(kids) : Contains(ancestors(kids, s), r)}

included(p) ==
    {r \in inTree(p.kids) : r \in p.matches \/ below(p.kids, r) \cap p.matches # {}}

\* A kept row, and below it the rows it shows when it is open.
unfolded(p, keep, r, rowsBelow) ==
    IF r \notin keep THEN <<>>
    ELSE <<r>> \o (IF r \in p.open THEN rowsBelow[r] ELSE <<>>)

walk(p, keep) ==
    LET rows[n \in Depths] ==
            [r \in Holders |->
                IF n = 0 THEN <<>>
                ELSE FlattenSeq([i \in DOMAIN p.kids[r] |->
                        unfolded(p, keep, p.kids[r][i], rows[n - 1])])]
    IN rows[Cardinality(TreeRows)][TreeRoot]

\* The rows of a projection, in order.
visible(p) == walk(p, included(p))

projection(kids, open, matches) ==
    LET p == [kids |-> kids, open |-> open, matches |-> matches]
    IN [p EXCEPT !.open = open \cap included(p)]

-----------------------------------------------------------------------------
(* Selections.                                                             *)

cell(r, c)      == [row |-> r, col |-> c]
span(a, f)      == [anchor |-> a, focus |-> f]
freezeSelection(active, range, ranges, mode) ==
    [active |-> active, range |-> range,
     ranges |-> IF Len(ranges) < 2 THEN <<>> ELSE ranges, mode |-> mode]
single(a) == freezeSelection(a, Nowhere, <<>>, "cell")

firstSelection(p) ==
    IF visible(p) = <<>> THEN single(Nowhere) ELSE single(cell(visible(p)[1], Columns[1]))

freezeRanges(active, ranges) ==
    freezeSelection(active,
        IF Last(ranges).anchor = Last(ranges).focus THEN Nowhere ELSE Last(ranges), ranges, "cell")

isValidAddress(p, a) ==
    /\ a # Nowhere
    /\ Contains(visible(p), a.row)
    /\ Contains(Columns, a.col)

isValidRange(p, range) == isValidAddress(p, range.anchor) /\ isValidAddress(p, range.focus)

\* The elements of a sequence that lie in a set, and its first place of some.
those(s, S) == FlattenSeq([i \in DOMAIN s |-> IF s[i] \in S THEN <<s[i]>> ELSE <<>>])
firstOr(places, i) == IF places = {} THEN i ELSE CHOOSE m \in places : \A n \in places : m <= n

sanitizeSelection(sel, p, fallback) ==
    LET ranges == those(sel.ranges, {range \in ToSet(sel.ranges) : isValidRange(p, range)})
        at == firstOr({i \in DOMAIN ranges : ranges[i].focus = sel.active}, Len(ranges))
    IN CASE ranges # <<>> ->
              freezeRanges(ranges[at].focus, Append(RemoveAt(ranges, at), ranges[at]))
         [] /\ ranges = <<>> /\ sel.ranges = <<>> /\ isValidAddress(p, sel.active) ->
              IF sel.range # Nowhere /\ isValidRange(p, sel.range) /\ sel.range.focus = sel.active
              THEN sel ELSE single(sel.active)
         [] OTHER -> IF isValidAddress(p, fallback) THEN single(fallback) ELSE firstSelection(p)

selectionRanges(sel) ==
    CASE sel.ranges # <<>> -> sel.ranges
      [] sel.ranges = <<>> /\ sel.range # Nowhere -> <<sel.range>>
      [] OTHER -> IF sel.active = Nowhere THEN <<>> ELSE <<span(sel.active, sel.active)>>

anchorOf(sel) == IF sel.range # Nowhere THEN sel.range.anchor ELSE sel.active

\* Extending a selection of several ranges moves the active one.
extendRanges(sel, a) ==
    LET at == firstOr({i \in DOMAIN sel.ranges : sel.ranges[i] = sel.range}, Len(sel.ranges))
    IN freezeRanges(a, [sel.ranges EXCEPT ![at] = span(anchorOf(sel), a)])

\* Adding a range that is there already takes it out.
addRange(sel, a, extend) ==
    LET ranges == selectionRanges(sel)
        candidate == span(IF extend /\ sel.active # Nowhere THEN sel.active ELSE a, a)
        others == RemoveAt(ranges, firstOr({i \in DOMAIN ranges : ranges[i] = candidate}, 0))
    IN CASE ~Contains(ranges, candidate) -> freezeRanges(a, Append(ranges, candidate))
         [] Contains(ranges, candidate) /\ others = <<>> -> single(a)
         [] OTHER -> freezeRanges(Last(others).focus, others)

selectionForAddress(sel, a, extend, additive) ==
    CASE extend /\ ~additive /\ sel.ranges # <<>> /\ sel.active # Nowhere -> extendRanges(sel, a)
      [] additive /\ sel.mode = "cell" -> addRange(sel, a, extend)
      [] OTHER ->
           IF extend /\ sel.active # Nowhere /\ anchorOf(sel) # a
           THEN freezeSelection(a, span(anchorOf(sel), a), <<>>, "cell") ELSE single(a)

selectionForAxis(sel, a, extend, mode, p) ==
    LET from == IF extend /\ sel.mode = mode /\ sel.range # Nowhere THEN sel.range.anchor ELSE a
        anchor == IF mode = "row" THEN cell(from.row, Columns[1]) ELSE cell(visible(p)[1], from.col)
        focus  == IF mode = "row" THEN cell(a.row, Last(Columns)) ELSE cell(Last(visible(p)), a.col)
    IN freezeSelection(focus, span(anchor, focus), <<>>, mode)

-----------------------------------------------------------------------------
(* View operations.                                                        *)

TreeInit ==
    /\ published = projection(FirstTree, {}, TreeRows)
    /\ viewQuery = TreeRows
    /\ selection = firstSelection(projection(FirstTree, {}, TreeRows))
    /\ commands = <<>>
    /\ prepared = <<>>
    /\ steps = 0

UserStep == steps < MaxTreeSteps /\ steps' = steps + 1

Select(a, extend, additive, mode) ==
    /\ UserStep
    /\ isValidAddress(published, a)
    /\ selection' = IF mode = "cell" THEN selectionForAddress(selection, a, extend, additive)
                    ELSE selectionForAxis(selection, a, extend, mode, published)
    /\ UNCHANGED <<published, viewQuery, commands, prepared>>

SelectAll ==
    /\ UserStep
    /\ visible(published) # <<>>
    /\ \E focus \in {cell(Last(visible(published)), Last(Columns))} :
        selection' = freezeSelection(focus,
                        span(cell(visible(published)[1], Columns[1]), focus), <<>>, "cell")
    /\ UNCHANGED <<published, viewQuery, commands, prepared>>

\* setExpanded fails for a row outside the projection and nothing follows.
toggleExpansion(s, r, expanded) ==
    IF r \notin included(s.published) THEN s
    ELSE LET now == [s.published EXCEPT !.open = IF expanded THEN @ \cup {r} ELSE @ \ {r}]
         IN [published |-> now,
             selection |-> sanitizeSelection(s.selection, now, cell(r, Columns[1]))]

current == [published |-> published, selection |-> selection]

Becomes(s) == published' = s.published /\ selection' = s.selection

ToggleExpansion(r, expanded) ==
    /\ UserStep
    /\ Contains(visible(published), r)
    /\ Becomes(toggleExpansion(current, r, expanded))
    /\ UNCHANGED <<viewQuery, commands, prepared>>

expandedAlong(s, path) ==
    LET state[n \in 0..Len(path)] ==
            IF n = 0 THEN s ELSE toggleExpansion(state[n - 1], path[n], TRUE)
    IN state[Len(path)]

\* Every ancestor is expanded from the root down before the cell is selected.
FocusCell(a) ==
    /\ UserStep
    /\ a.row \in inTree(published.kids)
    /\ \E s \in {expandedAlong(current, ancestors(published.kids, a.row))} :
        /\ published' = s.published
        /\ selection' = IF isValidAddress(s.published, a) THEN single(a) ELSE s.selection
    /\ UNCHANGED <<viewQuery, commands, prepared>>

Republish(p) ==
    /\ published' = p
    /\ selection' = sanitizeSelection(selection, p, Nowhere)

SetExpansionAll(expanded) ==
    /\ UserStep
    /\ \E open \in {{r \in inTree(published.kids) : expanded /\ published.kids[r] # <<>>}} :
        /\ published.open # open
        /\ Republish(projection(published.kids, open, viewQuery))
    /\ UNCHANGED <<viewQuery, commands, prepared>>

SetViewQuery(matches) ==
    /\ UserStep
    /\ viewQuery # matches
    /\ viewQuery' = matches
    /\ Republish(projection(published.kids, published.open, matches))
    /\ UNCHANGED <<commands, prepared>>

-----------------------------------------------------------------------------
(* Structural commands.                                                    *)

Enqueue(c) ==
    /\ Len(commands) < MaxCommands
    /\ commands' = Append(commands, c)

isFocusedForStructureEdit ==
    /\ selection.mode = "cell" /\ selection.ranges = <<>> /\ selection.active # Nowhere
    /\ selection.range = Nowhere

\* An insertion or a move below a row expands that row first.
Opening(r) == Becomes(IF r = TreeRoot \/ r \in published.open THEN current
                      ELSE toggleExpansion(current, r, TRUE))

\* A command without an anchor places its rows last.
insertCommand(parent, after) ==
    [op |-> "insert", rows |-> <<NewRow>>, parent |-> parent, at |-> after, before |-> FALSE,
     select |-> TRUE]
moveCommand(rows, parent, at, before, select) ==
    [op |-> "move", rows |-> rows, parent |-> parent, at |-> at, before |-> before,
     select |-> select]
deleteCommand(rows) ==
    [op |-> "delete", rows |-> rows, parent |-> TreeRoot, at |-> TreeRoot, before |-> FALSE,
     select |-> FALSE]

InsertSelectedSubtree(asChild) ==
    /\ UserStep
    /\ isFocusedForStructureEdit
    /\ NewRow \notin inTree(published.kids)
    /\ \E row \in {selection.active.row} :
        IF asChild
        THEN Opening(row) /\ Enqueue(insertCommand(row, TreeRoot))
        ELSE /\ Enqueue(insertCommand(parentIn(published.kids, row), row))
             /\ UNCHANGED <<published, selection>>
    /\ UNCHANGED <<viewQuery, prepared>>

MoveSelectedSubtree(direction) ==
    /\ UserStep
    /\ isFocusedForStructureEdit
    /\ \E row \in {selection.active.row}, siblings \in
            {published.kids[parentIn(published.kids, selection.active.row)]},
          parent \in {parentIn(published.kids, selection.active.row)} :
        \E place \in {CHOOSE i \in DOMAIN siblings : siblings[i] = row} :
        \/ /\ direction = "up" /\ place > 1
           /\ Enqueue(moveCommand(<<row>>, parent, siblings[place - 1], TRUE, FALSE))
           /\ UNCHANGED <<published, selection>>
        \/ /\ direction = "down" /\ place < Len(siblings)
           /\ Enqueue(moveCommand(<<row>>, parent, siblings[place + 1], FALSE, FALSE))
           /\ UNCHANGED <<published, selection>>
        \/ /\ direction = "indent" /\ place > 1
           /\ Opening(siblings[place - 1])
           /\ Enqueue(moveCommand(<<row>>, siblings[place - 1], TreeRoot, FALSE, FALSE))
        \/ /\ direction = "outdent" /\ parent # TreeRoot
           /\ Enqueue(moveCommand(<<row>>, parentIn(published.kids, parent), parent, FALSE, FALSE))
           /\ UNCHANGED <<published, selection>>
    /\ UNCHANGED <<viewQuery, prepared>>

treeMoveIsNoOp(source, target, position) ==
    \E p \in DOMAIN published.kids : \E i \in 1..Len(published.kids[p]) - 1 :
        SubSeq(published.kids[p], i, i + 1) =
            IF position = "before" THEN <<source, target>> ELSE <<target, source>>

\* A drag takes several rows at once when none of them lies below another.
MoveDraggedSubtree(rows, target, position) ==
    /\ UserStep
    /\ IsInjective(rows)
    /\ ToSet(rows) \cup {target} \subseteq ToSet(visible(published))
    /\ target \notin ToSet(rows)
    /\ \A r \in ToSet(rows) : below(published.kids, r) \cap (ToSet(rows) \cup {target}) = {}
    /\ ~(Len(rows) = 1 /\ position # "inside" /\ treeMoveIsNoOp(rows[1], target, position))
    /\ IF position = "inside"
       THEN Opening(target) /\ Enqueue(moveCommand(rows, target, TreeRoot, FALSE, TRUE))
       ELSE /\ Enqueue(moveCommand(rows, parentIn(published.kids, target), target,
                                   position = "before", TRUE))
            /\ UNCHANGED <<published, selection>>
    /\ UNCHANGED <<viewQuery, prepared>>

selectedVisibleStructureIds ==
    LET at(r) == CHOOSE i \in DOMAIN visible(published) : visible(published)[i] = r
        inside(r) == \/ at(selection.range.anchor.row) <= at(r) /\ at(r) <= at(selection.range.focus.row)
                     \/ at(selection.range.focus.row) <= at(r) /\ at(r) <= at(selection.range.anchor.row)
    IN IF selection.mode # "row" THEN <<selection.active.row>>
       ELSE SelectSeq(visible(published), inside)

DeleteSelectedSubtree ==
    /\ UserStep
    /\ selection.active # Nowhere
    /\ \E ids \in {selectedVisibleStructureIds} :
        Enqueue(deleteCommand(SelectSeq(ids,
            LAMBDA r : ToSet(ancestors(published.kids, r)) \cap ToSet(ids) = {})))
    /\ UNCHANGED <<published, viewQuery, selection, prepared>>

ReplaceDocument(preserveView, preserveSelection) ==
    /\ UserStep
    /\ Enqueue([op |-> "replace", view |-> preserveView, selection |-> preserveSelection])
    /\ UNCHANGED <<published, viewQuery, selection, prepared>>

\* The tree after a command, or the empty sequence when the engine refuses.
\* The rows of a move end side by side, so they are placed in one step.
detach(kids, rows) == [p \in DOMAIN kids |-> those(kids[p], TreeRows \ rows)]

attach(kids, c) ==
    [kids EXCEPT ![c.parent] =
        IF c.at = TreeRoot THEN @ \o c.rows
        ELSE FlattenSeq([i \in DOMAIN @ |->
                CASE @[i] # c.at -> <<@[i]>>
                  [] @[i] = c.at /\ c.before -> Append(c.rows, @[i])
                  [] OTHER -> <<@[i]>> \o c.rows])]

placeable(kids, c) ==
    /\ c.parent \in inTree(kids) \cup {TreeRoot}
    /\ c.at = TreeRoot \/ Contains(kids[c.parent], c.at)

dropSubtrees(kids, rows) ==
    LET dropped == rows \cup UNION {below(kids, r) : r \in rows}
    IN [p \in DOMAIN kids |-> IF p \in dropped THEN <<>> ELSE those(kids[p], TreeRows \ dropped)]

\* A row that was dropped with another one is no longer there to be dropped.
applied(kids, c) ==
    LET rows == ToSet(c.rows)
        fits(r) == c.parent # r /\ c.parent \notin below(kids, r)
    IN CASE c.op = "insert" /\ placeable(kids, c) /\ NewRow \notin inTree(kids) -> attach(kids, c)
         [] c.op = "move" /\ placeable(kids, c) /\ rows \subseteq inTree(kids)
                 /\ \A r \in rows : fits(r) ->
              attach(detach(kids, rows), c)
         [] c.op = "delete" /\ rows \subseteq inTree(kids)
                 /\ \A r \in rows : below(kids, r) \cap rows = {} ->
              dropSubtrees(kids, rows)
         [] OTHER -> <<>>

\* beforeApply: the projection of the new tree, made from what is shown now.
Prepare ==
    /\ prepared = <<>>
    /\ commands # <<>>
    /\ Head(commands).op # "replace"
    /\ \E kids \in {applied(published.kids, Head(commands))} :
        IF kids = <<>>
        THEN commands' = Tail(commands) /\ UNCHANGED prepared
        ELSE /\ prepared' = projection(kids, published.open, viewQuery)
             /\ UNCHANGED commands
    /\ UNCHANGED <<published, viewQuery, selection, steps>>

\* A beforeTransaction listener prevents the commit.
Prevent ==
    /\ prepared # <<>>
    /\ prepared' = <<>>
    /\ commands' = Tail(commands)
    /\ UNCHANGED <<published, viewQuery, selection, steps>>

(* Mutant: the selection is checked against the projection it leaves.      *)
keepsSelection(p) ==
    /\ published' = p
    /\ selection' = sanitizeSelection(selection, published, Nowhere)

Publishes(p) ==
    /\ published' = p
    /\ selection' = sanitizeSelection(selection, p, Nowhere)

\* finishTransaction; an insertion or a drag then selects its row.
Finish ==
    /\ prepared # <<>>
    /\ \E row \in {cell(Head(commands).rows[1], Columns[1])} :
        IF Head(commands).select /\ isValidAddress(prepared, row)
        THEN published' = prepared /\ selection' = single(row)
        ELSE Publishes(prepared)
    /\ prepared' = <<>>
    /\ commands' = Tail(commands)
    /\ UNCHANGED <<viewQuery, steps>>

RunReplaceDocument ==
    /\ prepared = <<>>
    /\ commands # <<>>
    /\ Head(commands).op = "replace"
    /\ \E p \in {projection(OtherTree, IF Head(commands).view THEN published.open ELSE {}, viewQuery)} :
        /\ published' = p
        /\ selection' = IF Head(commands).selection
                        THEN sanitizeSelection(selection, p, Nowhere) ELSE firstSelection(p)
    /\ commands' = Tail(commands)
    /\ UNCHANGED <<viewQuery, prepared, steps>>

Cells == {cell(r, c) : r \in TreeRows, c \in ToSet(Columns)}

TreeNext ==
    \/ \E a \in Cells, extend, additive \in BOOLEAN, mode \in {"cell", "row", "column"} :
        Select(a, extend, additive, mode)
    \/ SelectAll
    \/ \E r \in TreeRows, expanded \in BOOLEAN : ToggleExpansion(r, expanded)
    \/ \E a \in Cells : FocusCell(a)
    \/ \E expanded \in BOOLEAN : SetExpansionAll(expanded)
    \/ \E matches \in Matches : SetViewQuery(matches)
    \/ \E asChild \in BOOLEAN : InsertSelectedSubtree(asChild)
    \/ \E direction \in {"up", "down", "indent", "outdent"} : MoveSelectedSubtree(direction)
    \/ \E r, s, target \in TreeRows, position \in {"before", "after", "inside"} :
        \/ MoveDraggedSubtree(<<r>>, target, position)
        \/ MoveDraggedSubtree(<<r, s>>, target, position)
    \/ DeleteSelectedSubtree
    \/ \E preserveView, preserveSelection \in BOOLEAN :
        ReplaceDocument(preserveView, preserveSelection)
    \/ Prepare \/ Prevent \/ Finish \/ RunReplaceDocument

-----------------------------------------------------------------------------
(* Properties.                                                             *)

(* The selection never names a row or a column that is not on the screen:  *)
(* not after a collapse, a query, a structural commit that was prepared    *)
(* before the last view operation, or a replaced document; it is empty     *)
(* only while no row is shown (sanitizeSelection, editor.ts:15661).        *)
SelectionIsShown ==
    /\ selection.active = Nowhere <=> visible(published) = <<>>
    /\ selection.active # Nowhere => isValidAddress(published, selection.active)
    /\ \A range \in ToSet(selectionRanges(selection)) :
        isValidAddress(published, range.anchor) /\ isValidAddress(published, range.focus)

=============================================================================
