---------------------------- MODULE CellCommands ----------------------------
(***************************************************************************)
(* Cell edits and the commands on a selection of cells: clear, fill down,  *)
(* fill series, fill the selection with an edit, and paste.  A command     *)
(* remembers the published state and the epoch of its target, waits in the *)
(* mutation queue, and is refused as stale if either moved.  Meanwhile the *)
(* user selects, edits and lays out columns, and the host replaces the     *)
(* document.                                                               *)
(***************************************************************************)
EXTENDS Integers, SequencesExt

CONSTANTS
    GridRows,        \* the visible rows are 1..GridRows
    FirstColumns,    \* the visible columns at the start, in order
    ReadOnly,        \* columns that are not editable
    FirstValues,     \* [row -> [column -> value]]
    NoValue,         \* an unset field
    Unparsable,      \* a draft that does not parse
    UserSelections,         \* the selections a user makes: [active, ranges, axis]
    Pasted,          \* the parsed clipboard, a sequence of rows
    MaxCellSteps,    \* bound: steps of the user and the host
    MaxWaiting       \* bound: tasks in the queue

ASSUME CellAssumption == {GridRows, MaxCellSteps, MaxWaiting} \subseteq Nat

VARIABLES
    values,      \* the fields of the published document
    layout,      \* the visible columns, in order
    version,     \* the identity of #published
    epoch,       \* #pasteTargetEpoch
    chosen,      \* #selection
    edit,        \* #editMachine: [status, cell, draft, id]
    waiting,     \* the mutation queue, the running task first
    reported,    \* the edit that was told an outcome, and the one it came from
    unsettled,   \* did an edit end while its transaction was under way?
    cellSteps

cellVars == <<values, layout, version, epoch, chosen, edit, waiting, reported, unsettled,
              cellSteps>>

-----------------------------------------------------------------------------
(* Cells are <<row, column>>; a range is [anchor, focus].                  *)

NoCell == <<>>
lesser(a, b)  == IF a < b THEN a ELSE b
greater(a, b) == IF a < b THEN b ELSE a
placeOf(cols, c) == CHOOSE i \in DOMAIN cols : cols[i] = c

\* #clipboardSelectionForRange: the rows and the columns between two corners.
block(range, cols) ==
    LET a == placeOf(cols, range.anchor[2])
        f == placeOf(cols, range.focus[2])
    IN [rows |-> lesser(range.anchor[1], range.focus[1])..greater(range.anchor[1], range.focus[1]),
        cols |-> {cols[i] : i \in lesser(a, f)..greater(a, f)}]

rangesOf(sel) ==
    IF sel.ranges = <<>> THEN {[anchor |-> sel.active, focus |-> sel.active]} ELSE ToSet(sel.ranges)

blocks(sel, cols) == {block(r, cols) : r \in rangesOf(sel)}

cellsOf(bs) == UNION {b.rows \X b.cols : b \in bs}

startOf(s) == CHOOSE n \in s : \A m \in s : n <= m

\* A paste starts at the active cell, or it fills each range of its own size.
pasteAt(b) ==
    {[cell |-> <<startOf(b.rows) + i - 1, layout[placeOf(layout, b.first) + j - 1]>>,
      source |-> <<i, j>>] : i \in DOMAIN Pasted, j \in DOMAIN Pasted[1]}

onlyCell(a) == [active |-> a, ranges |-> <<>>, axis |-> FALSE]

\* Ranges with a hidden corner go; the last one that stays is active.
sanitizeChosen(sel, cols, fallback) ==
    LET kept == SelectSeq(sel.ranges, LAMBDA r : {r.anchor[2], r.focus[2]} \subseteq ToSet(cols))
        focused == SelectSeq(kept, LAMBDA r : r.focus = sel.active)
    IN CASE Len(sel.ranges) > 1 /\ Len(kept) > 1 ->
              [active |-> Last(IF focused = <<>> THEN kept ELSE focused).focus,
               ranges |-> kept, axis |-> FALSE]
         [] Len(sel.ranges) > 1 /\ Len(kept) = 1 ->
              [active |-> kept[1].focus, axis |-> FALSE,
               ranges |-> IF kept[1].anchor = kept[1].focus THEN <<>> ELSE kept]
         [] Len(sel.ranges) < 2 /\ Contains(cols, sel.active[2]) ->
              IF kept # <<>> THEN sel ELSE onlyCell(sel.active)
         [] OTHER -> onlyCell(<<IF Len(sel.ranges) > 1 THEN 1 ELSE sel.active[1], fallback>>)

-----------------------------------------------------------------------------
(* The commands as sets of <<row, column, value>>.                         *)

Refused == [ok |-> FALSE, commands |-> {}]

\* A field that two ranges would set to different values is a conflict.
prepares(commands) ==
    IF \E c, d \in commands : c # d /\ <<c[1], c[2]>> = <<d[1], d[2]>>
    THEN Refused ELSE [ok |-> TRUE, commands |-> commands]

editable(bs) == \A b \in bs : b.cols \cap ReadOnly = {}

prepareClearCommands(bs) ==
    IF ~editable(bs) THEN Refused
    ELSE prepares({<<a[1], a[2], NoValue>> : a \in
                     {c \in cellsOf(bs) : values[c[1]][c[2]] # NoValue}})

prepareFillDownCommands(bs) ==
    IF ~editable(bs) \/ \E b \in bs : b.rows = {startOf(b.rows)} THEN Refused
    ELSE prepares(UNION {
            {<<r, c, values[startOf(b.rows)][c]>> : r \in b.rows \ {startOf(b.rows)}, c \in b.cols}
                : b \in bs} \ {<<a[1], a[2], values[a[1]][a[2]]>> : a \in cellsOf(bs)})

prepareFillSeriesCommands(bs) ==
    IF \/ ~editable(bs)
       \/ \E b \in bs : startOf(b.rows) + 2 \notin b.rows
       \/ \E b \in bs, c \in ToSet(layout) :
            c \in b.cols /\ NoValue \in {values[startOf(b.rows)][c], values[startOf(b.rows) + 1][c]}
    THEN Refused
    ELSE prepares(UNION {
            {<<r, c, values[startOf(b.rows) + 1][c] + (r - startOf(b.rows) - 1) *
                     (values[startOf(b.rows) + 1][c] - values[startOf(b.rows)][c])>> :
                r \in {n \in b.rows : n > startOf(b.rows) + 1}, c \in b.cols} : b \in bs})

\* The active cell's column over every range.
prepareFillSelectionCommands(cell, value) ==
    LET bs == blocks(chosen, layout)
    IN IF \/ chosen.axis \/ chosen.ranges = <<>> \/ chosen.active # cell
          \/ \E b \in bs : b.cols # {cell[2]} \/ b.rows = {startOf(b.rows)}
          \/ cell \notin cellsOf(bs)
       THEN Refused
       ELSE prepares({<<a[1], a[2], value>> : a \in {c \in cellsOf(bs) : values[c[1]][c[2]] # value}})

\* #pasteTargets and #preparePaste.
pasteTargets ==
    IF chosen.ranges = <<>>
    THEN {[rows |-> {chosen.active[1]}, first |-> chosen.active[2]]}
    ELSE {[rows |-> b.rows, first |-> layout[startOf({placeOf(layout, c) : c \in b.cols})]] :
            b \in blocks(chosen, layout)}

pasteFits ==
    /\ chosen.ranges # <<>> => \A b \in blocks(chosen, layout) :
            /\ b.rows = startOf(b.rows)..startOf(b.rows) + Len(Pasted) - 1
            /\ \E p \in 0..Len(layout) - Len(Pasted[1]) :
                  b.cols = {layout[p + i] : i \in DOMAIN Pasted[1]}
    /\ \A t \in pasteTargets :
            /\ startOf(t.rows) + Len(Pasted) - 1 <= GridRows
            /\ placeOf(layout, t.first) + Len(Pasted[1]) - 1 <= Len(layout)

\* A field that two source cells would fill is a conflict.
preparePaste ==
    LET pastes == UNION {pasteAt(t) : t \in pasteTargets}
    IN IF \/ ~pasteFits
          \/ \E p \in pastes : p.cell[2] \in ReadOnly
          \/ \E p, q \in pastes : p # q /\ p.cell = q.cell
       THEN Refused
       ELSE prepares({<<p.cell[1], p.cell[2], Pasted[p.source[1]][p.source[2]]>> : p \in pastes})

-----------------------------------------------------------------------------
(* The edit machine and the user's steps.                                  *)

Idle    == [status |-> "idle", cell |-> NoCell, draft |-> NoValue, id |-> 0]
Focused == [Idle EXCEPT !.status = "focused"]

CellInit ==
    /\ values = FirstValues
    /\ layout = FirstColumns
    /\ version = 0
    /\ epoch = 0
    /\ chosen = onlyCell(<<1, FirstColumns[1]>>)
    /\ edit = Idle
    /\ waiting = <<>>
    /\ reported = <<>>
    /\ unsettled = FALSE
    /\ cellSteps = 0

CellStep == cellSteps < MaxCellSteps /\ cellSteps' = cellSteps + 1

replaceChosen(sel) ==
    /\ chosen' = sel
    /\ epoch' = IF sel = chosen THEN epoch ELSE epoch + 1

Choose(sel) ==
    /\ CellStep
    /\ \A r \in rangesOf(sel) : {r.anchor[2], r.focus[2]} \subseteq ToSet(layout)
    /\ sel # chosen
    /\ replaceChosen(sel)
    /\ UNCHANGED <<values, layout, version, edit, waiting, reported, unsettled>>

(* Mutant: an edit may begin while another one commits.                    *)
beginsAnyway(cell) ==
    /\ CellStep
    /\ cell[2] \notin ReadOnly /\ Contains(layout, cell[2])
    /\ edit' = [status |-> "editing", cell |-> cell, draft |-> values[cell[1]][cell[2]],
                id |-> cellSteps']
    /\ epoch' = epoch + 1
    /\ UNCHANGED <<values, layout, version, chosen, waiting, reported, unsettled>>

\* A rejected edit is cancelled; any other one keeps the cell out.
RequestEdit(cell) ==
    /\ CellStep
    /\ cell[2] \notin ReadOnly /\ Contains(layout, cell[2])
    /\ edit.status \in {"idle", "focused", "rejected"}
    /\ \/ /\ edit' = [status |-> "editing", cell |-> cell, draft |-> values[cell[1]][cell[2]],
                      id |-> cellSteps']
          /\ epoch' = epoch + 1
       \/ edit' = Focused /\ UNCHANGED epoch          \* beforeEdit prevented it
    /\ UNCHANGED <<values, layout, version, chosen, waiting, reported, unsettled>>

DraftInput(draft) ==
    /\ CellStep
    /\ edit.status \in {"editing", "composing", "rejected"}
    /\ draft # edit.draft
    /\ edit' = [edit EXCEPT !.draft = draft,
                            !.status = IF edit.status = "composing" THEN "composing" ELSE "editing"]
    /\ UNCHANGED <<values, layout, version, epoch, chosen, waiting, reported, unsettled>>

Composition ==
    /\ CellStep
    /\ edit.status \in {"editing", "composing"}
    /\ edit' = [edit EXCEPT !.status = IF @ = "editing" THEN "composing" ELSE "editing"]
    /\ UNCHANGED <<values, layout, version, epoch, chosen, waiting, reported, unsettled>>

CancelEdit ==
    /\ CellStep
    /\ edit.status \in {"editing", "rejected"}
    /\ edit' = Focused
    /\ UNCHANGED <<values, layout, version, epoch, chosen, waiting, reported, unsettled>>

Blur ==
    /\ CellStep
    /\ edit.status = "focused"
    /\ edit' = Idle
    /\ UNCHANGED <<values, layout, version, epoch, chosen, waiting, reported, unsettled>>

\* "aimed" and "relaid" record, for the properties, the cells the user saw
\* under the command and whether the columns moved before it was prepared.
task(kind, commands, cell, aimed) ==
    [kind |-> kind, stage |-> "waiting", version |-> version, epoch |-> epoch,
     commands |-> commands, cell |-> cell, id |-> edit.id, aimed |-> aimed, relaid |-> FALSE]

Queue(t) == Len(waiting) < MaxWaiting /\ waiting' = Append(waiting, t)

\* Validation is synchronous; a draft that fails it is rejected at once.
CommitEdit(fill) ==
    /\ CellStep
    /\ edit.status \in {"editing", "rejected"}
    /\ \E p \in {CASE edit.draft = Unparsable -> Refused
                   [] edit.draft # Unparsable /\ fill -> prepareFillSelectionCommands(edit.cell, edit.draft)
                   [] OTHER -> prepares({<<edit.cell[1], edit.cell[2], edit.draft>>})} :
        IF p.ok
        THEN /\ edit' = [edit EXCEPT !.status = "committing"]
             /\ Queue(task(IF fill THEN "fillSelection" ELSE "edit", p.commands, edit.cell,
                           IF fill THEN cellsOf(blocks(chosen, layout)) ELSE {edit.cell}))
        ELSE /\ edit' = [edit EXCEPT !.status = "rejected"]
             /\ UNCHANGED waiting
    /\ UNCHANGED <<values, layout, version, epoch, chosen, reported, unsettled>>

SelectionCommand(kind) ==
    /\ CellStep
    /\ edit.status \in {"idle", "focused"}
    /\ edit' = Focused
    /\ Queue(task(kind, {}, NoCell, cellsOf(blocks(chosen, layout))))
    /\ UNCHANGED <<values, layout, version, epoch, chosen, reported, unsettled>>

Paste ==
    /\ CellStep
    /\ Queue(task("paste", {}, NoCell,
             IF pasteFits THEN UNION {{p.cell : p \in pasteAt(t)} : t \in pasteTargets} ELSE {}))
    /\ UNCHANGED <<values, layout, version, epoch, chosen, edit, reported, unsettled>>

\* execute of the host, and setDocument.
HostTask(kind) ==
    /\ CellStep
    /\ Queue(task(kind, IF kind = "host" THEN {<<1, FirstColumns[1], 9>>} ELSE {}, NoCell,
             {<<1, FirstColumns[1]>>}))
    /\ UNCHANGED <<values, layout, version, epoch, chosen, edit, reported, unsettled>>

-----------------------------------------------------------------------------
(* Column layout; neither a new order nor a hidden column ends an edit.    *)

Relay(cols) ==
    /\ layout' = cols
    /\ \E right \in {SelectSeq(SubSeq(layout, placeOf(layout, chosen.active[2]), Len(layout)),
                               LAMBDA c : Contains(cols, c))} :
        replaceChosen(sanitizeChosen(chosen, cols, IF right # <<>> THEN right[1] ELSE Last(cols)))
    /\ waiting' = [i \in DOMAIN waiting |->
                     [waiting[i] EXCEPT !.relaid = @ \/ waiting[i].stage # "prepared"]]

ReorderLayout(i, j) ==
    /\ CellStep
    /\ {i, j} \subseteq DOMAIN layout \ {1} /\ i < j
    /\ Relay([layout EXCEPT ![i] = layout[j], ![j] = layout[i]])
    /\ UNCHANGED <<values, version, edit, reported, unsettled>>

HideColumn(c) ==
    /\ CellStep
    /\ Contains(Tail(layout), c)
    /\ Relay(SelectSeq(layout, LAMBDA d : d # c))
    /\ UNCHANGED <<values, version, edit, reported, unsettled>>

EndActiveEdit ==
    /\ edit' = Idle
    /\ unsettled' = (unsettled \/ edit.status = "committing")

SetLayout ==
    /\ CellStep
    /\ Relay(FirstColumns)
    /\ EndActiveEdit
    /\ UNCHANGED <<values, version, reported>>

-----------------------------------------------------------------------------
(* The queue.                                                              *)

(* Mutant: only a new published state makes a command stale.               *)
ignoresEpoch(t) == t.version # version

pasteStaleness(t) == t.version # version \/ t.epoch # epoch

guarded(t) == t.kind \in {"clear", "fillDown", "fillSeries", "fillSelection", "paste"}

\* What the continuation of #commitEdit does when its task settles.
Settle(t, ok) ==
    IF t.kind \in {"edit", "fillSelection"} /\ edit.status = "committing"
    THEN /\ edit' = IF ok THEN Focused ELSE [edit EXCEPT !.status = "rejected"]
         /\ reported' = <<edit.id, t.id>>
    ELSE UNCHANGED <<edit, reported>>

Drop(ok) ==
    /\ waiting' = Tail(waiting)
    /\ Settle(waiting[1], ok)
    /\ UNCHANGED <<values, layout, version, epoch, chosen, unsettled, cellSteps>>

preparation(t) ==
    CASE t.kind \in {"edit", "fillSelection", "host"} -> prepares(t.commands)
      [] t.kind = "clear" -> prepareClearCommands(blocks(chosen, layout))
      [] t.kind = "fillDown" ->
           IF chosen.axis THEN Refused
           ELSE IF chosen.ranges = <<>> THEN prepares({})
           ELSE prepareFillDownCommands(blocks(chosen, layout))
      [] t.kind = "fillSeries" ->
           IF chosen.axis \/ chosen.ranges = <<>> THEN prepares({})
           ELSE prepareFillSeriesCommands(blocks(chosen, layout))
      [] t.kind = "paste" -> preparePaste

refusedNow(t) ==
    \/ guarded(t) /\ t.kind # "paste" /\ pasteStaleness(t)
    \/ t.kind \in {"clear", "fillDown", "fillSeries"} /\ edit.status # "focused"
    \/ t.kind = "paste" /\ t.stage = "waiting" /\ edit.status \notin {"idle", "focused"}
    \/ t.kind = "paste" /\ t.stage = "parsing" /\ pasteStaleness(t)

\* A paste takes the published state of its start, parses, and prepares.
StartPaste ==
    /\ waiting # <<>>
    /\ waiting[1].kind = "paste" /\ waiting[1].stage = "waiting"
    /\ ~refusedNow(waiting[1])
    /\ waiting' = [waiting EXCEPT ![1].stage = "parsing", ![1].version = version]
    /\ UNCHANGED <<values, layout, version, epoch, chosen, edit, reported, unsettled, cellSteps>>

readyToPrepare(t) ==
    t.kind # "replace" /\ t.stage = (IF t.kind = "paste" THEN "parsing" ELSE "waiting")

Prepared ==
    /\ waiting # <<>>
    /\ readyToPrepare(waiting[1]) /\ ~refusedNow(waiting[1])
    /\ \E p \in {preparation(waiting[1])} :
        /\ p.ok /\ p.commands # {}
        /\ waiting' = [waiting EXCEPT ![1].stage = "prepared", ![1].commands = p.commands]
    /\ UNCHANGED <<values, layout, version, epoch, chosen, edit, reported, unsettled, cellSteps>>

Refuse ==
    /\ waiting # <<>>
    /\ \/ waiting[1].stage # "prepared" /\ waiting[1].kind # "replace" /\ refusedNow(waiting[1])
       \/ readyToPrepare(waiting[1]) /\ ~refusedNow(waiting[1]) /\ ~preparation(waiting[1]).ok
       \/ waiting[1].stage = "prepared" /\ guarded(waiting[1]) /\ pasteStaleness(waiting[1])
    /\ Drop(FALSE)

NothingToDo ==
    /\ waiting # <<>>
    /\ readyToPrepare(waiting[1]) /\ ~refusedNow(waiting[1])
    /\ preparation(waiting[1]) = prepares({})
    /\ Drop(TRUE)

\* The paste policy or beforeTransaction prevented it, or the engine refused it.
PreventCommand ==
    /\ waiting # <<>>
    /\ waiting[1].stage = "prepared" \/ waiting[1].kind = "replace"
    /\ Drop(FALSE)

\* The guard is read again when the engine applies the batch.
Commit ==
    /\ waiting # <<>>
    /\ waiting[1].stage = "prepared"
    /\ guarded(waiting[1]) => ~pasteStaleness(waiting[1])
    /\ values' = [r \in DOMAIN values |-> [c \in DOMAIN values[r] |->
            IF \E d \in waiting[1].commands : d[1] = r /\ d[2] = c
            THEN (CHOOSE d \in waiting[1].commands : d[1] = r /\ d[2] = c)[3]
            ELSE values[r][c]]]
    /\ version' = version + 1
    /\ Settle(waiting[1], TRUE)
    /\ \* the next editable cell of the column, unless the user moved on
       LET t == waiting[1]
           moves == /\ t.kind = "edit" /\ edit.status = "committing"
                    /\ t.epoch = epoch /\ chosen.active = t.cell
                    /\ Contains(layout, t.cell[2]) /\ t.cell[1] < GridRows
       IN IF moves THEN replaceChosen(onlyCell(<<t.cell[1] + 1, t.cell[2]>>))
          ELSE UNCHANGED <<chosen, epoch>>
    /\ waiting' = Tail(waiting)
    /\ UNCHANGED <<layout, unsettled, cellSteps>>

ReplaceGrid ==
    /\ waiting # <<>>
    /\ waiting[1].kind = "replace"
    /\ values' = FirstValues
    /\ version' = version + 1
    /\ replaceChosen(onlyCell(<<1, layout[1]>>))
    /\ EndActiveEdit
    /\ waiting' = Tail(waiting)
    /\ UNCHANGED <<layout, reported, cellSteps>>

CellNext ==
    \/ \E sel \in UserSelections : Choose(sel)
    \/ \E c \in (1..GridRows) \X ToSet(FirstColumns) : RequestEdit(c)
    \/ \E d \in {5, Unparsable} : DraftInput(d)
    \/ Composition \/ CancelEdit \/ Blur
    \/ \E fill \in BOOLEAN : CommitEdit(fill)
    \/ \E kind \in {"clear", "fillDown", "fillSeries"} : SelectionCommand(kind)
    \/ Paste
    \/ \E kind \in {"host", "replace"} : HostTask(kind)
    \/ \E i, j \in DOMAIN FirstColumns : ReorderLayout(i, j)
    \/ \E c \in ToSet(FirstColumns) : HideColumn(c)
    \/ SetLayout
    \/ StartPaste \/ Prepared \/ Refuse \/ NothingToDo \/ PreventCommand \/ Commit \/ ReplaceGrid

-----------------------------------------------------------------------------
(* Properties.                                                             *)

(* An edit that is told it was committed or rejected is told so of its own *)
(* transaction (editor.ts:13603): the machine only knows that some edit is *)
(* committing.  Excluded is an edit that setColumns or a new document      *)
(* ended while it was committing, whose outcome goes to the next one.      *)
EditOutcomeIsItsOwn ==
    ~unsettled /\ reported # <<>> => reported[1] = reported[2]

(* A command that was queued for a selection changes no cell the user did  *)
(* not have under it when the key was pressed, whatever the user does      *)
(* while it waits (editor.ts:11425).  Excluded are columns that moved in   *)
(* between, which the epoch does not count.                                *)
QueuedCommandHitsItsCells ==
    \A i \in DOMAIN waiting : ~waiting[i].relaid =>
        {<<c[1], c[2]>> : c \in waiting[i].commands} \subseteq waiting[i].aimed

=============================================================================
