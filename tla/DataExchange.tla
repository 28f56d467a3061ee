---------------------------- MODULE DataExchange ----------------------------
(***************************************************************************)
(* Import and export (editor.ts).  An import reads and parses its file,    *)
(* waits in the mutation queue, maps the columns of the file to fields and *)
(* its rows to the rows at the selection, derives the parents the file     *)
(* asks for, and commits all of it or returns a patch as a preview.        *)
(* Meanwhile others commit, and the user selects, collapses rows and lays  *)
(* out columns.  An export writes the document it was called on, as far as *)
(* a policy lets it.                                                       *)
(*                                                                         *)
(* Files are sequences of rows of cells; reading bytes and parsing them is *)
(* one step each, whose limits and syntax ClipboardText has.               *)
(***************************************************************************)
EXTENDS Integers, SequencesExt, TLC

CONSTANTS
    BookRows,          \* the rows of the document
    Top,               \* the parent of a root
    FirstBook,         \* [parent, key, cells]: a tree with positions, and its fields
    BookFields,        \* the fields of the schema; a column has the name of its field
    Locked,            \* fields that are not editable
    FirstShown,        \* the visible columns at the start, in order
    Imports,           \* what is imported: see MCServices
    Exports,           \* what is exported: [fields, mode, scope]
    Answers,           \* of the policy: [fields, masks], or [] to deny
    levelOf,           \* the level in a cell, 0 if it is none
    Blank,             \* an empty cell
    MaxExchangeSteps   \* bound: steps of the user and of others

ASSUME ExchangeAssumption ==
    /\ Top \notin BookRows
    /\ Locked \subseteq BookFields
    /\ MaxExchangeSteps \in Nat

VARIABLES
    book,       \* the published document
    desk,       \* the view: [identity, epoch, closed, pick, columns]
    transfer,   \* the import under way
    export,     \* the export under way
    exchangeSteps

exchangeVars == <<book, desk, transfer, export, exchangeSteps>>

-----------------------------------------------------------------------------
(* Trees with positions: a row has a parent and a key among its siblings.  *)

childrenIn(tree, p) ==
    SetToSortSeq({r \in BookRows : tree.parent[r] = p},
                 LAMBDA r, s : tree.key[r] < tree.key[s])

openRows(tree, closed, p) ==
    LET rows[q \in BookRows \cup {Top}] ==
          FlattenSeq([i \in DOMAIN childrenIn(tree, q) |->
              LET r == childrenIn(tree, q)[i]
              IN <<r>> \o (IF r \in closed THEN <<>> ELSE rows[r])])
    IN rows[p]

isUnder(parent, r, a) ==
    LET under[s \in BookRows \cup {Top}] == s # Top /\ (s = a \/ under[parent[s]])
    IN under[r]

\* A position after the last sibling, the row itself not counted.
keyAfterLast(tree, r, p) ==
    1 + FoldSet(LAMBDA s, n : IF tree.key[s] > n THEN tree.key[s] ELSE n, 0,
                {s \in BookRows \ {r} : tree.parent[s] = p})

moveSubtree(tree, r, p) ==
    [tree EXCEPT !.parent[r] = p, !.key[r] = keyAfterLast(tree, r, p)]

-----------------------------------------------------------------------------
(* The mapping plan: a sequence of <<field, column of the file>>.          *)

isDistinct(s) == Cardinality(ToSet(s)) = Len(s)

dataRows(i) == IF i.header THEN Tail(i.rows) ELSE i.rows

\* Given, by the labels in the first row, or one field after the other.
mappedPairs(i, active) ==
    LET width == Len(i.rows[1])
        inOrder(fields) ==
            [n \in 1..(IF Len(fields) < width THEN Len(fields) ELSE width) |-> <<fields[n], n>>]
    IN CASE i.mapping # <<>> -> i.mapping
         [] i.mapping = <<>> /\ i.header -> [n \in 1..width |-> <<i.rows[1][n], n>>]
         [] i.mapping = <<>> /\ ~i.header /\ i.fields # <<>> -> inOrder(i.fields)
         [] OTHER -> inOrder(SubSeq(desk.columns, active, Len(desk.columns)))

planFails(i, pairs) ==
    LET fields  == [n \in DOMAIN pairs |-> pairs[n][1]]
        columns == [n \in DOMAIN pairs |-> pairs[n][2]]
    IN \/ \E row \in ToSet(i.rows) : Len(row) # Len(i.rows[1])
       \/ dataRows(i) = <<>> \/ pairs = <<>>
       \/ ~isDistinct(fields) \/ ~isDistinct(columns)
       \/ ~(ToSet(fields) \subseteq BookFields /\ ToSet(columns) \subseteq DOMAIN i.rows[1])
       \/ ~(ToSet(i.fields) \subseteq ToSet(fields))

\* The cells that are imported: those of the fields that were asked for, or of
\* all that are mapped.  The hierarchy is looked up in all that are mapped.
fieldMap(i, pairs) ==
    {pair \in ToSet(pairs) : i.fields # <<>> => Contains(i.fields, pair[1])}

\* The rows from the selection on; a range must be as long as the file.
targetRows(i) ==
    LET shown == openRows(book, desk.closed, Top)
        at(r) == CHOOSE n \in DOMAIN shown : shown[n] = r
        corners == {desk.pick.anchor, desk.pick.focus}
        first == CHOOSE n \in {at(r) : r \in corners} : \A r \in corners : n <= at(r)
        last  == CHOOSE n \in {at(r) : r \in corners} : \A r \in corners : n >= at(r)
        length == Len(dataRows(i))
    IN IF \/ ~(corners \subseteq ToSet(shown))
          \/ Cardinality(corners) > 1 /\ last - first + 1 # length
          \/ first + length - 1 > Len(shown)
       THEN <<>> ELSE SubSeq(shown, first, first + length - 1)

\* The parent of a row: what its cell says, what its level says, or both.
explicitParent(i, pairs, n) ==
    LET column == CHOOSE pair \in pairs : pair[1] = i.parentField
    IN IF dataRows(i)[n][column[2]] = Blank THEN Top ELSE dataRows(i)[n][column[2]]

levelIn(i, pairs, n) ==
    LET column == CHOOSE pair \in pairs : pair[1] = i.levelField
    IN levelOf[dataRows(i)[n][column[2]]]

\* The stack of the open levels after the first rows, innermost last.
levelStack(i, pairs, rows) ==
    FoldLeft(LAMBDA stack, n :
               Append(SelectSeq(stack, LAMBDA s : s[1] < levelIn(i, pairs, n)),
                      <<levelIn(i, pairs, n), rows[n]>>),
             <<>>, [n \in DOMAIN rows |-> n])

levelParent(i, pairs, rows, n) ==
    LET level == levelIn(i, pairs, n)
        outer == SelectSeq(levelStack(i, pairs, SubSeq(rows, 1, n - 1)),
                           LAMBDA s : s[1] < level)
    IN CASE level = 0 -> Blank
         [] level = 1 -> Top
         [] level > 1 /\ outer # <<>> /\ Last(outer)[1] = level - 1 -> Last(outer)[2]
         [] OTHER -> Blank

desiredParent(i, pairs, rows, n) ==
    LET explicit == IF i.parentField = Blank THEN Blank ELSE explicitParent(i, pairs, n)
        level    == IF i.levelField = Blank THEN Blank ELSE levelParent(i, pairs, rows, n)
    IN IF explicit # Blank /\ i.levelField # Blank /\ explicit # level THEN Blank
       ELSE IF explicit # Blank THEN explicit ELSE level

\* One move per row, or none at all; a cycle at the end is refused.
hierarchyMoves(i, pairs, rows) ==
    IF {i.parentField, i.levelField} = {Blank} THEN <<>>
    ELSE [n \in DOMAIN rows |-> <<rows[n], desiredParent(i, pairs, rows, n)>>]

endsInCycle(parent, r) ==
    LET cursor[n \in 0..Cardinality(BookRows)] ==
          IF n = 0 THEN r ELSE IF cursor[n - 1] = Top THEN Top ELSE parent[cursor[n - 1]]
    IN cursor[Cardinality(BookRows)] # Top

hierarchyFails(i, pairs, rows) ==
    LET moves == hierarchyMoves(i, pairs, rows)
    IN /\ moves # <<>>
       /\ \/ ~({i.parentField, i.levelField} \ {Blank} \subseteq {pair[1] : pair \in pairs})
          \/ \E n \in DOMAIN moves :
               moves[n][2] \notin (BookRows \cup {Top}) \ {moves[n][1]}
          \/ LET asks(r) == {n \in DOMAIN moves : moves[n][1] = r}
                 parent == [r \in BookRows |-> IF asks(r) = {} THEN book.parent[r]
                                               ELSE moves[CHOOSE n \in asks(r) : TRUE][2]]
             IN \E n \in DOMAIN moves : endsInCycle(parent, moves[n][1])

(* The commands of an import, and what the engine makes of them.           *)

importedCells(i, pairs, rows) ==
    {<<rows[n], pair[1], dataRows(i)[n][pair[2]]>> : n \in DOMAIN rows, pair \in pairs}

withCells(tree, cells) ==
    [tree EXCEPT !.cells = [r \in BookRows |-> [f \in BookFields |->
        IF \E c \in cells : c[1] = r /\ c[2] = f
        THEN (CHOOSE c \in cells : c[1] = r /\ c[2] = f)[3] ELSE tree.cells[r][f]]]]

\* A batch is refused if one of its moves is a cycle when its turn comes.
applyMoves(tree, moves) ==
    FoldLeft(LAMBDA done, m :
               IF done.ok /\ ~isUnder(done.tree.parent, m[2], m[1])
               THEN [done EXCEPT !.tree = moveSubtree(@, m[1], m[2])]
               ELSE [done EXCEPT !.ok = FALSE],
             [ok |-> TRUE, tree |-> tree], moves)

\* The moves of a preview with their positions; it looks for no cycle.
previewHierarchyOperations(tree, moves) ==
    FoldLeft(LAMBDA t, m : moveSubtree(t, m[1], m[2]), tree, moves)

-----------------------------------------------------------------------------
(* Imports.                                                                *)

NoTransfer == [stage |-> "none"]
NoExport   == [stage |-> "none"]
NoAnswer   == [allowed |-> FALSE]

ExchangeInit ==
    /\ book = FirstBook
    /\ desk = [identity |-> 0, epoch |-> 0, closed |-> {}, columns |-> FirstShown,
               pick |-> [anchor |-> openRows(FirstBook, {}, Top)[1],
                         focus  |-> openRows(FirstBook, {}, Top)[1], column |-> FirstShown[1]]]
    /\ transfer = NoTransfer
    /\ export = NoExport
    /\ exchangeSteps = 0

ExchangeStep == exchangeSteps < MaxExchangeSteps /\ exchangeSteps' = exchangeSteps + 1

\* "seen" is the document it was called on, kept for the property.
ImportData(i) ==
    /\ ExchangeStep
    /\ transfer.stage \in {"none", "imported", "previewed"}
    /\ transfer' = [stage |-> "reading", import |-> i, identity |-> desk.identity, epoch |-> 0,
                    seen |-> book, aimed |-> desk.pick]
    /\ UNCHANGED <<book, desk, export>>

\* The bytes may be too many, or none may come.
SourceRead ==
    /\ transfer.stage = "reading"
    /\ transfer' \in {[transfer EXCEPT !.stage = "parsing"], NoTransfer}
    /\ UNCHANGED <<book, desk, export, exchangeSteps>>

\* Only a text is looked at again before it is queued.
ImportParsed ==
    /\ transfer.stage = "parsing"
    /\ transfer' \in {NoTransfer} \cup
         (IF transfer.import.format # "xlsx" /\ transfer.identity # desk.identity THEN {}
          ELSE {[transfer EXCEPT !.stage = "queued", !.epoch = desk.epoch, !.aimed = desk.pick]})
    /\ UNCHANGED <<book, desk, export, exchangeSteps>>

(* Mutant: only the selection is looked at again.                          *)
importsIntoAnyDocument == transfer.epoch # desk.epoch

importIsStale == transfer.identity # desk.identity \/ transfer.epoch # desk.epoch

\* From the column of the active cell on, or all columns if it is hidden.
firstColumn ==
    IF Contains(desk.columns, desk.pick.column)
    THEN CHOOSE n \in DOMAIN desk.columns : desk.columns[n] = desk.pick.column ELSE 1

RunImport ==
    /\ transfer.stage = "queued"
    /\ \E i \in {transfer.import} :
       \E pairs \in {mappedPairs(i, firstColumn)}, rows \in {targetRows(i)} :
         transfer' =
           IF \/ importIsStale \/ planFails(i, pairs) \/ rows = <<>>
              \/ hierarchyFails(i, ToSet(pairs), rows)
              \/ \E pair \in fieldMap(i, pairs) : pair[1] \in Locked
           THEN NoTransfer
           ELSE [transfer EXCEPT !.stage = "prepared"] @@
                [cells |-> importedCells(i, fieldMap(i, pairs), rows), rows |-> rows,
                 map |-> fieldMap(i, pairs), columns |-> ToSet(pairs),
                 moves |-> hierarchyMoves(i, ToSet(pairs), rows)]
    /\ UNCHANGED <<book, desk, export, exchangeSteps>>

\* A validator, the paste policy or beforeTransaction may refuse it.
ImportRefused ==
    /\ transfer.stage = "prepared"
    /\ transfer' = NoTransfer
    /\ UNCHANGED <<book, desk, export, exchangeSteps>>

\* The signal of the caller, or destroy.
AbortImport ==
    /\ transfer.stage \in {"reading", "parsing", "queued", "prepared"}
    /\ transfer' = NoTransfer
    /\ UNCHANGED <<book, desk, export, exchangeSteps>>

PreviewImport ==
    /\ transfer.stage = "prepared" /\ transfer.import.preview /\ ~importIsStale
    /\ transfer' = [transfer EXCEPT !.stage = "previewed"] @@
         [patched |-> previewHierarchyOperations(withCells(book, transfer.cells), transfer.moves)]
    /\ UNCHANGED <<book, desk, export, exchangeSteps>>

CommitImport ==
    /\ transfer.stage = "prepared" /\ ~transfer.import.preview /\ ~importIsStale
    /\ \E done \in {applyMoves(withCells(book, transfer.cells), transfer.moves)} :
         /\ done.ok
         /\ book' = done.tree
    /\ desk' = [desk EXCEPT !.identity = @ + 1]
    /\ transfer' = [transfer EXCEPT !.stage = "imported"]
    /\ UNCHANGED <<export, exchangeSteps>>

-----------------------------------------------------------------------------
(* What happens meanwhile.  The queue runs nothing beside a prepared       *)
(* import; the view changes at any time.                                   *)

OtherTransaction(tree) ==
    /\ ExchangeStep
    /\ transfer.stage # "prepared"
    /\ book' = tree
    /\ desk' = [desk EXCEPT !.identity = @ + 1]
    /\ UNCHANGED <<transfer, export>>

ToggleRow(r) ==
    /\ ExchangeStep
    /\ desk' = [desk EXCEPT !.identity = @ + 1,
                            !.closed = IF r \in @ THEN @ \ {r} ELSE @ \cup {r}]
    /\ UNCHANGED <<book, transfer, export>>

PickRows(anchor, focus, column) ==
    /\ ExchangeStep
    /\ {anchor, focus} \subseteq ToSet(openRows(book, desk.closed, Top))
    /\ desk' = [desk EXCEPT !.epoch = @ + 1, 
               !.pick = [anchor |-> anchor, focus |-> focus, column |-> column]]
    /\ UNCHANGED <<book, transfer, export>>

ShowColumns(columns) ==
    /\ ExchangeStep
    /\ desk' = [desk EXCEPT !.columns = columns]
    /\ UNCHANGED <<book, transfer, export>>

-----------------------------------------------------------------------------
(* Exports.                                                                *)

ExportData(e) ==
    /\ ExchangeStep
    /\ export.stage \in {"none", "exported"}
    /\ export' = [stage |-> "asking", request |-> e, state |-> book,
                  rows |-> IF e.scope = "all" THEN BookRows
                           ELSE ToSet(openRows(book, desk.closed, Top)),
                  answer |-> NoAnswer, file |-> <<>>, lossless |-> FALSE]
    /\ UNCHANGED <<book, desk, transfer>>

\* It may let fewer fields through, and mask some of those.
normalizeExportDecision(answer, requested) ==
    /\ answer.allowed
    /\ answer.fields \subseteq requested
    /\ DOMAIN answer.masks \subseteq answer.fields

PolicyAnswers(answer) ==
    /\ export.stage = "asking"
    /\ export' = IF normalizeExportDecision(answer, export.request.fields)
                 THEN [export EXCEPT !.stage = "writing", !.answer = answer]
                 ELSE NoExport
    /\ UNCHANGED <<book, desk, transfer, exchangeSteps>>

(* Mutant: the rows are read from the document that is published now.      *)
readsWhatIsPublished(r, f) ==
    CASE f \notin export.answer.fields -> Blank
      [] f \in DOMAIN export.answer.masks ->
           IF export.answer.masks[f] = "omit" THEN Blank ELSE export.answer.masks[f]
      [] OTHER -> book.cells[r][f]

exportedText(r, f) ==
    CASE f \notin export.answer.fields -> Blank
      [] f \in DOMAIN export.answer.masks ->
           IF export.answer.masks[f] = "omit" THEN Blank ELSE export.answer.masks[f]
      [] OTHER -> export.state.cells[r][f]

\* A mask that omits is in no summary.
maskingSummary == {f \in DOMAIN export.answer.masks : export.answer.masks[f] # "omit"}

isLossless ==
    /\ export.request.mode = "completeData" /\ export.request.scope = "all"
    /\ export.request.fields \ export.answer.fields = {} /\ maskingSummary = {}
    /\ export.request.fields = BookFields

WriteExport ==
    /\ export.stage = "writing"
    /\ export' = [export EXCEPT !.stage = "exported", !.lossless = isLossless,
           !.file = [r \in export.rows |-> [f \in export.request.fields |-> exportedText(r, f)]]]
    /\ UNCHANGED <<book, desk, transfer, exchangeSteps>>

\* Too large, or the signal of the caller.
ExportRejected ==
    /\ export.stage \in {"asking", "writing"}
    /\ export' = NoExport
    /\ UNCHANGED <<book, desk, transfer, exchangeSteps>>

ExchangeNext ==
    \/ \E i \in Imports : ImportData(i)
    \/ SourceRead \/ ImportParsed \/ RunImport \/ ImportRefused \/ AbortImport
    \/ PreviewImport \/ CommitImport
    \/ \E r \in BookRows : OtherTransaction(moveSubtree(book, r, Top)) \/ ToggleRow(r)
    \/ \E f \in BookFields : OtherTransaction(withCells(book, {<<openRows(book, {}, Top)[1], f, Blank>>}))
    \/ \E anchor, focus \in BookRows, n \in DOMAIN desk.columns :
          PickRows(anchor, focus, desk.columns[n])
    \/ \E columns \in {Reverse(desk.columns), Tail(FirstShown)} : ShowColumns(columns)
    \/ \E e \in Exports : ExportData(e)
    \/ \E answer \in Answers : PolicyAnswers(answer)
    \/ WriteExport \/ ExportRejected

-----------------------------------------------------------------------------
(* Properties.                                                             *)

\* The rows between the corners of the selection, or from the active one on.
isAimedAt(t) ==
    IF t.aimed.anchor = t.aimed.focus THEN t.rows[1] = t.aimed.focus
    ELSE {t.rows[1], Last(t.rows)} = {t.aimed.anchor, t.aimed.focus}

\* The nearest row above with a lower level is the parent of a row.
askedParent(t, n) ==
    LET i == t.import
        level(m) == levelIn(i, t.columns, m)
        above == {m \in 1..(n - 1) : level(m) < level(n)}
    IN IF i.parentField # Blank THEN explicitParent(i, t.columns, n)
       ELSE IF level(n) = 1 THEN Top
       ELSE t.rows[CHOOSE m \in above : \A k \in above : k <= m]

isAsAsked(t, after) ==
    LET moved == IF t.moves = <<>> THEN {} ELSE ToSet(t.rows)
        placed(p) == SelectSeq(t.rows, LAMBDA r : after.parent[r] = p)
    IN /\ \A r \in BookRows, f \in BookFields :
            LET from == {c \in (DOMAIN t.rows) \X t.map : t.rows[c[1]] = r /\ c[2][1] = f}
            IN IF from = {} THEN after.cells[r][f] = t.seen.cells[r][f]
               ELSE \A c \in from : after.cells[r][f] = dataRows(t.import)[c[1]][c[2][2]]
       /\ t.moves # <<>> => \A n \in DOMAIN t.rows : after.parent[t.rows[n]] = askedParent(t, n)
       /\ \A p \in BookRows \cup {Top} :
            childrenIn(after, p) = SelectSeq(childrenIn(t.seen, p), LAMBDA r : r \notin moved)
                                     \o (IF moved = {} THEN <<>> ELSE placed(p))

(* An import changes the document it was called on into the one its file   *)
(* asks for, or into nothing: every mapped cell of the rows that were      *)
(* under the selection when the file was parsed, the parents and the order *)
(* of those rows, and nothing else.  A preview is the same document        *)
(* (editor.ts:4140).                                                       *)
ImportsAsAsked ==
    [][transfer.stage = "prepared" =>
         /\ transfer'.stage = "imported"  => isAimedAt(transfer) /\ isAsAsked(transfer, book')
         /\ transfer'.stage = "previewed" => /\ isAimedAt(transfer)
                                             /\ isAsAsked(transfer, transfer'.patched)
      ]_exchangeVars

(* An export has the rows and the values of one document, the one it was   *)
(* called on, whatever is committed while the policy thinks, and shows no  *)
(* value that the policy keeps back (editor.ts:4651).                      *)
ExportIsOneDocument ==
    export.stage = "exported" => \A r \in export.rows, f \in export.request.fields :
        IF f \in export.answer.fields \ DOMAIN export.answer.masks
        THEN export.file[r][f] = export.state.cells[r][f]
        ELSE export.file[r][f] \in {Blank} \cup {export.answer.masks[g] : g \in DOMAIN export.answer.masks}

(* What the README of the editor says: an export that leaves out or masks  *)
(* a field is not lossless (README.md:538).                                *)
LosslessIsComplete ==
    export.stage = "exported" /\ export.lossless =>
        export.file = [r \in BookRows |-> export.state.cells[r]]

=============================================================================
