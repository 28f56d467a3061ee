------------------------- MODULE TransactionEngine --------------------------
(***************************************************************************)
(* The transaction engine: it compiles commands to operations, applies     *)
(* them to a draft while collecting the operations that undo them, checks  *)
(* the result and makes it the document, all or nothing.  It keeps a       *)
(* history of entries to undo and redo within a budget, and can rewrite    *)
(* the end of the history when the DataSource refused a transaction.       *)
(*                                                                         *)
(* The engine queues its calls and runs each to its end (#enqueue), so a   *)
(* call is one action.  A call that fails changes nothing, and so is a     *)
(* step that stutters.                                                     *)
(***************************************************************************)
EXTENDS BomTree

CONSTANTS
    FirstNodes,            \* the nodes of the document the engine is created with
    MaxEntries, MaxBytes,  \* the history's budget
    Inputs,                \* the values callers set the field p.q to
    Sides,                 \* where callers place a node among its siblings
    PatchKeys,             \* the keys that foreign patches reorder nodes to
    MaxBatch,              \* commands in a batch
    MaxRevisions,          \* bound: commits
    MaxCommands,           \* bound: commands in the history and the next call
    CyclicMoves            \* do callers move a node below itself in a batch?

ASSUME EngineAssumption ==
    /\ {MaxEntries, MaxBytes, MaxRevisions, MaxCommands} \subseteq Nat
    /\ MaxBatch \in Nat \ {0} /\ PatchKeys \subseteq Keys
    /\ Inputs \subseteq Values /\ Sides \subseteq {"first", "last", "before", "after"}
    /\ CyclicMoves \in BOOLEAN
    /\ DOMAIN FirstNodes \subseteq Ids /\ FirstNodes \in [DOMAIN FirstNodes -> Node]
    /\ normalizable(FirstNodes)
    /\ \A i \in DOMAIN FirstNodes :
         FirstNodes[i].fields = canonicalFields(FirstNodes[i].fields)

VARIABLES
    completeness,    \* of the document: "complete", or "partial" while it loads
    document,        \* nodes and indexes: #snapshot and #indexes
    revision,        \* #revisionSequence, of which a revision is made
    history          \* #undo, #redo, #historyBytes, #evictedEntries

engineVars == <<completeness, document, revision, history>>

\* What #forkForHistoryReconcile copies.
state == [ok |-> TRUE, document |-> document, revision |-> revision, history |-> history]

\* Results: a step that failed ends what it is part of.
Failed == [ok |-> FALSE]
andThen(r, Then(_)) == IF r.ok THEN Then(r) ELSE Failed

-----------------------------------------------------------------------------
(* Commands and operations *)

Placements ==
    {[at |-> a, of |-> Root] : a \in Sides \cap {"first", "last"}}
        \cup {[at |-> a, of |-> i] : a \in Sides \cap {"before", "after"}, i \in Ids}

\* What a caller can ask for.  An expected value stands for the hash of it.
Command ==
    [type : {"insertNode"}, id : Ids, parent : Parents, placement : Placements]
    \cup [type : {"moveSubtree"}, id : Ids, parent : Parents, placement : Placements]
    \cup [type : {"deleteSubtree"}, id : Ids]
    \cup [type : {"setField"}, id : Ids, path : {"p.q"}, value : Inputs,
          expected : {None} \cup {Canonical[v] : v \in Values \ Refused}]
    \cup [type : {"setField"}, id : Ids, path : {"p"}, value : {Scalar},
          expected : {None}]
    \cup [type : {"unsetField"}, id : Ids, path : Paths, expected : {None}]
    \cup [type : {"setMaterialRef"}, id : Ids, code : Codes \cup {NoCode}]

\* A node as a caller inserts it.
newNode(id, parent, key) ==
    [parent |-> parent, key |-> key, fields |-> None,
     code |-> IF id \in Materials THEN CHOOSE c \in Codes : TRUE ELSE NoCode]

\* #requireParent
requireParent(draft, parent) == parent \in DOMAIN draft.nodes \cup {Root}

\* resolvePlacementIndex: how many siblings stay to the left, or -1.
resolvePlacementIndex(siblings, placement, moving) ==
    LET at == {k \in DOMAIN siblings : siblings[k] = placement.of}
    IN  CASE placement.at = "first" -> 0
          [] placement.at = "last"  -> Len(siblings)
          [] placement.of = moving \/ at = {} -> -1
          [] placement.at = "before" -> (CHOOSE k \in at : TRUE) - 1
          [] placement.at = "after"  -> CHOOSE k \in at : TRUE

\* A key for the place after the first index of some siblings.
keyAt(siblings, index, keys) ==
    createPositionKeyBetween(
        IF index = 0 THEN NoKey ELSE keys[siblings[index]],
        IF index = Len(siblings) THEN NoKey ELSE keys[siblings[index + 1]])

\* New keys for all children of a parent, and the key of the one that is placed.
renumbered(all, siblings, index, parent) ==
    LET fresh == rebalancePositionKeys(Len(all))
        keys  == [i \in ToSet(all) |-> fresh[CHOOSE k \in DOMAIN all : all[k] = i]]
        found(key) ==
            IF key = NoKey THEN Failed
            ELSE [ok |-> TRUE, key |-> key,
                  first |-> <<[op |-> "rebalancePositions", parent |-> parent,
                               keys |-> keys]>>]
    IN  IF Len(fresh) # Len(all) THEN Failed ELSE found(keyAt(siblings, index, keys))

\* #allocatePosition: a key between the neighbours, after renumbering all
\* siblings if there is none.  moving is the node that moves, or Root.
allocatePosition(draft, parent, placement, moving) ==
    LET siblings == Remove(draft.children[parent], moving)
        all      == IF moving \in DOMAIN draft.nodes /\ draft.nodes[moving].parent = parent
                    THEN draft.children[parent] ELSE siblings
        answer(index, direct) ==
            IF direct # NoKey THEN [ok |-> TRUE, first |-> <<>>, key |-> direct]
            ELSE renumbered(all, siblings, index, parent)
        at(index) ==
            IF index = -1 THEN Failed
            ELSE answer(index, keyAt(siblings, index,
                                     [i \in ToSet(siblings) |-> draft.nodes[i].key]))
    IN  at(resolvePlacementIndex(siblings, placement, moving))

\* #compileCommand: the operations of a command.
compileCommand(draft, c) ==
    LET structural == c.type \in {"insertNode", "moveSubtree"}
        moving     == IF c.type = "moveSubtree" THEN c.id ELSE Root
        isOk(ops)  == [ok |-> TRUE, operations |-> ops]
    IN  CASE structural ->
               IF \/ completeness = "partial"
                  \/ (c.id \in DOMAIN draft.nodes) = (c.type = "insertNode")
                  \/ ~requireParent(draft, c.parent)
               THEN Failed
               ELSE andThen(allocatePosition(draft, c.parent, c.placement, moving),
                      LAMBDA p : isOk(Append(p.first,
                        IF c.type = "insertNode"
                        THEN [op |-> "insertNode", id |-> c.id,
                              node |-> newNode(c.id, c.parent, p.key)]
                        ELSE [op |-> "moveSubtree", id |-> c.id,
                              parent |-> c.parent, key |-> p.key])))
          [] c.type = "deleteSubtree" -> isOk(<<[op |-> "deleteSubtree", id |-> c.id]>>)
          [] c.type = "setField" ->
               isOk(<<[op |-> "updateField", id |-> c.id, path |-> c.path,
                       value |-> c.value, expected |-> c.expected]>>)
          [] c.type = "unsetField" ->
               IF \/ c.id \notin DOMAIN draft.nodes
                  \/ hasBomFieldPathTypeConflict(draft.nodes[c.id].fields, c.path)
               THEN Failed
               ELSE isOk(<<[op |-> "unsetField", id |-> c.id, path |-> c.path,
                            expected |-> None]>>)
          [] c.type = "setMaterialRef" ->
               isOk(<<[op |-> "setMaterialRef", id |-> c.id, code |-> c.code]>>)

(* Mutant: a new material code is treated as a field.                      *)
isFieldOrMaterial(operation) ==
    operation.op \in {"updateField", "unsetField", "setMaterialRef"}

isFieldOperation(operation) == operation.op \in {"updateField", "unsetField"}

-----------------------------------------------------------------------------
(* #applyOperation: the draft after an operation, and the operations that   *)
(* undo it.                                                                 *)

applied(draft, inverse) == [ok |-> TRUE, draft |-> draft, inverse |-> inverse]

applyInsertNode(draft, o) ==
    IF o.id \in DOMAIN draft.nodes \/ ~requireParent(draft, o.node.parent) THEN Failed
    ELSE applied(insertNode(draft, o.id, o.node),
                 <<[op |-> "deleteSubtree", id |-> o.id]>>)

(* Mutant: the inverse inserts children before their parents.              *)
deleteInvertedBottomUp(draft, o) ==
    LET gone == Reverse(subtree(draft, o.id))
    IN  IF o.id \notin DOMAIN draft.nodes THEN Failed
        ELSE applied(deleteSubtree(draft, o.id),
                     [k \in DOMAIN gone |->
                        [op |-> "insertNode", id |-> gone[k],
                         node |-> draft.nodes[gone[k]]]])

applyDeleteSubtree(draft, o) ==
    LET gone == subtree(draft, o.id)
    IN  IF o.id \notin DOMAIN draft.nodes THEN Failed
        ELSE applied(deleteSubtree(draft, o.id),
                     [k \in DOMAIN gone |->
                        [op |-> "insertNode", id |-> gone[k],
                         node |-> draft.nodes[gone[k]]]])

applyMoveSubtree(draft, o) ==
    IF o.id \notin DOMAIN draft.nodes \/ ~requireParent(draft, o.parent) THEN Failed
    ELSE applied(moveNode(draft, o.id, o.parent, o.key),
                 <<[op |-> "moveSubtree", id |-> o.id,
                    parent |-> draft.nodes[o.id].parent,
                    key |-> draft.nodes[o.id].key]>>)

\* #checkFieldHash
checkFieldHash(present, expected) ==
    expected # None => present \in Values /\ Canonical[present] = expected

applyFieldOperation(draft, o) ==
    LET fields  == draft.nodes[o.id].fields
        present == getBomFieldPath(fields, o.path)
        undone  == IF present # None
                   THEN [op |-> "updateField", id |-> o.id, path |-> o.path,
                         value |-> present, expected |-> None]
                   ELSE [op |-> "unsetField", id |-> o.id, expected |-> None,
                         path |-> IF o.op = "updateField"
                                  THEN missingPrefix(fields, o.path) ELSE o.path]
        after   == IF o.op = "updateField" THEN o.value
                   ELSE unsetBomFieldPath(fields, o.path)
    IN  IF o.id \notin DOMAIN draft.nodes THEN Failed
        ELSE IF \/ hasBomFieldPathTypeConflict(fields, o.path)
                \/ ~checkFieldHash(present, o.expected)
        THEN Failed
        ELSE applied(replaceNode(draft, o.id,
                        [draft.nodes[o.id] EXCEPT !.fields = after]), <<undone>>)

applySetMaterialRef(draft, o) ==
    IF o.id \notin DOMAIN draft.nodes THEN Failed
    ELSE applied(replaceNode(draft, o.id, [draft.nodes[o.id] EXCEPT !.code = o.code]),
                 <<[op |-> "setMaterialRef", id |-> o.id,
                    code |-> draft.nodes[o.id].code]>>)

applyReorder(draft, o) ==
    IF o.id \notin DOMAIN draft.nodes THEN Failed
    ELSE applied(setPositions(draft, draft.nodes[o.id].parent, [i \in {o.id} |-> o.key]),
                 <<[op |-> "reorder", id |-> o.id, key |-> draft.nodes[o.id].key]>>)

\* #validateRebalance: all children get a key of their own, in their order.
validateRebalance(draft, o) ==
    LET siblings == draft.children[o.parent]
    IN  /\ requireParent(draft, o.parent)
        /\ DOMAIN o.keys = ToSet(siblings)
        /\ \A i, j \in DOMAIN siblings :
             i < j => precedes(o.keys[siblings[i]], o.keys[siblings[j]])

applyRebalance(draft, o) ==
    IF ~validateRebalance(draft, o) THEN Failed
    ELSE applied(setPositions(draft, o.parent, o.keys),
                 <<[op |-> "rebalancePositions", parent |-> o.parent,
                    keys |-> [i \in ToSet(draft.children[o.parent]) |->
                                draft.nodes[i].key]]>>)

applyOperation(draft, o) ==
    IF completeness = "partial" /\ ~isFieldOperation(o) /\ o.op # "setMaterialRef"
    THEN Failed
    ELSE CASE o.op = "insertNode"         -> applyInsertNode(draft, o)
           [] o.op = "deleteSubtree"      -> applyDeleteSubtree(draft, o)
           [] o.op = "moveSubtree"        -> applyMoveSubtree(draft, o)
           [] o.op \in {"updateField", "unsetField"} -> applyFieldOperation(draft, o)
           [] o.op = "setMaterialRef"     -> applySetMaterialRef(draft, o)
           [] o.op = "reorder"            -> applyReorder(draft, o)
           [] o.op = "rebalancePositions" -> applyRebalance(draft, o)

\* The draft after some operations, with the inverse of all of them: the
\* last operation is undone first.
applyNext(done, o) ==
    andThen(done, LAMBDA d :
        andThen(applyOperation(d.draft, o), LAMBDA next :
            applied(next.draft, next.inverse \o d.inverse)))

applyOperations(draft, operations) ==
    LET done[n \in 0 .. Len(operations)] ==
            IF n = 0 THEN applied(draft, <<>>) ELSE applyNext(done[n - 1], operations[n])
    IN  done[Len(operations)]

\* The commands of a batch are compiled one by one, each for the draft the
\* ones before it left behind.
compileNext(done, c) ==
    andThen(done, LAMBDA d :
        andThen(compileCommand(d.draft, c), LAMBDA compiled :
            andThen(applyOperations(d.draft, compiled.operations), LAMBDA next :
                [d EXCEPT !.draft = next.draft, !.operations = @ \o compiled.operations])))

compileBatch(e, commands) ==
    LET done[n \in 0 .. Len(commands)] ==
            IF n = 0 THEN [ok |-> TRUE, draft |-> draftOf(e.document), operations |-> <<>>]
            ELSE compileNext(done[n - 1], commands[n])
    IN  done[Len(commands)]

-----------------------------------------------------------------------------
(* #commitPatch *)

\* What becomes of the draft: field operations leave the indexes alone and
\* only the changed nodes are normalised, everything else is checked and
\* indexed anew.
normalized(e, draft, operations) ==
    LET fieldOnly == \A k \in DOMAIN operations : isFieldOperation(operations[k])
        nodes == [i \in DOMAIN draft.nodes |->
                    IF ~fieldOnly \/ i \in draft.changed
                    THEN [draft.nodes[i] EXCEPT !.fields = canonicalFields(@)]
                    ELSE draft.nodes[i]]
        accepted == IF fieldOnly
                    THEN \A i \in draft.changed : nodes[i].fields \notin Refused
                    ELSE normalizable(nodes)
    IN  IF ~accepted THEN Failed
        ELSE [ok |-> TRUE,
              document |-> IF fieldOnly THEN [e.document EXCEPT !.nodes = nodes]
                           ELSE documentOf(nodes)]

sizeOf(entry) == Len(entry.operations)
totalSize(entries) ==
    LET size[n \in 0 .. Len(entries)] ==
            IF n = 0 THEN 0 ELSE size[n - 1] + sizeOf(entries[n])
    IN  size[Len(entries)]

\* #recordHistory: redo is forgotten, and the oldest entries are while the
\* budget is exceeded.
recordHistory(h, entry) ==
    LET all    == Append(h.undo, entry)
        within(n) == LET left == SubSeq(all, n + 1, Len(all))
                     IN  Len(left) <= MaxEntries /\ totalSize(left) <= MaxBytes
        evicted == CHOOSE n \in 0 .. Len(all) :
                     within(n) /\ \A m \in 0 .. n - 1 : ~within(m)
        dropped == totalSize(h.redo) + totalSize(SubSeq(all, 1, evicted))
    IN  [undo    |-> SubSeq(all, evicted + 1, Len(all)),
         redo    |-> <<>>,
         bytes   |-> h.bytes + sizeOf(entry) - dropped,
         evicted |-> h.evicted + evicted]

\* The engine e with the operations committed.  commands is what is replayed
\* later: the commands of a batch, or nothing for a patch.
commitPatch(e, transaction, operations, recorded, commands) ==
    LET entry(next, inverse) ==
            [transaction |-> transaction, operations |-> operations,
             inverse |-> inverse, commands |-> commands,
             before |-> e.document.nodes, after |-> next.nodes,
             overRemote |-> FALSE]
    IN  IF operations = <<>> THEN Failed
        ELSE andThen(applyOperations(draftOf(e.document), operations), LAMBDA done :
             andThen(normalized(e, done.draft, operations), LAMBDA next :
               [ok |-> TRUE, document |-> next.document, revision |-> e.revision + 1,
                history |-> IF recorded
                            THEN recordHistory(e.history, entry(next.document, done.inverse))
                            ELSE e.history]))

executeCapturedBatch(e, transaction, commands) ==
    andThen(compileBatch(e, commands), LAMBDA compiled :
        commitPatch(e, transaction, compiled.operations, TRUE, commands))

become(e) ==
    /\ document' = e.document /\ revision' = e.revision /\ history' = e.history
    /\ UNCHANGED completeness

\* A call leaves the engine as its result says, unless it failed or the
\* host's beforeApply turned it down.
conclude(result) ==
    \E r \in {result} : r.ok /\ revision < MaxRevisions /\ become(r)

-----------------------------------------------------------------------------
(* The calls *)

EngineInit ==
    /\ completeness \in {"complete", "partial"}
    /\ document = documentOf(FirstNodes)
    /\ revision = 0
    /\ history = [undo |-> <<>>, redo |-> <<>>, bytes |-> 0, evicted |-> 0]

\* Does the command move a node below itself?  Only a batch can get away with
\* it, by moving on before it ends.
entersItself(draft, c) ==
    /\ c.type = "moveSubtree" /\ c.id \in DOMAIN draft.nodes
    /\ c.parent \in ToSet(subtree(draft, c.id))

\* What counts towards the bound MaxCommands.
inHistory == totalSize(history.undo) + totalSize(history.redo)

\* The commands the document allows; a batch that starts with another fails.
allowed == {c \in Command : compileBatch(state, <<c>>).ok}

\* The batches of n commands.
batchesOf(n) ==
    UNION {{<<c>> \o rest : rest \in [1 .. n - 1 -> Command]} : c \in allowed}

\* Callers name each transaction differently; its number stands for its name.
Batches ==
    UNION {batchesOf(n) : n \in {m \in 1 .. MaxBatch : /\ inHistory + m <= MaxCommands
                                                     /\ revision + m < MaxRevisions}}

\* execute and executeBatch
ExecuteBatch ==
    /\ revision < MaxRevisions
    /\ \E commands \in Batches :
         /\ CyclicMoves \/ ~entersItself(draftOf(document), commands[1])
         /\ conclude(executeCapturedBatch(state, revision + 1, commands))

\* What another client's command compiled to, or a reorder.
RemotePatches ==
    IF revision + 1 >= MaxRevisions THEN {}
    ELSE {compileBatch(state, <<c>>).operations : c \in allowed}
         \cup {<<[op |-> "reorder", id |-> i, key |-> k]>> : i \in Ids, k \in PatchKeys}

\* applyPatch makes an entry of it, reconciliation does not.
Patches == IF inHistory >= MaxCommands THEN {} ELSE RemotePatches

ApplyPatch ==
    /\ revision < MaxRevisions
    /\ \E operations \in Patches :
         conclude(commitPatch(state, revision + 1, operations, TRUE, <<>>))

\* Undo and redo commit the operations of an entry without recording them.
undone == commitPatch(state, revision + 1, Last(history.undo).inverse, FALSE, <<>>)
redone == commitPatch(state, revision + 1, Last(history.redo).operations, FALSE, <<>>)

Undo ==
    /\ history.undo # <<>>
    /\ conclude(andThen(undone, LAMBDA u :
           [u EXCEPT !.history.undo = Front(@),
                     !.history.redo = Append(@, Last(history.undo))]))

Redo ==
    /\ history.redo # <<>>
    /\ conclude(andThen(redone, LAMBDA r :
           [r EXCEPT !.history.redo = Front(@),
                     !.history.undo = Append(@, Last(history.redo))]))

\* #reconcileCaptured: the entries from the k-th on are taken
\* back, newest first, remote operations are applied, and all but the k-th
\* are replayed.  The work is done on a copy of the engine, and counts only
\* if all of it succeeds.
withoutSuffix(k) ==
    LET h == history
        cut == SubSeq(h.undo, k, Len(h.undo))
    IN  [state EXCEPT
            !.history.undo = SubSeq(@, 1, k - 1),
            !.history.bytes = @ - totalSize(cut)]

takeBack(e, entry) ==
    andThen(e, LAMBDA d : commitPatch(d, 0, entry.inverse, FALSE, <<>>))

rolledBack(suffix, e) ==
    LET back[n \in 0 .. Len(suffix)] ==
            IF n = 0 THEN e ELSE takeBack(back[n - 1], suffix[Len(suffix) + 1 - n])
    IN  back[Len(suffix)]

withRemote(e, remote) ==
    IF remote = <<>> THEN e
    ELSE andThen(e, LAMBDA d :
         andThen(commitPatch(d, 0, remote, FALSE, <<>>), LAMBDA c :
             [c EXCEPT !.history.undo =
                 [i \in DOMAIN @ |-> [@[i] EXCEPT !.overRemote = TRUE]]]))

replay(e, entry) ==
    andThen(e, LAMBDA d :
        IF entry.commands = <<>>
        THEN commitPatch(d, entry.transaction, entry.operations, TRUE, <<>>)
        ELSE executeCapturedBatch(d, entry.transaction, entry.commands))

replayed(descendants, e) ==
    LET forward[n \in 0 .. Len(descendants)] ==
            IF n = 0 THEN e ELSE replay(forward[n - 1], descendants[n])
    IN  forward[Len(descendants)]

ReconcileHistorySuffix ==
    /\ history.redo = <<>>
    /\ revision < MaxRevisions
    /\ \E k \in DOMAIN history.undo, remote \in RemotePatches \cup {<<>>} :
         LET suffix == SubSeq(history.undo, k, Len(history.undo))
         IN  conclude(replayed(Tail(suffix),
                      withRemote(rolledBack(suffix, withoutSuffix(k)), remote)))

EngineNext == ExecuteBatch \/ ApplyPatch \/ Undo \/ Redo \/ ReconcileHistorySuffix

EngineSpec == EngineInit /\ [][EngineNext]_engineVars

-----------------------------------------------------------------------------
(* Properties *)

\* What field-only transactions keep and structural ones rebuild is always
\* what a new index of the document would say, and the document is one the
\* model accepts, though field-only transactions never check its structure.
IndexesAgree ==
    /\ document = documentOf(document.nodes)
    /\ normalizable(document.nodes)
    /\ \A i \in DOMAIN document.nodes :
         document.nodes[i].fields = canonicalFields(document.nodes[i].fields)

\* The history leads from document to document: each entry starts where the
\* one before it ended, the document is where the newest entry ended, and
\* where the next one to redo starts.  Entries that lie below operations of
\* the DataSource, which reconciliation commits unrecorded, are excepted.
HistoryChains ==
    LET undo == history.undo
        redo == history.redo
        current(nodes) == document.nodes = nodes
    IN  /\ undo # <<>> /\ ~Last(undo).overRemote => current(Last(undo).after)
        /\ redo # <<>> /\ ~Last(redo).overRemote => current(Last(redo).before)
        /\ \A i \in 1 .. Len(undo) - 1 :
             ~undo[i].overRemote => undo[i].after = undo[i + 1].before
        /\ \A i \in 1 .. Len(redo) - 1 :
             ~redo[i].overRemote => redo[i].before = redo[i + 1].after

\* The history keeps to its budget and counts its bytes right, through
\* eviction, redo, and the rewriting of its end.
HistoryWithinBudget ==
    /\ history.bytes = totalSize(history.undo) + totalSize(history.redo)
    /\ history.bytes <= MaxBytes
    /\ Len(history.undo) + Len(history.redo) <= MaxEntries

\* What the history holds can be applied: undo and redo never fail for want
\* of a node, a place or a key, and lead along a chain of documents, through
\* every eviction, replay and rewriting of the history's end.
HistoryApplies ==
    /\ HistoryChains /\ HistoryWithinBudget
    /\ history.undo # <<>> /\ ~Last(history.undo).overRemote => undone.ok
    /\ history.redo # <<>> /\ ~Last(history.redo).overRemote => redone.ok

\* Every transaction has an inverse that can be generated and applied, whatever
\* its batch did before it ended (section 4.4 of the design document).
EveryTransactionHasAnInverse ==
    history.undo # <<>> /\ ~Last(history.undo).overRemote => undone.ok
=============================================================================
