------------------------------ MODULE BomTree -------------------------------
(***************************************************************************)
(* The tree of a bill of materials: its nodes with their parents, position *)
(* keys and data; the operations a transaction's draft performs on it; and *)
(* the checks a tree must pass to become a document.                       *)
(*                                                                         *)
(* A node's fields are abstracted to one object "p" with one member "q",   *)
(* which is enough to tell apart an absent object, an empty one, one with  *)
(* a member, and a scalar that is in the way of the path p.q.              *)
(***************************************************************************)
EXTENDS PositionKeys, TLC

CONSTANTS
    Ids,          \* occurrence identifiers
    Materials,    \* those of material nodes; the others are groups
    Values,       \* what the field p.q can hold
    Refused,      \* values the schema refuses
    Codes,        \* material codes
    MaximumDepth, \* of the schema
    Canonical     \* the canonical form of each value

\* The parent of a root, the code of a node without one, and the fields of
\* a node without the object p, with an empty one, with a scalar in its place.
Root   == "root"
NoCode == "no code"
None   == "none"
Empty  == "empty"
Scalar == "scalar"

ASSUME TreeAssumption ==
    /\ IsFiniteSet(Ids) /\ Materials \subseteq Ids /\ Refused \subseteq Values
    /\ Root \notin Ids /\ NoCode \notin Codes
    /\ {None, Empty, Scalar} \cap Values = {}
    /\ Canonical \in [Values -> Values]
    /\ \A v \in Values : Canonical[Canonical[v]] = Canonical[v]
    /\ MaximumDepth \in Nat \ {0}

Fields  == {None, Empty, Scalar} \cup Values
Parents == Ids \cup {Root}
Node    == [parent : Parents, key : Keys, fields : Fields,
            code : Codes \cup {NoCode}]

\* The path of p and that of p.q.
Paths == {"p", "p.q"}

-----------------------------------------------------------------------------
(* field-path.ts *)

\* getBomFieldPath: what is at a path, None if nothing is.
getBomFieldPath(fields, path) ==
    IF path = "p" \/ fields \in Values THEN fields ELSE None

hasBomFieldPathTypeConflict(fields, path) == path = "p.q" /\ fields = Scalar

\* findFirstMissingBomFieldPathPrefix
missingPrefix(fields, path) == IF fields = None THEN "p" ELSE path

\* unsetBomFieldPath
unsetBomFieldPath(fields, path) ==
    IF path = "p" THEN None ELSE IF fields \in Values THEN Empty ELSE fields

\* normalizeBomFields: the canonical fields; the schema may refuse them.
canonicalFields(fields) == IF fields \in Values THEN Canonical[fields] ELSE fields

-----------------------------------------------------------------------------
(* draft.ts: a draft is a set of nodes and the ordered children of each.    *)

\* Siblings in the order of their keys, with id after those it does not precede.
sortedIn(nodes, siblings, id) ==
    LET left == {k \in DOMAIN siblings : ~precedes(nodes[id].key, nodes[siblings[k]].key)}
    IN  InsertAt(siblings, Cardinality(left) + 1, id)

\* #sortChildren: a stable sort by key.
sortChildren(nodes, children) ==
    LET sorted[n \in 0 .. Len(children)] ==
            IF n = 0 THEN <<>> ELSE sortedIn(nodes, sorted[n - 1], children[n])
    IN  sorted[Len(children)]

\* #removeChild
removeChild(siblings, id) ==
    LET at == {k \in DOMAIN siblings : siblings[k] = id}
    IN  IF at = {} THEN siblings
        ELSE RemoveAt(siblings, CHOOSE n \in at : \A j \in at : n <= j)

\* The draft a transaction starts from.
draftOf(document) ==
    [nodes |-> document.nodes, children |-> document.children, changed |-> {}]

insertNode(draft, id, node) ==
    LET nodes == [i \in DOMAIN draft.nodes \cup {id} |->
                    IF i = id THEN node ELSE draft.nodes[i]]
    IN  [draft EXCEPT
            !.nodes = nodes,
            !.children[node.parent] = sortChildren(nodes, Append(@, id))]

\* What is visited when what was visited before is left out.
firstTimes(met) ==
    LET visited[n \in 0 .. Len(met)] ==
            IF n = 0 THEN <<>>
            ELSE IF met[n] \in ToSet(visited[n - 1]) THEN visited[n - 1]
            ELSE Append(visited[n - 1], met[n])
    IN  visited[Len(met)]

\* The nodes below id, parents first.  A node that was moved below itself is
\* met again on the way down, and left out the second time.
subtree(draft, id) ==
    LET walk[n \in 0 .. Cardinality(Ids)] ==
            IF n = 0 THEN [i \in Ids |-> <<>>]
            ELSE [i \in Ids |->
                    IF i \notin DOMAIN draft.nodes THEN <<>>
                    ELSE <<i>> \o FlattenSeq([k \in DOMAIN draft.children[i] |->
                                                 walk[n - 1][draft.children[i][k]]])]
    IN  firstTimes(walk[Cardinality(Ids)][id])

deleteSubtree(draft, id) ==
    LET gone == ToSet(subtree(draft, id))
        kept == DOMAIN draft.nodes \ gone
        parent == draft.nodes[id].parent
    IN  [nodes    |-> [i \in kept |-> draft.nodes[i]],
         children |-> [p \in Parents |->
                         IF p \in gone THEN <<>>
                         ELSE IF p = parent THEN removeChild(draft.children[p], id)
                         ELSE draft.children[p]],
         changed  |-> draft.changed \ gone]

moveNode(draft, id, parent, key) ==
    LET left  == [draft.children EXCEPT ![draft.nodes[id].parent] = removeChild(@, id)]
        nodes == [draft.nodes EXCEPT ![id].parent = parent, ![id].key = key]
    IN  [draft EXCEPT
            !.nodes = nodes,
            !.children = [left EXCEPT ![parent] =
                            sortChildren(nodes, Append(@, id))]]

replaceNode(draft, id, node) ==
    [draft EXCEPT !.nodes[id] = node, !.changed = @ \cup {id}]

\* setPosition and setPositions: keys is a function on some of the children.
setPositions(draft, parent, keys) ==
    LET nodes == [i \in DOMAIN draft.nodes |->
                    IF i \in DOMAIN keys
                    THEN [draft.nodes[i] EXCEPT !.key = keys[i]]
                    ELSE draft.nodes[i]]
    IN  [draft EXCEPT !.nodes = nodes,
                      !.children[parent] = sortChildren(nodes, @)]

-----------------------------------------------------------------------------
(* model/src/snapshot.ts and indexes.ts *)

\* What the structure of a document depends on.
placesOf(nodes) ==
    [i \in DOMAIN nodes |-> [parent |-> nodes[i].parent, key |-> nodes[i].key]]

\* detectCycles, and the depth of each node: the number of steps up to Root.
stepsUp(places) ==
    LET up[n \in Nat, i \in Parents] ==
            IF n = 0 \/ i = Root THEN i ELSE up[n - 1, places[i].parent]
    IN  [i \in DOMAIN places |->
            {n \in 1 .. Cardinality(Ids) : up[n, i] = Root}]

\* validateAndOrderStructure
isTree(places) ==
    /\ \A i \in DOMAIN places : places[i].parent \in DOMAIN places \cup {Root}
    /\ \A i, j \in DOMAIN places :
         i # j /\ places[i].parent = places[j].parent => places[i].key # places[j].key
    /\ \A i \in DOMAIN places :
         \E n \in stepsUp(places)[i] : n <= MaximumDepth

\* With the checks of normalizeNodes that depend on more than the shape of a
\* node.
normalizable(nodes) ==
    /\ isTree(placesOf(nodes))
    /\ \A i \in DOMAIN nodes :
         /\ nodes[i].fields \notin Refused
         /\ i \in Materials => nodes[i].code # NoCode

\* buildBomIndexes
childrenAt(places) ==
    [p \in Parents |->
        sortChildren(places, SetToSeq({i \in DOMAIN places : places[i].parent = p}))]

childrenByParent(nodes) == childrenAt(placesOf(nodes))

rowsByMaterialCode(nodes) ==
    [c \in Codes |-> {i \in DOMAIN nodes \cap Materials : nodes[i].code = c}]

\* A document: normalised nodes, with the indexes built from them.
documentOf(nodes) ==
    [nodes |-> nodes, children |-> childrenByParent(nodes),
     materials |-> rowsByMaterialCode(nodes)]
=============================================================================
