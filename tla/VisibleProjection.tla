-------------------------- MODULE VisibleProjection --------------------------
(***************************************************************************)
(* The visible projection: which rows of the tree are shown, in which      *)
(* order and at which offset.  Expanding, collapsing and resizing a row    *)
(* change the projection in place: the shown rows are an AVL tree that is  *)
(* cut and joined (rope.ts), and every row caches how many rows its        *)
(* subtree shows, so that a collapse knows how many rows to take out.      *)
(* A query or a structural change builds a new projection instead.         *)
(*                                                                         *)
(* A rope node is a record of its subtrees and caches; the parent links    *)
(* of the code are left out, an index is the place of a row in the walk.   *)
(***************************************************************************)
EXTENDS Naturals, SequencesExt

CONSTANTS
    Rows,          \* occurrence ids
    Root,          \* the null parent
    Kids,          \* the document: parent -> its children in order
    Queries,       \* view queries: [filtered, matches, backwards]
    Heights,       \* heights a row can be given; the default is 1
    MaxProjectionCalls   \* bound: calls on the projection

ASSUME ProjectionAssumption ==
    /\ Root \notin Rows
    /\ Kids \in [Rows \cup {Root} -> Seq(Rows)]
    /\ MaxProjectionCalls \in Nat

VARIABLES
    view,    \* viewChildrenByParent
    open,    \* #expanded
    sizes,   \* #visibleSubtreeSizes
    tall,    \* #rowHeightOverrides, as the height of every row
    rope,    \* #rope and #visibleNodeById
    calls

projectionVars == <<view, open, sizes, tall, rope, calls>>

-----------------------------------------------------------------------------
(* The rope.                                                               *)

Nil == [height |-> 0, count |-> 0, pixels |-> 0]

heightOf(t) == t.height
countOf(t)  == t.count

higher(a, b) == IF a > b THEN a ELSE b

\* A node that carries the row of e over two subtrees.
recalculate(left, e, right) ==
    [row |-> e.row, px |-> e.px, left |-> left, right |-> right,
     height |-> higher(left.height, right.height) + 1,
     count  |-> left.count + right.count + 1,
     pixels |-> left.pixels + e.px + right.pixels]

rotateLeft(t) ==
    LET up == t.right
    IN recalculate(recalculate(t.left, t, up.left), up, up.right)

rotateRight(t) ==
    LET up == t.left
    IN recalculate(up.left, up, recalculate(up.right, t, t.right))

rebalance(t) ==
    CASE t.left.height > t.right.height + 1 ->
           rotateRight(IF t.left.left.height < t.left.right.height
                       THEN recalculate(rotateLeft(t.left), t, t.right) ELSE t)
      [] t.right.height > t.left.height + 1 ->
           rotateLeft(IF t.right.right.height < t.right.left.height
                      THEN recalculate(t.left, t, rotateRight(t.right)) ELSE t)
      [] OTHER -> t

\* The pivot goes down the spine of the higher tree until the heights fit.
RECURSIVE joinWithPivot(_, _, _)
joinWithPivot(left, e, right) ==
    CASE left.height > right.height + 1 ->
           rebalance(recalculate(left.left, left,
               IF left.right.height > right.height + 1
               THEN joinWithPivot(left.right, e, right)
               ELSE recalculate(left.right, e, right)))
      [] right.height > left.height + 1 ->
           rebalance(recalculate(
               IF right.left.height > left.height + 1
               THEN joinWithPivot(left, e, right.left)
               ELSE recalculate(left, e, right.left), right, right.right))
      [] OTHER -> recalculate(left, e, right)

RECURSIVE split(_, _)
split(t, n) ==
    IF t = Nil THEN [left |-> Nil, right |-> Nil]
    ELSE IF n <= t.left.count
    THEN LET s == split(t.left, n)
         IN [left |-> s.left, right |-> joinWithPivot(s.right, t, t.right)]
    ELSE LET s == split(t.right, n - t.left.count - 1)
         IN [left |-> joinWithPivot(t.left, t, s.left), right |-> s.right]

concatenate(left, right) ==
    IF left = Nil THEN right
    ELSE IF right = Nil THEN left
    ELSE LET s == split(left, left.count - 1)
         IN joinWithPivot(s.left, s.right, right)

RECURSIVE buildBalanced(_)
buildBalanced(entries) ==
    IF entries = <<>> THEN Nil
    ELSE LET middle == Len(entries) \div 2 + 1
         IN recalculate(buildBalanced(SubSeq(entries, 1, middle - 1)),
                        entries[middle],
                        buildBalanced(SubSeq(entries, middle + 1, Len(entries))))

insert(t, index, entries) ==
    LET s == split(t, index)
    IN concatenate(concatenate(s.left, buildBalanced(entries)), s.right)

remove(t, index, amount) ==
    LET s == split(t, index)
    IN concatenate(s.left, split(s.right, amount).right)

RECURSIVE collectNodes(_)
collectNodes(t) ==
    IF t = Nil THEN <<>>
    ELSE collectNodes(t.left) \o <<[row |-> t.row, px |-> t.px]>> \o collectNodes(t.right)

RECURSIVE setHeight(_, _, _)
setHeight(t, index, px) ==
    CASE index < t.left.count -> recalculate(setHeight(t.left, index, px), t, t.right)
      [] index = t.left.count -> recalculate(t.left, [row |-> t.row, px |-> px], t.right)
      [] OTHER -> recalculate(t.left, t, setHeight(t.right, index - t.left.count - 1, px))

RECURSIVE nodeAtOffset(_, _)
nodeAtOffset(t, offset) ==
    CASE offset < t.left.pixels -> nodeAtOffset(t.left, offset)
      [] offset < t.left.pixels + t.px -> t.row
      [] OTHER -> nodeAtOffset(t.right, offset - t.left.pixels - t.px)

RECURSIVE countStartingBefore(_, _)
countStartingBefore(t, offset) ==
    IF t = Nil THEN 0
    ELSE IF t.left.pixels < offset
    THEN t.left.count + 1 +
         (IF offset < t.left.pixels + t.px THEN 0
          ELSE countStartingBefore(t.right, offset - t.left.pixels - t.px))
    ELSE countStartingBefore(t.left, offset)

-----------------------------------------------------------------------------
(* The projection.                                                         *)

parentOf(r) == CHOOSE p \in Rows \cup {Root} : Contains(Kids[p], r)

RECURSIVE includeAncestors(_)
includeAncestors(ids) ==
    LET parents == {parentOf(r) : r \in ids} \ {Root}
    IN IF parents \subseteq ids THEN ids ELSE includeAncestors(ids \cup parents)

\* The children each row shows under a query; every sort that moves rows is
\* the reversed order here.
buildViewChildrenByParent(q) ==
    LET included == IF q.filtered THEN includeAncestors(q.matches) ELSE Rows
        kept(p)  == SelectSeq(Kids[p], LAMBDA r : r \in included)
    IN [p \in Rows \cup {Root} |-> IF q.backwards THEN Reverse(kept(p)) ELSE kept(p)]

\* The rows below p in order, through the rows of a set only.
RECURSIVE preorder(_, _, _)
preorder(v, through, p) ==
    FlattenSeq([i \in DOMAIN v[p] |->
        <<v[p][i]>> \o (IF v[p][i] \in through THEN preorder(v, through, v[p][i]) ELSE <<>>)])

collectViewPreorder(v) == preorder(v, Rows, Root)

includedBy(v) == ToSet(collectViewPreorder(v))

\* How many rows r would show, itself included.
subtreeSize(v, opened, r) == IF r \in opened THEN 1 + Len(preorder(v, opened, r)) ELSE 1

entriesOf(ids, heights) == [i \in DOMAIN ids |-> [row |-> ids[i], px |-> heights[ids[i]]]]

\* createVisibleProjection: expansion is kept for included rows only.
Created(v, opened, heights) ==
    /\ view'  = v
    /\ open'  = opened \cap includedBy(v)
    /\ tall'  = heights
    /\ sizes' = [r \in includedBy(v) |-> subtreeSize(v, opened, r)]
    /\ rope'  = buildBalanced(entriesOf(preorder(v, opened, Root), heights))

ProjectionInit ==
    \E v \in {buildViewChildrenByParent([filtered |-> FALSE, matches |-> {}, backwards |-> FALSE])} :
        /\ view  = v
        /\ open  = {}
        /\ tall  = [r \in Rows |-> 1]
        /\ sizes = [r \in Rows |-> 1]
        /\ rope  = buildBalanced(entriesOf(v[Root], [r \in Rows |-> 1]))
        /\ calls = 0

Call == calls < MaxProjectionCalls /\ calls' = calls + 1

\* The ancestors whose cached size a change below them reaches: the chain of
\* expanded parents, up to the first one that is not.
RECURSIVE expandedAncestors(_)
expandedAncestors(r) ==
    LET p == parentOf(r)
    IN IF p = Root \/ p \notin open THEN {} ELSE {p} \cup expandedAncestors(p)

(* Mutant: only the parent's cached size is adjusted.                      *)
adjustsParentOnly(now, r, gained, lost) ==
    [s \in DOMAIN now |->
        IF s \in expandedAncestors(r) /\ s = parentOf(r)
        THEN now[s] + gained - lost ELSE now[s]]

adjustExpandedAncestorSizes(now, r, gained, lost) ==
    [s \in DOMAIN now |->
        IF s \in expandedAncestors(r) THEN now[s] + gained - lost ELSE now[s]]

shown == [i \in 1..rope.count |-> collectNodes(rope)[i].row]

isShown(r) == Contains(shown, r)

indexOf(r) == CHOOSE i \in 0..rope.count - 1 : shown[i + 1] = r

Expand(r) ==
    /\ Call
    /\ r \in DOMAIN sizes \ open
    /\ \E ids \in {preorder(view, open, r)} :
        /\ sizes' = adjustExpandedAncestorSizes(
                        [sizes EXCEPT ![r] = 1 + Len(ids)], r, Len(ids), 0)
        /\ rope' = IF isShown(r) /\ ids # <<>>
                   THEN insert(rope, indexOf(r) + 1, entriesOf(ids, tall)) ELSE rope
    /\ open' = open \cup {r}
    /\ UNCHANGED <<view, tall>>

\* The cached size says how many rows leave the rope.
Collapse(r) ==
    /\ Call
    /\ r \in open
    /\ sizes' = adjustExpandedAncestorSizes([sizes EXCEPT ![r] = 1], r, 0, sizes[r] - 1)
    /\ rope' = IF isShown(r) /\ sizes[r] > 1
               THEN remove(rope, indexOf(r) + 1, sizes[r] - 1) ELSE rope
    /\ open' = open \ {r}
    /\ UNCHANGED <<view, tall>>

setRowHeight(r, px) ==
    /\ Call
    /\ r \in DOMAIN sizes
    /\ tall[r] # px
    /\ tall' = [tall EXCEPT ![r] = px]
    /\ rope' = IF isShown(r) THEN setHeight(rope, indexOf(r), px) ELSE rope
    /\ UNCHANGED <<view, open, sizes>>

\* setViewQuery and #setExpansionAll build a projection of the same document.
Requery(q) ==
    /\ Call
    /\ view # buildViewChildrenByParent(q)
    /\ Created(buildViewChildrenByParent(q), open, tall)

ExpandAll(all) ==
    /\ Call
    /\ \E parents \in {{r \in Rows : all /\ Kids[r] # <<>>}} :
        /\ open # parents
        /\ Created(view, parents, tall)

ProjectionNext ==
    \/ \E r \in Rows : Expand(r) \/ Collapse(r)
    \/ \E r \in Rows, px \in Heights : setRowHeight(r, px)
    \/ \E q \in Queries : Requery(q)
    \/ \E all \in BOOLEAN : ExpandAll(all)

-----------------------------------------------------------------------------
(* Properties.                                                             *)

\* Where every row ends, the pixels above the first row included.
endsOf(nodes) ==
    LET ends[i \in 0..Len(nodes)] == IF i = 0 THEN 0 ELSE ends[i - 1] + nodes[i].px IN ends

\* The first and the last place windowByOffset takes for a stretch of pixels.
windowByOffset(from, to) ==
    [first |-> indexOf(nodeAtOffset(rope, from)) + 1,
     last  |-> countStartingBefore(rope, to)]

RECURSIVE balanced(_)
balanced(t) ==
    \/ t = Nil
    \/ /\ t.left.height <= t.right.height + 1
       /\ t.right.height <= t.left.height + 1
       /\ t = recalculate(t.left, t, t.right)
       /\ balanced(t.left) /\ balanced(t.right)

\* The window of a stretch of pixels holds exactly the rows that meet it.
windowIsExact ==
    \E ends \in {endsOf(collectNodes(rope))} :
         \A from \in 0..rope.pixels - 1, to \in 1..rope.pixels :
             from < to =>
             windowByOffset(from, to) =
                 [first |-> CHOOSE i \in 1..rope.count : ends[i - 1] <= from /\ from < ends[i],
                  last  |-> CHOOSE i \in 1..rope.count : ends[i - 1] < to /\ to <= ends[i]]

(* After any sequence of expansions, collapses, height changes, queries    *)
(* and rebuilds the rope lists exactly the rows of the walk through the    *)
(* expanded rows, at their heights, and every included row's cached size   *)
(* is the number of rows it would show; the rope stays balanced, and the   *)
(* rows found for a stretch of pixels are those that meet it               *)
(* (projection.ts:409 and 338, rope.ts:293).                               *)
ProjectionIsTheOpenTree ==
    /\ collectNodes(rope) = entriesOf(preorder(view, open, Root), tall)
    /\ DOMAIN sizes = includedBy(view)
    /\ \A r \in DOMAIN sizes : sizes[r] = subtreeSize(view, open, r)
    /\ balanced(rope)
    /\ windowIsExact

=============================================================================
