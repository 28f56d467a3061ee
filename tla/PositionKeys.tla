---------------------------- MODULE PositionKeys ----------------------------
(***************************************************************************)
(* Position keys order the children of a node.  A key is a string of       *)
(* printable ASCII characters, here a non-empty sequence of digits below   *)
(* Radix, and two keys compare lexicographically, a prefix first.  A key   *)
(* is made between two neighbours when one of at most KeyBytes digits      *)
(* exists in the places the generator looks at; otherwise all siblings are *)
(* given new, evenly spread keys.                                          *)
(***************************************************************************)
EXTENDS Naturals, Sequences, SequencesExt

CONSTANTS
    Radix,    \* how many characters a key is made of (95 in the code)
    KeyBytes  \* positionKeyMaxBytes

ASSUME KeysAssumption == Radix \in Nat \ {0, 1} /\ KeyBytes \in Nat \ {0}

Digit == 0 .. Radix - 1

\* No neighbour on that side, and the answer when no key can be made.
NoKey == <<>>

\* validatePositionKey
Keys == UNION {[1 .. n -> Digit] : n \in 1 .. KeyBytes}

\* The length of the longest common prefix.
common(l, r) ==
    LET equal(n) == n <= Len(l) /\ n <= Len(r) /\ \A i \in 1 .. n : l[i] = r[i]
    IN  CHOOSE n \in 0 .. Len(l) : equal(n) /\ ~equal(n + 1)

\* comparePositionKeys(l, r) < 0
precedes(l, r) ==
    LET n == common(l, r) + 1
    IN  \/ n > Len(l) /\ n <= Len(r)
        \/ n <= Len(l) /\ n <= Len(r) /\ l[n] < r[n]

middle == (Radix - 1) \div 2

appendMiddle(l) == Append(l, middle)

createBefore(r) ==
    IF r[1] > 0 THEN <<(r[1] - 1) \div 2>>
    ELSE IF Len(r) > 1 THEN <<r[1]>> ELSE NoKey

createBetween(l, r) ==
    LET n == common(l, r) + 1
    IN  IF n > Len(l)
        THEN IF r[n] > 0 THEN Append(l, (r[n] - 1) \div 2)
             ELSE IF Len(r) > n THEN SubSeq(r, 1, n) ELSE NoKey
        ELSE IF r[n] - l[n] > 1
             THEN Append(SubSeq(l, 1, n - 1), (l[n] + r[n]) \div 2)
             ELSE appendMiddle(l)

createPositionKeyBetween(l, r) ==
    LET key == CASE l = NoKey /\ r = NoKey -> <<middle>>
                 [] l # NoKey /\ r = NoKey -> appendMiddle(l)
                 [] l = NoKey /\ r # NoKey -> createBefore(r)
                 [] OTHER -> createBetween(l, r)
        ordered == l # NoKey /\ r # NoKey => precedes(l, r)
    IN  IF /\ ordered
           /\ key \in Keys
           /\ l # NoKey => precedes(l, key)
           /\ r # NoKey => precedes(key, r)
        THEN key ELSE NoKey

\* encodeFixedWidthPosition: the digits of value, most significant first.
encodeFixedWidthPosition(value, width) ==
    [i \in 1 .. width |-> (value \div (Radix ^ (width - i))) % Radix]

\* The keys of count siblings, or <<>> when there are not enough of them.
rebalancePositionKeys(count) ==
    LET widths == {w \in 1 .. KeyBytes : Radix ^ w > count + 1}
        width  == CHOOSE w \in widths : \A v \in widths : w <= v
    IN  IF widths = {} THEN <<>>
        ELSE [i \in 1 .. count |->
                encodeFixedWidthPosition(
                    (i * Radix ^ width) \div (count + 1), width)]
=============================================================================
