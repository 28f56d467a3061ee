-------------------------- MODULE EditorView_proofs --------------------------
(***************************************************************************)
(* Proofs about four parts of the editor's view.                          *)
(*                                                                         *)
(* The undo and redo stacks stay together with the columns on the screen   *)
(* and with the engine's stacks.  The inductive invariant says it of the   *)
(* whole stacks where the property says it of their tops: each column      *)
(* entry begins with the layout the one below it ended in, and the         *)
(* document entries are the engine's newest, one by one.  An open resize   *)
(* session is left out: what counts is the columns it began with.          *)
(*                                                                         *)
(* Strokes run the binding they belong to.  The invariant adds that the    *)
(* sequence under way is what was typed last, stroke by stroke, and that   *)
(* what is configured is one of the host's valid offers.                   *)
(*                                                                         *)
(* The gestures of the grid end well.  What the property says of the       *)
(* gestures is inductive with the kinds of their frames and the pointers   *)
(* that are down; the work is in the order a column drag asks for, which   *)
(* is shown to be one the editor takes for whatever columns are hidden.    *)
(*                                                                         *)
(* The selection of the tree view is on the screen.  The invariant says it *)
(* of every part a selection is made of, the range an extension starts     *)
(* from included, which no property of the whole selection mentions; the   *)
(* lemmas follow the operators: each one makes a selection that is shown   *)
(* of one that is, and sanitizing makes one of any selection at all.       *)
(***************************************************************************)
EXTENDS EditorHistory, Shortcuts, TreeView, GridGestures, SequenceLemmas, FiniteSetTheorems, TLAPS

-----------------------------------------------------------------------------
(* Induction.                                                              *)

LEMMA CountedSet == \A n \in Nat : IsFiniteSet(1 .. n) /\ Cardinality(1 .. n) = n
<1> SUFFICES ASSUME NEW n \in Nat PROVE IsFiniteSet(1 .. n) /\ Cardinality(1 .. n) = n
  OBVIOUS
<1>1. PICK one \in Int, last \in Int : one = 1 /\ last = n
  OBVIOUS
<1>2. IsFiniteSet(one .. last)
  BY FS_Interval
<1>3. Cardinality(one .. last) = IF one > last THEN 0 ELSE last - one + 1
  BY FS_Interval
<1> QED
  BY <1>1, <1>2, <1>3

LEMMA FrontAndLast ==
  ASSUME NEW A, NEW s \in Seq(A), s # <<>>
  PROVE  s = Append(Front(s), Last(s)) /\ Front(s) \in Seq(A) /\ Last(s) \in A
<1>1. /\ Front(s) \in Seq(A) /\ Len(Front(s)) = Len(s) - 1
      /\ \A i \in 1 .. Len(s) - 1 : Front(s)[i] = s[i]
  BY FrontProperties
<1>2. Last(s) \in A /\ Len(s) \in Nat \ {0} /\ Last(s) = s[Len(s)]
  BY LastIsElement
<1>3. PICK u : u = Append(Front(s), Last(s))
  OBVIOUS
<1>4. /\ u \in Seq(A) /\ Len(u) = Len(Front(s)) + 1
      /\ \A i \in 1 .. Len(Front(s)) : u[i] = Front(s)[i]
      /\ u[Len(Front(s)) + 1] = Last(s)
  BY <1>1, <1>2, <1>3, AppendProperties
<1>5. Len(u) = Len(s) /\ \A i \in 1 .. Len(s) : u[i] = s[i]
  BY <1>1, <1>2, <1>4
<1>6. u = s
  BY <1>4, <1>5, SeqEqual
<1> QED
  BY <1>1, <1>2, <1>3, <1>6

LEMMA SequencesGrow ==
  ASSUME NEW A, NEW T, <<>> \in T,
         \A s \in Seq(A) : s \in T => \A x \in A : Append(s, x) \in T
  PROVE  Seq(A) \subseteq T
<1> DEFINE U == {n \in Nat : \A s \in Seq(A) : Len(s) = n => s \in T}
<1>1. 0 \in U
  <2>1. ASSUME NEW s \in Seq(A), Len(s) = 0 PROVE s \in T
    BY <2>1, EmptySeq
  <2> QED
    BY <2>1
<1>2. ASSUME NEW k \in Nat, k \in U PROVE k + 1 \in U
  <2>1. ASSUME NEW s \in Seq(A), Len(s) = k + 1 PROVE s \in T
    <3>1. s # <<>>
      BY <2>1, EmptySeq
    <3>2. s = Append(Front(s), Last(s)) /\ Front(s) \in Seq(A) /\ Last(s) \in A
      BY <3>1, FrontAndLast
    <3>3. Len(Front(s)) = k
      BY <2>1, <3>1, FrontProperties
    <3> QED
      BY <1>2, <3>2, <3>3
  <2> QED
    BY <2>1
<1> HIDE DEF U
<1>3. Nat \subseteq U
  BY <1>1, <1>2, CountingUp
<1>4. ASSUME NEW s \in Seq(A) PROVE s \in T
  <2>1. Len(s) \in U
    BY <1>3, LenProperties
  <2> QED
    BY <2>1 DEF U
<1> QED
  BY <1>4

-----------------------------------------------------------------------------
(* The document entries of a stack.                                        *)

\* The recursion of documents.
Sifts(s, g) ==
  g = [n \in 0 .. Len(s) |->
        IF n = 0 THEN <<>>
        ELSE IF isDocument(s[n]) THEN Append(g[n - 1], s[n]) ELSE g[n - 1]]

LEMMA SiftsExists ==
  ASSUME NEW A, NEW s \in Seq(A)
  PROVE  \E g : Sifts(s, g)
<1> DEFINE T == {t \in Seq(A) : \E g : Sifts(t, g)}
<1>1. <<>> \in T
  <2>1. [n \in 0 .. 0 |-> <<>>] = [n \in 0 .. 0 |-> IF n = 0 THEN <<>> ELSE <<>>]
    OBVIOUS
  <2>2. Sifts(<<>>, [n \in 0 .. 0 |-> <<>>])
    BY DEF Sifts
  <2> QED
    BY <2>2, EmptySeq
<1>2. ASSUME NEW t \in Seq(A), t \in T, NEW x \in A PROVE Append(t, x) \in T
  <2>1. PICK g : Sifts(t, g)
    BY <1>2
  <2>2. PICK u : u = Append(t, x)
    OBVIOUS
  <2>3. /\ u \in Seq(A) /\ Len(u) = Len(t) + 1 /\ Len(t) \in Nat
        /\ \A i \in 1 .. Len(t) : u[i] = t[i]
    BY <2>2, AppendProperties, LenProperties
  <2> DEFINE h == [n \in 0 .. Len(u) |->
                     IF n <= Len(t) THEN g[n]
                     ELSE IF isDocument(u[n]) THEN Append(g[n - 1], u[n]) ELSE g[n - 1]]
  <2>4. ASSUME NEW n \in 0 .. Len(u)
        PROVE  h[n] = IF n = 0 THEN <<>>
                      ELSE IF isDocument(u[n]) THEN Append(h[n - 1], u[n]) ELSE h[n - 1]
    <3>1. CASE n <= Len(t)
      <4>1. g[n] = IF n = 0 THEN <<>>
                   ELSE IF isDocument(t[n]) THEN Append(g[n - 1], t[n]) ELSE g[n - 1]
        <5>1. n \in 0 .. Len(t)
          BY <2>3, <3>1
        <5> QED
          BY <2>1, <5>1 DEF Sifts
      <4>2. h[n] = g[n] /\ (n # 0 => h[n - 1] = g[n - 1] /\ u[n] = t[n])
        BY <2>3, <3>1
      <4> QED
        BY <4>1, <4>2
    <3>2. CASE ~(n <= Len(t))
      <4>1. n # 0 /\ h[n - 1] = g[n - 1]
        BY <2>3, <3>2
      <4> QED
        BY <3>2, <4>1
    <3> QED
      BY <3>1, <3>2
  <2>5. Sifts(u, h)
    BY <2>4 DEF Sifts
  <2> QED
    BY <2>2, <2>3, <2>5
<1> HIDE DEF T
<1>3. Seq(A) \subseteq T
  BY <1>1, <1>2, SequencesGrow
<1> QED
  BY <1>3 DEF T

LEMMA DocumentsAreSifted ==
  ASSUME NEW A, NEW s \in Seq(A)
  PROVE  \E g : Sifts(s, g) /\ documents(s) = g[Len(s)]
<1> DEFINE g == CHOOSE h : h = [n \in 0 .. Len(s) |->
                 IF n = 0 THEN <<>>
                 ELSE IF isDocument(s[n]) THEN Append(h[n - 1], s[n]) ELSE h[n - 1]]
<1>1. documents(s) = g[Len(s)]
  BY DEF documents
<1>2. PICK f : Sifts(s, f)
  BY SiftsExists
<1>3. Sifts(s, g)
  BY <1>2 DEF Sifts
<1> QED
  BY <1>1, <1>3

LEMMA SiftsAgree ==
  ASSUME NEW A, NEW s \in Seq(A), NEW x \in A, NEW g, Sifts(s, g), NEW h, Sifts(Append(s, x), h)
  PROVE  g[Len(s)] = h[Len(s)]
<1>1. PICK u : u = Append(s, x)
  OBVIOUS
<1>2. /\ Len(u) = Len(s) + 1 /\ Len(s) \in Nat /\ \A i \in 1 .. Len(s) : u[i] = s[i]
  BY <1>1, AppendProperties, LenProperties
<1> DEFINE T == {n \in Nat : n <= Len(s) => g[n] = h[n]}
<1>3. \A n \in 0 .. Len(s) : g[n] = IF n = 0 THEN <<>>
         ELSE IF isDocument(s[n]) THEN Append(g[n - 1], s[n]) ELSE g[n - 1]
  BY DEF Sifts
<1>4. \A n \in 0 .. Len(u) : h[n] = IF n = 0 THEN <<>>
         ELSE IF isDocument(u[n]) THEN Append(h[n - 1], u[n]) ELSE h[n - 1]
  BY <1>1 DEF Sifts
<1>5. 0 \in T
  BY <1>2, <1>3, <1>4
<1>6. ASSUME NEW k \in Nat, k \in T PROVE k + 1 \in T
  <2>1. CASE k + 1 <= Len(s)
    <3>1. k + 1 \in 0 .. Len(s) /\ k + 1 \in 0 .. Len(u) /\ k + 1 # 0 /\ k + 1 - 1 = k
          /\ k <= Len(s) /\ u[k + 1] = s[k + 1]
      BY <1>2, <2>1
    <3>2. g[k] = h[k]
      BY <1>6, <3>1
    <3>3. g[k + 1] = h[k + 1]
      BY <1>3, <1>4, <3>1, <3>2
    <3> QED
      BY <3>3
  <2> QED
    BY <2>1
<1> HIDE DEF T
<1>7. Len(s) \in T
  BY <1>2, <1>5, <1>6, CountingUp
<1> QED
  BY <1>2, <1>7 DEF T

LEMMA DocumentsOfNone == documents(<<>>) = <<>>
<1>1. <<>> \in Seq({}) /\ Len(<<>>) = 0
  BY EmptySeq
<1>2. PICK g : Sifts(<<>>, g) /\ documents(<<>>) = g[Len(<<>>)]
  BY <1>1, DocumentsAreSifted
<1> QED
  BY <1>1, <1>2 DEF Sifts

LEMMA DocumentsOfAppend ==
  ASSUME NEW A, NEW s \in Seq(A), NEW x \in A
  PROVE  documents(Append(s, x)) =
           IF isDocument(x) THEN Append(documents(s), x) ELSE documents(s)
<1>1. PICK u : u = Append(s, x)
  OBVIOUS
<1>2. /\ u \in Seq(A) /\ Len(u) = Len(s) + 1 /\ Len(s) \in Nat /\ u[Len(s) + 1] = x
  BY <1>1, AppendProperties, LenProperties
<1>3. PICK g : Sifts(s, g) /\ documents(s) = g[Len(s)]
  BY DocumentsAreSifted
<1>4. PICK h : Sifts(u, h) /\ documents(u) = h[Len(u)]
  BY <1>2, DocumentsAreSifted
<1>5. g[Len(s)] = h[Len(s)]
  BY <1>1, <1>3, <1>4, SiftsAgree
<1>6. h[Len(s) + 1] = IF isDocument(x) THEN Append(h[Len(s)], x) ELSE h[Len(s)]
  <2>1. Len(s) + 1 \in 0 .. Len(u) /\ Len(s) + 1 # 0 /\ Len(s) + 1 - 1 = Len(s)
    BY <1>2
  <2>2. PICK m : m = Len(s) + 1
    OBVIOUS
  <2>3. h[m] = IF m = 0 THEN <<>>
               ELSE IF isDocument(u[m]) THEN Append(h[m - 1], u[m]) ELSE h[m - 1]
    BY <1>4, <2>1, <2>2 DEF Sifts
  <2> QED
    BY <1>2, <2>1, <2>2, <2>3
<1> QED
  BY <1>1, <1>2, <1>3, <1>4, <1>5, <1>6

\* What one sequence ends with.
endsIn(t, s) ==
    /\ Len(t) <= Len(s)
    /\ \A i \in 0 .. Len(t) - 1 : t[Len(t) - i] = s[Len(s) - i]

LEMMA EndsWithItself ==
  ASSUME NEW A, NEW s \in Seq(A)
  PROVE  endsIn(s, s)
BY LenProperties DEF endsIn

LEMMA EndsWithEnds ==
  ASSUME NEW A, NEW s \in Seq(A), NEW t \in Seq(A), NEW u \in Seq(A), endsIn(u, t), endsIn(t, s)
  PROVE  endsIn(u, s)
<1>1. Len(s) \in Nat /\ Len(t) \in Nat /\ Len(u) \in Nat
  BY LenProperties
<1>2. ASSUME NEW i \in 0 .. Len(u) - 1 PROVE u[Len(u) - i] = s[Len(s) - i]
  <2>1. i \in 0 .. Len(t) - 1
    BY <1>1 DEF endsIn
  <2>2. u[Len(u) - i] = t[Len(t) - i] /\ t[Len(t) - i] = s[Len(s) - i]
    BY <2>1 DEF endsIn
  <2> QED
    BY <2>2
<1> QED
  BY <1>1, <1>2 DEF endsIn

LEMMA DocumentsAreDocuments ==
  ASSUME NEW A, NEW s \in Seq(A)
  PROVE  /\ documents(s) \in Seq(A) /\ Len(documents(s)) <= Len(s)
         /\ \A i \in DOMAIN documents(s) : isDocument(documents(s)[i])
<1> DEFINE good(t) == /\ documents(t) \in Seq(A) /\ Len(documents(t)) <= Len(t)
                      /\ \A i \in DOMAIN documents(t) : isDocument(documents(t)[i])
           T == {t \in Seq(A) : good(t)}
<1>1. <<>> \in T
  <2>1. documents(<<>>) = <<>> /\ <<>> \in Seq(A) /\ Len(<<>>) = 0 /\ DOMAIN <<>> = {}
    BY EmptySeq, DocumentsOfNone
  <2>2. PICK d : d = documents(<<>>)
    OBVIOUS
  <2>3. d \in Seq(A) /\ Len(d) <= Len(<<>>) /\ DOMAIN d = {}
    <3>1. d = <<>>
      BY <2>1, <2>2
    <3>2. d \in Seq(A)
      BY <2>1, <3>1
    <3>3. Len(d) = Len(<<>>) /\ Len(<<>>) \in Nat
      BY <3>1, EmptySeq
    <3>4. DOMAIN d = {}
      BY <2>1, <3>1
    <3> QED
      BY <3>2, <3>3, <3>4
  <2>4. d \in Seq(A) /\ Len(d) <= Len(<<>>) /\ \A i \in DOMAIN d : isDocument(d[i])
    BY <2>3
  <2> QED
    BY <2>1, <2>2, <2>4
<1>2. ASSUME NEW t \in Seq(A), t \in T, NEW x \in A PROVE Append(t, x) \in T
  <2>1. PICK d : d = documents(t)
    OBVIOUS
  <2>2. /\ d \in Seq(A) /\ Len(d) <= Len(t) /\ Len(d) \in Nat /\ Len(t) \in Nat
        /\ DOMAIN d = 1 .. Len(d) /\ \A i \in DOMAIN d : isDocument(d[i])
    BY <1>2, <2>1, LenProperties
  <2>3. PICK u : u = Append(t, x)
    OBVIOUS
  <2>4. u \in Seq(A) /\ Len(u) = Len(t) + 1
    BY <2>3, AppendProperties
  <2>5. documents(u) = IF isDocument(x) THEN Append(d, x) ELSE d
    BY <2>1, <2>3, DocumentsOfAppend
  <2>6. CASE isDocument(x)
    <3>1. PICK e : e = Append(d, x)
      OBVIOUS
    <3>2. /\ e \in Seq(A) /\ Len(e) = Len(d) + 1 /\ DOMAIN e = 1 .. Len(d) + 1
          /\ \A i \in 1 .. Len(d) : e[i] = d[i]
          /\ e[Len(d) + 1] = x
      BY <2>2, <3>1, AppendProperties, LenProperties
    <3>3. \A i \in DOMAIN e : isDocument(e[i])
      BY <2>2, <2>6, <3>2
    <3>4. documents(u) = e /\ Len(e) <= Len(u)
      BY <2>2, <2>4, <2>5, <2>6, <3>1, <3>2
    <3>5. good(u)
      BY <3>2, <3>3, <3>4
    <3> QED
      BY <2>3, <2>4, <3>5
  <2>7. CASE ~isDocument(x)
    BY <2>2, <2>3, <2>4, <2>5, <2>7
  <2> QED
    BY <2>6, <2>7
<1> HIDE DEF T
<1>3. Seq(A) \subseteq T
  BY <1>1, <1>2, SequencesGrow
<1> QED
  BY <1>3 DEF T

LEMMA DocumentsOfDocuments ==
  ASSUME NEW A, NEW s \in Seq(A), \A i \in DOMAIN s : isDocument(s[i])
  PROVE  documents(s) = s
<1> DEFINE good(t) == (\A i \in DOMAIN t : isDocument(t[i])) => documents(t) = t
           T == {t \in Seq(A) : good(t)}
<1>1. <<>> \in T
  BY EmptySeq, DocumentsOfNone
<1>2. ASSUME NEW t \in Seq(A), t \in T, NEW x \in A PROVE Append(t, x) \in T
  <2>1. PICK u : u = Append(t, x)
    OBVIOUS
  <2>2. /\ u \in Seq(A) /\ DOMAIN u = 1 .. Len(t) + 1 /\ DOMAIN t = 1 .. Len(t) /\ Len(t) \in Nat
        /\ \A i \in 1 .. Len(t) : u[i] = t[i]
        /\ u[Len(t) + 1] = x
    BY <2>1, AppendProperties, LenProperties
  <2>3. ASSUME \A i \in DOMAIN u : isDocument(u[i]) PROVE documents(u) = u
    <3>1. isDocument(x) /\ \A i \in DOMAIN t : isDocument(t[i])
      BY <2>2, <2>3
    <3>2. documents(t) = t
      BY <1>2, <3>1
    <3> QED
      BY <2>1, <3>1, <3>2, DocumentsOfAppend
  <2> QED
    BY <2>1, <2>2, <2>3
<1> HIDE DEF T
<1>3. Seq(A) \subseteq T
  BY <1>1, <1>2, SequencesGrow
<1> QED
  BY <1>3 DEF T

LEMMA DocumentsOfNoDocuments ==
  ASSUME NEW A, NEW s \in Seq(A), \A i \in DOMAIN s : ~isDocument(s[i])
  PROVE  documents(s) = <<>>
<1>1. PICK d : d = documents(s)
  OBVIOUS
<1> DEFINE good(t) == (\A i \in DOMAIN t : ~isDocument(t[i])) => documents(t) = <<>>
           T == {t \in Seq(A) : good(t)}
<1>2. <<>> \in T
  BY EmptySeq, DocumentsOfNone
<1>3. ASSUME NEW t \in Seq(A), t \in T, NEW x \in A PROVE Append(t, x) \in T
  <2>1. PICK u : u = Append(t, x)
    OBVIOUS
  <2>2. /\ u \in Seq(A) /\ DOMAIN u = 1 .. Len(t) + 1 /\ DOMAIN t = 1 .. Len(t) /\ Len(t) \in Nat
        /\ \A i \in 1 .. Len(t) : u[i] = t[i]
        /\ u[Len(t) + 1] = x
    BY <2>1, AppendProperties, LenProperties
  <2>3. ASSUME \A i \in DOMAIN u : ~isDocument(u[i]) PROVE documents(u) = <<>>
    <3>1. ~isDocument(x) /\ \A i \in DOMAIN t : ~isDocument(t[i])
      BY <2>2, <2>3
    <3>2. documents(t) = <<>>
      BY <1>3, <3>1
    <3> QED
      BY <2>1, <3>1, <3>2, DocumentsOfAppend
  <2> QED
    BY <2>1, <2>2, <2>3
<1> HIDE DEF T
<1>4. Seq(A) \subseteq T
  BY <1>2, <1>3, SequencesGrow
<1> QED
  BY <1>4 DEF T

LEMMA ConcatThenAppend ==
  ASSUME NEW A, NEW a \in Seq(A), NEW s \in Seq(A), NEW x \in A
  PROVE  a \o Append(s, x) = Append(a \o s, x)
<1>1. <<x>> \in Seq(A)
  OBVIOUS
<1>2. a \o s \in Seq(A)
  BY ConcatProperties
<1>3. Append(s, x) = s \o <<x>> /\ Append(a \o s, x) = (a \o s) \o <<x>>
  BY <1>2, AppendIsConcat
<1>4. (a \o s) \o <<x>> = a \o (s \o <<x>>)
  BY <1>1, ConcatAssociative
<1> QED
  BY <1>3, <1>4

LEMMA DocumentsOfConcat ==
  ASSUME NEW A, NEW a \in Seq(A), NEW s \in Seq(A)
  PROVE  documents(a \o s) = documents(a) \o documents(s)
<1> DEFINE T == {t \in Seq(A) : documents(a \o t) = documents(a) \o documents(t)}
<1>1. <<>> \in T
  <2>1. documents(a) \in Seq(A)
    BY DocumentsAreDocuments
  <2>2. a \o <<>> = a /\ documents(a) \o <<>> = documents(a)
    BY <2>1, ConcatEmptySeq
  <2> QED
    BY <2>2, EmptySeq, DocumentsOfNone
<1>2. ASSUME NEW t \in Seq(A), t \in T, NEW x \in A PROVE Append(t, x) \in T
  <2>1. PICK d, e : d = documents(a) /\ e = documents(t)
    OBVIOUS
  <2>2. d \in Seq(A) /\ e \in Seq(A) /\ documents(a \o t) = d \o e
    BY <1>2, <2>1, DocumentsAreDocuments
  <2>3. a \o Append(t, x) = Append(a \o t, x)
    BY ConcatThenAppend
  <2>4. a \o t \in Seq(A)
    BY ConcatProperties
  <2>5. documents(Append(a \o t, x)) = IF isDocument(x) THEN Append(d \o e, x) ELSE d \o e
    BY <2>2, <2>4, DocumentsOfAppend
  <2>6. documents(Append(t, x)) = IF isDocument(x) THEN Append(e, x) ELSE e
    BY <2>1, DocumentsOfAppend
  <2>7. d \o Append(e, x) = Append(d \o e, x)
    BY <2>2, ConcatThenAppend
  <2>8. documents(a \o Append(t, x)) = documents(a) \o documents(Append(t, x))
    BY <2>1, <2>3, <2>5, <2>6, <2>7
  <2>9. Append(t, x) \in Seq(A)
    BY AppendProperties
  <2> QED
    BY <2>8, <2>9
<1> HIDE DEF T
<1>3. Seq(A) \subseteq T
  BY <1>1, <1>2, SequencesGrow
<1> QED
  BY <1>3 DEF T

LEMMA EndOfConcat ==
  ASSUME NEW A, NEW a \in Seq(A), NEW s \in Seq(A)
  PROVE  endsIn(s, a \o s) /\ Len(s) <= Len(a \o s) /\ Len(a \o s) = Len(a) + Len(s)
<1>1. PICK u : u = a \o s
  OBVIOUS
<1>2. /\ Len(u) = Len(a) + Len(s) /\ Len(a) \in Nat /\ Len(s) \in Nat
      /\ \A i \in 1 .. Len(a) + Len(s) : u[i] = IF i <= Len(a) THEN a[i] ELSE s[i - Len(a)]
  BY <1>1, ConcatProperties, LenProperties
<1>3. ASSUME NEW i \in 0 .. Len(s) - 1 PROVE s[Len(s) - i] = u[Len(u) - i]
  <2>1. /\ Len(u) - i \in 1 .. Len(a) + Len(s) /\ ~(Len(u) - i <= Len(a))
        /\ Len(u) - i - Len(a) = Len(s) - i
    BY <1>2, <1>3
  <2> QED
    BY <1>2, <2>1
<1> QED
  BY <1>1, <1>2, <1>3 DEF endsIn

LEMMA NewestEnds ==
  ASSUME NEW A, NEW s \in Seq(A), NEW n \in Nat
  PROVE  /\ newest(s, n) \in Seq(A) /\ Len(newest(s, n)) <= n
         /\ Len(newest(s, n)) = IF Len(s) > n THEN n ELSE Len(s)
         /\ \E m \in Nat : /\ m + Len(newest(s, n)) = Len(s)
                           /\ \A i \in 1 .. Len(newest(s, n)) : newest(s, n)[i] = s[i + m]
         /\ s = SubSeq(s, 1, Len(s) - Len(newest(s, n))) \o newest(s, n)
         /\ SubSeq(s, 1, Len(s) - Len(newest(s, n))) \in Seq(A)
<1>1. Len(s) \in Nat
  BY LenProperties
<1>2. PICK m : m = (IF Len(s) > n THEN Len(s) - n ELSE 0)
  OBVIOUS
<1>3. m \in 0 .. Len(s) /\ m \in Nat
  BY <1>1, <1>2
<1>4. PICK u : u = newest(s, n)
  OBVIOUS
<1>5. u = SubSeq(s, m + 1, Len(s))
  BY <1>1, <1>2, <1>4 DEF newest
<1>6. /\ u \in Seq(A) /\ Len(u) = IF m + 1 <= Len(s) THEN Len(s) - (m + 1) + 1 ELSE 0
      /\ \A i \in 1 .. Len(s) - (m + 1) + 1 : u[i] = s[m + 1 + i - 1]
  <2>1. \A i \in m + 1 .. Len(s) : s[i] \in A
    BY <1>1, <1>3, ElementOfSeq
  <2>2. m + 1 \in Int /\ Len(s) \in Int
    BY <1>1, <1>3
  <2> QED
    BY <1>5, <2>1, <2>2, SubSeqProperties
<1>7. Len(u) = Len(s) - m /\ Len(u) \in Nat
  BY <1>1, <1>3, <1>6
<1>8. \A i \in 1 .. Len(u) : u[i] = s[i + m]
  <2>1. ASSUME NEW i \in 1 .. Len(u) PROVE u[i] = s[i + m]
    <3>1. i \in 1 .. Len(s) - (m + 1) + 1 /\ m + 1 + i - 1 = i + m
      BY <1>1, <1>3, <1>7
    <3> QED
      BY <1>6, <3>1
  <2> QED
    BY <2>1
<1>9. s = SubSeq(s, 1, m) \o u /\ SubSeq(s, 1, m) \in Seq(A)
  <2>1. 1 \in 1 .. Len(s) + 1 /\ m \in 1 - 1 .. Len(s) /\ Len(s) \in m .. Len(s)
    BY <1>1, <1>3
  <2>2. SubSeq(s, 1, m) \o SubSeq(s, m + 1, Len(s)) = SubSeq(s, 1, Len(s))
    BY <2>1, ConcatAdjacentSubSeq
  <2>3. SubSeq(s, 1, Len(s)) = s
    BY SubSeqFull
  <2> QED
    BY <1>3, <1>5, <2>2, <2>3, PrefixProperties
<1>10. Len(u) = (IF Len(s) > n THEN n ELSE Len(s)) /\ Len(s) - Len(u) = m /\ m + Len(u) = Len(s)
  BY <1>1, <1>2, <1>7
<1>11. Len(u) <= n
  BY <1>1, <1>10
<1> QED
  BY <1>3, <1>4, <1>6, <1>8, <1>9, <1>10, <1>11

LEMMA NewestDocuments ==
  ASSUME NEW A, NEW s \in Seq(A), NEW n \in Nat
  PROVE  endsIn(documents(newest(s, n)), documents(s))
<1>1. PICK a, u : u = newest(s, n) /\ a = SubSeq(s, 1, Len(s) - Len(u))
  OBVIOUS
<1>2. a \in Seq(A) /\ u \in Seq(A) /\ s = a \o u
  <2>1. /\ newest(s, n) \in Seq(A)
        /\ s = SubSeq(s, 1, Len(s) - Len(newest(s, n))) \o newest(s, n)
        /\ SubSeq(s, 1, Len(s) - Len(newest(s, n))) \in Seq(A)
    BY NewestEnds
  <2> QED
    BY <1>1, <2>1
<1>3. documents(s) = documents(a) \o documents(u)
  BY <1>2, DocumentsOfConcat
<1>4. documents(a) \in Seq(A) /\ documents(u) \in Seq(A)
  BY <1>2, DocumentsAreDocuments
<1> QED
  BY <1>1, <1>3, <1>4, EndOfConcat

\* Where the oldest document is, and what dropping it leaves.
LEMMA OldestDrops ==
  ASSUME NEW A, NEW s \in Seq(A), documents(s) # <<>>
  PROVE  /\ dropOldestDocument(s) \in Seq(A)
         /\ endsIn(documents(dropOldestDocument(s)), documents(s))
         /\ Len(documents(s)) = Len(documents(dropOldestDocument(s))) + 1
         /\ Len(s) = Len(dropOldestDocument(s)) + 1
         /\ \E i \in 1 .. Len(s) :
              /\ isDocument(s[i])
              /\ \A k \in 1 .. Len(s) - 1 :
                   dropOldestDocument(s)[k] = IF k < i THEN s[k] ELSE s[k + 1]
<1>1. Len(s) \in Nat /\ DOMAIN s = 1 .. Len(s)
  BY LenProperties
<1>2. PICK i : i = CHOOSE k \in DOMAIN s : isDocument(s[k]) /\ \A j \in 1 .. k - 1 : ~isDocument(s[j])
  OBVIOUS
<1>3. i \in DOMAIN s /\ isDocument(s[i]) /\ \A j \in 1 .. i - 1 : ~isDocument(s[j])
  <2> DEFINE B == {k \in 1 .. Len(s) : isDocument(s[k])}
  <2>1. B # {}
    BY <1>1, DocumentsOfNoDocuments
  <2>2. PICK k \in B : \A j \in B : k <= j
    <3>1. B \in SUBSET Nat
      BY <1>1
    <3> HIDE DEF B
    <3> QED
      BY <2>1, <3>1, LeastNatural
  <2>3. ASSUME NEW j \in 1 .. k - 1 PROVE ~isDocument(s[j])
    <3>1. j \in 1 .. Len(s) /\ ~(k <= j)
      BY <1>1, <2>2, <2>3
    <3> QED
      BY <2>2, <3>1
  <2>4. k \in DOMAIN s /\ isDocument(s[k]) /\ \A j \in 1 .. k - 1 : ~isDocument(s[j])
    BY <1>1, <2>2, <2>3
  <2> QED
    BY <1>2, <2>4
<1>4. PICK a, x, b : a = SubSeq(s, 1, i - 1) /\ x = s[i] /\ b = SubSeq(s, i + 1, Len(s))
  OBVIOUS
<1>5. dropOldestDocument(s) = a \o b
  BY <1>2, <1>4 DEF dropOldestDocument, RemoveAt
<1>6. i \in 1 .. Len(s) /\ i \in Nat /\ x \in A
  BY <1>1, <1>3, <1>4, ElementOfSeq
<1>7. a \in Seq(A) /\ Len(a) = i - 1 /\ \A k \in 1 .. i - 1 : a[k] = s[k]
  <2>1. i - 1 \in 0 .. Len(s)
    BY <1>1, <1>6
  <2> QED
    BY <1>4, <2>1, PrefixProperties
<1>8. b \in Seq(A) /\ Len(b) = Len(s) - i /\ \A k \in 1 .. Len(s) - i : b[k] = s[i + k]
  <2>1. \A k \in i + 1 .. Len(s) : s[k] \in A
    BY <1>1, <1>6, ElementOfSeq
  <2>2. /\ b \in Seq(A) /\ Len(b) = IF i + 1 <= Len(s) THEN Len(s) - (i + 1) + 1 ELSE 0
        /\ \A k \in 1 .. Len(s) - (i + 1) + 1 : b[k] = s[i + 1 + k - 1]
    BY <1>1, <1>4, <1>6, <2>1, SubSeqProperties
  <2>3. ASSUME NEW k \in 1 .. Len(s) - i PROVE b[k] = s[i + k]
    <3>1. k \in 1 .. Len(s) - (i + 1) + 1 /\ i + 1 + k - 1 = i + k
      BY <1>1, <1>6
    <3> QED
      BY <2>2, <3>1
  <2>4. Len(b) = Len(s) - i
    <3>1. PICK n, m : n = Len(s) /\ m = Len(b)
      OBVIOUS
    <3>2. n \in Nat /\ i \in 1 .. n /\ m = IF i + 1 <= n THEN n - (i + 1) + 1 ELSE 0
      BY <1>1, <1>6, <2>2, <3>1
    <3>3. m = n - i
      BY <3>2
    <3> QED
      BY <3>1, <3>3
  <2>5. b \in Seq(A)
    BY <2>2
  <2> QED
    BY <2>3, <2>4, <2>5
<1>9. s = a \o (<<x>> \o b)
  <2>1. 1 \in 1 .. Len(s) + 1 /\ i - 1 \in 1 - 1 .. Len(s) /\ Len(s) \in i - 1 .. Len(s) /\ i - 1 + 1 = i
        /\ Len(s) \in i .. Len(s)
    BY <1>1, <1>6
  <2>2. SubSeq(s, 1, i - 1) \o SubSeq(s, i, Len(s)) = SubSeq(s, 1, Len(s))
    <3>1. PICK k : k = i - 1
      OBVIOUS
    <3>2. SubSeq(s, 1, k) \o SubSeq(s, k + 1, Len(s)) = SubSeq(s, 1, Len(s))
      BY <2>1, <3>1, ConcatAdjacentSubSeq
    <3> QED
      BY <2>1, <3>1, <3>2
  <2>3. SubSeq(s, 1, Len(s)) = s
    BY SubSeqFull
  <2>4. SubSeq(s, i, Len(s)) = <<s[i]>> \o SubSeq(s, i + 1, Len(s))
    BY <1>6, <2>1, SubSeqRecursiveFirst
  <2> QED
    BY <1>4, <2>2, <2>3, <2>4
<1>10. documents(a) = <<>>
  <2>1. \A k \in DOMAIN a : ~isDocument(a[k])
    BY <1>3, <1>7, LenProperties
  <2> QED
    BY <1>7, <2>1, DocumentsOfNoDocuments
<1>11. <<x>> \in Seq(A) /\ documents(<<x>>) = <<x>> /\ Len(<<x>>) = 1
  <2>1. <<x>> \in Seq(A) /\ <<>> \in Seq(A) /\ <<x>> = Append(<<>>, x) /\ Len(<<x>>) = 1
    BY <1>6
  <2>2. isDocument(x)
    BY <1>3, <1>4
  <2>3. documents(Append(<<>>, x)) = Append(documents(<<>>), x)
    BY <1>6, <2>1, <2>2, DocumentsOfAppend
  <2> QED
    BY <2>1, <2>3, DocumentsOfNone
<1>12. PICK d : d = documents(b)
  OBVIOUS
<1>13. d \in Seq(A) /\ <<x>> \o b \in Seq(A) /\ <<x>> \o d \in Seq(A)
  BY <1>8, <1>11, <1>12, DocumentsAreDocuments, ConcatProperties
<1>14. documents(s) = <<x>> \o d
  <2>1. documents(s) = documents(a) \o documents(<<x>> \o b)
    BY <1>7, <1>9, <1>13, DocumentsOfConcat
  <2>2. documents(<<x>> \o b) = <<x>> \o d
    BY <1>8, <1>11, <1>12, DocumentsOfConcat
  <2> QED
    BY <1>10, <1>13, <2>1, <2>2, ConcatEmptySeq
<1>15. documents(a \o b) = d
  <2>1. documents(a \o b) = documents(a) \o documents(b)
    BY <1>7, <1>8, DocumentsOfConcat
  <2>2. <<>> \o d = d
    BY <1>13, ConcatEmptySeq
  <2> QED
    BY <1>10, <1>12, <2>1, <2>2
<1>16. endsIn(d, <<x>> \o d) /\ Len(<<x>> \o d) = 1 + Len(d)
  BY <1>11, <1>13, EndOfConcat
<1>17. /\ a \o b \in Seq(A) /\ Len(a \o b) = Len(s) - 1
       /\ \A k \in 1 .. Len(s) - 1 : (a \o b)[k] = IF k < i THEN s[k] ELSE s[k + 1]
  <2>1. PICK u : u = a \o b
    OBVIOUS
  <2>2. /\ u \in Seq(A) /\ Len(u) = Len(a) + Len(b)
        /\ \A k \in 1 .. Len(a) + Len(b) : u[k] = IF k <= Len(a) THEN a[k] ELSE b[k - Len(a)]
    BY <1>7, <1>8, <2>1, ConcatProperties
  <2>3. Len(a) + Len(b) = Len(s) - 1
    BY <1>1, <1>6, <1>7, <1>8
  <2>4. ASSUME NEW k \in 1 .. Len(s) - 1 PROVE u[k] = IF k < i THEN s[k] ELSE s[k + 1]
    <3>1. CASE k < i
      <4>1. k \in 1 .. i - 1 /\ k <= Len(a)
        BY <1>1, <1>6, <1>7, <3>1
      <4> QED
        BY <1>7, <2>2, <2>3, <3>1, <4>1
    <3>2. CASE ~(k < i)
      <4>1. k - (i - 1) \in 1 .. Len(s) - i /\ ~(k <= Len(a)) /\ i + (k - (i - 1)) = k + 1
        BY <1>1, <1>6, <1>7, <3>2
      <4>2. u[k] = b[k - (i - 1)]
        BY <1>7, <2>2, <2>3, <4>1
      <4>3. PICK m : m = k - (i - 1)
        OBVIOUS
      <4>4. b[m] = s[i + m]
        BY <1>8, <4>1, <4>3
      <4> QED
        BY <3>2, <4>1, <4>2, <4>3, <4>4
    <3> QED
      BY <3>1, <3>2
  <2> QED
    BY <2>1, <2>2, <2>3, <2>4
<1>18. Len(d) \in Nat
  BY <1>13, LenProperties
<1>19. PICK v, w : v = dropOldestDocument(s) /\ w = documents(s)
  OBVIOUS
<1>20. v \in Seq(A) /\ Len(v) = Len(s) - 1 /\ documents(v) = d
  BY <1>5, <1>15, <1>17, <1>19
<1>21. endsIn(d, w) /\ Len(w) = Len(d) + 1
  BY <1>14, <1>16, <1>18, <1>19
<1>22. Len(s) = Len(v) + 1
  BY <1>1, <1>6, <1>20
<1>23. \A k \in 1 .. Len(s) - 1 : v[k] = IF k < i THEN s[k] ELSE s[k + 1]
  BY <1>5, <1>17, <1>19
<1>24. i \in 1 .. Len(s) /\ isDocument(s[i])
  BY <1>3, <1>6
<1> QED
  BY <1>19, <1>20, <1>21, <1>22, <1>23, <1>24

-----------------------------------------------------------------------------
(* The column entries of a stack go on from each other.                    *)

isColumns(e) == e.kind = "columns"

\* Each column entry goes on from the one below it, and the newest one ends here.
Chained(s, to, from, end) ==
    /\ \A i, j \in DOMAIN s :
          /\ i < j /\ isColumns(s[i]) /\ isColumns(s[j])
          /\ \A k \in DOMAIN s : i < k /\ k < j => ~isColumns(s[k])
          => s[i][to] = s[j][from]
    /\ \A i \in DOMAIN s :
          isColumns(s[i]) /\ (\A k \in DOMAIN s : i < k => ~isColumns(s[k])) => s[i][to] = end

LEMMA NotBoth == \A e : isDocument(e) => ~isColumns(e)
BY DEF isDocument, isColumns

LEMMA DroppingChains ==
  ASSUME NEW s, NEW t, NEW n \in Nat, DOMAIN s = 1 .. n + 1, DOMAIN t = 1 .. n,
         NEW i \in 1 .. n + 1, ~isColumns(s[i]),
         \A k \in 1 .. n : t[k] = IF k < i THEN s[k] ELSE s[k + 1],
         NEW to, NEW from, NEW end, Chained(s, to, from, end)
  PROVE  Chained(t, to, from, end)
<1> DEFINE at(k) == IF k < i THEN k ELSE k + 1
           back(k) == IF k < i THEN k ELSE k - 1
<1>1. \A k \in 1 .. n : at(k) \in 1 .. n + 1 /\ t[k] = s[at(k)]
  OBVIOUS
<1>2. \A k \in 1 .. n + 1 : k # i => back(k) \in 1 .. n /\ at(back(k)) = k
  OBVIOUS
<1>3. \A j \in 1 .. n : \A k \in 1 .. n + 1 : k # i /\ at(j) < k => j < back(k)
  OBVIOUS
<1>4. \A j \in 1 .. n : \A k \in 1 .. n + 1 : k # i /\ k < at(j) => back(k) < j
  OBVIOUS
<1>5. \A j, k \in 1 .. n : j < k => at(j) < at(k)
  OBVIOUS
<1> HIDE DEF at, back
<1>6. ASSUME NEW p \in DOMAIN t, NEW q \in DOMAIN t, p < q, isColumns(t[p]), isColumns(t[q]),
             \A k \in DOMAIN t : p < k /\ k < q => ~isColumns(t[k])
      PROVE  t[p][to] = t[q][from]
  <2>1. /\ at(p) \in DOMAIN s /\ at(q) \in DOMAIN s /\ at(p) < at(q)
        /\ isColumns(s[at(p)]) /\ isColumns(s[at(q)])
    BY <1>1, <1>5, <1>6
  <2>2. ASSUME NEW k \in DOMAIN s, at(p) < k, k < at(q) PROVE ~isColumns(s[k])
    <3>1. CASE k = i
      BY <3>1
    <3>2. CASE k # i
      <4>1. back(k) \in DOMAIN t /\ p < back(k) /\ back(k) < q /\ at(back(k)) = k
        BY <1>2, <1>3, <1>4, <2>2, <3>2
      <4>2. ~isColumns(t[back(k)])
        BY <1>6, <4>1
      <4> QED
        BY <1>1, <4>1, <4>2
    <3> QED
      BY <3>1, <3>2
  <2>3. s[at(p)][to] = s[at(q)][from]
    BY <2>1, <2>2 DEF Chained
  <2> QED
    BY <1>1, <2>3
<1>7. ASSUME NEW p \in DOMAIN t, isColumns(t[p]), \A k \in DOMAIN t : p < k => ~isColumns(t[k])
      PROVE  t[p][to] = end
  <2>1. at(p) \in DOMAIN s /\ isColumns(s[at(p)])
    BY <1>1, <1>7
  <2>2. ASSUME NEW k \in DOMAIN s, at(p) < k PROVE ~isColumns(s[k])
    <3>1. CASE k = i
      BY <3>1
    <3>2. CASE k # i
      <4>1. back(k) \in DOMAIN t /\ p < back(k) /\ at(back(k)) = k
        BY <1>2, <1>3, <2>2, <3>2
      <4>2. ~isColumns(t[back(k)])
        BY <1>7, <4>1
      <4> QED
        BY <1>1, <4>1, <4>2
    <3> QED
      BY <3>1, <3>2
  <2>3. s[at(p)][to] = end
    BY <2>1, <2>2 DEF Chained
  <2> QED
    BY <1>1, <2>3
<1> QED
  BY <1>6, <1>7 DEF Chained

LEMMA CuttingChains ==
  ASSUME NEW s, NEW t, NEW n \in Nat, NEW m \in Nat, DOMAIN s = 1 .. n + m, DOMAIN t = 1 .. n,
         \A k \in 1 .. n : t[k] = s[k + m],
         NEW to, NEW from, NEW end, Chained(s, to, from, end)
  PROVE  Chained(t, to, from, end)
<1>1. \A k \in 1 .. n : k + m \in DOMAIN s
  OBVIOUS
<1>2. \A p \in 1 .. n : \A k \in DOMAIN s : p + m < k => k - m \in 1 .. n /\ p < k - m /\ k - m + m = k
  OBVIOUS
<1>3. \A p \in 1 .. n : \A k \in DOMAIN s : k < p + m => k - m < p
  OBVIOUS
<1>4. ASSUME NEW p \in DOMAIN t, NEW q \in DOMAIN t, p < q, isColumns(t[p]), isColumns(t[q]),
             \A k \in DOMAIN t : p < k /\ k < q => ~isColumns(t[k])
      PROVE  t[p][to] = t[q][from]
  <2>1. PICK a, b : a = p + m /\ b = q + m
    OBVIOUS
  <2>2. a \in DOMAIN s /\ b \in DOMAIN s /\ a < b /\ t[p] = s[a] /\ t[q] = s[b]
    BY <1>1, <1>4, <2>1
  <2>3. ASSUME NEW k \in DOMAIN s, a < k, k < b PROVE ~isColumns(s[k])
    <3>1. PICK c : c = k - m
      OBVIOUS
    <3>2. c \in 1 .. n /\ p < c /\ c < q /\ c + m = k
      BY <1>2, <1>3, <2>1, <2>3, <3>1
    <3>3. ~isColumns(t[c]) /\ t[c] = s[c + m]
      BY <1>4, <3>2
    <3> QED
      BY <3>2, <3>3
  <2>4. s[a][to] = s[b][from]
    BY <1>4, <2>2, <2>3 DEF Chained
  <2> QED
    BY <2>2, <2>4
<1>5. ASSUME NEW p \in DOMAIN t, isColumns(t[p]), \A k \in DOMAIN t : p < k => ~isColumns(t[k])
      PROVE  t[p][to] = end
  <2>1. PICK a : a = p + m
    OBVIOUS
  <2>2. a \in DOMAIN s /\ t[p] = s[a]
    BY <1>1, <2>1
  <2>3. ASSUME NEW k \in DOMAIN s, a < k PROVE ~isColumns(s[k])
    <3>1. PICK c : c = k - m
      OBVIOUS
    <3>2. c \in 1 .. n /\ p < c /\ c + m = k
      BY <1>2, <2>1, <2>3, <3>1
    <3>3. ~isColumns(t[c]) /\ t[c] = s[c + m]
      BY <1>5, <3>2
    <3> QED
      BY <3>2, <3>3
  <2>4. s[a][to] = end
    BY <1>5, <2>2, <2>3 DEF Chained
  <2> QED
    BY <2>2, <2>4
<1> QED
  BY <1>4, <1>5 DEF Chained

\* Another entry leaves the chain, a column entry goes on from where it ended.
LEMMA AppendChains ==
  ASSUME NEW A, NEW s \in Seq(A), NEW x \in A, NEW to, NEW from, NEW end,
         Chained(s, to, from, IF isColumns(x) THEN x[from] ELSE end)
  PROVE  Chained(Append(s, x), to, from, IF isColumns(x) THEN x[to] ELSE end)
<1>1. PICK u, n : u = Append(s, x) /\ n = Len(s)
  OBVIOUS
<1>2. /\ n \in Nat /\ DOMAIN s = 1 .. n /\ DOMAIN u = 1 .. n + 1
      /\ \A k \in 1 .. n : u[k] = s[k]
      /\ u[n + 1] = x
  BY <1>1, AppendProperties, LenProperties
<1>3. \A k \in 1 .. n + 1 : k \in 1 .. n \/ k = n + 1
  BY <1>2
<1>4. ASSUME NEW p \in DOMAIN u, NEW q \in DOMAIN u, p < q, isColumns(u[p]), isColumns(u[q]),
             \A k \in DOMAIN u : p < k /\ k < q => ~isColumns(u[k])
      PROVE  u[p][to] = u[q][from]
  <2>1. p \in 1 .. n /\ u[p] = s[p]
    BY <1>2, <1>3, <1>4
  <2>2. CASE q \in 1 .. n
    <3>1. u[q] = s[q] /\ \A k \in DOMAIN s : p < k /\ k < q => ~isColumns(s[k])
      BY <1>2, <1>4, <2>2
    <3> QED
      BY <1>2, <1>4, <2>1, <2>2, <3>1 DEF Chained
  <2>3. CASE q = n + 1
    <3>1. isColumns(x) /\ u[q] = x
      BY <1>2, <1>4, <2>3
    <3>2. \A k \in DOMAIN s : p < k => ~isColumns(s[k])
      BY <1>2, <1>4, <2>3
    <3>3. s[p][to] = x[from]
      BY <1>2, <1>4, <2>1, <3>1, <3>2 DEF Chained
    <3> QED
      BY <2>1, <3>1, <3>3
  <2> QED
    BY <1>2, <1>3, <2>2, <2>3
<1>5. ASSUME NEW p \in DOMAIN u, isColumns(u[p]), \A k \in DOMAIN u : p < k => ~isColumns(u[k])
      PROVE  u[p][to] = IF isColumns(x) THEN x[to] ELSE end
  <2>1. CASE p = n + 1
    BY <1>2, <1>5, <2>1
  <2>2. CASE p \in 1 .. n
    <3>1. ~isColumns(x) /\ u[p] = s[p] /\ \A k \in DOMAIN s : p < k => ~isColumns(s[k])
      <4>1. n + 1 \in DOMAIN u /\ p < n + 1
        BY <1>2, <2>2
      <4> QED
        BY <1>2, <1>5, <2>2, <4>1
    <3> QED
      BY <1>2, <1>5, <2>2, <3>1 DEF Chained
  <2> QED
    BY <1>2, <1>3, <2>1, <2>2
<1> QED
  BY <1>1, <1>4, <1>5 DEF Chained

LEMMA FrontChains ==
  ASSUME NEW A, NEW s \in Seq(A), s # <<>>, NEW to, NEW from, NEW end, Chained(s, to, from, end)
  PROVE  /\ Chained(Front(s), to, from, IF isColumns(Last(s)) THEN Last(s)[from] ELSE end)
         /\ isColumns(Last(s)) => Last(s)[to] = end
<1>1. PICK u, n, x : u = Front(s) /\ n = Len(s) /\ x = Last(s)
  OBVIOUS
<1>2. /\ n \in Nat \ {0} /\ DOMAIN s = 1 .. n /\ x = s[n] /\ u \in Seq(A) /\ Len(u) = n - 1
      /\ \A k \in 1 .. n - 1 : u[k] = s[k]
  BY <1>1, FrontProperties, LastIsElement, LenProperties
<1>3. DOMAIN u = 1 .. n - 1 /\ \A k \in 1 .. n : k \in 1 .. n - 1 \/ k = n
  BY <1>2, LenProperties
<1>4. ASSUME NEW p \in DOMAIN u, NEW q \in DOMAIN u, p < q, isColumns(u[p]), isColumns(u[q]),
             \A k \in DOMAIN u : p < k /\ k < q => ~isColumns(u[k])
      PROVE  u[p][to] = u[q][from]
  <2>1. p \in DOMAIN s /\ q \in DOMAIN s /\ u[p] = s[p] /\ u[q] = s[q]
    BY <1>2, <1>3
  <2>2. \A k \in DOMAIN s : p < k /\ k < q => ~isColumns(s[k])
    BY <1>2, <1>3, <1>4
  <2> QED
    BY <1>4, <2>1, <2>2 DEF Chained
<1>5. ASSUME NEW p \in DOMAIN u, isColumns(u[p]), \A k \in DOMAIN u : p < k => ~isColumns(u[k])
      PROVE  u[p][to] = IF isColumns(x) THEN x[from] ELSE end
  <2>1. p \in DOMAIN s /\ n \in DOMAIN s /\ p < n /\ u[p] = s[p]
    BY <1>2, <1>3
  <2>2. \A k \in DOMAIN s : p < k /\ k < n => ~isColumns(s[k])
    BY <1>2, <1>3, <1>5
  <2>3. CASE isColumns(x)
    <3>1. s[p][to] = s[n][from]
      BY <1>2, <1>5, <2>1, <2>2, <2>3 DEF Chained
    <3> QED
      BY <1>2, <2>1, <2>3, <3>1
  <2>4. CASE ~isColumns(x)
    <3>1. \A k \in DOMAIN s : p < k => ~isColumns(s[k])
      BY <1>2, <1>3, <2>2, <2>4
    <3> QED
      BY <1>5, <2>1, <2>4, <3>1 DEF Chained
  <2> QED
    BY <2>3, <2>4
<1>6. ASSUME isColumns(x) PROVE x[to] = end
  <2>1. n \in DOMAIN s /\ \A k \in DOMAIN s : n < k => ~isColumns(s[k])
    BY <1>2
  <2> QED
    BY <1>2, <1>6, <2>1 DEF Chained
<1> QED
  BY <1>1, <1>4, <1>5, <1>6 DEF Chained

LEMMA TopOfChain ==
  ASSUME NEW A, NEW s \in Seq(A), NEW to, NEW from, NEW end, Chained(s, to, from, end),
         topColumns(s) # 0
  PROVE  s[topColumns(s)][to] = end
<1>1. PICK n : n = Len(s)
  OBVIOUS
<1>2. n \in Nat /\ DOMAIN s = 1 .. n
  BY <1>1, LenProperties
<1> DEFINE I == {i \in 1 .. n : isColumns(s[i])}
           B == {k \in Nat : n - k \in I}
<1>3. topColumns(s) = IF I # {} THEN CHOOSE x \in I : \A y \in I : x >= y ELSE 0
  BY <1>1 DEF topColumns, SelectLastInSeq, Max, isColumns
<1>4. I # {}
  BY <1>3
<1>5. PICK i \in I : \A y \in I : i >= y
  <2>1. B # {}
    <3>1. PICK j \in I : TRUE
      BY <1>4
    <3>2. n - j \in Nat /\ n - (n - j) = j
      BY <1>2
    <3> QED
      BY <3>1, <3>2
  <2>2. PICK k \in B : \A m \in B : k <= m
    <3>1. B \in SUBSET Nat
      OBVIOUS
    <3> HIDE DEF B
    <3> QED
      BY <2>1, <3>1, LeastNatural
  <2>3. ASSUME NEW y \in I PROVE n - k >= y
    <3>1. n - y \in Nat /\ n - (n - y) = y
      BY <1>2
    <3>2. k <= n - y
      BY <2>2, <3>1
    <3> QED
      BY <1>2, <2>2, <3>2
  <2> QED
    BY <2>2, <2>3
<1>6. PICK t : t = topColumns(s)
  OBVIOUS
<1>7. t \in I /\ \A y \in I : t >= y
  BY <1>3, <1>4, <1>5, <1>6
<1>8. t \in DOMAIN s /\ isColumns(s[t])
  BY <1>2, <1>7
<1>9. ASSUME NEW k \in DOMAIN s, t < k PROVE ~isColumns(s[k])
  BY <1>2, <1>7, <1>9
<1> QED
  BY <1>6, <1>8, <1>9 DEF Chained

-----------------------------------------------------------------------------
(* Trimming keeps what the documents end with, and the chain.              *)

LeavesTheEnd(A, s, t) ==
    /\ t \in Seq(A) /\ endsIn(documents(t), documents(s))
    /\ \A to, from, end : Chained(s, to, from, end) => Chained(t, to, from, end)

LEMMA LeavingTwice ==
  ASSUME NEW A, NEW s \in Seq(A), NEW t, NEW u, LeavesTheEnd(A, s, t), LeavesTheEnd(A, t, u)
  PROVE  LeavesTheEnd(A, s, u)
<1>1. t \in Seq(A) /\ u \in Seq(A)
  BY DEF LeavesTheEnd
<1>2. documents(s) \in Seq(A) /\ documents(t) \in Seq(A) /\ documents(u) \in Seq(A)
  BY <1>1, DocumentsAreDocuments
<1>3. endsIn(documents(u), documents(s))
  BY <1>2, EndsWithEnds DEF LeavesTheEnd
<1>4. ASSUME NEW to, NEW from, NEW end, Chained(s, to, from, end)
      PROVE  Chained(u, to, from, end)
  <2>1. Chained(t, to, from, end)
    BY <1>4 DEF LeavesTheEnd
  <2> QED
    BY <2>1 DEF LeavesTheEnd
<1> QED
  BY <1>1, <1>3, <1>4 DEF LeavesTheEnd

LEMMA LeavingAll ==
  ASSUME NEW A, NEW s \in Seq(A)
  PROVE  LeavesTheEnd(A, s, s)
<1>1. documents(s) \in Seq(A)
  BY DocumentsAreDocuments
<1> QED
  BY <1>1, EndsWithItself DEF LeavesTheEnd

LEMMA SurplusDrops ==
  ASSUME NEW A, NEW s \in Seq(A), NEW k \in Nat, NEW t, t = dropSurplus(s, k)
  PROVE  /\ LeavesTheEnd(A, s, t)
         /\ Len(documents(t)) <= k \/ Len(documents(t)) + 1 = Len(documents(s))
<1>1. documents(s) \in Seq(A) /\ Len(documents(s)) \in Nat
  BY DocumentsAreDocuments, LenProperties
<1>2. CASE Len(documents(s)) > k
  <2>1. t = dropOldestDocument(s)
    BY <1>2 DEF dropSurplus
  <2>2. documents(s) # <<>>
    BY <1>1, <1>2, EmptySeq
  <2>3. /\ t \in Seq(A) /\ endsIn(documents(t), documents(s))
        /\ Len(documents(s)) = Len(documents(t)) + 1
        /\ Len(s) = Len(t) + 1
        /\ \E i \in 1 .. Len(s) :
             isDocument(s[i]) /\ \A j \in 1 .. Len(s) - 1 : t[j] = IF j < i THEN s[j] ELSE s[j + 1]
    BY <2>1, <2>2, OldestDrops
  <2>4. PICK i \in 1 .. Len(s) :
             isDocument(s[i]) /\ \A j \in 1 .. Len(s) - 1 : t[j] = IF j < i THEN s[j] ELSE s[j + 1]
    BY <2>3
  <2>5. PICK n : n = Len(t)
    OBVIOUS
  <2>6. /\ n \in Nat /\ DOMAIN s = 1 .. n + 1 /\ DOMAIN t = 1 .. n /\ i \in 1 .. n + 1
        /\ \A j \in 1 .. n : t[j] = IF j < i THEN s[j] ELSE s[j + 1]
    <3>1. n \in Nat /\ Len(s) = n + 1 /\ Len(s) - 1 = n
      BY <2>3, <2>5, LenProperties
    <3> QED
      BY <2>3, <2>4, <2>5, <3>1, LenProperties
  <2>7. ~isColumns(s[i])
    BY <2>4, NotBoth
  <2>8. \A to, from, end : Chained(s, to, from, end) => Chained(t, to, from, end)
    BY <2>6, <2>7, DroppingChains
  <2> QED
    BY <2>3, <2>8 DEF LeavesTheEnd
<1>3. CASE ~(Len(documents(s)) > k)
  <2>1. t = s
    BY <1>3 DEF dropSurplus
  <2> QED
    BY <1>1, <1>3, <2>1, LeavingAll
<1> QED
  BY <1>2, <1>3

LEMMA NewestLeaves ==
  ASSUME NEW A, NEW s \in Seq(A), NEW n \in Nat, NEW t, t = newest(s, n)
  PROVE  LeavesTheEnd(A, s, t)
<1>1. t \in Seq(A) /\ endsIn(documents(t), documents(s))
  BY NewestEnds, NewestDocuments
<1>2. PICK m \in Nat : m + Len(t) = Len(s) /\ \A i \in 1 .. Len(t) : t[i] = s[i + m]
  <2>1. \E m \in Nat : /\ m + Len(newest(s, n)) = Len(s)
                       /\ \A i \in 1 .. Len(newest(s, n)) : newest(s, n)[i] = s[i + m]
    BY NewestEnds
  <2> QED
    BY <2>1
<1>3. PICK c : c = Len(t)
  OBVIOUS
<1>4. /\ c \in Nat /\ DOMAIN s = 1 .. c + m /\ DOMAIN t = 1 .. c
      /\ \A i \in 1 .. c : t[i] = s[i + m]
  <2>1. c \in Nat /\ c + m = Len(s)
    BY <1>1, <1>2, <1>3, LenProperties
  <2> QED
    BY <1>1, <1>2, <1>3, <2>1, LenProperties
<1>5. \A to, from, end : Chained(s, to, from, end) => Chained(t, to, from, end)
  BY <1>4, CuttingChains
<1> QED
  BY <1>1, <1>5 DEF LeavesTheEnd

\* The recursion of trimHistoryInteraction, up to n.
Fits(s, k, n, g) ==
  g = [i \in 0 .. n |-> IF i = 0 THEN s ELSE dropSurplus(g[i - 1], k)]

LEMMA FitsExists ==
  ASSUME NEW s, NEW k, NEW n \in Nat
  PROVE  \E g : Fits(s, k, n, g)
<1> DEFINE T == {m \in Nat : \E g : Fits(s, k, m, g)}
<1>1. 0 \in T
  <2>1. Fits(s, k, 0, [i \in 0 .. 0 |-> s])
    BY DEF Fits
  <2> QED
    BY <2>1
<1>2. ASSUME NEW m \in Nat, m \in T PROVE m + 1 \in T
  <2>1. PICK g : Fits(s, k, m, g)
    BY <1>2
  <2> DEFINE h == [i \in 0 .. m + 1 |-> IF i <= m THEN g[i] ELSE dropSurplus(g[i - 1], k)]
  <2>2. ASSUME NEW i \in 0 .. m + 1
        PROVE  h[i] = IF i = 0 THEN s ELSE dropSurplus(h[i - 1], k)
    <3>1. CASE i <= m
      <4>1. i \in 0 .. m
        BY <3>1
      <4>2. g[i] = IF i = 0 THEN s ELSE dropSurplus(g[i - 1], k)
        BY <2>1, <4>1 DEF Fits
      <4>3. h[i] = g[i] /\ (i # 0 => h[i - 1] = g[i - 1])
        BY <3>1
      <4> QED
        BY <4>2, <4>3
    <3>2. CASE ~(i <= m)
      <4>1. i # 0 /\ h[i - 1] = g[i - 1]
        BY <3>2
      <4> QED
        BY <3>2, <4>1
    <3> QED
      BY <3>1, <3>2
  <2>3. Fits(s, k, m + 1, h)
    BY <2>2 DEF Fits
  <2> QED
    BY <2>3
<1> HIDE DEF T
<1>3. Nat \subseteq T
  BY <1>1, <1>2, CountingUp
<1> QED
  BY <1>3 DEF T

LEMMA TrimmingLeaves ==
  ASSUME NEW A, NEW s \in Seq(A), NEW k \in Nat, NEW t, t = trimHistoryInteraction(s, k)
  PROVE  LeavesTheEnd(A, s, t) /\ Len(documents(t)) <= k
<1> DEFINE g == CHOOSE h : h = [i \in 0 .. Len(s) |-> IF i = 0 THEN s ELSE dropSurplus(h[i - 1], k)]
<1>1. t = newest(g[Len(s)], HistoryLimit)
  BY DEF trimHistoryInteraction
<1>2. Len(s) \in Nat
  BY LenProperties
<1>3. PICK f : Fits(s, k, Len(s), f)
  BY <1>2, FitsExists
<1>4. g = [i \in 0 .. Len(s) |-> IF i = 0 THEN s ELSE dropSurplus(g[i - 1], k)]
  BY <1>3 DEF Fits
<1> HIDE DEF g
<1> DEFINE good(i) == /\ LeavesTheEnd(A, s, g[i])
                      /\ \/ Len(documents(g[i])) <= k
                         \/ Len(documents(g[i])) + i <= Len(documents(s))
           T == {i \in Nat : i <= Len(s) => good(i)}
<1>5. 0 \in T
  <2>1. g[0] = s
    BY <1>2, <1>4
  <2>2. documents(s) \in Seq(A) /\ Len(documents(s)) \in Nat
    BY DocumentsAreDocuments, LenProperties
  <2> QED
    BY <2>1, <2>2, LeavingAll
<1>6. ASSUME NEW i \in Nat, i \in T PROVE i + 1 \in T
  <2>1. CASE i + 1 <= Len(s)
    <3>1. i + 1 \in 0 .. Len(s) /\ i + 1 # 0 /\ i + 1 - 1 = i /\ i <= Len(s)
      BY <1>2, <2>1
    <3>2. PICK u, v : u = g[i] /\ v = g[i + 1]
      OBVIOUS
    <3>3. v = dropSurplus(u, k)
      BY <1>4, <3>1, <3>2
    <3>4. /\ LeavesTheEnd(A, s, u)
          /\ Len(documents(u)) <= k \/ Len(documents(u)) + i <= Len(documents(s))
      BY <1>6, <3>1, <3>2
    <3>5. u \in Seq(A)
      BY <3>4 DEF LeavesTheEnd
    <3>6. /\ LeavesTheEnd(A, u, v)
          /\ Len(documents(v)) <= k \/ Len(documents(v)) + 1 = Len(documents(u))
      BY <3>3, <3>5, SurplusDrops
    <3>7. LeavesTheEnd(A, s, v) /\ v \in Seq(A)
      BY <3>4, <3>6, LeavingTwice DEF LeavesTheEnd
    <3>8. Len(documents(u)) \in Nat /\ Len(documents(v)) \in Nat /\ Len(documents(s)) \in Nat
      BY <3>5, <3>7, DocumentsAreDocuments, LenProperties
    <3>9. Len(documents(v)) <= k \/ Len(documents(v)) + (i + 1) <= Len(documents(s))
      BY <3>4, <3>6, <3>8
    <3> QED
      BY <3>2, <3>7, <3>9
  <2> QED
    BY <2>1
<1> HIDE DEF T
<1>7. Len(s) \in T
  BY <1>2, <1>5, <1>6, CountingUp
<1>8. PICK u : u = g[Len(s)]
  OBVIOUS
<1>9. /\ LeavesTheEnd(A, s, u)
      /\ Len(documents(u)) <= k \/ Len(documents(u)) + Len(s) <= Len(documents(s))
  BY <1>2, <1>7, <1>8 DEF T
<1>10. u \in Seq(A)
  BY <1>9 DEF LeavesTheEnd
<1>11. documents(u) \in Seq(A) /\ Len(documents(u)) \in Nat /\ Len(documents(s)) \in Nat
       /\ Len(documents(s)) <= Len(s)
  BY <1>10, DocumentsAreDocuments, LenProperties
<1>12. Len(documents(u)) <= k
  BY <1>2, <1>9, <1>11
<1>13. HistoryLimit \in Nat
  BY HistoryAssumption
<1>14. LeavesTheEnd(A, u, t)
  BY <1>1, <1>8, <1>10, <1>13, NewestLeaves
<1>15. LeavesTheEnd(A, s, t)
  BY <1>9, <1>14, LeavingTwice
<1>16. Len(documents(t)) <= Len(documents(u)) /\ Len(documents(t)) \in Nat
  BY <1>14, DocumentsAreDocuments, LenProperties DEF LeavesTheEnd, endsIn
<1> QED
  BY <1>11, <1>12, <1>15, <1>16

-----------------------------------------------------------------------------
(* The documents of a stack follow the engine's.                           *)

\* What is left open is what the elements are.
isSequence(s) == s \in Seq({s[i] : i \in 1 .. Len(s)})

LEMMA IsSequenceOf ==
  ASSUME NEW S, NEW s \in Seq(S)
  PROVE  isSequence(s) /\ DOMAIN s = 1 .. Len(s) /\ Len(s) \in Nat
<1>1. DOMAIN s = 1 .. Len(s) /\ Len(s) \in Nat
  BY ToSetFacts
<1>2. \A i \in 1 .. Len(s) : s[i] \in {s[k] : k \in 1 .. Len(s)}
  OBVIOUS
<1>3. s = [i \in 1 .. Len(s) |-> s[i]]
  BY <1>1
<1>4. [i \in 1 .. Len(s) |-> s[i]] \in Seq({s[k] : k \in 1 .. Len(s)})
  BY <1>1, <1>2
<1> QED
  BY <1>1, <1>3, <1>4 DEF isSequence

LEMMA SequenceWith ==
  ASSUME NEW s, isSequence(s), NEW x
  PROVE  \E A : s \in Seq(A) /\ x \in A
<1>1. s \in Seq({s[i] : i \in 1 .. Len(s)} \cup {x})
  BY DEF isSequence
<1> QED
  BY <1>1

Follows(d, e) ==
    /\ Len(d) <= Len(e)
    /\ \A i \in 0 .. Len(d) - 1 : d[Len(d) - i].tx = e[Len(e) - i]

LEMMA NoneFollows ==
  ASSUME NEW e, isSequence(e)
  PROVE  Follows(<<>>, e)
<1>1. Len(e) \in Nat
  BY LenProperties DEF isSequence
<1>2. Len(<<>>) = 0 /\ 0 .. 0 - 1 = {}
  BY EmptySeq
<1> QED
  BY <1>1, <1>2 DEF Follows

LEMMA EndFollows ==
  ASSUME NEW A, NEW d \in Seq(A), NEW c \in Seq(A), NEW e, isSequence(e), Follows(d, e), endsIn(c, d)
  PROVE  Follows(c, e)
<1>1. Len(c) \in Nat /\ Len(d) \in Nat /\ Len(e) \in Nat
  BY LenProperties DEF isSequence
<1>2. ASSUME NEW i \in 0 .. Len(c) - 1 PROVE c[Len(c) - i].tx = e[Len(e) - i]
  <2>1. i \in 0 .. Len(d) - 1
    BY <1>1 DEF endsIn
  <2>2. c[Len(c) - i] = d[Len(d) - i] /\ d[Len(d) - i].tx = e[Len(e) - i]
    BY <2>1 DEF endsIn, Follows
  <2> QED
    BY <2>2
<1>3. Len(c) <= Len(e)
  BY <1>1 DEF endsIn, Follows
<1> QED
  BY <1>2, <1>3 DEF Follows

LEMMA FollowsTheEnd ==
  ASSUME NEW A, NEW d \in Seq(A), NEW e, isSequence(e), NEW f, isSequence(f), Follows(d, e),
         endsIn(f, e), Len(d) <= Len(f)
  PROVE  Follows(d, f)
<1>1. Len(d) \in Nat /\ Len(e) \in Nat /\ Len(f) \in Nat
  BY LenProperties DEF isSequence
<1>2. ASSUME NEW i \in 0 .. Len(d) - 1 PROVE d[Len(d) - i].tx = f[Len(f) - i]
  <2>1. i \in 0 .. Len(f) - 1
    BY <1>1
  <2>2. f[Len(f) - i] = e[Len(e) - i] /\ d[Len(d) - i].tx = e[Len(e) - i]
    BY <2>1 DEF endsIn, Follows
  <2> QED
    BY <2>2
<1> QED
  BY <1>2 DEF Follows

LEMMA AppendFollows ==
  ASSUME NEW A, NEW d \in Seq(A), NEW x \in A, NEW e, isSequence(e), Follows(d, e), NEW n, n = x.tx
  PROVE  Follows(Append(d, x), Append(e, n))
<1>1. PICK B : e \in Seq(B) /\ n \in B
  BY SequenceWith
<1>2. PICK c, f : c = Append(d, x) /\ f = Append(e, n)
  OBVIOUS
<1>3. /\ Len(c) = Len(d) + 1 /\ Len(d) \in Nat /\ c[Len(d) + 1] = x
      /\ \A i \in 1 .. Len(d) : c[i] = d[i]
  BY <1>2, AppendProperties, LenProperties
<1>4. /\ Len(f) = Len(e) + 1 /\ Len(e) \in Nat /\ f[Len(e) + 1] = n
      /\ \A i \in 1 .. Len(e) : f[i] = e[i]
  BY <1>1, <1>2, AppendProperties, LenProperties
<1>5. Len(d) <= Len(e)
  BY DEF Follows
<1>6. ASSUME NEW i \in 0 .. Len(c) - 1 PROVE c[Len(c) - i].tx = f[Len(f) - i]
  <2>1. CASE i = 0
    BY <1>3, <1>4, <2>1
  <2>2. CASE i # 0
    <3>1. PICK j : j = i - 1
      OBVIOUS
    <3>2. /\ j \in 0 .. Len(d) - 1 /\ Len(c) - i = Len(d) - j /\ Len(f) - i = Len(e) - j
          /\ Len(d) - j \in 1 .. Len(d) /\ Len(e) - j \in 1 .. Len(e)
      BY <1>3, <1>4, <1>5, <2>2, <3>1
    <3>3. c[Len(d) - j] = d[Len(d) - j] /\ f[Len(e) - j] = e[Len(e) - j]
      BY <1>3, <1>4, <3>2
    <3>4. d[Len(d) - j].tx = e[Len(e) - j]
      BY <3>2 DEF Follows
    <3> QED
      BY <3>2, <3>3, <3>4
  <2> QED
    BY <2>1, <2>2
<1>7. Len(c) <= Len(f)
  BY <1>3, <1>4, <1>5
<1> QED
  BY <1>2, <1>6, <1>7 DEF Follows

LEMMA FrontFollows ==
  ASSUME NEW A, NEW d \in Seq(A), NEW x \in A, NEW e, isSequence(e), e # <<>>,
         Follows(Append(d, x), e)
  PROVE  Follows(d, Front(e)) /\ x.tx = Last(e)
<1>1. PICK B : e \in Seq(B)
  BY DEF isSequence
<1>2. PICK c, f : c = Append(d, x) /\ f = Front(e)
  OBVIOUS
<1>3. /\ Len(c) = Len(d) + 1 /\ Len(d) \in Nat /\ c[Len(d) + 1] = x
      /\ \A i \in 1 .. Len(d) : c[i] = d[i]
  BY <1>2, AppendProperties, LenProperties
<1>4. /\ Len(f) = Len(e) - 1 /\ Len(e) \in Nat \ {0} /\ Last(e) = e[Len(e)]
      /\ \A i \in 1 .. Len(e) - 1 : f[i] = e[i]
  BY <1>1, <1>2, FrontProperties, LastIsElement
<1>5. /\ Len(c) <= Len(e)
      /\ \A i \in 0 .. Len(c) - 1 : c[Len(c) - i].tx = e[Len(e) - i]
  BY <1>2 DEF Follows
<1>6. x.tx = Last(e)
  <2>1. 0 \in 0 .. Len(c) - 1 /\ Len(c) - 0 = Len(d) + 1 /\ Len(e) - 0 = Len(e)
    BY <1>3, <1>4
  <2>2. c[Len(c) - 0].tx = e[Len(e) - 0]
    BY <1>5, <2>1
  <2> QED
    BY <1>3, <1>4, <2>1, <2>2
<1>7. ASSUME NEW i \in 0 .. Len(d) - 1 PROVE d[Len(d) - i].tx = f[Len(f) - i]
  <2>1. PICK j : j = i + 1
    OBVIOUS
  <2>2. /\ j \in 0 .. Len(c) - 1 /\ Len(c) - j = Len(d) - i /\ Len(e) - j = Len(f) - i
        /\ Len(d) - i \in 1 .. Len(d) /\ Len(f) - i \in 1 .. Len(e) - 1
    BY <1>3, <1>4, <1>5, <2>1
  <2>3. c[Len(d) - i].tx = e[Len(f) - i]
    BY <1>5, <2>2
  <2>4. c[Len(d) - i] = d[Len(d) - i] /\ f[Len(f) - i] = e[Len(f) - i]
    BY <1>3, <1>4, <2>2
  <2> QED
    BY <2>3, <2>4
<1>8. Len(d) <= Len(f)
  BY <1>3, <1>4, <1>5
<1> QED
  BY <1>2, <1>6, <1>7, <1>8 DEF Follows

LEMMA SuffixesFollow ==
  ASSUME NEW s, isSequence(s), NEW e, isSequence(e), Follows(documents(s), e)
  PROVE  IsSuffix(txs(s), e)
<1>1. PICK A : s \in Seq(A)
  BY DEF isSequence
<1>2. PICK d, t, n, m : d = documents(s) /\ t = txs(s) /\ n = Len(d) /\ m = Len(e)
  OBVIOUS
<1>3. d \in Seq(A) /\ n \in Nat /\ DOMAIN d = 1 .. n /\ m \in Nat
  BY <1>1, <1>2, DocumentsAreDocuments, LenProperties DEF isSequence
<1>4. t = [i \in 1 .. n |-> d[i].tx]
  BY <1>2, <1>3 DEF txs
<1>5. t \in Seq({d[i].tx : i \in 1 .. n}) /\ Len(t) = n
  BY <1>3, <1>4
<1>6. n <= m /\ \A i \in 0 .. n - 1 : d[n - i].tx = e[m - i]
  BY <1>2 DEF Follows
<1>7. PICK u, v : u = Reverse(t) /\ v = Reverse(e)
  OBVIOUS
<1>8. u = [i \in 1 .. n |-> t[(n - i) + 1]] /\ v = [i \in 1 .. m |-> e[(m - i) + 1]]
  BY <1>2, <1>5, <1>7 DEF Reverse
<1>9. \A i \in 1 .. n : u[i] = v[i]
  <2>1. ASSUME NEW i \in 1 .. n PROVE u[i] = v[i]
    <3>1. PICK j : j = i - 1
      OBVIOUS
    <3>2. j \in 0 .. n - 1 /\ (n - i) + 1 = n - j /\ (m - i) + 1 = m - j /\ i \in 1 .. m
          /\ n - j \in 1 .. n
      BY <1>3, <1>6, <3>1
    <3>3. u[i] = t[n - j] /\ v[i] = e[m - j]
      BY <1>8, <3>2
    <3>4. t[n - j] = d[n - j].tx /\ d[n - j].tx = e[m - j]
      BY <1>4, <1>6, <3>2
    <3> QED
      BY <3>3, <3>4
  <2> QED
    BY <2>1
<1>10. Len(u) = n /\ Len(v) = m
  BY <1>3, <1>8
<1>11. SubSeq(u, 1, n) = SubSeq(v, 1, n)
  <2>1. PICK S : S = {u[i] : i \in 1 .. n}
    OBVIOUS
  <2>2. (\A i \in 1 .. n : u[i] \in S) /\ \A i \in 1 .. n : v[i] \in S
    BY <1>9, <2>1
  <2>3. 1 \in Int /\ n \in Int /\ n - 1 + 1 = n
    BY <1>3
  <2>4. /\ SubSeq(u, 1, n) \in Seq(S) /\ SubSeq(v, 1, n) \in Seq(S)
        /\ Len(SubSeq(u, 1, n)) = IF 1 <= n THEN n - 1 + 1 ELSE 0
        /\ Len(SubSeq(v, 1, n)) = IF 1 <= n THEN n - 1 + 1 ELSE 0
        /\ \A i \in 1 .. n - 1 + 1 : SubSeq(u, 1, n)[i] = u[1 + i - 1]
        /\ \A i \in 1 .. n - 1 + 1 : SubSeq(v, 1, n)[i] = v[1 + i - 1]
    BY <2>2, <2>3, SubSeqProperties
  <2>5. Len(SubSeq(u, 1, n)) = Len(SubSeq(v, 1, n)) /\ Len(SubSeq(u, 1, n)) = n
    BY <1>3, <2>4
  <2>6. \A i \in 1 .. n : SubSeq(u, 1, n)[i] = SubSeq(v, 1, n)[i]
    BY <1>3, <1>9, <2>4
  <2> QED
    BY <2>4, <2>5, <2>6, SeqEqual
<1> QED
  BY <1>2, <1>6, <1>7, <1>10, <1>11 DEF IsSuffix, IsPrefix

-----------------------------------------------------------------------------
(* The invariant.                                                          *)

\* What the columns are when an open resize is left out.
laidOutColumns == IF resizing # <<>> THEN resizing[1].columns ELSE columns

StacksAreStacks ==
    /\ isSequence(undoStack) /\ isSequence(redoStack)
    /\ isSequence(engineUndo) /\ isSequence(engineRedo)

ColumnsChain ==
    ~strayed /\ ~mixed => /\ Chained(undoStack, "after", "before", laidOutColumns)
                          /\ Chained(redoStack, "before", "after", laidOutColumns)

DocumentsFollow ==
    ~strayed => Follows(documents(undoStack), engineUndo) /\ Follows(documents(redoStack), engineRedo)

\* An undo that is under way has its document on top.
TopIsDocument ==
    acting \in {"undo", "redo"} /\ ~strayed =>
       stackOf(acting) = <<>> \/ isDocument(Last(stackOf(acting)))

HistoryInv == StacksAreStacks /\ ColumnsChain /\ DocumentsFollow /\ TopIsDocument

-----------------------------------------------------------------------------
(* Entries come and go.                                                    *)

LEMMA NothingIsSequence == isSequence(<<>>) /\ documents(<<>>) = <<>> /\ DOMAIN <<>> = {}
<1>1. <<>> \in Seq({})
  BY EmptySeq
<1>2. isSequence(<<>>)
  BY <1>1, IsSequenceOf
<1>3. DOMAIN <<>> = {}
  OBVIOUS
<1>4. documents(<<>>) = <<>>
  BY DocumentsOfNone
<1> QED
  BY <1>2, <1>3, <1>4

LEMMA TrimmedFits ==
  ASSUME NEW s, isSequence(s), NEW e, isSequence(e), NEW t, t = trimHistoryInteraction(s, Len(e))
  PROVE  /\ isSequence(t)
         /\ \A to, from, end : Chained(s, to, from, end) => Chained(t, to, from, end)
         /\ \A f : isSequence(f) /\ Follows(documents(s), f) /\ endsIn(e, f)
                     => Follows(documents(t), e)
<1>1. PICK A : s \in Seq(A)
  BY DEF isSequence
<1>2. Len(e) \in Nat
  BY LenProperties DEF isSequence
<1>3. LeavesTheEnd(A, s, t) /\ Len(documents(t)) <= Len(e)
  BY <1>1, <1>2, TrimmingLeaves
<1>4. t \in Seq(A) /\ endsIn(documents(t), documents(s))
      /\ \A to, from, end : Chained(s, to, from, end) => Chained(t, to, from, end)
  BY <1>3 DEF LeavesTheEnd
<1>5. documents(s) \in Seq(A) /\ documents(t) \in Seq(A)
  BY <1>1, <1>4, DocumentsAreDocuments
<1>6. ASSUME NEW f, isSequence(f), Follows(documents(s), f), endsIn(e, f)
      PROVE  Follows(documents(t), e)
  <2>1. Follows(documents(t), f)
    BY <1>4, <1>5, <1>6, EndFollows
  <2> QED
    BY <1>3, <1>5, <1>6, <2>1, FollowsTheEnd
<1>7. isSequence(t)
  BY <1>4, IsSequenceOf
<1> QED
  BY <1>4, <1>6, <1>7

LEMMA SequenceEndsWithItself ==
  ASSUME NEW e, isSequence(e)
  PROVE  endsIn(e, e)
BY EndsWithItself DEF isSequence

LEMMA AppendedIsSequence ==
  ASSUME NEW s, isSequence(s), NEW x
  PROVE  isSequence(Append(s, x))
<1>1. PICK A : s \in Seq(A) /\ x \in A
  BY SequenceWith
<1>2. Append(s, x) \in Seq(A)
  BY <1>1, AppendProperties
<1> QED
  BY <1>2, IsSequenceOf

LEMMA FrontIsSequence ==
  ASSUME NEW s, isSequence(s), s # <<>>
  PROVE  isSequence(Front(s))
<1>1. PICK A : s \in Seq(A)
  BY DEF isSequence
<1>2. Front(s) \in Seq(A)
  BY <1>1, FrontProperties
<1> QED
  BY <1>2, IsSequenceOf

\* A view entry is recorded.
LEMMA ViewRecorded ==
  ASSUME NEW s, isSequence(s), NEW e, isSequence(e), NEW x, ~isDocument(x),
         NEW t, t = trimHistoryInteraction(Append(s, x), Len(e))
  PROVE  /\ isSequence(t)
         /\ Follows(documents(s), e) => Follows(documents(t), e)
         /\ isColumns(x) =>
              \A to, from : Chained(s, to, from, x[from]) => Chained(t, to, from, x[to])
         /\ ~isColumns(x) =>
              \A to, from, end : Chained(s, to, from, end) => Chained(t, to, from, end)
<1>1. PICK A : s \in Seq(A) /\ x \in A
  BY SequenceWith
<1>2. PICK u : u = Append(s, x)
  OBVIOUS
<1>3. isSequence(u) /\ documents(u) = documents(s)
  BY <1>1, <1>2, AppendedIsSequence, DocumentsOfAppend
<1>4. endsIn(e, e)
  BY SequenceEndsWithItself
<1>5. /\ isSequence(t)
      /\ \A to, from, end : Chained(u, to, from, end) => Chained(t, to, from, end)
      /\ Follows(documents(u), e) => Follows(documents(t), e)
  <2>1. t = trimHistoryInteraction(u, Len(e))
    BY <1>2
  <2>2. /\ isSequence(t)
        /\ \A to, from, end : Chained(u, to, from, end) => Chained(t, to, from, end)
        /\ \A f : isSequence(f) /\ Follows(documents(u), f) /\ endsIn(e, f)
                     => Follows(documents(t), e)
    BY <1>3, <2>1, TrimmedFits
  <2> QED
    BY <1>4, <2>2
<1>6. ASSUME NEW to, NEW from, NEW end, Chained(s, to, from, IF isColumns(x) THEN x[from] ELSE end)
      PROVE  Chained(t, to, from, IF isColumns(x) THEN x[to] ELSE end)
  <2>1. Chained(u, to, from, IF isColumns(x) THEN x[to] ELSE end)
    BY <1>1, <1>2, <1>6, AppendChains
  <2> QED
    BY <1>5, <2>1
<1>7. ASSUME isColumns(x), NEW to, NEW from, Chained(s, to, from, x[from])
      PROVE  Chained(t, to, from, x[to])
  <2>1. PICK end : end = x[from]
    OBVIOUS
  <2>2. Chained(s, to, from, IF isColumns(x) THEN x[from] ELSE end)
    BY <1>7, <2>1
  <2>3. Chained(t, to, from, IF isColumns(x) THEN x[to] ELSE end)
    BY <1>6, <2>2
  <2> QED
    BY <1>7, <2>3
<1>8. ASSUME ~isColumns(x), NEW to, NEW from, NEW end, Chained(s, to, from, end)
      PROVE  Chained(t, to, from, end)
  <2>2. Chained(s, to, from, IF isColumns(x) THEN x[from] ELSE end)
    BY <1>8
  <2>3. Chained(t, to, from, IF isColumns(x) THEN x[to] ELSE end)
    BY <1>6, <2>2
  <2> QED
    BY <1>8, <2>3
<1> QED
  BY <1>3, <1>5, <1>7, <1>8

\* Where the columns are once x has been undone or redone.
endAfter(x, from, end) == IF isColumns(x) THEN x[from] ELSE end

TransactionMoves(x, e, f, e2, f2) ==
    IF isDocument(x) THEN e # <<>> /\ e2 = Front(e) /\ f2 = Append(f, Last(e))
    ELSE e2 = e /\ f2 = f

\* An entry moves from the top of one stack to the other; if it is a document,
\* then so does the transaction in the engine.
LEMMA EntryMoves ==
  ASSUME NEW s, isSequence(s), s # <<>>, NEW o, isSequence(o), NEW x, x = Last(s),
         NEW e, isSequence(e), NEW f, isSequence(f), NEW e2, isSequence(e2), NEW f2, isSequence(f2),
         NEW s2, s2 = trimHistoryInteraction(Front(s), Len(e2)),
         NEW o2, o2 = trimHistoryInteraction(Append(o, x), Len(f2))
  PROVE  /\ isSequence(s2) /\ isSequence(o2)
         /\ \A to, from, end : Chained(s, to, from, end) /\ Chained(o, from, to, end)
              => /\ Chained(s2, to, from, endAfter(x, from, end))
                 /\ Chained(o2, from, to, endAfter(x, from, end))
         /\ Follows(documents(s), e) /\ Follows(documents(o), f) /\ TransactionMoves(x, e, f, e2, f2)
            => Follows(documents(s2), e2) /\ Follows(documents(o2), f2)
<1>1. PICK u, v : u = Front(s) /\ v = Append(o, x)
  OBVIOUS
<1>2. isSequence(u) /\ isSequence(v)
  BY <1>1, FrontIsSequence, AppendedIsSequence
<1>3. /\ isSequence(s2)
      /\ \A to, from, end : Chained(u, to, from, end) => Chained(s2, to, from, end)
      /\ \A g : isSequence(g) /\ Follows(documents(u), g) /\ endsIn(e2, g)
                  => Follows(documents(s2), e2)
  BY <1>1, <1>2, TrimmedFits
<1>4. /\ isSequence(o2)
      /\ \A to, from, end : Chained(v, to, from, end) => Chained(o2, to, from, end)
      /\ \A g : isSequence(g) /\ Follows(documents(v), g) /\ endsIn(f2, g)
                  => Follows(documents(o2), f2)
  BY <1>1, <1>2, TrimmedFits
<1>5. PICK A : s \in Seq(A)
  BY DEF isSequence
<1>6. PICK B : o \in Seq(B) /\ x \in B
  BY SequenceWith
<1>7. ASSUME NEW to, NEW from, NEW end, Chained(s, to, from, end), Chained(o, from, to, end)
      PROVE  /\ Chained(s2, to, from, endAfter(x, from, end))
             /\ Chained(o2, from, to, endAfter(x, from, end))
  <2>1. /\ Chained(u, to, from, IF isColumns(x) THEN x[from] ELSE end)
        /\ isColumns(x) => x[to] = end
    BY <1>1, <1>5, <1>7, FrontChains
  <2>2. Chained(o, from, to, IF isColumns(x) THEN x[to] ELSE end)
    BY <1>7, <2>1
  <2>3. Chained(v, from, to, IF isColumns(x) THEN x[from] ELSE end)
    BY <1>1, <1>6, <2>2, AppendChains
  <2>4. PICK now : now = endAfter(x, from, end)
    OBVIOUS
  <2>5. now = IF isColumns(x) THEN x[from] ELSE end
    BY <2>4 DEF endAfter
  <2>6. Chained(u, to, from, now)
    BY <2>1, <2>5
  <2>7. Chained(v, from, to, now)
    BY <2>3, <2>5
  <2> QED
    BY <1>3, <1>4, <2>4, <2>6, <2>7
<1>8. ASSUME Follows(documents(s), e), Follows(documents(o), f), TransactionMoves(x, e, f, e2, f2)
      PROVE  Follows(documents(s2), e2) /\ Follows(documents(o2), f2)
  <2>1. s = Append(u, x) /\ u \in Seq(A) /\ x \in A
    BY <1>1, <1>5, FrontAndLast
  <2>2. PICK d, c : d = documents(u) /\ c = documents(o)
    OBVIOUS
  <2>3. d \in Seq(A) /\ c \in Seq(B)
    BY <1>6, <2>1, <2>2, DocumentsAreDocuments
  <2>4. /\ documents(s) = IF isDocument(x) THEN Append(d, x) ELSE d
        /\ documents(v) = IF isDocument(x) THEN Append(c, x) ELSE c
    <3>1. documents(s) = IF isDocument(x) THEN Append(d, x) ELSE d
      BY <2>1, <2>2, DocumentsOfAppend
    <3>2. documents(v) = IF isDocument(x) THEN Append(c, x) ELSE c
      BY <1>1, <1>6, <2>2, DocumentsOfAppend
    <3> QED
      BY <3>1, <3>2
  <2>5. Follows(d, e2) /\ Follows(documents(v), f2)
    <3>1. CASE isDocument(x)
      <4>0. e # <<>> /\ e2 = Front(e) /\ f2 = Append(f, Last(e))
        BY <1>8, <3>1 DEF TransactionMoves
      <4>1. Follows(d, Front(e)) /\ x.tx = Last(e)
        BY <1>8, <2>1, <2>3, <2>4, <3>1, <4>0, FrontFollows
      <4>2. Follows(Append(c, x), Append(f, Last(e)))
        BY <1>6, <1>8, <2>2, <2>3, <4>1, AppendFollows
      <4> QED
        BY <2>4, <3>1, <4>0, <4>1, <4>2
    <3>2. CASE ~isDocument(x)
      <4>1. e2 = e /\ f2 = f
        BY <1>8, <3>2 DEF TransactionMoves
      <4> QED
        BY <1>8, <2>2, <2>4, <3>2, <4>1
    <3> QED
      BY <3>1, <3>2
  <2>6. endsIn(e2, e2) /\ endsIn(f2, f2)
    BY SequenceEndsWithItself
  <2> QED
    BY <1>3, <1>4, <2>2, <2>5, <2>6
<1> QED
  BY <1>3, <1>4, <1>7, <1>8

\* A transaction is recorded, as the newest of the engine's.
LEMMA DocumentRecorded ==
  ASSUME NEW s, isSequence(s), NEW e, isSequence(e), NEW x, isDocument(x), NEW n, n = x.tx,
         NEW e2, e2 = newest(Append(e, n), HistoryLimit),
         NEW t, t = trimHistoryInteraction(Append(s, x), Len(e2))
  PROVE  /\ isSequence(e2) /\ isSequence(t)
         /\ Follows(documents(s), e) => Follows(documents(t), e2)
         /\ \A to, from, end : Chained(s, to, from, end) => Chained(t, to, from, end)
<1>1. PICK A : s \in Seq(A) /\ x \in A
  BY SequenceWith
<1>2. PICK B : e \in Seq(B) /\ n \in B
  BY SequenceWith
<1>3. PICK u, f : u = Append(s, x) /\ f = Append(e, n)
  OBVIOUS
<1>4. isSequence(u) /\ isSequence(f) /\ f \in Seq(B)
  BY <1>2, <1>3, AppendedIsSequence, AppendProperties
<1>5. HistoryLimit \in Nat
  BY HistoryAssumption
<1>6. e2 \in Seq(B) /\ endsIn(e2, f)
  <2>1. e2 = newest(f, HistoryLimit)
    BY <1>3
  <2>2. /\ newest(f, HistoryLimit) \in Seq(B)
        /\ f = SubSeq(f, 1, Len(f) - Len(newest(f, HistoryLimit))) \o newest(f, HistoryLimit)
        /\ SubSeq(f, 1, Len(f) - Len(newest(f, HistoryLimit))) \in Seq(B)
    BY <1>4, <1>5, NewestEnds
  <2>3. PICK a : a = SubSeq(f, 1, Len(f) - Len(newest(f, HistoryLimit)))
    OBVIOUS
  <2>4. a \in Seq(B) /\ e2 \in Seq(B) /\ f = a \o e2
    BY <2>1, <2>2, <2>3
  <2>5. endsIn(e2, a \o e2)
    BY <2>4, EndOfConcat
  <2> QED
    BY <2>4, <2>5
<1>7. isSequence(e2)
  BY <1>6, IsSequenceOf
<1>8. /\ isSequence(t)
      /\ \A to, from, end : Chained(u, to, from, end) => Chained(t, to, from, end)
      /\ Follows(documents(u), f) => Follows(documents(t), e2)
  <2>1. /\ isSequence(t)
        /\ \A to, from, end : Chained(u, to, from, end) => Chained(t, to, from, end)
        /\ \A g : isSequence(g) /\ Follows(documents(u), g) /\ endsIn(e2, g)
                     => Follows(documents(t), e2)
    <3>1. t = trimHistoryInteraction(u, Len(e2))
      BY <1>3
    <3> QED
      BY <3>1, <1>4, <1>7, TrimmedFits
  <2> QED
    BY <1>4, <1>6, <2>1
<1>9. ASSUME Follows(documents(s), e) PROVE Follows(documents(u), f)
  <2>1. documents(s) \in Seq(A) /\ documents(u) = Append(documents(s), x)
    BY <1>1, <1>3, DocumentsOfAppend, DocumentsAreDocuments
  <2>2. Follows(Append(documents(s), x), Append(e, n))
    BY <1>1, <1>9, <2>1, AppendFollows
  <2> QED
    BY <1>3, <2>1, <2>2
<1>10. ~isColumns(x)
  BY NotBoth
<1>11. ASSUME NEW to, NEW from, NEW end, Chained(s, to, from, end)
       PROVE  Chained(t, to, from, end)
  <2>1. Chained(u, to, from, IF isColumns(x) THEN x[to] ELSE end)
    BY <1>1, <1>3, <1>10, <1>11, AppendChains
  <2> QED
    BY <1>8, <1>10, <2>1
<1> QED
  BY <1>7, <1>8, <1>9, <1>11

-----------------------------------------------------------------------------
(* The invariant is kept.                                                  *)

\* Nothing moves but what the stacks are not about.
LEMMA StacksStand ==
  ASSUME HistoryInv, UNCHANGED <<undoStack, redoStack, engineUndo, engineRedo, acting, strayed>>,
         ~mixed' => ~mixed /\ laidOutColumns' = laidOutColumns
  PROVE  HistoryInv'
<1>1. StacksAreStacks'
  BY DEF HistoryInv, StacksAreStacks
<1>2. ColumnsChain'
  BY DEF HistoryInv, ColumnsChain
<1>3. DocumentsFollow'
  BY DEF HistoryInv, DocumentsFollow
<1>4. TopIsDocument'
  BY DEF HistoryInv, TopIsDocument, stackOf
<1> QED
  BY <1>1, <1>2, <1>3, <1>4 DEF HistoryInv

\* The queue's transaction changes, the stacks do not.
LEMMA TransactionTurns ==
  ASSUME HistoryInv,
         UNCHANGED <<columns, undoStack, redoStack, engineUndo, engineRedo, resizing, strayed, mixed>>,
         acting' \in {"undo", "redo"} =>
           stackOf(acting') = <<>> \/ isDocument(Last(stackOf(acting')))
  PROVE  HistoryInv'
<1>1. StacksAreStacks'
  BY DEF HistoryInv, StacksAreStacks
<1>2. ColumnsChain'
  BY DEF HistoryInv, ColumnsChain, laidOutColumns
<1>3. DocumentsFollow'
  BY DEF HistoryInv, DocumentsFollow
<1>4. TopIsDocument'
  BY DEF TopIsDocument, stackOf
<1> QED
  BY <1>1, <1>2, <1>3, <1>4 DEF HistoryInv

LEMMA NothingChains == \A to, from, end : Chained(<<>>, to, from, end)
BY NothingIsSequence DEF Chained

\* A view entry goes onto the undo stack and the redo stack is emptied.
LEMMA ViewEntryKept ==
  ASSUME HistoryInv, NEW x, ~isDocument(x), UNCHANGED engineVars,
         undoStack' = trimHistoryInteraction(Append(undoStack, x), Len(engineUndo)),
         redoStack' = <<>>,
         strayed' = (strayed \/ acting \in {"undo", "redo"}),
         ~mixed' => /\ ~mixed
                    /\ IF isColumns(x) THEN laidOutColumns = x["before"] /\ laidOutColumns' = x["after"]
                       ELSE laidOutColumns' = laidOutColumns
  PROVE  HistoryInv'
<1>1. isSequence(undoStack) /\ isSequence(engineUndo) /\ isSequence(engineRedo)
  BY DEF HistoryInv, StacksAreStacks
<1>2. engineUndo' = engineUndo /\ engineRedo' = engineRedo /\ acting' = acting
  BY DEF engineVars
<1>3. PICK t : t = undoStack'
  OBVIOUS
<1>4. /\ isSequence(t)
      /\ Follows(documents(undoStack), engineUndo) => Follows(documents(t), engineUndo)
      /\ isColumns(x) =>
           \A to, from : Chained(undoStack, to, from, x[from]) => Chained(t, to, from, x[to])
      /\ ~isColumns(x) =>
           \A to, from, end : Chained(undoStack, to, from, end) => Chained(t, to, from, end)
  <2>1. PICK s, e : s = undoStack /\ e = engineUndo
    OBVIOUS
  <2>2. isSequence(s) /\ isSequence(e) /\ t = trimHistoryInteraction(Append(s, x), Len(e))
    BY <1>1, <1>3, <2>1
  <2>3. /\ isSequence(t)
        /\ Follows(documents(s), e) => Follows(documents(t), e)
        /\ isColumns(x) =>
             \A to, from : Chained(s, to, from, x[from]) => Chained(t, to, from, x[to])
        /\ ~isColumns(x) =>
             \A to, from, end : Chained(s, to, from, end) => Chained(t, to, from, end)
    <3>1. isSequence(t)
      BY <2>2, ViewRecorded
    <3>2. Follows(documents(s), e) => Follows(documents(t), e)
      BY <2>2, ViewRecorded
    <3>3. ASSUME isColumns(x), NEW to, NEW from, Chained(s, to, from, x[from])
          PROVE  Chained(t, to, from, x[to])
      BY <2>2, <3>3, ViewRecorded
    <3>4. ASSUME ~isColumns(x), NEW to, NEW from, NEW end, Chained(s, to, from, end)
          PROVE  Chained(t, to, from, end)
      BY <2>2, <3>4, ViewRecorded
    <3> QED
      BY <3>1, <3>2, <3>3, <3>4
  <2> QED
    BY <2>1, <2>3
<1>5. StacksAreStacks'
  BY <1>1, <1>2, <1>3, <1>4, NothingIsSequence DEF StacksAreStacks
<1>6. ColumnsChain'
  <2>1. ASSUME ~strayed', ~mixed' PROVE Chained(undoStack', "after", "before", laidOutColumns')
    <3>1. Chained(undoStack, "after", "before", laidOutColumns)
      BY <2>1 DEF HistoryInv, ColumnsChain
    <3>2. PICK c, d : c = laidOutColumns /\ d = laidOutColumns'
      OBVIOUS
    <3>3. CASE isColumns(x)
      <4>1. c = x["before"] /\ d = x["after"]
        BY <2>1, <3>2, <3>3
      <4>2. Chained(undoStack, "after", "before", x["before"])
        BY <3>1, <3>2, <4>1
      <4>3. Chained(t, "after", "before", x["after"])
        BY <1>4, <3>3, <4>2
      <4> QED
        BY <1>3, <3>2, <4>1, <4>3
    <3>4. CASE ~isColumns(x)
      <4>1. d = c
        BY <2>1, <3>2, <3>4
      <4>2. Chained(t, "after", "before", c)
        BY <1>4, <3>1, <3>2, <3>4
      <4> QED
        BY <1>3, <3>2, <4>1, <4>2
    <3> QED
      BY <3>3, <3>4
  <2>2. Chained(redoStack', "before", "after", laidOutColumns')
    BY NothingChains
  <2> QED
    BY <2>1, <2>2 DEF ColumnsChain
<1>7. DocumentsFollow'
  <2>1. Follows(documents(redoStack'), engineRedo')
    BY <1>1, <1>2, NothingIsSequence, NoneFollows
  <2>2. ASSUME ~strayed' PROVE Follows(documents(undoStack'), engineUndo')
    BY <1>2, <1>3, <1>4, <2>2 DEF HistoryInv, DocumentsFollow
  <2> QED
    BY <2>1, <2>2 DEF DocumentsFollow
<1>8. TopIsDocument'
  BY <1>2 DEF TopIsDocument
<1> QED
  BY <1>5, <1>6, <1>7, <1>8 DEF HistoryInv

LEMMA ColumnsRecorded ==
  ASSUME HistoryInv, NEW b, NEW a, NEW from, NEW to, recordColumnHistory(b, a, from, to),
         UNCHANGED engineVars,
         ~mixed' => ~mixed /\ laidOutColumns = b /\ laidOutColumns' = a
  PROVE  HistoryInv'
<1>1. CASE b = a
  <2>1. UNCHANGED <<undoStack, redoStack, engineUndo, engineRedo, acting, strayed>>
    BY <1>1 DEF recordColumnHistory, engineVars
  <2> QED
    BY <1>1, <2>1, StacksStand
<1>2. CASE b # a
  <2>1. PICK x : x = viewEntry("columns", b, a, from, to)
    OBVIOUS
  <2>2. isColumns(x) /\ ~isDocument(x) /\ x["before"] = b /\ x["after"] = a
    BY <2>1 DEF viewEntry, isColumns, isDocument
  <2>3. /\ undoStack' = trimHistoryInteraction(Append(undoStack, x), Len(engineUndo))
        /\ redoStack' = <<>>
        /\ strayed' = (strayed \/ acting \in {"undo", "redo"})
    BY <1>2, <2>1 DEF recordColumnHistory
  <2>4. ~mixed' => /\ ~mixed
                   /\ IF isColumns(x) THEN laidOutColumns = x["before"] /\ laidOutColumns' = x["after"]
                      ELSE laidOutColumns' = laidOutColumns
    BY <2>2
  <2> QED
    BY <2>2, <2>3, <2>4, ViewEntryKept
<1> QED
  BY <1>1, <1>2

LEMMA ColumnsBecomeKeeps ==
  ASSUME HistoryInv, NEW after, NEW to, ColumnsBecome(after, to)
  PROVE  HistoryInv'
<1>1. ~mixed' => ~mixed /\ laidOutColumns = columns /\ laidOutColumns' = after
  BY DEF ColumnsBecome, laidOutColumns
<1>2. recordColumnHistory(columns, after, cursor, to) /\ UNCHANGED engineVars
  BY DEF ColumnsBecome
<1> QED
  BY <1>1, <1>2, ColumnsRecorded

-----------------------------------------------------------------------------
(* The operations on columns, row heights and the selection.               *)

LEMMA ResizeColumnKeeps ==
  ASSUME HistoryInv, NEW i, ResizeColumn(i)
  PROVE  HistoryInv'
<1>1. CASE resizing # <<>> /\ resizing[1].id = columns[i].id
  <2>1. UNCHANGED <<undoStack, redoStack, engineUndo, engineRedo, acting, strayed, mixed, resizing>>
    BY <1>1 DEF ResizeColumn, engineVars
  <2>2. laidOutColumns' = laidOutColumns
    BY <1>1, <2>1 DEF laidOutColumns
  <2> QED
    BY <2>1, <2>2, StacksStand
<1>2. CASE ~(resizing # <<>> /\ resizing[1].id = columns[i].id)
  <2>1. PICK after : ColumnsBecome(after, cursor)
    BY <1>2 DEF ResizeColumn
  <2> QED
    BY <2>1, ColumnsBecomeKeeps
<1> QED
  BY <1>1, <1>2

LEMMA BeginColumnResizeKeeps ==
  ASSUME HistoryInv, NEW i, BeginColumnResize(i)
  PROVE  HistoryInv'
<1>1. UNCHANGED <<undoStack, redoStack, engineUndo, engineRedo, acting, strayed>>
  BY DEF BeginColumnResize, engineVars
<1>2. /\ resizing' = <<[id |-> columns[i].id, columns |-> columns, cursor |-> cursor]>>
      /\ mixed' = (mixed \/ (resizing # <<>> /\ resizing[1].columns # columns))
  BY DEF BeginColumnResize
<1>3. resizing' # <<>> /\ resizing'[1].columns = columns
  BY <1>2
<1>4. ASSUME ~mixed' PROVE ~mixed /\ laidOutColumns' = laidOutColumns
  BY <1>2, <1>3, <1>4 DEF laidOutColumns
<1> QED
  BY <1>1, <1>4, StacksStand

LEMMA EndColumnResizeKeeps ==
  ASSUME HistoryInv, EndColumnResize
  PROVE  HistoryInv'
<1>1. /\ resizing # <<>> /\ resizing' = <<>> /\ columns' = columns /\ mixed' = mixed
      /\ UNCHANGED engineVars
      /\ recordColumnHistory(resizing[1].columns, columns, resizing[1].cursor, cursor)
  BY DEF EndColumnResize
<1>2. laidOutColumns = resizing[1].columns /\ laidOutColumns' = columns
  BY <1>1 DEF laidOutColumns
<1> QED
  BY <1>1, <1>2, ColumnsRecorded

LEMMA ColumnOperationsKeep ==
  ASSUME HistoryInv,
         \/ \E i, j \in Places : ReorderColumns(i, j)
         \/ \E i \in Places, frozen \in {"start", "no", "end"} : SetColumnFrozen(i, frozen)
         \/ \E i \in Places, before \in BOOLEAN : InsertColumn(i, before)
         \/ \E requested \in SomeColumns : DeleteColumns(requested)
         \/ \E requested \in SomeColumns, show \in BOOLEAN : SetColumnVisibility(requested, show)
  PROVE  HistoryInv'
<1>1. \E after, to : ColumnsBecome(after, to)
  <2>1. ASSUME NEW i \in Places, NEW j \in Places, ReorderColumns(i, j)
        PROVE  \E after, to : ColumnsBecome(after, to)
    BY <2>1 DEF ReorderColumns
  <2>2. ASSUME NEW i \in Places, NEW frozen \in {"start", "no", "end"}, SetColumnFrozen(i, frozen)
        PROVE  \E after, to : ColumnsBecome(after, to)
    BY <2>2 DEF SetColumnFrozen
  <2>3. ASSUME NEW i \in Places, NEW before \in BOOLEAN, InsertColumn(i, before)
        PROVE  \E after, to : ColumnsBecome(after, to)
    BY <2>3 DEF InsertColumn
  <2>4. ASSUME NEW requested \in SomeColumns, DeleteColumns(requested)
        PROVE  \E after, to : ColumnsBecome(after, to)
    BY <2>4 DEF DeleteColumns
  <2>5. ASSUME NEW requested \in SomeColumns, NEW show \in BOOLEAN, SetColumnVisibility(requested, show)
        PROVE  \E after, to : ColumnsBecome(after, to)
    BY <2>5 DEF SetColumnVisibility
  <2> QED
    BY <2>1, <2>2, <2>3, <2>4, <2>5
<1> QED
  BY <1>1, ColumnsBecomeKeeps

\* What is left of a stack when the view entries go.
LEMMA OnlyDocumentsLeft ==
  ASSUME NEW s, isSequence(s), NEW d, d = documents(s)
  PROVE  /\ isSequence(d)
         /\ documents(d) = d
         /\ \A to, from, end : Chained(d, to, from, end)
         /\ d = <<>> \/ isDocument(Last(d))
<1>1. PICK A : s \in Seq(A)
  BY DEF isSequence
<1>2. d \in Seq(A) /\ \A i \in DOMAIN d : isDocument(d[i])
  BY <1>1, DocumentsAreDocuments
<1>3. isSequence(d) /\ DOMAIN d = 1 .. Len(d)
  BY <1>2, IsSequenceOf
<1>4. documents(d) = d
  BY <1>2, DocumentsOfDocuments
<1>5. \A to, from, end : Chained(d, to, from, end)
  BY <1>2, <1>3, NotBoth DEF Chained
<1>6. ASSUME d # <<>> PROVE isDocument(Last(d))
  <2>1. Last(d) = d[Len(d)] /\ Len(d) \in Nat \ {0}
    BY <1>2, <1>6, LastIsElement
  <2> QED
    BY <1>2, <1>3, <2>1
<1> QED
  BY <1>3, <1>4, <1>5, <1>6

LEMMA ReplaceColumnsKeeps ==
  ASSUME HistoryInv, NEW layout, ReplaceColumns(layout)
  PROVE  HistoryInv'
<1>1. /\ undoStack' = documents(undoStack) /\ redoStack' = documents(redoStack)
      /\ UNCHANGED <<engineUndo, engineRedo, acting, strayed>>
  BY DEF ReplaceColumns, engineVars
<1>2. PICK u, r : u = undoStack' /\ r = redoStack'
  OBVIOUS
<1>3. isSequence(undoStack) /\ isSequence(redoStack) /\ isSequence(engineUndo) /\ isSequence(engineRedo)
  BY DEF HistoryInv, StacksAreStacks
<1>4. /\ isSequence(u) /\ documents(u) = u /\ (u = <<>> \/ isDocument(Last(u)))
      /\ \A to, from, end : Chained(u, to, from, end)
  BY <1>1, <1>2, <1>3, OnlyDocumentsLeft
<1>5. /\ isSequence(r) /\ documents(r) = r /\ (r = <<>> \/ isDocument(Last(r)))
      /\ \A to, from, end : Chained(r, to, from, end)
  BY <1>1, <1>2, <1>3, OnlyDocumentsLeft
<1>6. StacksAreStacks'
  BY <1>1, <1>2, <1>3, <1>4, <1>5 DEF StacksAreStacks
<1>7. ColumnsChain'
  BY <1>2, <1>4, <1>5 DEF ColumnsChain
<1>8. DocumentsFollow'
  <2>1. documents(undoStack') = documents(undoStack) /\ documents(redoStack') = documents(redoStack)
    BY <1>1, <1>2, <1>4, <1>5
  <2> QED
    BY <1>1, <2>1 DEF HistoryInv, DocumentsFollow
<1>9. TopIsDocument'
  BY <1>2, <1>4, <1>5 DEF TopIsDocument, stackOf
<1> QED
  BY <1>6, <1>7, <1>8, <1>9 DEF HistoryInv

LEMMA SelectColumnKeeps ==
  ASSUME HistoryInv, NEW c, NEW extend, SelectColumn(c, extend)
  PROVE  HistoryInv'
<1>1. UNCHANGED <<columns, resizing, undoStack, redoStack, engineUndo, engineRedo, acting, strayed, mixed>>
  BY DEF SelectColumn, engineVars
<1>2. laidOutColumns' = laidOutColumns
  BY <1>1 DEF laidOutColumns
<1> QED
  BY <1>1, <1>2, StacksStand

LEMMA SetRowHeightKeeps ==
  ASSUME HistoryInv, NEW h, SetRowHeight(h)
  PROVE  HistoryInv'
<1>1. PICK x : x = viewEntry("row-height", heights, h, cursor, cursor)
  OBVIOUS
<1>2. ~isColumns(x) /\ ~isDocument(x)
  BY <1>1 DEF viewEntry, isColumns, isDocument
<1>3. /\ undoStack' = trimHistoryInteraction(Append(undoStack, x), Len(engineUndo))
      /\ redoStack' = <<>> /\ strayed' = (strayed \/ acting \in {"undo", "redo"})
      /\ UNCHANGED engineVars /\ UNCHANGED <<columns, resizing, mixed>>
  BY <1>1 DEF SetRowHeight
<1>4. laidOutColumns' = laidOutColumns
  BY <1>3 DEF laidOutColumns
<1>5. ~mixed' => /\ ~mixed
                 /\ IF isColumns(x) THEN laidOutColumns = x["before"] /\ laidOutColumns' = x["after"]
                    ELSE laidOutColumns' = laidOutColumns
  BY <1>2, <1>3, <1>4
<1> QED
  BY <1>2, <1>3, <1>5, ViewEntryKept

-----------------------------------------------------------------------------
(* Transactions, undo and redo.                                            *)

LEMMA CommandsKeep ==
  ASSUME HistoryInv, StartCommand \/ Rejected \/ \E action \in {"undo", "redo"} : StartHistoryAction(action)
  PROVE  HistoryInv'
<1>1. UNCHANGED <<columns, undoStack, redoStack, engineUndo, engineRedo, resizing, strayed, mixed>>
  BY DEF StartCommand, Rejected, StartHistoryAction
<1>2. ASSUME acting' \in {"undo", "redo"}
      PROVE  stackOf(acting') = <<>> \/ isDocument(Last(stackOf(acting')))
  <2>1. PICK action \in {"undo", "redo"} : StartHistoryAction(action)
    BY <1>2 DEF StartCommand, Rejected
  <2> QED
    BY <2>1 DEF StartHistoryAction
<1> QED
  BY <1>1, <1>2, TransactionTurns

LEMMA FinishCommandKeeps ==
  ASSUME HistoryInv, FinishCommand
  PROVE  HistoryInv'
<1>1. isSequence(undoStack) /\ isSequence(engineUndo)
  BY DEF HistoryInv, StacksAreStacks
<1>2. PICK x : x = documentEntry(historySteps, cursor, cursor)
  OBVIOUS
<1>3. isDocument(x) /\ historySteps = x.tx
  BY <1>2 DEF documentEntry, isDocument
<1>4. PICK s, e, e2, t, n : /\ s = undoStack /\ e = engineUndo /\ e2 = engineUndo' /\ t = undoStack'
                            /\ n = historySteps
  OBVIOUS
<1>5. /\ e2 = newest(Append(e, n), HistoryLimit)
      /\ t = trimHistoryInteraction(Append(s, x), Len(e2))
      /\ redoStack' = <<>> /\ engineRedo' = <<>> /\ acting' = "none"
      /\ UNCHANGED <<columns, resizing, strayed, mixed>>
  BY <1>2, <1>4 DEF FinishCommand
<1>6. isSequence(s) /\ isSequence(e) /\ n = x.tx
  BY <1>1, <1>3, <1>4
<1>7. isSequence(e2) /\ isSequence(t)
  BY <1>3, <1>5, <1>6, DocumentRecorded
<1>8. Follows(documents(s), e) => Follows(documents(t), e2)
  BY <1>3, <1>5, <1>6, DocumentRecorded
<1>9. \A to, from, end : Chained(s, to, from, end) => Chained(t, to, from, end)
  BY <1>3, <1>5, <1>6, DocumentRecorded
<1>10. StacksAreStacks'
  BY <1>4, <1>5, <1>7, NothingIsSequence DEF StacksAreStacks
<1>11. ColumnsChain'
  <2>1. laidOutColumns' = laidOutColumns
    BY <1>5 DEF laidOutColumns
  <2>2. ASSUME ~strayed', ~mixed'
        PROVE  Chained(undoStack', "after", "before", laidOutColumns')
    <3>1. Chained(s, "after", "before", laidOutColumns)
      BY <1>4, <1>5, <2>2 DEF HistoryInv, ColumnsChain
    <3>2. PICK c : c = laidOutColumns
      OBVIOUS
    <3>3. Chained(t, "after", "before", c)
      BY <1>9, <3>1, <3>2
    <3> QED
      BY <1>4, <2>1, <3>2, <3>3
  <2>3. Chained(redoStack', "before", "after", laidOutColumns')
    BY <1>5, NothingChains
  <2> QED
    BY <2>2, <2>3 DEF ColumnsChain
<1>12. DocumentsFollow'
  <2>1. Follows(documents(redoStack'), engineRedo')
    BY <1>5, NothingIsSequence, NoneFollows
  <2>2. ASSUME ~strayed' PROVE Follows(documents(undoStack'), engineUndo')
    BY <1>4, <1>5, <1>8, <2>2 DEF HistoryInv, DocumentsFollow
  <2> QED
    BY <2>1, <2>2 DEF DocumentsFollow
<1>13. TopIsDocument'
  BY <1>5 DEF TopIsDocument
<1> QED
  BY <1>10, <1>11, <1>12, <1>13 DEF HistoryInv

\* The transaction on top of the engine's stack moves to the other one.
EngineMoves(action) ==
    IF action = "undo"
    THEN engineUndo # <<>> /\ engineUndo' = Front(engineUndo)
         /\ engineRedo' = Append(engineRedo, Last(engineUndo))
    ELSE engineRedo # <<>> /\ engineRedo' = Front(engineRedo)
         /\ engineUndo' = Append(engineUndo, Last(engineRedo))

backIn(action) == IF action = "undo" THEN "before" ELSE "after"

LEMMA EngineMovesSequences ==
  ASSUME StacksAreStacks, NEW action, EngineMoves(action) \/ UNCHANGED <<engineUndo, engineRedo>>
  PROVE  isSequence(engineUndo') /\ isSequence(engineRedo')
<1>1. isSequence(engineUndo) /\ isSequence(engineRedo)
  BY DEF StacksAreStacks
<1>2. PICK e, f : e = engineUndo /\ f = engineRedo
  OBVIOUS
<1>3. isSequence(e) /\ isSequence(f)
  BY <1>1, <1>2
<1>4. (e # <<>> => isSequence(Front(e))) /\ (f # <<>> => isSequence(Front(f)))
  BY <1>3, FrontIsSequence
<1>5. isSequence(Append(f, Last(e))) /\ isSequence(Append(e, Last(f)))
  BY <1>3, AppendedIsSequence
<1> QED
  BY <1>2, <1>3, <1>4, <1>5 DEF EngineMoves

LEMMA NothingMoves ==
  ASSUME StacksAreStacks, isSequence(engineUndo'), isSequence(engineRedo'),
         NEW action, Moves(action), stackOf(action) = <<>>
  PROVE  isSequence(undoStack') /\ isSequence(redoStack')
<1>1. isSequence(undoStack) /\ isSequence(redoStack)
  BY DEF StacksAreStacks
<1>2. PICK u, r, e, f : u = undoStack /\ r = redoStack /\ e = engineUndo' /\ f = engineRedo'
  OBVIOUS
<1>3. undoStack' = trimHistoryInteraction(u, Len(e)) /\ redoStack' = trimHistoryInteraction(r, Len(f))
  BY <1>2 DEF Moves, stackOf
<1>4. PICK u2, r2 : u2 = undoStack' /\ r2 = redoStack'
  OBVIOUS
<1>5. isSequence(u) /\ isSequence(r) /\ isSequence(e) /\ isSequence(f)
  BY <1>1, <1>2
<1>6. u2 = trimHistoryInteraction(u, Len(e)) /\ r2 = trimHistoryInteraction(r, Len(f))
  BY <1>3, <1>4
<1>7. isSequence(u2) /\ isSequence(r2)
  BY <1>5, <1>6, TrimmedFits
<1> QED
  BY <1>4, <1>7

LEMMA MovesKeepStacks ==
  ASSUME StacksAreStacks, isSequence(engineUndo'), isSequence(engineRedo'),
         NEW action \in {"undo", "redo"}, Moves(action), stackOf(action) # <<>>,
         NEW x, x = Last(stackOf(action))
  PROVE  /\ isSequence(undoStack') /\ isSequence(redoStack')
         /\ \A end : Chained(undoStack, "after", "before", end) /\ Chained(redoStack, "before", "after", end)
              => /\ Chained(undoStack', "after", "before", endAfter(x, backIn(action), end))
                 /\ Chained(redoStack', "before", "after", endAfter(x, backIn(action), end))
         /\ /\ Follows(documents(undoStack), engineUndo) /\ Follows(documents(redoStack), engineRedo)
            /\ isDocument(x) => EngineMoves(action)
            /\ ~isDocument(x) => UNCHANGED <<engineUndo, engineRedo>>
            => Follows(documents(undoStack'), engineUndo') /\ Follows(documents(redoStack'), engineRedo')
<1>1. PICK u, r, u2, r2, e, f, e2, f2 :
        /\ u = undoStack /\ r = redoStack /\ u2 = undoStack' /\ r2 = redoStack'
        /\ e = engineUndo /\ f = engineRedo /\ e2 = engineUndo' /\ f2 = engineRedo'
  OBVIOUS
<1>2. /\ isSequence(u) /\ isSequence(r) /\ isSequence(e) /\ isSequence(f)
      /\ isSequence(e2) /\ isSequence(f2)
  BY <1>1 DEF StacksAreStacks
<1>3. CASE action = "undo"
  <2>1. /\ u # <<>> /\ x = Last(u)
        /\ u2 = trimHistoryInteraction(Front(u), Len(e2))
        /\ r2 = trimHistoryInteraction(Append(r, x), Len(f2))
    BY <1>1, <1>3 DEF Moves, stackOf
  <2>2. isSequence(u2) /\ isSequence(r2)
    BY <1>2, <2>1, EntryMoves
  <2>3. ASSUME NEW end, Chained(u, "after", "before", end), Chained(r, "before", "after", end)
        PROVE  /\ Chained(u2, "after", "before", endAfter(x, "before", end))
               /\ Chained(r2, "before", "after", endAfter(x, "before", end))
    BY <1>2, <2>1, <2>3, EntryMoves
  <2>4. ASSUME Follows(documents(u), e), Follows(documents(r), f), TransactionMoves(x, e, f, e2, f2)
        PROVE  Follows(documents(u2), e2) /\ Follows(documents(r2), f2)
    BY <1>2, <2>1, <2>4, EntryMoves
  <2>5. ASSUME isDocument(x) => EngineMoves(action),
               ~isDocument(x) => UNCHANGED <<engineUndo, engineRedo>>
        PROVE  TransactionMoves(x, e, f, e2, f2)
    <3>1. CASE isDocument(x)
      BY <1>1, <1>3, <2>5, <3>1 DEF EngineMoves, TransactionMoves
    <3>2. CASE ~isDocument(x)
      BY <1>1, <2>5, <3>2 DEF TransactionMoves
    <3> QED
      BY <3>1, <3>2
  <2>6. backIn(action) = "before"
    BY <1>3 DEF backIn
  <2>7. isSequence(undoStack') /\ isSequence(redoStack')
    BY <1>1, <2>2
  <2>8. ASSUME NEW end, Chained(undoStack, "after", "before", end), Chained(redoStack, "before", "after", end)
        PROVE  /\ Chained(undoStack', "after", "before", endAfter(x, backIn(action), end))
               /\ Chained(redoStack', "before", "after", endAfter(x, backIn(action), end))
    BY <1>1, <2>3, <2>6, <2>8
  <2>9. ASSUME Follows(documents(undoStack), engineUndo), Follows(documents(redoStack), engineRedo),
               isDocument(x) => EngineMoves(action),
               ~isDocument(x) => UNCHANGED <<engineUndo, engineRedo>>
        PROVE  Follows(documents(undoStack'), engineUndo') /\ Follows(documents(redoStack'), engineRedo')
    BY <1>1, <2>4, <2>5, <2>9
  <2> QED
    BY <2>7, <2>8, <2>9
<1>4. CASE action = "redo"
  <2>1. /\ r # <<>> /\ x = Last(r)
        /\ r2 = trimHistoryInteraction(Front(r), Len(f2))
        /\ u2 = trimHistoryInteraction(Append(u, x), Len(e2))
    BY <1>1, <1>4 DEF Moves, stackOf
  <2>2. isSequence(r2) /\ isSequence(u2)
    BY <1>2, <2>1, EntryMoves
  <2>3. ASSUME NEW end, Chained(u, "after", "before", end), Chained(r, "before", "after", end)
        PROVE  /\ Chained(u2, "after", "before", endAfter(x, "after", end))
               /\ Chained(r2, "before", "after", endAfter(x, "after", end))
    BY <1>2, <2>1, <2>3, EntryMoves
  <2>4. ASSUME Follows(documents(u), e), Follows(documents(r), f), TransactionMoves(x, f, e, f2, e2)
        PROVE  Follows(documents(u2), e2) /\ Follows(documents(r2), f2)
    BY <1>2, <2>1, <2>4, EntryMoves
  <2>5. ASSUME isDocument(x) => EngineMoves(action),
               ~isDocument(x) => UNCHANGED <<engineUndo, engineRedo>>
        PROVE  TransactionMoves(x, f, e, f2, e2)
    <3>1. CASE isDocument(x)
      BY <1>1, <1>4, <2>5, <3>1 DEF EngineMoves, TransactionMoves
    <3>2. CASE ~isDocument(x)
      BY <1>1, <2>5, <3>2 DEF TransactionMoves
    <3> QED
      BY <3>1, <3>2
  <2>6. backIn(action) = "after"
    BY <1>4 DEF backIn
  <2>7. isSequence(undoStack') /\ isSequence(redoStack')
    BY <1>1, <2>2
  <2>8. ASSUME NEW end, Chained(undoStack, "after", "before", end), Chained(redoStack, "before", "after", end)
        PROVE  /\ Chained(undoStack', "after", "before", endAfter(x, backIn(action), end))
               /\ Chained(redoStack', "before", "after", endAfter(x, backIn(action), end))
    BY <1>1, <2>3, <2>6, <2>8
  <2>9. ASSUME Follows(documents(undoStack), engineUndo), Follows(documents(redoStack), engineRedo),
               isDocument(x) => EngineMoves(action),
               ~isDocument(x) => UNCHANGED <<engineUndo, engineRedo>>
        PROVE  Follows(documents(undoStack'), engineUndo') /\ Follows(documents(redoStack'), engineRedo')
    BY <1>1, <2>4, <2>5, <2>9
  <2> QED
    BY <2>7, <2>8, <2>9
<1> QED
  BY <1>3, <1>4

LEMMA ApplyColumnHistoryKeeps ==
  ASSUME HistoryInv, NEW action \in {"undo", "redo"}, ApplyColumnHistory(action)
  PROVE  HistoryInv'
<1>1. PICK x : x = Last(stackOf(action))
  OBVIOUS
<1>2. /\ stackOf(action) # <<>> /\ x.kind = "columns" /\ acting = "none" /\ acting' = acting
      /\ engineUndo' = engineUndo /\ engineRedo' = engineRedo /\ Moves(action)
      /\ mixed' = (mixed \/ resizing # <<>>) /\ UNCHANGED <<resizing, strayed>>
  BY <1>1 DEF ApplyColumnHistory, engineVars
<1>3. columns' = x[backIn(action)]
  BY <1>1 DEF ApplyColumnHistory, backIn
<1>4. isColumns(x) /\ ~isDocument(x)
  BY <1>2 DEF isColumns, isDocument
<1>5. StacksAreStacks /\ isSequence(engineUndo') /\ isSequence(engineRedo')
  BY <1>2 DEF HistoryInv, StacksAreStacks
<1>6. isSequence(undoStack') /\ isSequence(redoStack')
  BY <1>1, <1>2, <1>5, MovesKeepStacks
<1>7. ASSUME NEW end, Chained(undoStack, "after", "before", end), Chained(redoStack, "before", "after", end)
      PROVE  /\ Chained(undoStack', "after", "before", endAfter(x, backIn(action), end))
             /\ Chained(redoStack', "before", "after", endAfter(x, backIn(action), end))
  BY <1>1, <1>2, <1>5, <1>7, MovesKeepStacks
<1>8. ASSUME Follows(documents(undoStack), engineUndo), Follows(documents(redoStack), engineRedo)
      PROVE  Follows(documents(undoStack'), engineUndo') /\ Follows(documents(redoStack'), engineRedo')
  BY <1>1, <1>2, <1>4, <1>5, <1>8, MovesKeepStacks
<1>9. StacksAreStacks'
  BY <1>5, <1>6 DEF StacksAreStacks
<1>10. ColumnsChain'
  <2>1. ASSUME ~strayed', ~mixed'
        PROVE  /\ Chained(undoStack', "after", "before", laidOutColumns')
               /\ Chained(redoStack', "before", "after", laidOutColumns')
    <3>1. ~strayed /\ ~mixed /\ resizing' = <<>>
      BY <1>2, <2>1
    <3>2. laidOutColumns' = endAfter(x, backIn(action), laidOutColumns)
      BY <1>3, <1>4, <3>1 DEF laidOutColumns, endAfter
    <3>3. /\ Chained(undoStack, "after", "before", laidOutColumns)
          /\ Chained(redoStack, "before", "after", laidOutColumns)
      BY <3>1 DEF HistoryInv, ColumnsChain
    <3>4. PICK c : c = laidOutColumns
      OBVIOUS
    <3>5. /\ Chained(undoStack', "after", "before", endAfter(x, backIn(action), c))
          /\ Chained(redoStack', "before", "after", endAfter(x, backIn(action), c))
      BY <1>7, <3>3, <3>4
    <3> QED
      BY <3>2, <3>4, <3>5
  <2> QED
    BY <2>1 DEF ColumnsChain
<1>11. DocumentsFollow'
  BY <1>2, <1>8 DEF HistoryInv, DocumentsFollow
<1>12. TopIsDocument'
  BY <1>2 DEF TopIsDocument
<1> QED
  BY <1>9, <1>10, <1>11, <1>12 DEF HistoryInv

LEMMA ApplyRowHeightHistoryKeeps ==
  ASSUME HistoryInv, NEW action \in {"undo", "redo"}, ApplyRowHeightHistory(action)
  PROVE  HistoryInv'
<1>1. PICK x : x = Last(stackOf(action))
  OBVIOUS
<1>2. /\ stackOf(action) # <<>> /\ x.kind = "row-height" /\ acting = "none" /\ acting' = acting
      /\ engineUndo' = engineUndo /\ engineRedo' = engineRedo /\ Moves(action)
      /\ UNCHANGED <<columns, resizing, strayed, mixed>>
  BY <1>1 DEF ApplyRowHeightHistory, engineVars
<1>3. ~isColumns(x) /\ ~isDocument(x)
  BY <1>2 DEF isColumns, isDocument
<1>4. StacksAreStacks /\ isSequence(engineUndo') /\ isSequence(engineRedo')
  BY <1>2 DEF HistoryInv, StacksAreStacks
<1>5. isSequence(undoStack') /\ isSequence(redoStack')
  BY <1>1, <1>2, <1>4, MovesKeepStacks
<1>6. ASSUME NEW end, Chained(undoStack, "after", "before", end), Chained(redoStack, "before", "after", end)
      PROVE  /\ Chained(undoStack', "after", "before", endAfter(x, backIn(action), end))
             /\ Chained(redoStack', "before", "after", endAfter(x, backIn(action), end))
  BY <1>1, <1>2, <1>4, <1>6, MovesKeepStacks
<1>7. ASSUME Follows(documents(undoStack), engineUndo), Follows(documents(redoStack), engineRedo)
      PROVE  Follows(documents(undoStack'), engineUndo') /\ Follows(documents(redoStack'), engineRedo')
  BY <1>1, <1>2, <1>3, <1>4, <1>7, MovesKeepStacks
<1>8. StacksAreStacks'
  BY <1>4, <1>5 DEF StacksAreStacks
<1>9. ColumnsChain'
  <2>1. ASSUME ~strayed', ~mixed'
        PROVE  /\ Chained(undoStack', "after", "before", laidOutColumns')
               /\ Chained(redoStack', "before", "after", laidOutColumns')
    <3>1. laidOutColumns' = laidOutColumns
      BY <1>2 DEF laidOutColumns
    <3>2. /\ Chained(undoStack, "after", "before", laidOutColumns)
          /\ Chained(redoStack, "before", "after", laidOutColumns)
      BY <1>2, <2>1 DEF HistoryInv, ColumnsChain
    <3>3. PICK c : c = laidOutColumns
      OBVIOUS
    <3>4. endAfter(x, backIn(action), c) = c
      BY <1>3 DEF endAfter
    <3>5. /\ Chained(undoStack', "after", "before", endAfter(x, backIn(action), c))
          /\ Chained(redoStack', "before", "after", endAfter(x, backIn(action), c))
      BY <1>6, <3>2, <3>3
    <3> QED
      BY <3>1, <3>3, <3>4, <3>5
  <2> QED
    BY <2>1 DEF ColumnsChain
<1>10. DocumentsFollow'
  BY <1>2, <1>7 DEF HistoryInv, DocumentsFollow
<1>11. TopIsDocument'
  BY <1>2 DEF TopIsDocument
<1> QED
  BY <1>8, <1>9, <1>10, <1>11 DEF HistoryInv

LEMMA FinishHistoryActionKeeps ==
  ASSUME HistoryInv, NEW action \in {"undo", "redo"}, FinishHistoryAction(action)
  PROVE  HistoryInv'
<1>1. PICK x : x = Last(stackOf(action))
  OBVIOUS
<1>2. /\ acting = action /\ acting' = "none" /\ Moves(action) /\ EngineMoves(action)
      /\ strayed' = (strayed \/ stackOf(action) = <<>>)
      /\ UNCHANGED <<columns, resizing, mixed>>
  BY DEF FinishHistoryAction, EngineMoves
<1>3. StacksAreStacks
  BY DEF HistoryInv
<1>4. isSequence(engineUndo') /\ isSequence(engineRedo')
  BY <1>2, <1>3, EngineMovesSequences
<1>5. isSequence(undoStack') /\ isSequence(redoStack')
  <2>1. CASE stackOf(action) = <<>>
    BY <1>2, <1>3, <1>4, <2>1, NothingMoves
  <2>2. CASE stackOf(action) # <<>>
    BY <1>1, <1>2, <1>3, <1>4, <2>2, MovesKeepStacks
  <2> QED
    BY <2>1, <2>2
<1>6. ASSUME ~strayed' PROVE stackOf(action) # <<>> /\ isDocument(x) /\ ~strayed
  BY <1>1, <1>2, <1>6 DEF HistoryInv, TopIsDocument
<1>7. ASSUME ~strayed',
             NEW end, Chained(undoStack, "after", "before", end), Chained(redoStack, "before", "after", end)
      PROVE  /\ Chained(undoStack', "after", "before", endAfter(x, backIn(action), end))
             /\ Chained(redoStack', "before", "after", endAfter(x, backIn(action), end))
  <2>1. stackOf(action) # <<>>
    BY <1>6, <1>7
  <2> QED
    BY <1>1, <1>2, <1>3, <1>4, <1>7, <2>1, MovesKeepStacks
<1>8. ASSUME ~strayed', Follows(documents(undoStack), engineUndo), Follows(documents(redoStack), engineRedo)
      PROVE  Follows(documents(undoStack'), engineUndo') /\ Follows(documents(redoStack'), engineRedo')
  <2>1. stackOf(action) # <<>> /\ isDocument(x)
    BY <1>6, <1>8
  <2> QED
    BY <1>1, <1>2, <1>3, <1>4, <1>8, <2>1, MovesKeepStacks
<1>9. StacksAreStacks'
  BY <1>4, <1>5 DEF StacksAreStacks
<1>10. ColumnsChain'
  <2>1. ASSUME ~strayed', ~mixed'
        PROVE  /\ Chained(undoStack', "after", "before", laidOutColumns')
               /\ Chained(redoStack', "before", "after", laidOutColumns')
    <3>1. laidOutColumns' = laidOutColumns
      BY <1>2 DEF laidOutColumns
    <3>2. /\ Chained(undoStack, "after", "before", laidOutColumns)
          /\ Chained(redoStack, "before", "after", laidOutColumns)
      BY <1>2, <1>6, <2>1 DEF HistoryInv, ColumnsChain
    <3>3. PICK c : c = laidOutColumns
      OBVIOUS
    <3>4. endAfter(x, backIn(action), c) = c
      BY <1>6, <2>1, NotBoth DEF endAfter
    <3>5. /\ Chained(undoStack', "after", "before", endAfter(x, backIn(action), c))
          /\ Chained(redoStack', "before", "after", endAfter(x, backIn(action), c))
      BY <1>7, <2>1, <3>2, <3>3
    <3> QED
      BY <3>1, <3>3, <3>4, <3>5
  <2> QED
    BY <2>1 DEF ColumnsChain
<1>11. DocumentsFollow'
  BY <1>6, <1>8 DEF HistoryInv, DocumentsFollow
<1>12. TopIsDocument'
  BY <1>2 DEF TopIsDocument
<1> QED
  BY <1>9, <1>10, <1>11, <1>12 DEF HistoryInv

\* With nothing in any stack everything agrees.
LEMMA EmptyStacksAgree ==
  ASSUME undoStack = <<>>, redoStack = <<>>, engineUndo = <<>>, engineRedo = <<>>, acting = "none"
  PROVE  HistoryInv
<1>1. Follows(documents(<<>>), <<>>)
  BY NothingIsSequence, NoneFollows
<1>2. StacksAreStacks /\ ColumnsChain /\ DocumentsFollow /\ TopIsDocument
  BY <1>1, NothingIsSequence, NothingChains
     DEF StacksAreStacks, ColumnsChain, DocumentsFollow, TopIsDocument
<1> QED
  BY <1>2 DEF HistoryInv

LEMMA ReplaceDocumentHistoryKeeps ==
  ASSUME ReplaceDocumentHistory
  PROVE  HistoryInv'
<1>1. undoStack' = <<>> /\ redoStack' = <<>> /\ engineUndo' = <<>> /\ engineRedo' = <<>> /\ acting' = "none"
  BY DEF ReplaceDocumentHistory
<1>2. Follows(documents(<<>>), <<>>)
  BY NothingIsSequence, NoneFollows
<1>3. StacksAreStacks' /\ ColumnsChain' /\ DocumentsFollow' /\ TopIsDocument'
  BY <1>1, <1>2, NothingIsSequence, NothingChains
     DEF StacksAreStacks, ColumnsChain, DocumentsFollow, TopIsDocument
<1> QED
  BY <1>3 DEF HistoryInv

-----------------------------------------------------------------------------
(* The stacks agree.                                                       *)

LEMMA HistoryInvInitially ==
  ASSUME EditorHistoryInit
  PROVE  HistoryInv
BY EmptyStacksAgree DEF EditorHistoryInit

LEMMA HistoryInvKept ==
  ASSUME HistoryInv, [EditorHistoryNext]_historyVars
  PROVE  HistoryInv'
<1>1. ASSUME NEW i \in Places, ResizeColumn(i) \/ BeginColumnResize(i) PROVE HistoryInv'
  BY <1>1, ResizeColumnKeeps, BeginColumnResizeKeeps
<1>2. CASE EndColumnResize
  BY <1>2, EndColumnResizeKeeps
<1>3. CASE \/ \E i, j \in Places : ReorderColumns(i, j)
           \/ \E i \in Places, frozen \in {"start", "no", "end"} : SetColumnFrozen(i, frozen)
           \/ \E i \in Places, before \in BOOLEAN : InsertColumn(i, before)
           \/ \E requested \in SomeColumns : DeleteColumns(requested)
           \/ \E requested \in SomeColumns, show \in BOOLEAN : SetColumnVisibility(requested, show)
  BY <1>3, ColumnOperationsKeep
<1>4. CASE ReplaceColumns(OtherLayout)
  BY <1>4, ReplaceColumnsKeeps
<1>5. ASSUME NEW c \in ToSet(ids(columns)), NEW extend \in BOOLEAN, SelectColumn(c, extend)
      PROVE  HistoryInv'
  BY <1>5, SelectColumnKeeps
<1>6. ASSUME NEW h \in 0 .. 2, SetRowHeight(h) PROVE HistoryInv'
  BY <1>6, SetRowHeightKeeps
<1>7. CASE StartCommand \/ Rejected
  BY <1>7, CommandsKeep
<1>8. CASE FinishCommand
  BY <1>8, FinishCommandKeeps
<1>9. ASSUME NEW action \in {"undo", "redo"},
             \/ ApplyColumnHistory(action)
             \/ ApplyRowHeightHistory(action)
             \/ StartHistoryAction(action)
             \/ FinishHistoryAction(action)
      PROVE  HistoryInv'
  BY <1>9, ApplyColumnHistoryKeeps, ApplyRowHeightHistoryKeeps, CommandsKeep, FinishHistoryActionKeeps
<1>10. CASE ReplaceDocumentHistory
  BY <1>10, ReplaceDocumentHistoryKeeps
<1>11. CASE UNCHANGED historyVars
  <2>1. UNCHANGED <<undoStack, redoStack, engineUndo, engineRedo, acting, strayed, mixed, resizing, columns>>
    BY <1>11 DEF historyVars
  <2>2. laidOutColumns' = laidOutColumns
    BY <2>1 DEF laidOutColumns
  <2> QED
    BY <2>1, <2>2, StacksStand
<1> QED
  BY <1>1, <1>2, <1>3, <1>4, <1>5, <1>6, <1>7, <1>8, <1>9, <1>10, <1>11 DEF EditorHistoryNext

LEMMA HistoryInvAgrees ==
  ASSUME HistoryInv
  PROVE  HistoriesAgree
<1>1. isSequence(undoStack) /\ isSequence(redoStack) /\ isSequence(engineUndo) /\ isSequence(engineRedo)
  BY DEF HistoryInv, StacksAreStacks
<1>2. PICK u, r, c, e, f : /\ u = undoStack /\ r = redoStack /\ c = columns
                           /\ e = engineUndo /\ f = engineRedo
  OBVIOUS
<1>3. ASSUME ~strayed, ~mixed, resizing = <<>>
      PROVE  /\ topColumns(u) # 0 => u[topColumns(u)].after = c
             /\ topColumns(r) # 0 => r[topColumns(r)].before = c
  <2>1. Chained(u, "after", "before", c) /\ Chained(r, "before", "after", c)
    BY <1>2, <1>3 DEF HistoryInv, ColumnsChain, laidOutColumns
  <2>2. PICK A, B : u \in Seq(A) /\ r \in Seq(B)
    BY <1>1, <1>2 DEF isSequence
  <2>3. topColumns(u) # 0 => u[topColumns(u)]["after"] = c
    BY <2>1, <2>2, TopOfChain
  <2>4. topColumns(r) # 0 => r[topColumns(r)]["before"] = c
    BY <2>1, <2>2, TopOfChain
  <2> QED
    BY <2>3, <2>4
<1>4. ASSUME ~strayed PROVE IsSuffix(txs(u), e) /\ IsSuffix(txs(r), f)
  <2>1. Follows(documents(u), e) /\ Follows(documents(r), f)
    BY <1>2, <1>4 DEF HistoryInv, DocumentsFollow
  <2>2. isSequence(u) /\ isSequence(r) /\ isSequence(e) /\ isSequence(f)
    BY <1>1, <1>2
  <2>3. IsSuffix(txs(u), e)
    BY <2>1, <2>2, SuffixesFollow
  <2>4. IsSuffix(txs(r), f)
    BY <2>1, <2>2, SuffixesFollow
  <2> QED
    BY <2>3, <2>4
<1>5. ColumnsFollowHistory
  BY <1>2, <1>3 DEF ColumnsFollowHistory
<1> QED
  BY <1>2, <1>4, <1>5 DEF HistoriesAgree

(* However users mix column changes, row heights, commands, undo and redo, *)
(* the entry on top of each stack goes on from the columns on the screen,  *)
(* and the document entries of the editor's stacks are the newest of the   *)
(* engine's transactions in the same order (editor.ts:7978, 8103), for     *)
(* every layout, history limit and number of steps.                        *)
THEOREM HistoriesStayTogether ==
  EditorHistoryInit /\ [][EditorHistoryNext]_historyVars => []HistoriesAgree
<1>1. EditorHistoryInit => HistoryInv
  BY HistoryInvInitially
<1>2. HistoryInv /\ [EditorHistoryNext]_historyVars => HistoryInv'
  BY HistoryInvKept
<1>3. HistoryInv => HistoriesAgree
  BY HistoryInvAgrees
<1> QED
  BY <1>1, <1>2, <1>3, PTL

-----------------------------------------------------------------------------
(* The strokes that were typed, and the sequence that is under way.        *)

EventStrokes == {eventStroke(e) : e \in Presses}

LEMMA StrokeMatchesItself == \A s : strokeMatches(s, s)
BY DEF strokeMatches

LEMMA AllEndInNothing ==
  ASSUME NEW A, NEW t \in Seq(A)
  PROVE  endsIn(<<>>, t)
<1>1. Len(t) \in Nat /\ Len(<<>>) = 0 /\ 0 .. 0 - 1 = {}
  BY LenProperties, EmptySeq
<1> QED
  BY <1>1 DEF endsIn

LEMMA AppendedEnds ==
  ASSUME NEW A, NEW t \in Seq(A), NEW s \in Seq(A), endsIn(s, t), NEW x \in A
  PROVE  endsIn(Append(s, x), Append(t, x))
<1>1. PICK u, v : u = Append(t, x) /\ v = Append(s, x)
  OBVIOUS
<1>2. /\ Len(u) = Len(t) + 1 /\ Len(t) \in Nat /\ u[Len(t) + 1] = x
      /\ \A i \in 1 .. Len(t) : u[i] = t[i]
  BY <1>1, AppendProperties, LenProperties
<1>3. /\ Len(v) = Len(s) + 1 /\ Len(s) \in Nat /\ v[Len(s) + 1] = x
      /\ \A i \in 1 .. Len(s) : v[i] = s[i]
  BY <1>1, AppendProperties, LenProperties
<1>4. Len(s) <= Len(t)
  BY DEF endsIn
<1>5. ASSUME NEW i \in 0 .. Len(v) - 1 PROVE u[Len(u) - i] = v[Len(v) - i]
  <2>1. CASE i = 0
    BY <1>2, <1>3, <2>1
  <2>2. CASE i # 0
    <3>1. PICK j : j = i - 1
      OBVIOUS
    <3>2. /\ j \in 0 .. Len(s) - 1 /\ Len(u) - i = Len(t) - j /\ Len(v) - i = Len(s) - j
          /\ Len(t) - j \in 1 .. Len(t) /\ Len(s) - j \in 1 .. Len(s)
      BY <1>2, <1>3, <1>4, <2>2, <3>1
    <3>3. u[Len(t) - j] = t[Len(t) - j] /\ v[Len(s) - j] = s[Len(s) - j]
      BY <1>2, <1>3, <3>2
    <3>4. t[Len(t) - j] = s[Len(s) - j]
      BY <3>2 DEF endsIn
    <3> QED
      BY <3>2, <3>3, <3>4
  <2> QED
    BY <2>1, <2>2
<1>6. Len(v) <= Len(u)
  BY <1>2, <1>3, <1>4
<1> QED
  BY <1>1, <1>5, <1>6 DEF endsIn

LEMMA LastOfKeepsEnds ==
  ASSUME NEW A, NEW t \in Seq(A), NEW s \in Seq(A), endsIn(s, t), Len(s) <= LongestBinding
  PROVE  lastOf(t) \in Seq(A) /\ endsIn(s, lastOf(t))
<1>1. LongestBinding \in Nat /\ Len(t) \in Nat /\ Len(s) \in Nat
  BY ShortcutAssumption, LenProperties
<1>2. CASE Len(t) <= LongestBinding
  BY <1>2 DEF lastOf
<1>3. CASE ~(Len(t) <= LongestBinding)
  <2>1. PICK u, k : u = lastOf(t) /\ k = Len(t) - LongestBinding
    OBVIOUS
  <2>2. u = SubSeq(t, k + 1, Len(t)) /\ k \in 1 .. Len(t) /\ k + 1 \in Int /\ Len(t) \in Int
    BY <1>1, <1>3, <2>1 DEF lastOf
  <2>3. \A i \in k + 1 .. Len(t) : t[i] \in A
    BY <2>2, ElementOfSeq
  <2>4. /\ u \in Seq(A)
        /\ Len(u) = IF k + 1 <= Len(t) THEN Len(t) - (k + 1) + 1 ELSE 0
        /\ \A i \in 1 .. Len(t) - (k + 1) + 1 : u[i] = t[k + 1 + i - 1]
    BY <2>2, <2>3, SubSeqProperties
  <2>5. Len(u) = LongestBinding /\ \A i \in 1 .. LongestBinding : u[i] = t[k + i]
    BY <1>1, <1>3, <2>1, <2>4
  <2>6. ASSUME NEW i \in 0 .. Len(s) - 1 PROVE u[Len(u) - i] = s[Len(s) - i]
    <3>1. Len(u) - i \in 1 .. LongestBinding /\ k + (Len(u) - i) = Len(t) - i
      BY <1>1, <2>1, <2>5
    <3>2. u[Len(u) - i] = t[Len(t) - i]
      BY <2>5, <3>1
    <3> QED
      BY <3>2 DEF endsIn
  <2> QED
    BY <2>1, <2>4, <2>5, <2>6 DEF endsIn
<1> QED
  BY <1>2, <1>3

LEMMA PrefixMakesEnding ==
  ASSUME NEW A, NEW t \in Seq(A), NEW s \in Seq(A), endsIn(s, t),
         NEW B, NEW b \in Seq(B), Len(b) = Len(s), isPrefix(s, b)
  PROVE  endsWith(t, b)
<1>1. Len(t) \in Nat /\ Len(s) \in Nat /\ DOMAIN b = 1 .. Len(s) /\ DOMAIN s = 1 .. Len(s)
  BY LenProperties
<1>2. Len(b) <= Len(t)
  BY DEF endsIn
<1>3. ASSUME NEW i \in DOMAIN b PROVE strokeMatches(t[Len(t) - Len(b) + i], b[i])
  <2>1. PICK j : j = Len(s) - i
    OBVIOUS
  <2>2. j \in 0 .. Len(s) - 1 /\ Len(t) - Len(b) + i = Len(t) - j /\ i = Len(s) - j /\ i \in DOMAIN s
    BY <1>1, <2>1
  <2>3. t[Len(t) - Len(b) + i] = s[i]
    BY <2>2 DEF endsIn
  <2>4. strokeMatches(s[i], b[i])
    BY <2>2 DEF isPrefix
  <2> QED
    BY <2>3, <2>4
<1> QED
  BY <1>2, <1>3 DEF endsWith

LEMMA PrefixOfItself ==
  ASSUME NEW A, NEW s \in Seq(A)
  PROVE  isPrefix(s, s)
<1>1. Len(s) \in Nat
  BY LenProperties
<1> QED
  BY <1>1, StrokeMatchesItself DEF isPrefix

-----------------------------------------------------------------------------
(* What is configured, and who wins.                                       *)

ConfiguredIsOffered ==
    configured = <<>> \/ \E offer \in Offers : offer.valid /\ configured = offer.bindings

BindingFits(b) ==
    /\ b.strokes \in Seq(ToSet(b.strokes))
    /\ Len(b.strokes) \in 1 .. LongestBinding
    /\ b.priority \in Int /\ 1000 - b.priority \in Nat

LEMMA ConfiguredBindings ==
  ASSUME ConfiguredIsOffered
  PROVE  \E n \in Nat : DOMAIN configured = 1 .. n /\ \A i \in 1 .. n : BindingFits(configured[i])
<1>1. PICK c : c = configured
  OBVIOUS
<1>2. CASE c = <<>>
  <2>1. DOMAIN c = 1 .. 0
    BY <1>2
  <2>2. 0 \in Nat /\ 1 .. 0 = {}
    OBVIOUS
  <2> QED
    BY <1>1, <2>1, <2>2
<1>3. CASE c # <<>>
  <2>1. PICK offer \in Offers : offer.valid /\ c = offer.bindings
    BY <1>1, <1>3 DEF ConfiguredIsOffered
  <2>2. c \in Seq(ToSet(c))
    BY <2>1, ShortcutAssumption
  <2>3. \A b \in ToSet(c) : /\ b.strokes \in Seq(ToSet(b.strokes))
                            /\ Len(b.strokes) \in 1 .. LongestBinding
                            /\ b.priority \in -1000 .. 1000
    BY <2>1, ShortcutAssumption
  <2>4. DOMAIN c = 1 .. Len(c) /\ Len(c) \in Nat /\ ToSet(c) = {c[i] : i \in 1 .. Len(c)}
    BY <2>2, ToSetFacts
  <2>5. PICK n : n = Len(c)
    OBVIOUS
  <2>6. ASSUME NEW i \in 1 .. n
        PROVE  BindingFits(c[i])
    <3>1. c[i] \in ToSet(c)
      BY <2>4, <2>5
    <3>2. PICK q : q = c[i].priority
      OBVIOUS
    <3>3. q \in -1000 .. 1000
      BY <2>3, <3>1, <3>2
    <3>4. q \in Int /\ 1000 - q \in Nat
      BY <3>3
    <3> QED
      BY <2>3, <3>1, <3>2, <3>4 DEF BindingFits
  <2>7. n \in Nat /\ DOMAIN c = 1 .. n
    BY <2>4, <2>5
  <2> QED
    BY <1>1, <2>6, <2>7
<1> QED
  BY <1>2, <1>3

LEMMA WinnerIsFirst ==
  ASSUME ConfiguredIsOffered, NEW complete, complete \subseteq DOMAIN configured, complete # {}
  PROVE  LET w == chooseWinner(complete)
         IN  w \in complete /\ \A j \in complete :
               \/ configured[w].priority > configured[j].priority
               \/ configured[w].priority = configured[j].priority /\ w <= j
<1>1. PICK n \in Nat : DOMAIN configured = 1 .. n /\ \A i \in 1 .. n : BindingFits(configured[i])
  BY ConfiguredBindings
<1> DEFINE rank(i) == 1000 - configured[i].priority
           R == {rank(i) : i \in complete}
<1>0. \A i \in complete : i \in Nat /\ configured[i].priority \in Int /\ rank(i) \in Nat
  BY <1>1 DEF BindingFits
<1>2. R \in SUBSET Nat /\ R # {}
  <2> HIDE DEF rank
  <2> QED
    BY <1>0
<1>3. PICK r \in R : \A m \in R : r <= m
  <2> HIDE DEF R
  <2> QED
    BY <1>2, LeastNatural
<1> DEFINE B == {i \in complete : rank(i) = r}
<1>4. B \in SUBSET Nat /\ B # {}
  BY <1>0, <1>3
<1>5. PICK w \in B : \A m \in B : w <= m
  <2> HIDE DEF B
  <2> QED
    BY <1>4, LeastNatural
<1>6. ASSUME NEW j \in complete
      PROVE  \/ configured[w].priority > configured[j].priority
             \/ configured[w].priority = configured[j].priority /\ w <= j
  <2>1. w \in complete /\ rank(w) = r
    BY <1>5
  <2>2. rank(w) <= rank(j)
    <3> HIDE DEF rank
    <3> QED
      BY <1>3, <2>1
  <2>3. configured[w].priority \in Int /\ configured[j].priority \in Int
    BY <1>0, <2>1
  <2>4. rank(w) = rank(j) => w <= j
    <3> HIDE DEF rank
    <3> QED
      BY <1>5, <2>1
  <2> QED
    BY <2>2, <2>3, <2>4
<1>7. w \in complete
  BY <1>5
<1> QED
  BY <1>6, <1>7 DEF chooseWinner

-----------------------------------------------------------------------------
(* A press.                                                                *)

ShortcutInv ==
    /\ ConfiguredIsOffered
    /\ typed \in Seq(EventStrokes) /\ pendingStrokes \in Seq(EventStrokes)
    /\ endsIn(pendingStrokes, typed)
    /\ StrokesRunTheirBinding

\* What a press leaves of what was typed before, and the strokes it makes.
LEMMA PrefixIsTyped ==
  ASSUME NEW e \in Presses, NEW t \in Seq(EventStrokes), NEW s \in Seq(EventStrokes),
         endsIn(s, t)
  PROVE  /\ prefixFor(e, s) \in Seq(EventStrokes) /\ prefixFor(e, s) # <<>>
         /\ endsIn(prefixFor(e, s), Append(t, eventStroke(e)))
<1>1. PICK x : x = eventStroke(e)
  OBVIOUS
<1>2. x \in EventStrokes
  BY <1>1 DEF EventStrokes
<1>3. <<>> \in Seq(EventStrokes) /\ <<x>> = Append(<<>>, x)
  BY EmptySeq
<1>4. endsIn(Append(s, x), Append(t, x)) /\ endsIn(Append(<<>>, x), Append(t, x))
  BY <1>2, <1>3, AppendedEnds, AllEndInNothing
<1>5. Append(s, x) \in Seq(EventStrokes) /\ Append(s, x) # <<>> /\ Append(<<>>, x) \in Seq(EventStrokes)
      /\ Append(<<>>, x) # <<>>
  BY <1>2, <1>3, AppendProperties, EmptySeq
<1>6. prefixFor(e, s) = Append(s, x) \/ prefixFor(e, s) = Append(<<>>, x)
  BY <1>1, <1>3 DEF prefixFor
<1> QED
  BY <1>1, <1>4, <1>5, <1>6

\* The bindings of these strokes.
completedBy(e, prefix) == {i \in candidates(e, prefix) : Len(configured[i].strokes) = Len(prefix)}

LEMMA ConsumeYields ==
  ASSUME NEW e, NEW late, NEW result, result = consume(e, late)
  PROVE  \/ result = Nothing
         \/ LET prefix == prefixFor(e, IF late THEN <<>> ELSE pendingStrokes)
            IN  /\ ~e.altGraph
                /\ result.prefix = prefix
                /\ candidates(e, prefix) # {}
                /\ \/ result.kind = "pending" /\ completedBy(e, prefix) = {}
                   \/ /\ result.kind = "matched" /\ completedBy(e, prefix) # {}
                      /\ result.winner = chooseWinner(completedBy(e, prefix))
<1>1. CASE e.altGraph
  BY <1>1 DEF consume
<1>2. CASE ~e.altGraph
  <2>1. PICK prefix : prefix = prefixFor(e, IF late THEN <<>> ELSE pendingStrokes)
    OBVIOUS
  <2>2. PICK all, complete : all = candidates(e, prefix) /\ complete = completedBy(e, prefix)
    OBVIOUS
  <2>3. complete = {i \in all : Len(configured[i].strokes) = Len(prefix)}
    BY <2>2 DEF completedBy
  <2>4. result = CASE all = {} -> Nothing
              [] all # {} /\ complete = {} -> [kind |-> "pending", prefix |-> prefix, winner |-> 0]
              [] complete # {} ->
                   [kind |-> "matched", prefix |-> prefix, winner |-> chooseWinner(complete)]
    BY <1>2, <2>1, <2>2, <2>3 DEF consume
  <2>5. complete # {} => all # {}
    BY <2>3
  <2>6. CASE all = {}
    BY <2>4, <2>5, <2>6
  <2>7. CASE all # {} /\ complete = {}
    <3>1. result = [kind |-> "pending", prefix |-> prefix, winner |-> 0]
      BY <2>4, <2>7
    <3> QED
      BY <1>2, <2>1, <2>2, <2>7, <3>1
  <2>8. CASE all # {} /\ complete # {}
    <3>1. result = [kind |-> "matched", prefix |-> prefix, winner |-> chooseWinner(complete)]
      BY <2>4, <2>8
    <3> QED
      BY <1>2, <2>1, <2>2, <2>8, <3>1
  <2> QED
    BY <2>6, <2>7, <2>8
<1> QED
  BY <1>1, <1>2

\* What a press that did something had to choose from.
LEMMA AlsoPressedNow ==
  ASSUME configured' = configured, NEW e, NEW prefix, pressed'.scope = keyScope,
         pressed'.repeat = e.repeat, pressed'.prefix = prefix
  PROVE  alsoPressed' = completedBy(e, prefix)
BY DEF alsoPressed, completedBy, candidates

LEMMA PressFinds ==
  ASSUME ShortcutInv, NEW e \in Presses, NEW able, NEW late \in BOOLEAN, Press(e, able, late)
  PROVE  /\ configured' = configured /\ keyScope' = keyScope
         /\ typed' \in Seq(EventStrokes)
         /\ \/ pendingStrokes' = <<>> /\ pressed'.by = "nobody"
            \/ /\ pendingStrokes' = <<>> /\ pressed'.by = "default" /\ pressed'.prefix = <<>>
            \/ \E prefix \in Seq(EventStrokes) :
                 /\ prefix # <<>> /\ candidates(e, prefix) # {} /\ endsIn(prefix, typed')
                 /\ \/ /\ pendingStrokes' = prefix /\ completedBy(e, prefix) = {}
                       /\ pressed'.by = "nobody"
                    \/ /\ pendingStrokes' = <<>> /\ completedBy(e, prefix) # {}
                       /\ pressed'.scope = keyScope /\ pressed'.repeat = e.repeat
                       /\ pressed'.prefix = prefix /\ pressed'.able = able
                       /\ LET w == chooseWinner(completedBy(e, prefix))
                          IN  \/ /\ pressed'.by = "configured" /\ pressed'.id = configured[w].id
                                 /\ pressed'.strokes = configured[w].strokes
                              \/ pressed'.by = "default" /\ ~takes(configured[w].command, keyScope, able)
<1>1. PICK result : result = consume(e, late)
  OBVIOUS
<1>2. /\ pendingStrokes' = IF result.kind = "pending" THEN result.prefix ELSE <<>>
      /\ pressed' = afterwards(e, result, able)
      /\ typed' = IF e.altGraph THEN <<>>
                  ELSE lastOf(Append(IF late THEN <<>> ELSE typed, eventStroke(e)))
      /\ configured' = configured /\ keyScope' = keyScope
  BY <1>1 DEF Press
<1>3. PICK t, s, x : /\ t = (IF late THEN <<>> ELSE typed)
                     /\ s = (IF late THEN <<>> ELSE pendingStrokes)
                     /\ x = eventStroke(e)
  OBVIOUS
<1>4. x \in EventStrokes
  BY <1>3 DEF EventStrokes
<1>5. t \in Seq(EventStrokes) /\ s \in Seq(EventStrokes) /\ endsIn(s, t)
  <2>1. CASE late
    BY <1>3, <2>1, EmptySeq, AllEndInNothing
  <2>2. CASE ~late
    BY <1>3, <2>2 DEF ShortcutInv
  <2> QED
    BY <2>1, <2>2
<1>6. PICK u : u = Append(t, x)
  OBVIOUS
<1>7. u \in Seq(EventStrokes) /\ endsIn(<<>>, u)
  BY <1>4, <1>5, <1>6, AppendProperties, AllEndInNothing
<1>8. <<>> \in Seq(EventStrokes) /\ Len(<<>>) = 0 /\ LongestBinding \in Nat
  BY EmptySeq, ShortcutAssumption
<1>9. lastOf(u) \in Seq(EventStrokes)
  <2>1. PICK z \in Seq(EventStrokes) : z = <<>>
    BY <1>8
  <2>2. Len(z) <= LongestBinding
    BY <1>8, <2>1
  <2>3. endsIn(z, u)
    BY <1>7, <2>1
  <2> QED
    BY <1>7, <2>2, <2>3, LastOfKeepsEnds
<1>10. typed' \in Seq(EventStrokes)
  BY <1>2, <1>3, <1>6, <1>8, <1>9
<1>11. CASE result = Nothing
  <2>1. result.kind = "none" /\ result.prefix = <<>>
    BY <1>11 DEF Nothing
  <2>2. pendingStrokes' = <<>>
    BY <1>2, <2>1
  <2>3. pressed' = NotPressed \/ \E d : pressed' = did("default", d, e, result, able)
    BY <1>2, <2>1 DEF afterwards
  <2>4. pressed'.by = "nobody" \/ (pressed'.by = "default" /\ pressed'.prefix = <<>>)
    <3>1. CASE pressed' = NotPressed
      BY <3>1 DEF NotPressed
    <3>2. CASE \E d : pressed' = did("default", d, e, result, able)
      <4>1. PICK d : pressed' = did("default", d, e, result, able)
        BY <3>2
      <4>2. pressed'.by = "default" /\ pressed'.prefix = result.prefix
        BY <4>1 DEF did
      <4> QED
        BY <2>1, <4>2
    <3> QED
      BY <2>3, <3>1, <3>2
  <2> QED
    BY <1>2, <1>10, <2>2, <2>4
<1>12. CASE result # Nothing
  <2>1. PICK prefix : prefix = prefixFor(e, s)
    OBVIOUS
  <2>2. PICK complete : complete = completedBy(e, prefix)
    OBVIOUS
  <2>3. /\ ~e.altGraph
        /\ result.prefix = prefix
        /\ candidates(e, prefix) # {}
        /\ \/ result.kind = "pending" /\ complete = {}
           \/ result.kind = "matched" /\ complete # {} /\ result.winner = chooseWinner(complete)
    BY <1>1, <1>3, <1>12, <2>1, <2>2, ConsumeYields
  <2>4. prefix \in Seq(EventStrokes) /\ prefix # <<>> /\ endsIn(prefix, u)
    BY <1>3, <1>5, <1>6, <2>1, PrefixIsTyped
  <2>5. Len(prefix) <= LongestBinding
    <3>1. PICK i \in DOMAIN configured : Len(prefix) <= Len(configured[i].strokes)
      BY <2>3 DEF candidates, isPrefix
    <3>2. Len(configured[i].strokes) \in 1 .. LongestBinding
      BY ConfiguredBindings DEF ShortcutInv, BindingFits
    <3> QED
      BY <1>8, <2>4, <3>1, <3>2, LenProperties
  <2>6. endsIn(prefix, typed')
    <3>1. typed' = lastOf(u)
      BY <1>2, <1>3, <1>6, <2>3
    <3> QED
      BY <1>7, <2>4, <2>5, <3>1, LastOfKeepsEnds
  <2>7. CASE result.kind = "pending" /\ complete = {}
    <3>1. pendingStrokes' = prefix
      BY <1>2, <2>3, <2>7
    <3>2. pressed' = NotPressed
      BY <1>2, <2>7 DEF afterwards
    <3>3. pressed'.by = "nobody"
      BY <3>2 DEF NotPressed
    <3> QED
      BY <1>2, <1>10, <2>2, <2>3, <2>4, <2>6, <2>7, <3>1, <3>3
  <2>8. CASE result.kind = "matched" /\ complete # {} /\ result.winner = chooseWinner(complete)
    <3>1. pendingStrokes' = <<>>
      BY <1>2, <2>8
    <3>2. PICK w : w = chooseWinner(complete)
      OBVIOUS
    <3>3. \/ pressed' = did("configured", configured[w], e, result, able)
          \/ pressed' = NotPressed
          \/ /\ ~takes(configured[w].command, keyScope, able)
             /\ \E d : pressed' = did("default", d, e, result, able)
      <4>1. result.winner = w
        BY <2>8, <3>2
      <4>2. CASE takes(configured[w].command, keyScope, able)
        BY <1>2, <2>8, <4>1, <4>2 DEF afterwards
      <4>3. CASE ~takes(configured[w].command, keyScope, able)
        <5>1. pressed' = NotPressed \/ \E d : pressed' = did("default", d, e, result, able)
          BY <1>2, <4>1, <4>3 DEF afterwards
        <5> QED
          BY <4>3, <5>1
      <4> QED
        BY <4>2, <4>3
    <3>4. CASE pressed' = NotPressed
      <4>1. pressed'.by = "nobody"
        BY <3>4 DEF NotPressed
      <4> QED
        BY <1>2, <1>10, <3>1, <4>1
    <3>5. CASE pressed' = did("configured", configured[w], e, result, able)
      <4>1. /\ pressed'.scope = keyScope /\ pressed'.repeat = e.repeat
            /\ pressed'.prefix = prefix /\ pressed'.able = able /\ pressed'.by = "configured"
            /\ pressed'.id = configured[w].id /\ pressed'.strokes = configured[w].strokes
        BY <2>3, <3>5 DEF did
      <4> QED
        BY <1>2, <1>10, <2>2, <2>3, <2>4, <2>6, <2>8, <3>1, <3>2, <4>1
    <3>6. CASE ~takes(configured[w].command, keyScope, able) /\ \E d : pressed' = did("default", d, e, result, able)
      <4>1. /\ pressed'.scope = keyScope /\ pressed'.repeat = e.repeat
            /\ pressed'.prefix = prefix /\ pressed'.able = able /\ pressed'.by = "default"
        BY <2>3, <3>6 DEF did
      <4> QED
        BY <1>2, <1>10, <2>2, <2>3, <2>4, <2>6, <2>8, <3>1, <3>2, <3>6, <4>1
    <3> QED
      BY <3>3, <3>4, <3>5, <3>6
  <2> QED
    BY <2>3, <2>7, <2>8
<1> QED
  BY <1>11, <1>12

LEMMA PressKeeps ==
  ASSUME ShortcutInv, NEW e \in Presses, NEW able, NEW late \in BOOLEAN, Press(e, able, late)
  PROVE  ShortcutInv'
<1>1. configured' = configured /\ typed' \in Seq(EventStrokes)
  BY PressFinds
<1>2. ConfiguredIsOffered /\ ConfiguredIsOffered'
  BY <1>1 DEF ShortcutInv, ConfiguredIsOffered
<1>3. PICK n \in Nat : DOMAIN configured = 1 .. n /\ \A i \in 1 .. n : BindingFits(configured[i])
  BY <1>2, ConfiguredBindings
<1>4. CASE pendingStrokes' = <<>> /\ pressed'.by = "nobody"
  BY <1>1, <1>2, <1>4, EmptySeq, AllEndInNothing DEF ShortcutInv, StrokesRunTheirBinding
<1>5. CASE pendingStrokes' = <<>> /\ pressed'.by = "default" /\ pressed'.prefix = <<>>
  <2>1. alsoPressed' = {}
    <3>1. ASSUME NEW i \in alsoPressed' PROVE FALSE
      <4>1. i \in DOMAIN configured /\ Len(configured[i].strokes) = 0
        BY <1>1, <1>5, <3>1, EmptySeq DEF alsoPressed
      <4>2. Len(configured[i].strokes) \in 1 .. LongestBinding
        BY <1>3, <4>1 DEF BindingFits
      <4> QED
        BY <4>1, <4>2
    <3> QED
      BY <3>1
  <2>2. StrokesRunTheirBinding'
    BY <1>5, <2>1 DEF StrokesRunTheirBinding
  <2> QED
    BY <1>1, <1>2, <1>5, <2>2, EmptySeq, AllEndInNothing DEF ShortcutInv
<1>6. ASSUME NEW prefix \in Seq(EventStrokes), candidates(e, prefix) # {}, endsIn(prefix, typed'),
             pendingStrokes' = prefix, completedBy(e, prefix) = {}, pressed'.by = "nobody"
      PROVE  ShortcutInv'
  <2>1. PICK i \in candidates(e, prefix) : TRUE
    BY <1>6
  <2>2. /\ i \in DOMAIN configured /\ configured[i].enabled /\ isPrefix(prefix, configured[i].strokes)
        /\ Len(configured[i].strokes) # Len(prefix)
    BY <1>6, <2>1 DEF candidates, completedBy
  <2>3. Len(prefix) < Len(configured[i].strokes)
    <3>1. Len(configured[i].strokes) \in 1 .. LongestBinding /\ LongestBinding \in Nat
      BY <1>3, <2>2, ShortcutAssumption DEF BindingFits
    <3> QED
      BY <2>2, <3>1, LenProperties DEF isPrefix
  <2>4. endsWith(typed', prefix)
    BY <1>1, <1>6, PrefixOfItself, PrefixMakesEnding
  <2>5. StrokesRunTheirBinding'
    BY <1>1, <1>6, <2>2, <2>3, <2>4 DEF StrokesRunTheirBinding
  <2> QED
    BY <1>1, <1>2, <1>6, <2>5 DEF ShortcutInv
<1>7. ASSUME NEW prefix \in Seq(EventStrokes), endsIn(prefix, typed'), pendingStrokes' = <<>>,
             completedBy(e, prefix) # {},
             pressed'.scope = keyScope, pressed'.repeat = e.repeat,
             pressed'.prefix = prefix, pressed'.able = able,
             NEW w, w = chooseWinner(completedBy(e, prefix)),
             \/ /\ pressed'.by = "configured" /\ pressed'.id = configured[w].id
                /\ pressed'.strokes = configured[w].strokes
             \/ pressed'.by = "default" /\ ~takes(configured[w].command, keyScope, able)
      PROVE  ShortcutInv'
  <2>1. PICK complete : complete = completedBy(e, prefix)
    OBVIOUS
  <2>2. alsoPressed' = complete /\ complete \subseteq DOMAIN configured /\ complete # {}
    BY <1>1, <1>7, <2>1, AlsoPressedNow DEF completedBy, candidates
  <2>3. w \in complete /\ \A j \in complete :
               \/ configured[w].priority > configured[j].priority
               \/ configured[w].priority = configured[j].priority /\ w <= j
    BY <1>2, <1>7, <2>1, <2>2, WinnerIsFirst
  <2>4. \A j \in complete : j \in Nat /\ configured[j].priority \in Int
    BY <1>3, <2>2 DEF BindingFits
  <2>5. \A i : ranksFirst(i)' <=> \A j \in complete :
               \/ configured[j].priority < configured[i].priority
               \/ configured[j].priority = configured[i].priority /\ i <= j
    BY <1>1, <2>2 DEF ranksFirst
  <2>6. ranksFirst(w)'
    BY <2>3, <2>4, <2>5
  <2>7. ASSUME NEW i \in complete, ranksFirst(i)' PROVE i = w
    <3>1. \/ configured[w].priority < configured[i].priority
          \/ configured[w].priority = configured[i].priority /\ i <= w
      BY <2>3, <2>5, <2>7
    <3>2. \/ configured[w].priority > configured[i].priority
          \/ configured[w].priority = configured[i].priority /\ w <= i
      BY <2>3
    <3> QED
      BY <2>3, <2>4, <3>1, <3>2
  <2>8. ASSUME pressed'.by = "configured"
        PROVE  /\ endsWith(typed', pressed'.strokes)
               /\ \E i \in alsoPressed' : configured'[i].id = pressed'.id /\ ranksFirst(i)'
    <3>1. pressed'.id = configured[w].id /\ pressed'.strokes = configured[w].strokes
      BY <1>7, <2>8
    <3>2. PICK b : b = configured[w].strokes
      OBVIOUS
    <3>3. b \in Seq(ToSet(b)) /\ Len(b) = Len(prefix) /\ isPrefix(prefix, b)
      BY <1>3, <2>1, <2>2, <2>3, <3>2 DEF BindingFits, completedBy, candidates
    <3>4. endsWith(typed', b)
      BY <1>1, <1>7, <3>3, PrefixMakesEnding
    <3> QED
      BY <1>1, <2>2, <2>3, <2>6, <3>1, <3>2, <3>4
  <2>9. ASSUME pressed'.by = "default", NEW i \in alsoPressed', ranksFirst(i)'
        PROVE  ~takes(configured'[i].command, pressed'.scope, pressed'.able)
    <3>1. i = w
      BY <2>2, <2>7, <2>9
    <3>2. ~takes(configured[w].command, keyScope, able)
      BY <1>7, <2>9
    <3> QED
      BY <1>1, <1>7, <3>1, <3>2
  <2>10. StrokesRunTheirBinding'
    BY <1>7, <2>8, <2>9 DEF StrokesRunTheirBinding
  <2> QED
    BY <1>1, <1>2, <1>7, <2>10, EmptySeq, AllEndInNothing DEF ShortcutInv
<1>8. \/ pendingStrokes' = <<>> /\ pressed'.by = "nobody"
      \/ pendingStrokes' = <<>> /\ pressed'.by = "default" /\ pressed'.prefix = <<>>
      \/ \E prefix \in Seq(EventStrokes) :
           /\ prefix # <<>> /\ candidates(e, prefix) # {} /\ endsIn(prefix, typed')
           /\ \/ /\ pendingStrokes' = prefix /\ completedBy(e, prefix) = {}
                 /\ pressed'.by = "nobody"
              \/ /\ pendingStrokes' = <<>> /\ completedBy(e, prefix) # {}
                 /\ pressed'.scope = keyScope /\ pressed'.repeat = e.repeat
                 /\ pressed'.prefix = prefix /\ pressed'.able = able
                 /\ LET w == chooseWinner(completedBy(e, prefix))
                    IN  \/ /\ pressed'.by = "configured" /\ pressed'.id = configured[w].id
                           /\ pressed'.strokes = configured[w].strokes
                        \/ pressed'.by = "default" /\ ~takes(configured[w].command, keyScope, able)
  BY PressFinds
<1> QED
  BY <1>4, <1>5, <1>6, <1>7, <1>8

-----------------------------------------------------------------------------
(* Everything else interrupts.                                             *)

LEMMA ForgettingKeeps ==
  ASSUME ConfiguredIsOffered', forgetsPending, pressed' = NotPressed
  PROVE  ShortcutInv'
<1>1. typed' = <<>> /\ pendingStrokes' = <<>> /\ pressed'.by = "nobody"
  BY DEF forgetsPending, NotPressed
<1>2. StrokesRunTheirBinding'
  BY <1>1 DEF StrokesRunTheirBinding
<1> QED
  BY <1>1, <1>2, EmptySeq, AllEndInNothing DEF ShortcutInv

LEMMA ShortcutInvKept ==
  ASSUME ShortcutInv, [ShortcutNext]_shortcutVars
  PROVE  ShortcutInv'
<1>1. ASSUME NEW offer \in Offers, Configure(offer) PROVE ShortcutInv'
  <2>1. ConfiguredIsOffered' /\ forgetsPending /\ pressed' = NotPressed
    BY <1>1 DEF Configure, isAccepted, ConfiguredIsOffered
  <2> QED
    BY <2>1, ForgettingKeeps
<1>2. CASE Reset
  <2>1. ConfiguredIsOffered' /\ forgetsPending /\ pressed' = NotPressed
    BY <1>2 DEF Reset, ConfiguredIsOffered
  <2> QED
    BY <2>1, ForgettingKeeps
<1>3. ASSUME NEW e \in Presses, NEW able \in Abilities, NEW late \in BOOLEAN, Press(e, able, late)
      PROVE  ShortcutInv'
  BY <1>3, PressKeeps
<1>4. CASE DragBegins \/ DragEnds \/ OtherGesture
  <2>1. configured' = configured /\ forgetsPending /\ pressed' = NotPressed
    BY <1>4 DEF DragBegins, DragEnds, OtherGesture
  <2>2. ConfiguredIsOffered'
    BY <2>1 DEF ShortcutInv, ConfiguredIsOffered
  <2> QED
    BY <2>1, <2>2, ForgettingKeeps
<1>5. CASE EditOpensOrCloses
  <2>1. UNCHANGED <<configured, pendingStrokes, typed>> /\ pressed' = NotPressed
    BY <1>5 DEF EditOpensOrCloses
  <2>2. pressed'.by = "nobody"
    BY <2>1 DEF NotPressed
  <2>3. ConfiguredIsOffered'
    BY <2>1 DEF ShortcutInv, ConfiguredIsOffered
  <2>4. StrokesRunTheirBinding'
    BY <2>1, <2>2 DEF ShortcutInv, StrokesRunTheirBinding
  <2> QED
    BY <2>1, <2>3, <2>4 DEF ShortcutInv
<1>6. CASE UNCHANGED shortcutVars
  BY <1>6 DEF shortcutVars, ShortcutInv, ConfiguredIsOffered, StrokesRunTheirBinding, alsoPressed, ranksFirst
<1> QED
  BY <1>1, <1>2, <1>3, <1>4, <1>5, <1>6 DEF ShortcutNext

(* A configured command runs only when all strokes of a binding of it were *)
(* typed one after the other and no interruption fell between them, and no *)
(* other binding of these strokes ranks higher; a default runs only when   *)
(* the command that ranks highest cannot be run; and a sequence under way  *)
(* can be completed (shortcuts.ts:264): for any offers of the host, keys   *)
(* and abilities.                                                          *)
THEOREM StrokesComplete ==
  ShortcutInit /\ [][ShortcutNext]_shortcutVars => []StrokesRunTheirBinding
<1>1. ShortcutInit => ShortcutInv
  <2> SUFFICES ASSUME ShortcutInit PROVE ShortcutInv
    OBVIOUS
  <2>1. configured = <<>> /\ typed = <<>> /\ pendingStrokes = <<>> /\ pressed.by = "nobody"
    BY DEF ShortcutInit, NotPressed
  <2>2. StrokesRunTheirBinding
    BY <2>1 DEF StrokesRunTheirBinding
  <2> QED
    BY <2>1, <2>2, EmptySeq, AllEndInNothing DEF ShortcutInv, ConfiguredIsOffered
<1>2. ShortcutInv /\ [ShortcutNext]_shortcutVars => ShortcutInv'
  BY ShortcutInvKept
<1>3. ShortcutInv => StrokesRunTheirBinding
  BY DEF ShortcutInv
<1> QED
  BY <1>1, <1>2, <1>3, PTL

-----------------------------------------------------------------------------
(* The columns that are shown.                                             *)

\* The recursion of shownAmong, up to m.
ShowsUpTo(given, v, m, f) ==
  f = [n \in 0 .. m |->
        IF n = 0 THEN <<>>
        ELSE IF given[n] \in v.hidden THEN f[n - 1] ELSE Append(f[n - 1], given[n])]

LEMMA ShowsUpToExists ==
  ASSUME NEW given, NEW v, NEW m \in Nat
  PROVE  \E f : ShowsUpTo(given, v, m, f)
<1> DEFINE T == {k \in Nat : \E f : ShowsUpTo(given, v, k, f)}
<1>1. 0 \in T
  <2>1. PICK f : f = [n \in 0 .. 0 |-> <<>>]
    OBVIOUS
  <2>2. ShowsUpTo(given, v, 0, f)
    BY <2>1 DEF ShowsUpTo
  <2> QED
    BY <2>2
<1>2. ASSUME NEW k \in Nat, k \in T PROVE k + 1 \in T
  <2>1. PICK f : ShowsUpTo(given, v, k, f)
    BY <1>2
  <2> DEFINE g == [n \in 0 .. k + 1 |->
                     IF n <= k THEN f[n]
                     ELSE IF given[n] \in v.hidden THEN f[n - 1] ELSE Append(f[n - 1], given[n])]
  <2>2. ASSUME NEW n \in 0 .. k + 1
        PROVE  g[n] = IF n = 0 THEN <<>>
                      ELSE IF given[n] \in v.hidden THEN g[n - 1] ELSE Append(g[n - 1], given[n])
    <3>1. CASE n <= k
      <4>1. n \in 0 .. k
        BY <3>1
      <4>2. f[n] = IF n = 0 THEN <<>>
                   ELSE IF given[n] \in v.hidden THEN f[n - 1] ELSE Append(f[n - 1], given[n])
        BY <2>1, <4>1 DEF ShowsUpTo
      <4>3. g[n] = f[n] /\ (n # 0 => g[n - 1] = f[n - 1])
        BY <3>1
      <4> QED
        BY <4>2, <4>3
    <3>2. CASE ~(n <= k)
      <4>1. n # 0 /\ g[n - 1] = f[n - 1]
        BY <3>2
      <4> QED
        BY <3>2, <4>1
    <3> QED
      BY <3>1, <3>2
  <2>3. ShowsUpTo(given, v, k + 1, g)
    BY <2>2 DEF ShowsUpTo
  <2> QED
    BY <2>3
<1> HIDE DEF T
<1>3. Nat \subseteq T
  BY <1>1, <1>2, CountingUp
<1> QED
  BY <1>3 DEF T

LEMMA ShownRecursion ==
  ASSUME NEW A, NEW given \in Seq(A), NEW v
  PROVE  /\ shownAmong(given, v)[0] = <<>>
         /\ \A n \in 1 .. Len(given) :
              shownAmong(given, v)[n] =
                IF given[n] \in v.hidden THEN shownAmong(given, v)[n - 1]
                ELSE Append(shownAmong(given, v)[n - 1], given[n])
<1>1. Len(given) \in Nat
  BY LenProperties
<1> DEFINE f == CHOOSE g : g = [n \in 0 .. Len(given) |->
                 IF n = 0 THEN <<>>
                 ELSE IF given[n] \in v.hidden THEN g[n - 1] ELSE Append(g[n - 1], given[n])]
<1>2. shownAmong(given, v) = f
  BY DEF shownAmong
<1>3. PICK g : ShowsUpTo(given, v, Len(given), g)
  BY <1>1, ShowsUpToExists
<1>4. ShowsUpTo(given, v, Len(given), f)
  BY <1>3 DEF ShowsUpTo
<1> HIDE DEF f
<1>5. \A n \in 0 .. Len(given) :
        f[n] = IF n = 0 THEN <<>>
               ELSE IF given[n] \in v.hidden THEN f[n - 1] ELSE Append(f[n - 1], given[n])
  BY <1>4 DEF ShowsUpTo
<1>6. f[0] = <<>>
  BY <1>1, <1>5
<1>7. ASSUME NEW n \in 1 .. Len(given)
      PROVE  f[n] = IF given[n] \in v.hidden THEN f[n - 1] ELSE Append(f[n - 1], given[n])
  <2>1. n \in 0 .. Len(given) /\ n # 0
    BY <1>1
  <2> QED
    BY <1>5, <2>1
<1> QED
  BY <1>2, <1>6, <1>7

LEMMA ShownSoFar ==
  ASSUME NEW A, NEW given \in Seq(A), NEW v, NEW n \in 0 .. Len(given),
         NEW f, f = shownAmong(given, v)
  PROVE  /\ f[n] \in Seq(A)
         /\ \A i \in 1 .. n : given[i] \notin v.hidden =>
              Len(f[i]) \in 1 .. Len(f[n]) /\ f[n][Len(f[i])] = given[i]
         /\ \A k \in 1 .. Len(f[n]) :
              \E i \in 1 .. n : given[i] \notin v.hidden /\ Len(f[i]) = k
<1>2. /\ f[0] = <<>>
      /\ \A i \in 1 .. Len(given) :
           f[i] = IF given[i] \in v.hidden THEN f[i - 1] ELSE Append(f[i - 1], given[i])
  BY ShownRecursion
<1>3. Len(given) \in Nat
  BY LenProperties
<1> DEFINE places(m) == \A i \in 1 .. m : given[i] \notin v.hidden =>
                          Len(f[i]) \in 1 .. Len(f[m]) /\ f[m][Len(f[i])] = given[i]
           filled(m) == \A k \in 1 .. Len(f[m]) :
                          \E i \in 1 .. m : given[i] \notin v.hidden /\ Len(f[i]) = k
           T == {m \in Nat : m <= Len(given) => f[m] \in Seq(A) /\ places(m) /\ filled(m)}
<1>4. 0 \in T
  <2>1. f[0] \in Seq(A) /\ Len(f[0]) = 0
    BY <1>2, EmptySeq
  <2>2. places(0)
    OBVIOUS
  <2>3. filled(0)
    BY <2>1
  <2> QED
    BY <2>1, <2>2, <2>3
<1>5. ASSUME NEW m \in Nat, m \in T PROVE m + 1 \in T
  <2> HIDE DEF places, filled
  <2> SUFFICES ASSUME m + 1 <= Len(given)
               PROVE  f[m + 1] \in Seq(A) /\ places(m + 1) /\ filled(m + 1)
    OBVIOUS
  <2> USE DEF places, filled
  <2>1. f[m] \in Seq(A) /\ places(m) /\ filled(m)
    BY <1>3, <1>5
  <2>2. PICK x, s, t : x = given[m + 1] /\ s = f[m] /\ t = f[m + 1]
    OBVIOUS
  <2>3. m + 1 \in 1 .. Len(given) /\ m + 1 - 1 = m
    BY <1>3
  <2>4. t = IF x \in v.hidden THEN s ELSE Append(s, x)
    BY <1>2, <2>2, <2>3
  <2>5. x \in A
    BY <2>2, <2>3, ElementOfSeq
  <2>6. CASE x \in v.hidden
    <3>1. t = s /\ t \in Seq(A)
      BY <2>1, <2>2, <2>4, <2>6
    <3>2. ASSUME NEW i \in 1 .. m + 1, given[i] \notin v.hidden
          PROVE  Len(f[i]) \in 1 .. Len(t) /\ t[Len(f[i])] = given[i]
      <4>1. i \in 1 .. m
        BY <2>2, <2>6, <3>2
      <4> QED
        BY <2>1, <2>2, <3>1, <3>2, <4>1
    <3>3. ASSUME NEW k \in 1 .. Len(t)
          PROVE  \E i \in 1 .. m + 1 : given[i] \notin v.hidden /\ Len(f[i]) = k
      <4>1. PICK i \in 1 .. m : given[i] \notin v.hidden /\ Len(f[i]) = k
        BY <2>1, <2>2, <3>1
      <4> QED
        BY <4>1
    <3> QED
      BY <2>2, <3>1, <3>2, <3>3
  <2>7. CASE x \notin v.hidden
    <3>1. t = Append(s, x)
      BY <2>4, <2>7
    <3>2. /\ t \in Seq(A) /\ Len(t) = Len(s) + 1 /\ Len(s) \in Nat /\ t[Len(s) + 1] = x
          /\ \A i \in 1 .. Len(s) : t[i] = s[i]
      BY <2>1, <2>2, <2>5, <3>1, AppendProperties, LenProperties
    <3>3. ASSUME NEW i \in 1 .. m + 1, given[i] \notin v.hidden
          PROVE  Len(f[i]) \in 1 .. Len(t) /\ t[Len(f[i])] = given[i]
      <4>1. CASE i = m + 1
        BY <2>2, <3>2, <4>1
      <4>2. CASE i # m + 1
        <5>1. i \in 1 .. m
          BY <4>2
        <5>2. PICK k : k = Len(f[i])
          OBVIOUS
        <5>3. k \in 1 .. Len(s) /\ s[k] = given[i]
          BY <2>1, <2>2, <3>3, <5>1, <5>2
        <5>4. k \in 1 .. Len(t) /\ t[k] = given[i]
          BY <3>2, <5>3
        <5> QED
          BY <5>2, <5>4
      <4> QED
        BY <4>1, <4>2
    <3>4. ASSUME NEW k \in 1 .. Len(t)
          PROVE  \E i \in 1 .. m + 1 : given[i] \notin v.hidden /\ Len(f[i]) = k
      <4>1. CASE k = Len(s) + 1
        <5>1. m + 1 \in 1 .. m + 1 /\ given[m + 1] \notin v.hidden /\ Len(f[m + 1]) = k
          BY <2>2, <2>7, <3>2, <4>1
        <5> QED
          BY <5>1
      <4>2. CASE k # Len(s) + 1
        <5>1. k \in 1 .. Len(s)
          BY <3>2, <4>2
        <5>2. PICK i \in 1 .. m : given[i] \notin v.hidden /\ Len(f[i]) = k
          BY <2>1, <2>2, <5>1
        <5> QED
          BY <5>2
      <4> QED
        BY <4>1, <4>2
    <3> QED
      BY <2>2, <3>2, <3>3, <3>4
  <2> QED
    BY <2>6, <2>7
<1> HIDE DEF T
<1>6. n \in T
  BY <1>3, <1>4, <1>5, CountingUp
<1>7. f[n] \in Seq(A) /\ places(n) /\ filled(n)
  BY <1>3, <1>6 DEF T
<1> QED
  BY <1>7

-----------------------------------------------------------------------------
(* A reordering that fits the columns it was made for.                     *)

\* Where a column stands among those that are shown.
LEMMA PlaceOf ==
  ASSUME NEW A, NEW s \in Seq(A), NEW i \in 1 .. Len(s), \A j \in 1 .. Len(s) : s[j] = s[i] => j = i
  PROVE  positionIn(s, s[i]) = i
<1>1. DOMAIN s = 1 .. Len(s) /\ ToSet(s) = {s[j] : j \in 1 .. Len(s)}
  BY ToSetFacts
<1>2. s[i] \in ToSet(s)
  BY <1>1
<1>3. PICK j : j = positionIn(s, s[i])
  OBVIOUS
<1>4. j \in DOMAIN s /\ s[j] = s[i]
  BY <1>1, <1>2, <1>3 DEF positionIn
<1> QED
  BY <1>1, <1>3, <1>4

LEMMA PlaceIsOf ==
  ASSUME NEW A, NEW s \in Seq(A), NEW c, positionIn(s, c) # 0
  PROVE  positionIn(s, c) \in 1 .. Len(s) /\ s[positionIn(s, c)] = c
<1>1. DOMAIN s = 1 .. Len(s) /\ ToSet(s) = {s[j] : j \in 1 .. Len(s)}
  BY ToSetFacts
<1>2. c \in ToSet(s)
  BY DEF positionIn
<1>3. \E i \in DOMAIN s : s[i] = c
  BY <1>1, <1>2
<1> QED
  BY <1>1, <1>2, <1>3 DEF positionIn

LEMMA ShownColumnsAre ==
  ASSUME NEW A, NEW given \in Seq(A), IsInjective(given), NEW v,
         NEW s, s = shownColumns(given, v)
  PROVE  /\ s \in Seq(A) /\ IsInjective(s)
         /\ \A x : x \in ToSet(s) <=> x \in ToSet(given) /\ x \notin v.hidden
<1>1. PICK f : f = shownAmong(given, v)
  OBVIOUS
<1>2. Len(given) \in Nat /\ DOMAIN given = 1 .. Len(given)
      /\ ToSet(given) = {given[i] : i \in 1 .. Len(given)}
  BY ToSetFacts
<1>3. s = f[Len(given)]
  BY <1>1 DEF shownColumns
<1>4. Len(given) \in 0 .. Len(given)
  BY <1>2
<1>5. /\ s \in Seq(A)
      /\ \A i \in 1 .. Len(given) : given[i] \notin v.hidden =>
           Len(f[i]) \in 1 .. Len(s) /\ s[Len(f[i])] = given[i]
      /\ \A k \in 1 .. Len(s) :
           \E i \in 1 .. Len(given) : given[i] \notin v.hidden /\ Len(f[i]) = k
  <2>1. PICK n \in 0 .. Len(given) : n = Len(given)
    BY <1>4
  <2>2. s = f[n]
    BY <1>3, <2>1
  <2>3. /\ f[n] \in Seq(A)
        /\ \A i \in 1 .. n : given[i] \notin v.hidden =>
             Len(f[i]) \in 1 .. Len(f[n]) /\ f[n][Len(f[i])] = given[i]
        /\ \A k \in 1 .. Len(f[n]) :
             \E i \in 1 .. n : given[i] \notin v.hidden /\ Len(f[i]) = k
    BY <1>1, ShownSoFar
  <2> QED
    BY <2>1, <2>2, <2>3
<1>6. DOMAIN s = 1 .. Len(s) /\ ToSet(s) = {s[k] : k \in 1 .. Len(s)}
  BY <1>5, ToSetFacts
<1>7. ASSUME NEW k \in DOMAIN s, NEW m \in DOMAIN s, s[k] = s[m] PROVE k = m
  <2>1. PICK i \in 1 .. Len(given) : given[i] \notin v.hidden /\ Len(f[i]) = k
    BY <1>5, <1>6
  <2>2. PICK j \in 1 .. Len(given) : given[j] \notin v.hidden /\ Len(f[j]) = m
    BY <1>5, <1>6
  <2>3. s[k] = given[i] /\ s[m] = given[j]
    BY <1>5, <2>1, <2>2
  <2>4. i = j
    BY <1>2, <1>7, <2>3 DEF IsInjective
  <2> QED
    BY <2>1, <2>2, <2>4
<1>8. ASSUME NEW x \in ToSet(s) PROVE x \in ToSet(given) \ v.hidden
  <2>1. PICK k \in 1 .. Len(s) : x = s[k]
    BY <1>6
  <2>2. PICK i \in 1 .. Len(given) : given[i] \notin v.hidden /\ Len(f[i]) = k
    BY <1>5
  <2>3. x = given[i]
    BY <1>5, <2>1, <2>2
  <2> QED
    BY <1>2, <2>2, <2>3
<1>9. ASSUME NEW x \in ToSet(given) \ v.hidden PROVE x \in ToSet(s)
  <2>1. PICK i \in 1 .. Len(given) : x = given[i]
    BY <1>2
  <2>2. Len(f[i]) \in 1 .. Len(s) /\ s[Len(f[i])] = x
    BY <1>5, <1>9, <2>1
  <2> QED
    BY <1>6, <2>2
<1> QED
  BY <1>5, <1>7, <1>8, <1>9 DEF IsInjective

\* The columns that are shown take another order, the others keep their places.
LEMMA OrderShows ==
  ASSUME NEW A, NEW v, v.columns \in Seq(A), IsInjective(v.columns),
         NEW s, s = shownColumns(v.columns, v),
         NEW t \in Seq(A), Len(t) = Len(s), ToSet(t) = ToSet(s),
         NEW order, order = orderWithVisibleColumns(v, t)
  PROVE  /\ order \in Seq(A) /\ Len(order) = Len(v.columns)
         /\ \A i \in 1 .. Len(order) :
              order[i] = IF v.columns[i] \in v.hidden THEN v.columns[i]
                         ELSE t[Len(shownAmong(v.columns, v)[i])]
         /\ ToSet(order) = ToSet(v.columns)
         /\ shownColumns(order, v) = t
<1>1. PICK c, f : c = v.columns /\ f = shownAmong(c, v)
  OBVIOUS
<1>2. c \in Seq(A) /\ Len(c) \in Nat /\ DOMAIN c = 1 .. Len(c) /\ ToSet(c) = {c[i] : i \in 1 .. Len(c)}
  BY <1>1, ToSetFacts
<1>3. /\ s = f[Len(c)] /\ s \in Seq(A)
      /\ \A x : x \in ToSet(s) <=> x \in ToSet(c) /\ x \notin v.hidden
  BY <1>1, ShownColumnsAre DEF shownColumns
<1>4. Len(c) \in 0 .. Len(c)
  BY <1>2
<1>5. /\ \A i \in 1 .. Len(c) : c[i] \notin v.hidden =>
           Len(f[i]) \in 1 .. Len(s) /\ s[Len(f[i])] = c[i]
      /\ \A k \in 1 .. Len(s) :
           \E i \in 1 .. Len(c) : c[i] \notin v.hidden /\ Len(f[i]) = k
  <2>1. PICK n \in 0 .. Len(c) : n = Len(c)
    BY <1>4
  <2>2. s = f[n]
    BY <1>3, <2>1
  <2>3. /\ \A i \in 1 .. n : c[i] \notin v.hidden =>
             Len(f[i]) \in 1 .. Len(s) /\ s[Len(f[i])] = c[i]
        /\ \A k \in 1 .. Len(s) :
             \E i \in 1 .. n : c[i] \notin v.hidden /\ Len(f[i]) = k
    <3>1. n \in 0 .. Len(c) /\ c \in Seq(A) /\ f = shownAmong(c, v)
      BY <1>1, <1>2, <2>1
    <3>2. PICK last : last = f[n]
      OBVIOUS
    <3>3. /\ \A i \in 1 .. n : c[i] \notin v.hidden =>
               Len(f[i]) \in 1 .. Len(last) /\ last[Len(f[i])] = c[i]
          /\ \A k \in 1 .. Len(last) :
               \E i \in 1 .. n : c[i] \notin v.hidden /\ Len(f[i]) = k
      BY <3>1, <3>2, ShownSoFar
    <3> QED
      BY <2>2, <3>2, <3>3
  <2> QED
    BY <2>1, <2>3
<1>6. DOMAIN t = 1 .. Len(s) /\ ToSet(t) = {t[k] : k \in 1 .. Len(s)}
  BY ToSetFacts
<1>7. order = [i \in 1 .. Len(c) |-> IF c[i] \in v.hidden THEN c[i] ELSE t[Len(f[i])]]
  BY <1>1, <1>2 DEF orderWithVisibleColumns
<1>8. ASSUME NEW i \in 1 .. Len(c)
      PROVE  /\ order[i] = IF c[i] \in v.hidden THEN c[i] ELSE t[Len(f[i])]
             /\ order[i] \in A /\ order[i] \in ToSet(c)
             /\ order[i] \in v.hidden <=> c[i] \in v.hidden
  <2>1. order[i] = IF c[i] \in v.hidden THEN c[i] ELSE t[Len(f[i])]
    BY <1>7
  <2>2. c[i] \in A /\ c[i] \in ToSet(c)
    BY <1>2, ElementOfSeq
  <2>3. CASE c[i] \in v.hidden
    BY <2>1, <2>2, <2>3
  <2>4. CASE c[i] \notin v.hidden
    <3>1. t[Len(f[i])] \in ToSet(t) /\ t[Len(f[i])] \in A
      BY <1>5, <1>6, <2>4, ElementOfSeq
    <3> QED
      BY <1>3, <2>1, <2>4, <3>1
  <2> QED
    BY <2>1, <2>3, <2>4
<1>9. order \in Seq(A) /\ Len(order) = Len(c) /\ ToSet(order) = {order[i] : i \in 1 .. Len(c)}
  <2>1. order \in [1 .. Len(c) -> A]
    BY <1>7, <1>8
  <2>2. order \in Seq(A) /\ Len(order) = Len(c)
    BY <1>2, <2>1
  <2> QED
    BY <2>2, ToSetFacts
<1>10. ASSUME NEW x \in ToSet(c) PROVE x \in ToSet(order)
  <2>1. PICK i \in 1 .. Len(c) : x = c[i]
    BY <1>2
  <2>2. CASE x \in v.hidden
    BY <1>8, <1>9, <2>1, <2>2
  <2>3. CASE x \notin v.hidden
    <3>1. x \in ToSet(t)
      BY <1>3, <2>3
    <3>2. PICK k \in 1 .. Len(s) : x = t[k]
      BY <1>6, <3>1
    <3>3. PICK j \in 1 .. Len(c) : c[j] \notin v.hidden /\ Len(f[j]) = k
      BY <1>5
    <3>4. order[j] = x
      BY <1>8, <3>2, <3>3
    <3> QED
      BY <1>9, <3>4
  <2> QED
    BY <2>2, <2>3
<1>11. ToSet(order) = ToSet(c)
  BY <1>8, <1>9, <1>10
<1>12. PICK h : h = shownAmong(order, v)
  OBVIOUS
<1>13. /\ h[0] = <<>> /\ f[0] = <<>>
       /\ \A i \in 1 .. Len(c) : h[i] = IF order[i] \in v.hidden THEN h[i - 1] ELSE Append(h[i - 1], order[i])
       /\ \A i \in 1 .. Len(c) : f[i] = IF c[i] \in v.hidden THEN f[i - 1] ELSE Append(f[i - 1], c[i])
  BY <1>1, <1>2, <1>9, <1>12, ShownRecursion
<1> DEFINE T == {n \in Nat : n <= Len(c) => /\ h[n] \in Seq(A) /\ f[n] \in Seq(A) /\ Len(h[n]) = Len(f[n])
                                            /\ \A k \in 1 .. Len(h[n]) : h[n][k] = t[k]}
<1>14. 0 \in T
  <2>1. h[0] \in Seq(A) /\ Len(h[0]) = 0 /\ f[0] \in Seq(A) /\ Len(f[0]) = 0
    BY <1>13, EmptySeq
  <2> QED
    BY <2>1
<1>15. ASSUME NEW n \in Nat, n \in T PROVE n + 1 \in T
  <2> SUFFICES ASSUME n + 1 <= Len(c)
               PROVE  /\ h[n + 1] \in Seq(A) /\ f[n + 1] \in Seq(A) /\ Len(h[n + 1]) = Len(f[n + 1])
                      /\ \A k \in 1 .. Len(h[n + 1]) : h[n + 1][k] = t[k]
    OBVIOUS
  <2>1. n + 1 \in 1 .. Len(c) /\ n + 1 - 1 = n /\ n <= Len(c)
    BY <1>2
  <2>2. PICK p, q, x, y : p = h[n] /\ q = f[n] /\ x = order[n + 1] /\ y = c[n + 1]
    OBVIOUS
  <2>3. p \in Seq(A) /\ q \in Seq(A) /\ Len(p) = Len(q) /\ \A k \in 1 .. Len(p) : p[k] = t[k]
    BY <1>15, <2>1, <2>2
  <2>4. x \in A /\ y \in A /\ (x \in v.hidden <=> y \in v.hidden)
    BY <1>2, <1>8, <2>1, <2>2, ElementOfSeq
  <2>5. /\ h[n + 1] = IF x \in v.hidden THEN p ELSE Append(p, x)
        /\ f[n + 1] = IF y \in v.hidden THEN q ELSE Append(q, y)
    BY <1>13, <2>1, <2>2
  <2>6. CASE y \in v.hidden
    BY <2>3, <2>4, <2>5, <2>6
  <2>7. CASE y \notin v.hidden
    <3>1. PICK a, b : a = Append(p, x) /\ b = Append(q, y)
      OBVIOUS
    <3>2. h[n + 1] = a /\ f[n + 1] = b
      BY <2>4, <2>5, <2>7, <3>1
    <3>3. /\ a \in Seq(A) /\ Len(a) = Len(p) + 1 /\ Len(p) \in Nat /\ a[Len(p) + 1] = x
          /\ \A k \in 1 .. Len(p) : a[k] = p[k]
      BY <2>3, <2>4, <3>1, AppendProperties, LenProperties
    <3>4. b \in Seq(A) /\ Len(b) = Len(q) + 1
      BY <2>3, <2>4, <3>1, AppendProperties
    <3>5. x = t[Len(b)]
      <4>1. order[n + 1] = t[Len(f[n + 1])]
        BY <1>8, <2>1, <2>2, <2>7
      <4> QED
        BY <2>2, <3>2, <4>1
    <3>6. ASSUME NEW k \in 1 .. Len(a) PROVE a[k] = t[k]
      <4>1. CASE k = Len(p) + 1
        BY <2>3, <3>3, <3>4, <3>5, <4>1
      <4>2. CASE k # Len(p) + 1
        <5>1. k \in 1 .. Len(p)
          BY <3>3, <4>2
        <5> QED
          BY <2>3, <3>3, <5>1
      <4> QED
        BY <4>1, <4>2
    <3> QED
      BY <2>3, <3>2, <3>3, <3>4, <3>6
  <2> QED
    BY <2>6, <2>7
<1> HIDE DEF T
<1>16. Len(c) \in T
  BY <1>2, <1>14, <1>15, CountingUp
<1>17. PICK w : w = h[Len(c)]
  OBVIOUS
<1>18. w \in Seq(A) /\ Len(w) = Len(t) /\ \A k \in 1 .. Len(w) : w[k] = t[k]
  BY <1>2, <1>3, <1>16, <1>17 DEF T
<1>19. w = t
  BY <1>18, SeqEqual
<1>20. shownColumns(order, v) = t
  BY <1>9, <1>12, <1>17, <1>19 DEF shownColumns
<1> QED
  BY <1>1, <1>8, <1>9, <1>11, <1>20

\* One column is taken out and put beside another.
\* Where a column is put once it has been taken out.
landing(source, aim, before) ==
    LET place == IF before THEN aim ELSE aim + 1 IN IF source < place THEN place - 1 ELSE place

\* Where the k-th is when place i is left out.
closedUp(i, k) == IF k < i THEN k ELSE k - 1

LEMMA MovedColumn ==
  ASSUME NEW A, NEW s \in Seq(A), IsInjective(s),
         NEW source \in 2 .. Len(s), NEW aim \in 2 .. Len(s), source # aim,
         NEW before, NEW p, p = landing(source, aim, before),
         NEW u, u = RemoveAt(s, source),
         NEW t, t = InsertAt(u, p, s[source])
  PROVE  /\ t \in Seq(A) /\ Len(t) = Len(s) /\ \A x : x \in ToSet(t) <=> x \in ToSet(s)
         /\ t[1] = s[1]
         /\ p \in 1 .. Len(t) /\ t[p] = s[source]
         /\ positionIn(t, s[source]) = p
         /\ RemoveAt(t, p) = u
         /\ \E i \in {p - 1, p + 1} : i \in 1 .. Len(t) /\ t[i] = s[aim]
<1>1. Len(s) \in Nat /\ DOMAIN s = 1 .. Len(s) /\ ToSet(s) = {s[j] : j \in 1 .. Len(s)}
  BY ToSetFacts
<1>2. source \in 1 .. Len(s) /\ aim \in 1 .. Len(s)
  BY <1>1
<1>3. PICK x \in A : x = s[source]
  BY <1>2, ElementOfSeq
<1>4. /\ u \in Seq(A) /\ Len(u) = Len(s) - 1
      /\ \A j \in 1 .. Len(s) - 1 : u[j] = s[leavingOut(source, j)]
  BY <1>2, RemovedAt
<1>5. p \in 2 .. Len(s) /\ p \in 1 .. Len(u) + 1
  <2>1. Len(u) = Len(s) - 1
    BY <1>4
  <2> QED
    BY <1>1, <2>1 DEF landing
<1>6. t = InsertAt(u, p, x)
  BY <1>3
<1>7. /\ t \in Seq(A) /\ Len(t) = Len(u) + 1 /\ t[p] = x
      /\ \A j \in 1 .. Len(u) : t[leavingOut(p, j)] = u[j]
  <2>1. u \in Seq(A) /\ x \in A
    BY <1>3, <1>4
  <2>2. PICK n \in 1 .. Len(u) + 1 : n = p
    BY <1>5
  <2>3. t = InsertAt(u, n, x)
    BY <1>6, <2>2
  <2>4. /\ t \in Seq(A) /\ Len(t) = Len(u) + 1 /\ t[n] = x
        /\ \A j \in 1 .. Len(u) : t[leavingOut(n, j)] = u[j]
    BY <2>1, <2>2, <2>3, InsertedAt
  <2> QED
    BY <2>2, <2>4
<1>8. Len(t) = Len(s) /\ p \in 1 .. Len(t) /\ ToSet(t) = {t[j] : j \in 1 .. Len(s)}
  <2>1. Len(t) = Len(s)
    BY <1>1, <1>4, <1>7
  <2>2. ToSet(t) = {t[j] : j \in 1 .. Len(t)}
    BY <1>7, ToSetFacts
  <2> QED
    BY <1>4, <1>5, <1>7, <2>1, <2>2
\* What stands elsewhere stood elsewhere.
<1>9. ASSUME NEW j \in 1 .. Len(s), j # p
      PROVE  \E k \in 1 .. Len(s) : k # source /\ t[j] = s[k]
  <2>1. PICK m : m = IF j < p THEN j ELSE j - 1
    OBVIOUS
  <2>2. m \in 1 .. Len(u) /\ m \in 1 .. Len(s) - 1 /\ leavingOut(p, m) = j
    BY <1>1, <1>4, <1>5, <1>9, <2>1 DEF leavingOut
  <2>3. t[j] = u[m]
    BY <1>7, <2>2
  <2>4. PICK k : k = leavingOut(source, m)
    OBVIOUS
  <2>5. k \in 1 .. Len(s) /\ k # source
    BY <1>1, <2>2, <2>4 DEF leavingOut
  <2>6. u[m] = s[k]
    BY <1>4, <2>2, <2>4
  <2> QED
    BY <2>3, <2>5, <2>6
<1>10. ASSUME NEW k \in 1 .. Len(s), k # source
       PROVE  \E j : j = leavingOut(p, closedUp(source, k)) /\ j \in 1 .. Len(s) /\ t[j] = s[k]
  <2>1. PICK m : m = closedUp(source, k)
    OBVIOUS
  <2>2. PICK j : j = leavingOut(p, m)
    OBVIOUS
  <2>3. m \in 1 .. Len(u) /\ m \in 1 .. Len(s) - 1 /\ leavingOut(source, m) = k
    BY <1>1, <1>4, <1>10, <2>1 DEF leavingOut, closedUp
  <2>4. t[j] = u[m] /\ u[m] = s[k]
    BY <1>4, <1>7, <2>2, <2>3
  <2>5. j \in 1 .. Len(s)
    BY <1>1, <1>4, <2>2, <2>3 DEF leavingOut
  <2> QED
    BY <2>1, <2>2, <2>4, <2>5
<1>11. ASSUME NEW y \in ToSet(t) PROVE y \in ToSet(s)
  <2>1. PICK j \in 1 .. Len(s) : y = t[j]
    BY <1>8
  <2>2. \E k \in 1 .. Len(s) : y = s[k]
    BY <1>2, <1>3, <1>7, <1>9, <2>1
  <2> QED
    BY <1>1, <2>2
<1>12. ASSUME NEW y \in ToSet(s) PROVE y \in ToSet(t)
  <2>1. PICK k \in 1 .. Len(s) : y = s[k]
    BY <1>1
  <2>2. CASE k = source
    BY <1>3, <1>7, <1>8, <2>1, <2>2
  <2>3. CASE k # source
    <3>1. \E j \in 1 .. Len(s) : t[j] = s[k]
      BY <1>10, <2>1, <2>3
    <3> QED
      BY <1>8, <2>1, <3>1
  <2> QED
    BY <2>2, <2>3
<1>13. t[1] = s[1]
  <2>1. 1 \in 1 .. Len(u) /\ 1 < p /\ 1 < source /\ 1 \in 1 .. Len(s) - 1
    BY <1>1, <1>4, <1>5
  <2>2. leavingOut(p, 1) = 1 /\ leavingOut(source, 1) = 1
    BY <2>1 DEF leavingOut
  <2>3. t[1] = u[1] /\ u[1] = s[1]
    BY <1>4, <1>7, <2>1, <2>2
  <2> QED
    BY <2>3
<1>14. positionIn(t, x) = p
  <2>1. ASSUME NEW j \in 1 .. Len(t), t[j] = t[p] PROVE j = p
    <3>1. CASE j # p
      <4>1. PICK k \in 1 .. Len(s) : k # source /\ t[j] = s[k]
        BY <1>8, <1>9, <3>1
      <4>2. s[k] = s[source]
        BY <1>3, <1>7, <2>1, <4>1
      <4> QED
        BY <1>1, <1>2, <4>1, <4>2 DEF IsInjective
    <3> QED
      BY <3>1
  <2>2. PICK n \in 1 .. Len(t) : n = p
    BY <1>8
  <2>3. t \in Seq(A) /\ \A j \in 1 .. Len(t) : t[j] = t[n] => j = n
    BY <1>7, <2>1, <2>2
  <2>4. positionIn(t, t[n]) = n
    BY <2>3, PlaceOf
  <2> QED
    BY <1>7, <2>2, <2>4
<1>15. RemoveAt(t, p) = u
  <2>1. u \in Seq(A) /\ x \in A
    BY <1>3, <1>4
  <2>2. PICK n \in 1 .. Len(u) + 1 : n = p
    BY <1>5
  <2>3. t = InsertAt(u, n, x)
    BY <1>6, <2>2
  <2> QED
    BY <2>1, <2>2, <2>3, TakenBack
<1>16. \E i \in {p - 1, p + 1} : i \in 1 .. Len(t) /\ t[i] = s[aim]
  <2>1. PICK k \in 1 .. Len(s) : k = aim /\ k # source
    BY <1>2
  <2>2. PICK m : m = closedUp(source, k)
    OBVIOUS
  <2>3. PICK i : i = leavingOut(p, m) /\ i \in 1 .. Len(s) /\ t[i] = s[k]
    BY <1>10, <2>1, <2>2
  <2>4. i = p - 1 \/ i = p + 1
    <3>1. source \in Nat /\ aim \in Nat
      OBVIOUS
    <3> QED
      BY <2>1, <2>2, <2>3, <3>1 DEF leavingOut, closedUp, landing
  <2> QED
    BY <1>8, <2>1, <2>3, <2>4
<1> QED
  BY <1>3, <1>7, <1>8, <1>11, <1>12, <1>13, <1>14, <1>15, <1>16

\* When the first column is shown, it is shown first.
LEMMA FirstShown ==
  ASSUME NEW A, NEW given \in Seq(A), NEW v, given # <<>>, given[1] \notin v.hidden,
         NEW s, s = shownColumns(given, v)
  PROVE  s[1] = given[1]
<1>1. Len(given) \in Nat \ {0} /\ 1 \in 1 .. Len(given) /\ Len(given) \in 0 .. Len(given)
  BY EmptySeq, LenProperties
<1>2. PICK f, x : f = shownAmong(given, v) /\ x = given[1]
  OBVIOUS
<1>3. x \in A
  BY <1>1, <1>2, ElementOfSeq
<1>4. /\ f[0] = <<>>
      /\ \A n \in 1 .. Len(given) :
           f[n] = IF given[n] \in v.hidden THEN f[n - 1] ELSE Append(f[n - 1], given[n])
  BY <1>2, ShownRecursion
<1>5. f[1] = Append(f[1 - 1], given[1])
  <2>1. f[1] = IF given[1] \in v.hidden THEN f[1 - 1] ELSE Append(f[1 - 1], given[1])
    BY <1>1, <1>4
  <2> QED
    BY <2>1
<1>6. f[1] = Append(<<>>, x)
  <2>1. 1 - 1 = 0
    OBVIOUS
  <2>2. f[1] = Append(f[0], given[1])
    BY <1>5, <2>1
  <2> QED
    BY <1>2, <1>4, <2>2
<1>7. Len(f[1]) = 1
  <2>1. PICK z \in Seq(A) : z = <<>> /\ Len(z) = 0
    BY EmptySeq
  <2>2. Len(Append(z, x)) = Len(z) + 1
    BY <1>3, <2>1, AppendProperties
  <2> QED
    BY <1>6, <2>1, <2>2
<1>8. PICK n \in 0 .. Len(given) : n = Len(given)
  BY <1>1
<1>9. \A i \in 1 .. n : given[i] \notin v.hidden => f[n][Len(f[i])] = given[i]
  BY <1>2, <1>8, ShownSoFar
<1>10. s = f[n]
  BY <1>2, <1>8 DEF shownColumns
<1>11. f[n][Len(f[1])] = given[1]
  BY <1>1, <1>8, <1>9
<1> QED
  BY <1>7, <1>10, <1>11

LEMMA ActivePlace ==
  ASSUME viewModel \in Views PROVE activeAt \in Nat
<1>1. PICK c, A, s, at : /\ c = viewModel.columns /\ A = ToSet(c) /\ s = columnsShown
                         /\ at = positionIn(s, viewModel.active) /\ at = activeAt
  BY DEF activeAt
<1>2. c \in Seq(A) /\ IsInjective(c)
  BY <1>1, GestureAssumption
<1>3. s \in Seq(A)
  BY <1>1, <1>2, ShownColumnsAre DEF columnsShown
<1>4. at # 0 => at \in 1 .. Len(s)
  BY <1>1, <1>3, PlaceIsOf
<1> QED
  BY <1>1, <1>3, <1>4, LenProperties

LEMMA ReorderIsLawful ==
  ASSUME NEW v \in Views, NEW column, NEW target, NEW before,
         NEW order, order = reorderedTo(v, column, target, before), order # <<>>
  PROVE  isLawfulOrder(order, column, v)
<1>1. PICK A : A = ToSet(v.columns)
  OBVIOUS
<1>2. v.columns \in Seq(A) /\ IsInjective(v.columns)
  BY <1>1, GestureAssumption
<1>3. PICK s, f : s = shownColumns(v.columns, v) /\ f = shownAmong(v.columns, v)
  OBVIOUS
<1>4. s \in Seq(A) /\ IsInjective(s)
  BY <1>2, <1>3, ShownColumnsAre
<1>5. PICK source, aim : source = positionIn(s, column) /\ aim = positionIn(s, target)
  OBVIOUS
<1>6. PICK p, u, t : /\ p = landing(source, aim, before)
                     /\ u = RemoveAt(s, source)
                     /\ t = InsertAt(u, p, column)
  OBVIOUS
<1>7. /\ ~(source <= 1) /\ ~(aim <= 1) /\ source # aim /\ v.group[column] = v.group[target]
      /\ order = orderWithVisibleColumns(v, t)
  BY <1>3, <1>5, <1>6 DEF reorderedTo, landing
<1>8. source # 0 /\ aim # 0
  BY <1>7
<1>9. source \in 2 .. Len(s) /\ aim \in 2 .. Len(s) /\ s[source] = column /\ s[aim] = target
  <2>1. source \in 1 .. Len(s) /\ aim \in 1 .. Len(s) /\ s[source] = column /\ s[aim] = target
    BY <1>4, <1>5, <1>8, PlaceIsOf
  <2>2. Len(s) \in Nat
    BY <1>4, LenProperties
  <2> QED
    BY <1>7, <2>1, <2>2
<1>10. /\ t \in Seq(A) /\ Len(t) = Len(s) /\ \A x : x \in ToSet(t) <=> x \in ToSet(s)
       /\ t[1] = s[1]
       /\ p \in 1 .. Len(t) /\ t[p] = column
       /\ positionIn(t, column) = p
       /\ RemoveAt(t, p) = u
       /\ \E i \in {p - 1, p + 1} : i \in 1 .. Len(t) /\ t[i] = target
  <2>1. t = InsertAt(u, p, s[source])
    BY <1>6, <1>9
  <2>2. p = landing(source, aim, before)
    BY <1>6
  <2>3. u = RemoveAt(s, source)
    BY <1>6
  <2>4. source # aim
    BY <1>7
  <2>5. source \in 2 .. Len(s) /\ aim \in 2 .. Len(s)
    BY <1>9
  <2>6. /\ t \in Seq(A) /\ Len(t) = Len(s) /\ \A x : x \in ToSet(t) <=> x \in ToSet(s)
        /\ t[1] = s[1]
        /\ p \in 1 .. Len(t) /\ t[p] = s[source]
        /\ positionIn(t, s[source]) = p
        /\ RemoveAt(t, p) = u
        /\ \E i \in {p - 1, p + 1} : i \in 1 .. Len(t) /\ t[i] = s[aim]
    BY <1>4, <2>1, <2>2, <2>3, <2>4, <2>5, MovedColumn
  <2> QED
    BY <1>9, <2>6
<1>11. /\ order \in Seq(A) /\ Len(order) = Len(v.columns)
       /\ \A i \in 1 .. Len(order) :
            order[i] = IF v.columns[i] \in v.hidden THEN v.columns[i] ELSE t[Len(f[i])]
       /\ ToSet(order) = ToSet(v.columns)
       /\ shownColumns(order, v) = t
  <2>1. ToSet(t) = ToSet(s)
    BY <1>10
  <2>2. t \in Seq(A) /\ Len(t) = Len(s)
    BY <1>10
  <2> QED
    BY <1>2, <1>3, <1>7, <2>1, <2>2, OrderShows
<1>12. order[1] = v.columns[1]
  <2>1. Len(order) \in Nat \ {0} /\ 1 \in 1 .. Len(order) /\ 1 \in 1 .. Len(v.columns)
    BY <1>11, EmptySeq, LenProperties
  <2>2. CASE v.columns[1] \in v.hidden
    BY <1>11, <2>1, <2>2
  <2>3. CASE v.columns[1] \notin v.hidden
    <3>1. PICK x \in A : x = v.columns[1]
      BY <1>2, <2>1, ElementOfSeq
    <3>2. f[1] = Append(f[0], x) /\ f[0] = <<>>
      <4>1. /\ f[0] = <<>>
            /\ \A n \in 1 .. Len(v.columns) :
                 f[n] = IF v.columns[n] \in v.hidden THEN f[n - 1] ELSE Append(f[n - 1], v.columns[n])
        BY <1>2, <1>3, ShownRecursion
      <4>2. f[1] = Append(f[1 - 1], v.columns[1])
        BY <2>1, <2>3, <4>1
      <4>3. 1 - 1 = 0
        OBVIOUS
      <4>4. f[1] = Append(f[0], v.columns[1])
        BY <4>2, <4>3
      <4> QED
        BY <3>1, <4>1, <4>4
    <3>3. Len(f[1]) = 1
      <4>1. PICK z \in Seq(A) : z = <<>> /\ Len(z) = 0
        BY EmptySeq
      <4>2. Len(Append(z, x)) = Len(z) + 1
        BY <3>1, AppendProperties
      <4> QED
        BY <3>2, <4>1, <4>2
    <3>4. order[1] = t[1]
      BY <1>11, <2>1, <2>3, <3>3
    <3>5. s[1] = x
      <4>1. v.columns # <<>>
        BY <2>1, EmptySeq
      <4> QED
        BY <1>2, <1>3, <2>3, <3>1, <4>1, FirstShown
    <3> QED
      BY <1>10, <3>1, <3>4, <3>5
  <2> QED
    BY <2>2, <2>3
<1>13. column \in ToSet(s) /\ column \in ToSet(t)
  <2>1. ToSet(s) = {s[i] : i \in 1 .. Len(s)} /\ Len(s) \in Nat
    BY <1>4, ToSetFacts
  <2>2. source \in 1 .. Len(s)
    BY <1>9, <2>1
  <2> QED
    BY <1>9, <1>10, <2>1, <2>2
<1>14. \E i \in {p - 1, p + 1} \cap DOMAIN t : v.group[t[i]] = v.group[column]
  <2>1. DOMAIN t = 1 .. Len(t)
    BY <1>10, LenProperties
  <2> QED
    BY <1>7, <1>10, <2>1
<1> QED
  BY <1>3, <1>5, <1>6, <1>10, <1>11, <1>12, <1>13, <1>14 DEF isLawfulOrder

\* Moved to its neighbour's place, an element has exchanged places with it.
LEMMA MovedToTheNext ==
  ASSUME NEW A, NEW s \in Seq(A), NEW source \in 1 .. Len(s), NEW aim \in 1 .. Len(s),
         aim = source - 1 \/ aim = source + 1,
         NEW u, u = RemoveAt(s, source), NEW t, t = InsertAt(u, aim, s[source])
  PROVE  /\ t[aim] = s[source] /\ t[source] = s[aim]
         /\ \A k \in 1 .. Len(s) : k # source /\ k # aim => t[k] = s[k]
<1>1. Len(s) \in Nat /\ s[source] \in A
  BY ElementOfSeq, LenProperties
<1>2. /\ u \in Seq(A) /\ Len(u) = Len(s) - 1
      /\ \A j \in 1 .. Len(s) - 1 : u[j] = s[leavingOut(source, j)]
  BY RemovedAt
<1>3. aim \in 1 .. Len(u) + 1
  BY <1>1, <1>2
<1>4. t[aim] = s[source] /\ \A j \in 1 .. Len(u) : t[leavingOut(aim, j)] = u[j]
  <2>1. PICK n \in 1 .. Len(u) + 1 : n = aim
    BY <1>3
  <2>2. PICK e \in A : e = s[source]
    BY <1>1
  <2>3. t = InsertAt(u, n, e) /\ u \in Seq(A)
    BY <1>2, <2>1, <2>2
  <2>4. /\ t \in Seq(A) /\ Len(t) = Len(u) + 1 /\ t[n] = e
        /\ \A j \in 1 .. Len(u) : t[leavingOut(n, j)] = u[j]
    BY <2>1, <2>2, <2>3, InsertedAt
  <2> QED
    BY <2>1, <2>2, <2>4
<1>5. ASSUME NEW k \in 1 .. Len(s), k # aim
      PROVE  t[k] = s[IF k = source THEN aim ELSE k]
  <2>1. PICK j : j = closedUp(aim, k)
    OBVIOUS
  <2>2. j \in 1 .. Len(s) - 1 /\ leavingOut(aim, j) = k
    BY <1>1, <1>5, <2>1 DEF closedUp, leavingOut
  <2>3. leavingOut(source, j) = IF k = source THEN aim ELSE k
    BY <1>1, <1>5, <2>1 DEF closedUp, leavingOut
  <2>4. t[k] = u[j] /\ u[j] = s[leavingOut(source, j)]
    BY <1>2, <1>4, <2>2
  <2> QED
    BY <2>3, <2>4
<1>6. source # aim
  BY <1>1
<1> QED
  BY <1>4, <1>5, <1>6

\* The order the keyboard asks for is one a drag to the next column gives.
LEMMA SwapIsLawful ==
  ASSUME viewModel \in Views, NEW target \in DOMAIN columnsShown, canReorderActiveColumn(target)
  PROVE  isLawfulOrder(reorderActiveColumn(target), viewModel.active, viewModel)
<1>1. PICK v, c, A, column : v = viewModel /\ c = v.columns /\ A = ToSet(c) /\ column = v.active
  OBVIOUS
<1>2. c \in Seq(A) /\ IsInjective(c) /\ v \in Views
  BY <1>1, GestureAssumption
<1>3. /\ Len(c) \in Nat /\ DOMAIN c = 1 .. Len(c) /\ ToSet(c) = {c[i] : i \in 1 .. Len(c)}
      /\ Len(c) \in 0 .. Len(c)
  BY <1>2, ToSetFacts
<1>4. PICK s, f : s = shownColumns(c, v) /\ f = shownAmong(c, v)
  OBVIOUS
<1>5. s = columnsShown /\ s = f[Len(c)]
  BY <1>1, <1>4 DEF columnsShown, shownColumns
<1>6. /\ s \in Seq(A) /\ IsInjective(s)
      /\ \A x : x \in ToSet(s) <=> x \in ToSet(c) /\ x \notin v.hidden
  BY <1>2, <1>4, ShownColumnsAre
<1>7. /\ Len(s) \in Nat /\ DOMAIN s = 1 .. Len(s) /\ ToSet(s) = {s[i] : i \in 1 .. Len(s)}
      /\ \A i, j \in 1 .. Len(s) : s[i] = s[j] => i = j
  BY <1>6, ToSetFacts DEF IsInjective
<1>8. \A i \in 1 .. Len(c) : c[i] \notin v.hidden =>
        Len(f[i]) \in 1 .. Len(s) /\ s[Len(f[i])] = c[i]
  <2>1. PICK n \in 0 .. Len(c) : n = Len(c)
    <3>1. Len(c) \in 0 .. Len(c)
      BY <1>3
    <3> QED
      BY <3>1
  <2>2. s = f[n]
    BY <1>5, <2>1
  <2>3. \A i \in 1 .. n : c[i] \notin v.hidden => Len(f[i]) \in 1 .. Len(s) /\ s[Len(f[i])] = c[i]
    BY <1>2, <1>4, <2>2, ShownSoFar
  <2> QED
    BY <2>1, <2>3
<1>9. PICK source, other : source = positionIn(s, column) /\ other = s[target]
  OBVIOUS
<1>10. /\ source > 1 /\ target \in {source - 1, source + 1} /\ target \in 2 .. Len(s)
       /\ v.group[other] = v.group[column]
  BY <1>1, <1>5, <1>9 DEF canReorderActiveColumn, activeAt
<1>11. source \in 1 .. Len(s) /\ s[source] = column /\ target \in 1 .. Len(s)
  <2>1. source # 0
    BY <1>10
  <2> QED
    BY <1>5, <1>6, <1>7, <1>9, <2>1, PlaceIsOf
<1>12. source # target /\ other # column
  <2>1. source # target
    BY <1>7, <1>10, <1>11
  <2> QED
    BY <1>7, <1>9, <1>11, <2>1
<1>13. positionIn(s, other) = target
  BY <1>6, <1>7, <1>9, <1>11, PlaceOf
<1>14. PICK before \in BOOLEAN : before <=> target = source - 1
  OBVIOUS
<1>15. PICK p, u, t : /\ p = target
                      /\ u = RemoveAt(s, source)
                      /\ t = InsertAt(u, p, column)
  OBVIOUS
<1>16. /\ t[target] = column /\ t[source] = other
       /\ \A k \in 1 .. Len(s) : k # source /\ k # target => t[k] = s[k]
  <2>1. target = source - 1 \/ target = source + 1
    BY <1>10
  <2>2. t = InsertAt(u, target, s[source])
    BY <1>11, <1>15
  <2> QED
    BY <1>6, <1>9, <1>11, <1>15, <2>1, <2>2, MovedToTheNext
<1>17. PICK order, given : /\ order = reorderActiveColumn(target)
                           /\ given = orderWithVisibleColumns(v, t)
  OBVIOUS
<1>18. order = [i \in 1 .. Len(c) |-> CASE c[i] = column -> other
                                        [] c[i] # column /\ c[i] = other -> column
                                        [] OTHER -> c[i]]
  BY <1>1, <1>3, <1>5, <1>9, <1>17 DEF reorderActiveColumn
<1>19. given = [i \in 1 .. Len(c) |-> IF c[i] \in v.hidden THEN c[i] ELSE t[Len(f[i])]]
  BY <1>1, <1>3, <1>4, <1>17 DEF orderWithVisibleColumns
<1>20. column \notin v.hidden /\ other \notin v.hidden /\ column \in ToSet(c)
  BY <1>6, <1>7, <1>9, <1>11
<1>21. ASSUME NEW i \in 1 .. Len(c) PROVE given[i] = order[i]
  <2>1. CASE c[i] \in v.hidden
    <3>1. c[i] # column /\ c[i] # other
      BY <1>20, <2>1
    <3>2. order[i] = c[i] /\ given[i] = c[i]
      BY <1>18, <1>19, <2>1, <3>1
    <3> QED
      BY <3>2
  <2>2. CASE c[i] \notin v.hidden
    <3>1. PICK k : k = Len(f[i])
      OBVIOUS
    <3>2. k \in 1 .. Len(s) /\ s[k] = c[i] /\ given[i] = t[k]
      BY <1>8, <1>19, <2>2, <3>1
    <3>3. CASE k = source
      <4>1. c[i] = column
        BY <1>11, <3>2, <3>3
      <4> QED
        BY <1>16, <1>18, <3>2, <3>3, <4>1
    <3>4. CASE k = target
      <4>1. c[i] = other /\ c[i] # column
        BY <1>9, <1>12, <3>2, <3>4
      <4>2. order[i] = column
        BY <1>18, <4>1
      <4> QED
        BY <1>16, <3>2, <3>4, <4>2
    <3>5. CASE k # source /\ k # target
      <4>1. c[i] # column /\ c[i] # other
        BY <1>7, <1>9, <1>11, <3>2, <3>5
      <4>2. order[i] = c[i]
        BY <1>18, <4>1
      <4> QED
        BY <1>16, <3>2, <3>5, <4>2
    <3> QED
      BY <3>3, <3>4, <3>5
  <2> QED
    BY <2>1, <2>2
<1>22. given = order
  BY <1>18, <1>19, <1>21
<1>23. given # c /\ given # <<>>
  <2>1. PICK i \in 1 .. Len(c) : c[i] = column
    BY <1>3, <1>20
  <2>2. order[i] = other
    BY <1>18, <2>1
  <2>3. given # c
    BY <1>12, <1>22, <2>1, <2>2
  <2>4. given # <<>>
    <3>1. DOMAIN given = 1 .. Len(c)
      BY <1>19
    <3>2. DOMAIN <<>> = {}
      OBVIOUS
    <3> QED
      BY <2>1, <3>1, <3>2
  <2> QED
    BY <2>3, <2>4
<1>24. given = reorderedTo(v, column, other, before)
  <2>1. target = IF source < (IF before THEN target ELSE target + 1)
                 THEN (IF before THEN target ELSE target + 1) - 1
                 ELSE (IF before THEN target ELSE target + 1)
    <3>1. source \in Nat /\ target \in Nat
      BY <1>7, <1>11
    <3>2. CASE before
      <4>1. target = source - 1
        BY <1>14, <3>2
      <4>2. ~(source < target)
        BY <3>1, <4>1
      <4> QED
        BY <3>2, <4>2
    <3>3. CASE ~before
      <4>1. target = source + 1
        BY <1>10, <1>14, <3>3
      <4>2. source < target + 1 /\ (target + 1) - 1 = target
        BY <3>1, <4>1
      <4> QED
        BY <3>3, <4>2
    <3> QED
      BY <3>2, <3>3
  <2>2. ~(source <= 1 \/ target <= 1 \/ source = target)
    <3>1. source \in Nat /\ target \in Nat
      BY <1>7, <1>11
    <3>2. target > 1
      BY <1>7, <1>10
    <3> QED
      BY <1>10, <1>12, <3>1, <3>2
  <2>3. v.group[column] = v.group[other]
    BY <1>10
  <2>4. reorderedTo(v, column, other, before) =
          IF orderWithVisibleColumns(v, InsertAt(RemoveAt(s, source), target, column)) = v.columns THEN <<>>
          ELSE orderWithVisibleColumns(v, InsertAt(RemoveAt(s, source), target, column))
    BY <1>1, <1>4, <1>9, <1>13, <2>1, <2>2, <2>3 DEF reorderedTo
  <2> QED
    BY <1>1, <1>15, <1>17, <1>23, <2>4
<1>25. isLawfulOrder(given, column, v)
  BY <1>2, <1>23, <1>24, ReorderIsLawful
<1> QED
  BY <1>1, <1>17, <1>22, <1>25

-----------------------------------------------------------------------------
(* What the gestures keep.                                                 *)

isSession(g) ==
    /\ g = [owner |-> g.owner, reorder |-> g.reorder, tree |-> g.tree, fill |-> g.fill,
            dragged |-> g.dragged, frames |-> g.frames, opened |-> g.opened,
            stroke |-> g.stroke, lawful |-> g.lawful]
    /\ g.reorder = [column |-> g.reorder.column, order |-> g.reorder.order]
    /\ g.tree = [rows |-> g.tree.rows, moved |-> g.tree.moved, target |-> g.tree.target]
    /\ g.fill = [last |-> g.fill.last, changed |-> g.fill.changed]
    /\ g.owner \in [GestureKinds -> Pointers \cup {NoPointer}]
    /\ g.frames \subseteq GestureKinds

\* The gestures are sound for the pointers that are down.
gesturesFit(g, down) ==
    /\ isSession(g)
    /\ g.opened = (IF g.owner["resize"] # NoPointer THEN 1 ELSE 0)
    /\ \A k \in GestureKinds : g.owner[k] \in down \cup {NoPointer}
    /\ \A k, l \in GestureKinds : g.owner[k] = g.owner[l] => k = l \/ g.owner[k] = NoPointer
    /\ \A k \in g.frames : g.owner[k] # NoPointer
    /\ g.lawful
    /\ g.stroke = "dragging" => dragging(g)
    /\ g.stroke = "focused" => ~dragging(g)

\* A draft has been asked for once when its answer is pending.
draftFits(d) ==
    /\ d = [open |-> d.open, pending |-> d.pending, composing |-> d.composing, asked |-> d.asked]
    /\ d.pending \in BOOLEAN
    /\ d.asked = (IF d.pending THEN 1 ELSE 0)

GestureInv ==
    /\ viewModel \in Views /\ shownLayout \in Views
    /\ buttons \subseteq Pointers
    /\ gesturesFit(gestures, buttons)
    /\ draftFits(draft)

LEMMA NoGestureFits ==
  ASSUME NEW down, NEW lawful, lawful, NEW g,
         g = NoGesture \/ g = [NoGesture EXCEPT !.lawful = lawful]
  PROVE  gesturesFit(g, down)
<1>1. /\ g.owner = [k \in GestureKinds |-> NoPointer]
      /\ g.reorder = [column |-> 0, order |-> <<>>]
      /\ g.tree = [rows |-> {}, moved |-> FALSE, target |-> NoRow]
      /\ g.fill = [last |-> 0, changed |-> FALSE]
      /\ g.frames = {} /\ g.opened = 0 /\ g.stroke = "none" /\ g.lawful
      /\ g = [owner |-> g.owner, reorder |-> g.reorder, tree |-> g.tree, fill |-> g.fill,
              dragged |-> g.dragged, frames |-> g.frames, opened |-> g.opened,
              stroke |-> g.stroke, lawful |-> g.lawful]
  <2>1. CASE g = NoGesture
    BY <2>1 DEF NoGesture
  <2>2. CASE g = [NoGesture EXCEPT !.lawful = lawful]
    BY <2>2 DEF NoGesture
  <2> QED
    BY <2>1, <2>2
<1>2. g.owner \in [GestureKinds -> Pointers \cup {NoPointer}]
  BY <1>1
<1>3. g.reorder = [column |-> g.reorder.column, order |-> g.reorder.order]
  BY <1>1
<1>4. g.tree = [rows |-> g.tree.rows, moved |-> g.tree.moved, target |-> g.tree.target]
  BY <1>1
<1>5. g.fill = [last |-> g.fill.last, changed |-> g.fill.changed]
  BY <1>1
<1>6. isSession(g)
  BY <1>1, <1>2, <1>3, <1>4, <1>5 DEF isSession
<1>7. "resize" \in GestureKinds /\ \A k \in GestureKinds : g.owner[k] = NoPointer
  BY <1>1 DEF GestureKinds
<1> QED
  BY <1>1, <1>6, <1>7 DEF gesturesFit

LEMMA MorePointersDown ==
  ASSUME NEW g, NEW down, NEW more, gesturesFit(g, down), down \subseteq more
  PROVE  gesturesFit(g, more)
  BY DEF gesturesFit

LEMMA PointerIsUp ==
  ASSUME NEW g, NEW down, NEW p, gesturesFit(g, down), \A k \in GestureKinds : g.owner[k] # p
  PROVE  gesturesFit(g, down \ {p})
  BY DEF gesturesFit

-----------------------------------------------------------------------------
(* Ending a gesture.                                                       *)

LEMMA ReleasedIs ==
  ASSUME NEW g, isSession(g), NEW k \in GestureKinds, NEW h, h = released(g, k)
  PROVE  /\ isSession(h)
         /\ h.owner = [g.owner EXCEPT ![k] = NoPointer]
         /\ h.frames = g.frames \ {k}
         /\ h.stroke = "none"
         /\ h.opened = g.opened /\ h.lawful = g.lawful
         /\ h.reorder = g.reorder /\ h.tree = g.tree /\ h.fill = g.fill
<1>1. /\ h.owner = [g.owner EXCEPT ![k] = NoPointer]
      /\ h.frames = g.frames \ {k}
      /\ h.stroke = "none"
      /\ h.opened = g.opened /\ h.lawful = g.lawful
      /\ h.reorder = g.reorder /\ h.tree = g.tree /\ h.fill = g.fill
  BY DEF isSession, released
<1>2. h.owner \in [GestureKinds -> Pointers \cup {NoPointer}] /\ h.frames \subseteq GestureKinds
  BY <1>1 DEF isSession
<1>3. h = [owner |-> h.owner, reorder |-> h.reorder, tree |-> h.tree, fill |-> h.fill,
            dragged |-> h.dragged, frames |-> h.frames, opened |-> h.opened,
            stroke |-> h.stroke, lawful |-> h.lawful]
  BY DEF isSession, released
<1> QED
  BY <1>1, <1>2, <1>3 DEF isSession

LEMMA EndingFits ==
  ASSUME NEW g, NEW down, gesturesFit(g, down), NEW k \in GestureKinds, g.owner[k] # NoPointer,
         NEW h, isSession(h),
         h.owner = [g.owner EXCEPT ![k] = NoPointer], h.frames = g.frames \ {k}, h.stroke = "none",
         h.lawful, h.opened = IF k = "resize" THEN g.opened - 1 ELSE g.opened
  PROVE  gesturesFit(h, down)
<1>1. /\ h.owner[k] = NoPointer
      /\ \A l \in GestureKinds : l # k => h.owner[l] = g.owner[l]
  BY DEF gesturesFit, isSession
<1>2. h.opened = (IF h.owner["resize"] # NoPointer THEN 1 ELSE 0)
  BY <1>1 DEF gesturesFit, GestureKinds
<1>3. \A l \in GestureKinds : h.owner[l] \in down \cup {NoPointer}
  BY <1>1 DEF gesturesFit
<1>4. ASSUME NEW l \in GestureKinds, NEW m \in GestureKinds, h.owner[l] = h.owner[m]
      PROVE  l = m \/ h.owner[l] = NoPointer
  BY <1>1, <1>4 DEF gesturesFit
<1>5. \A l \in h.frames : h.owner[l] # NoPointer
  BY <1>1 DEF gesturesFit, isSession
<1> QED
  BY <1>2, <1>3, <1>4, <1>5 DEF gesturesFit

\* Whom it leaves: nobody else's gesture is touched, and the pointer has none.
leftBy(g, h, k, p) ==
    /\ \A l \in GestureKinds : l # k => h.owner[l] = g.owner[l]
    /\ p = AnyPointer => h.owner[k] = NoPointer
    /\ p # NoPointer => h.owner[k] # p
    /\ h.owner[k] \in {g.owner[k], NoPointer}

LEMMA EndingLeaves ==
  ASSUME NEW g, isSession(g), NEW k \in GestureKinds, NEW p, NEW h,
         IF ends(g, k, p) THEN h.owner = [g.owner EXCEPT ![k] = NoPointer] ELSE h = g
  PROVE  leftBy(g, h, k, p)
<1>1. CASE ends(g, k, p)
  <2>1. h.owner[k] = NoPointer /\ \A l \in GestureKinds : l # k => h.owner[l] = g.owner[l]
    BY <1>1 DEF isSession
  <2> QED
    BY <2>1 DEF leftBy
<1>2. CASE ~ends(g, k, p)
  BY <1>2 DEF leftBy, ends
<1> QED
  BY <1>1, <1>2

LEMMA EndSelection ==
  ASSUME NEW g, NEW down, gesturesFit(g, down), NEW p, NEW h, h = endSelectionDrag(g, p)
  PROVE  gesturesFit(h, down) /\ leftBy(g, h, "select", p)
<1>1. isSession(g) /\ "select" \in GestureKinds
  BY DEF gesturesFit, GestureKinds
<1>2. CASE ends(g, "select", p)
  <2>1. PICK r : r = released(g, "select")
    OBVIOUS
  <2>2. /\ isSession(r)
        /\ r.owner = [g.owner EXCEPT !["select"] = NoPointer]
        /\ r.frames = g.frames \ {"select"}
        /\ r.stroke = "none"
        /\ r.opened = g.opened /\ r.lawful = g.lawful
    BY <1>1, <2>1, ReleasedIs
  <2>3. h = [r EXCEPT !.dragged = FALSE]
    BY <1>2, <2>1 DEF endSelectionDrag
  <2>4. /\ isSession(h) /\ h.owner = r.owner /\ h.frames = r.frames /\ h.stroke = r.stroke
        /\ h.opened = r.opened /\ h.lawful = r.lawful
    BY <2>2, <2>3 DEF isSession
  <2>5. h.lawful /\ g.owner["select"] # NoPointer
    BY <1>2, <2>2, <2>4 DEF gesturesFit, ends
  <2>6. gesturesFit(h, down)
    BY <1>1, <2>2, <2>4, <2>5, EndingFits
  <2> QED
    BY <1>1, <1>2, <2>2, <2>4, <2>6, EndingLeaves
<1>3. CASE ~ends(g, "select", p)
  <2>1. h = g
    BY <1>3 DEF endSelectionDrag
  <2> QED
    BY <1>1, <1>3, <2>1, EndingLeaves
<1> QED
  BY <1>2, <1>3

LEMMA EndResize ==
  ASSUME NEW g, NEW down, gesturesFit(g, down), NEW p, NEW h, h = endColumnResize(g, p)
  PROVE  gesturesFit(h, down) /\ leftBy(g, h, "resize", p)
<1>1. isSession(g) /\ "resize" \in GestureKinds
  BY DEF gesturesFit, GestureKinds
<1>2. CASE ends(g, "resize", p)
  <2>1. PICK r : r = released(g, "resize")
    OBVIOUS
  <2>2. /\ isSession(r)
        /\ r.owner = [g.owner EXCEPT !["resize"] = NoPointer]
        /\ r.frames = g.frames \ {"resize"}
        /\ r.stroke = "none"
        /\ r.opened = g.opened /\ r.lawful = g.lawful
    BY <1>1, <2>1, ReleasedIs
  <2>3. h = [r EXCEPT !.opened = @ - 1]
    BY <1>2, <2>1 DEF endColumnResize
  <2>4. /\ isSession(h) /\ h.owner = r.owner /\ h.frames = r.frames /\ h.stroke = r.stroke
        /\ h.opened = r.opened - 1 /\ h.lawful = r.lawful
    BY <2>2, <2>3 DEF isSession
  <2>5. h.lawful /\ g.owner["resize"] # NoPointer
    BY <1>2, <2>2, <2>4 DEF gesturesFit, ends
  <2>6. gesturesFit(h, down)
    BY <1>1, <2>2, <2>4, <2>5, EndingFits
  <2> QED
    BY <1>1, <1>2, <2>2, <2>4, <2>6, EndingLeaves
<1>3. CASE ~ends(g, "resize", p)
  <2>1. h = g
    BY <1>3 DEF endColumnResize
  <2> QED
    BY <1>1, <1>3, <2>1, EndingLeaves
<1> QED
  BY <1>2, <1>3

LEMMA EndFill ==
  ASSUME NEW g, NEW down, gesturesFit(g, down), NEW p, NEW h, h = endFillHandleDrag(g, p)
  PROVE  gesturesFit(h, down) /\ leftBy(g, h, "fill", p)
<1>1. isSession(g) /\ "fill" \in GestureKinds
  BY DEF gesturesFit, GestureKinds
<1>2. CASE ends(g, "fill", p)
  <2>1. PICK r : r = released(g, "fill")
    OBVIOUS
  <2>2. /\ isSession(r)
        /\ r.owner = [g.owner EXCEPT !["fill"] = NoPointer]
        /\ r.frames = g.frames \ {"fill"}
        /\ r.stroke = "none"
        /\ r.opened = g.opened /\ r.lawful = g.lawful
    BY <1>1, <2>1, ReleasedIs
  <2>3. h = [r EXCEPT !.fill = [last |-> 0, changed |-> FALSE]]
    BY <1>2, <2>1 DEF endFillHandleDrag, NoGesture
  <2>4. /\ isSession(h) /\ h.owner = r.owner /\ h.frames = r.frames /\ h.stroke = r.stroke
        /\ h.opened = r.opened /\ h.lawful = r.lawful
    <3>1. /\ h.owner = r.owner /\ h.frames = r.frames /\ h.stroke = r.stroke
          /\ h.opened = r.opened /\ h.lawful = r.lawful
          /\ h.reorder = r.reorder /\ h.tree = r.tree /\ h.fill = [last |-> 0, changed |-> FALSE]
          /\ h = [owner |-> h.owner, reorder |-> h.reorder, tree |-> h.tree, fill |-> h.fill,
               dragged |-> h.dragged, frames |-> h.frames, opened |-> h.opened,
               stroke |-> h.stroke, lawful |-> h.lawful]
      BY <2>2, <2>3 DEF isSession
    <3>2. h.fill = [last |-> h.fill.last, changed |-> h.fill.changed]
      BY <3>1
    <3> QED
      BY <2>2, <3>1, <3>2 DEF isSession
  <2>5. h.lawful /\ g.owner["fill"] # NoPointer
    BY <1>2, <2>2, <2>4 DEF gesturesFit, ends
  <2>6. gesturesFit(h, down)
    BY <1>1, <2>2, <2>4, <2>5, EndingFits
  <2> QED
    BY <1>1, <1>2, <2>2, <2>4, <2>6, EndingLeaves
<1>3. CASE ~ends(g, "fill", p)
  <2>1. h = g
    BY <1>3 DEF endFillHandleDrag
  <2> QED
    BY <1>1, <1>3, <2>1, EndingLeaves
<1> QED
  BY <1>2, <1>3

LEMMA EndReorder ==
  ASSUME NEW g, NEW down, gesturesFit(g, down), NEW p, NEW commit,
         commit /\ g.reorder.order # <<>> =>
           isLawfulOrder(g.reorder.order, g.reorder.column, viewModel),
         NEW h, h = endColumnReorder(g, p, commit)
  PROVE  gesturesFit(h, down) /\ leftBy(g, h, "reorder", p)
<1>1. isSession(g) /\ "reorder" \in GestureKinds
  BY DEF gesturesFit, GestureKinds
<1>2. CASE ends(g, "reorder", p)
  <2>1. PICK r : r = released(g, "reorder")
    OBVIOUS
  <2>2. /\ isSession(r)
        /\ r.owner = [g.owner EXCEPT !["reorder"] = NoPointer]
        /\ r.frames = g.frames \ {"reorder"}
        /\ r.stroke = "none"
        /\ r.opened = g.opened /\ r.lawful = g.lawful
    BY <1>1, <2>1, ReleasedIs
  <2>3. PICK b : b = (commit /\ g.reorder.order # <<>> =>
                        isLawfulOrder(g.reorder.order, g.reorder.column, viewModel))
    OBVIOUS
  <2>4. h = [r EXCEPT !.reorder = [column |-> 0, order |-> <<>>], !.lawful = @ /\ b]
    BY <1>2, <2>1, <2>3 DEF endColumnReorder, NoGesture
  <2>5. /\ isSession(h) /\ h.owner = r.owner /\ h.frames = r.frames /\ h.stroke = r.stroke
        /\ h.opened = r.opened /\ h.lawful = (r.lawful /\ b)
    <3>1. /\ h.owner = r.owner /\ h.frames = r.frames /\ h.stroke = r.stroke
          /\ h.opened = r.opened /\ h.lawful = (r.lawful /\ b)
          /\ h.fill = r.fill /\ h.tree = r.tree /\ h.reorder = [column |-> 0, order |-> <<>>]
          /\ h = [owner |-> h.owner, reorder |-> h.reorder, tree |-> h.tree, fill |-> h.fill,
               dragged |-> h.dragged, frames |-> h.frames, opened |-> h.opened,
               stroke |-> h.stroke, lawful |-> h.lawful]
      BY <2>2, <2>4 DEF isSession
    <3>2. h.reorder = [column |-> h.reorder.column, order |-> h.reorder.order]
      BY <3>1
    <3> QED
      BY <2>2, <3>1, <3>2 DEF isSession
  <2>6. h.lawful /\ g.owner["reorder"] # NoPointer
    <3>1. g.lawful /\ g.owner["reorder"] # NoPointer
      BY <1>2 DEF gesturesFit, ends
    <3>2. b
      BY <2>3
    <3> QED
      BY <2>2, <2>5, <3>1, <3>2
  <2>7. gesturesFit(h, down)
    <3>1. isSession(h) /\ h.frames = g.frames \ {"reorder"} /\ h.stroke = "none" /\ h.opened = g.opened
          /\ h.owner = [g.owner EXCEPT !["reorder"] = NoPointer]
      BY <2>2, <2>5
    <3> QED
      BY <1>1, <2>6, <3>1, EndingFits
  <2> QED
    BY <1>1, <1>2, <2>2, <2>5, <2>7, EndingLeaves
<1>3. CASE ~ends(g, "reorder", p)
  <2>1. h = g
    BY <1>3 DEF endColumnReorder
  <2> QED
    BY <1>1, <1>3, <2>1, EndingLeaves
<1> QED
  BY <1>2, <1>3

LEMMA EndTree ==
  ASSUME NEW g, NEW down, gesturesFit(g, down), NEW p, NEW commit,
         commit /\ g.tree.moved /\ g.tree.target # NoRow =>
           isTreeMoveTargetAllowed(g.tree.rows, g.tree.target, viewModel),
         NEW h, h = endTreeMove(g, p, commit)
  PROVE  gesturesFit(h, down) /\ leftBy(g, h, "tree", p)
<1>1. isSession(g) /\ "tree" \in GestureKinds
  BY DEF gesturesFit, GestureKinds
<1>2. CASE ends(g, "tree", p)
  <2>1. PICK r : r = released(g, "tree")
    OBVIOUS
  <2>2. /\ isSession(r)
        /\ r.owner = [g.owner EXCEPT !["tree"] = NoPointer]
        /\ r.frames = g.frames \ {"tree"}
        /\ r.stroke = "none"
        /\ r.opened = g.opened /\ r.lawful = g.lawful
    BY <1>1, <2>1, ReleasedIs
  <2>3. PICK b : b = (commit /\ g.tree.moved /\ g.tree.target # NoRow =>
                        isTreeMoveTargetAllowed(g.tree.rows, g.tree.target, viewModel))
    OBVIOUS
  <2>4. h = [r EXCEPT !.tree = [rows |-> {}, moved |-> FALSE, target |-> NoRow], !.lawful = @ /\ b]
    BY <1>2, <2>1, <2>3 DEF endTreeMove, NoGesture
  <2>5. /\ isSession(h) /\ h.owner = r.owner /\ h.frames = r.frames /\ h.stroke = r.stroke
        /\ h.opened = r.opened /\ h.lawful = (r.lawful /\ b)
    <3>1. /\ h.owner = r.owner /\ h.frames = r.frames /\ h.stroke = r.stroke
          /\ h.opened = r.opened /\ h.lawful = (r.lawful /\ b)
          /\ h.fill = r.fill /\ h.reorder = r.reorder /\ h.tree = [rows |-> {}, moved |-> FALSE, target |-> NoRow]
          /\ h = [owner |-> h.owner, reorder |-> h.reorder, tree |-> h.tree, fill |-> h.fill,
               dragged |-> h.dragged, frames |-> h.frames, opened |-> h.opened,
               stroke |-> h.stroke, lawful |-> h.lawful]
      BY <2>2, <2>4 DEF isSession
    <3>2. h.tree = [rows |-> h.tree.rows, moved |-> h.tree.moved, target |-> h.tree.target]
      BY <3>1
    <3> QED
      BY <2>2, <3>1, <3>2 DEF isSession
  <2>6. h.lawful /\ g.owner["tree"] # NoPointer
    <3>1. g.lawful /\ g.owner["tree"] # NoPointer
      BY <1>2 DEF gesturesFit, ends
    <3>2. b
      BY <2>3
    <3> QED
      BY <2>2, <2>5, <3>1, <3>2
  <2>7. gesturesFit(h, down)
    <3>1. isSession(h) /\ h.frames = g.frames \ {"tree"} /\ h.stroke = "none" /\ h.opened = g.opened
          /\ h.owner = [g.owner EXCEPT !["tree"] = NoPointer]
      BY <2>2, <2>5
    <3> QED
      BY <1>1, <2>6, <3>1, EndingFits
  <2> QED
    BY <1>1, <1>2, <2>2, <2>5, <2>7, EndingLeaves
<1>3. CASE ~ends(g, "tree", p)
  <2>1. h = g
    BY <1>3 DEF endTreeMove
  <2> QED
    BY <1>1, <1>3, <2>1, EndingLeaves
<1> QED
  BY <1>2, <1>3

-----------------------------------------------------------------------------
(* Beginning a gesture.                                                    *)

LEMMA StrokeForgotten ==
  ASSUME NEW g, NEW down, gesturesFit(g, down), NEW stroke,
         stroke = "dragging" => dragging(g), stroke = "focused" => ~dragging(g),
         NEW h, h = [g EXCEPT !.stroke = stroke]
  PROVE  gesturesFit(h, down) /\ h.owner = g.owner
<1>1. /\ h.owner = g.owner /\ h.reorder = g.reorder /\ h.tree = g.tree /\ h.fill = g.fill
      /\ h.frames = g.frames /\ h.opened = g.opened /\ h.lawful = g.lawful /\ h.stroke = stroke
      /\ h = [owner |-> h.owner, reorder |-> h.reorder, tree |-> h.tree, fill |-> h.fill,
              dragged |-> h.dragged, frames |-> h.frames, opened |-> h.opened,
              stroke |-> h.stroke, lawful |-> h.lawful]
  BY DEF gesturesFit, isSession
<1>2. isSession(h)
  BY <1>1 DEF gesturesFit, isSession
<1>3. dragging(h) = dragging(g)
  BY <1>1 DEF dragging
<1> QED
  BY <1>1, <1>2, <1>3 DEF gesturesFit

LEMMA OwnedIs ==
  ASSUME NEW g, isSession(g), NEW k \in GestureKinds, NEW p \in Pointers, NEW h, h = owned(g, k, p)
  PROVE  /\ isSession(h)
         /\ h.owner = [g.owner EXCEPT ![k] = p]
         /\ h.frames = g.frames /\ h.stroke = g.stroke
         /\ h.opened = g.opened /\ h.lawful = g.lawful
         /\ h.reorder = g.reorder /\ h.tree = g.tree /\ h.fill = g.fill
<1>1. /\ h.owner = [g.owner EXCEPT ![k] = p]
      /\ h.frames = g.frames /\ h.stroke = g.stroke
      /\ h.opened = g.opened /\ h.lawful = g.lawful
      /\ h.reorder = g.reorder /\ h.tree = g.tree /\ h.fill = g.fill
  BY DEF isSession, owned
<1>2. h.owner \in [GestureKinds -> Pointers \cup {NoPointer}] /\ h.frames \subseteq GestureKinds
  BY <1>1 DEF isSession
<1>3. h = [owner |-> h.owner, reorder |-> h.reorder, tree |-> h.tree, fill |-> h.fill,
            dragged |-> h.dragged, frames |-> h.frames, opened |-> h.opened,
            stroke |-> h.stroke, lawful |-> h.lawful]
  BY DEF isSession, owned
<1> QED
  BY <1>1, <1>2, <1>3 DEF isSession

\* A pointer that goes down owns nothing yet.
LEMMA BeginningFits ==
  ASSUME NEW g, NEW down, gesturesFit(g, down), NEW p \in Pointers, p \notin down,
         NEW k \in GestureKinds, k = "resize" => g.owner[k] = NoPointer,
         NEW h, isSession(h), h.owner = [g.owner EXCEPT ![k] = p], h.frames = g.frames, h.lawful,
         h.stroke = "none" \/ (h.stroke = g.stroke /\ k \notin {"select", "fill"}),
         h.opened = IF k = "resize" THEN g.opened + 1 ELSE g.opened
  PROVE  gesturesFit(h, down \cup {p})
<1>1. /\ h.owner[k] = p
      /\ \A l \in GestureKinds : l # k => h.owner[l] = g.owner[l]
  BY DEF gesturesFit, isSession
<1>2. p # NoPointer
  BY GestureAssumption
<1>3. h.opened = (IF h.owner["resize"] # NoPointer THEN 1 ELSE 0)
  <2>1. CASE k = "resize"
    BY <1>1, <1>2, <2>1 DEF gesturesFit
  <2>2. CASE k # "resize"
    <3>1. h.owner["resize"] = g.owner["resize"] /\ h.opened = g.opened
      BY <1>1, <2>2 DEF GestureKinds
    <3> QED
      BY <3>1 DEF gesturesFit
  <2> QED
    BY <2>1, <2>2
<1>4. \A l \in GestureKinds : h.owner[l] \in down \cup {p} \cup {NoPointer}
  BY <1>1 DEF gesturesFit
<1>5. ASSUME NEW l \in GestureKinds, NEW m \in GestureKinds, h.owner[l] = h.owner[m]
      PROVE  l = m \/ h.owner[l] = NoPointer
  <2>1. \A n \in GestureKinds : g.owner[n] # p
    BY <1>2 DEF gesturesFit
  <2> QED
    BY <1>1, <1>5, <2>1 DEF gesturesFit
<1>6. \A l \in h.frames : h.owner[l] # NoPointer
  BY <1>1, <1>2 DEF gesturesFit, isSession
<1>7. /\ h.stroke = "dragging" => dragging(h)
      /\ h.stroke = "focused" => ~dragging(h)
  <2>1. CASE h.stroke = "none"
    BY <2>1
  <2>2. CASE h.stroke = g.stroke /\ k \notin {"select", "fill"}
    <3>1. h.owner["select"] = g.owner["select"] /\ h.owner["fill"] = g.owner["fill"]
      BY <1>1, <2>2 DEF GestureKinds
    <3> QED
      BY <2>2, <3>1 DEF gesturesFit, dragging
  <2> QED
    BY <2>1, <2>2
<1> QED
  BY <1>3, <1>4, <1>5, <1>6, <1>7 DEF gesturesFit

LEMMA BeginResize ==
  ASSUME NEW g, NEW down, gesturesFit(g, down), NEW p \in Pointers, p \notin down,
         NEW h, h = beginColumnResize(g, p)
  PROVE  gesturesFit(h, down \cup {p})
<1>1. PICK a, b, c, d : /\ a = endSelectionDrag(g, AnyPointer) /\ b = endFillHandleDrag(a, AnyPointer)
                        /\ c = endColumnResize(b, AnyPointer) /\ d = [c EXCEPT !.stroke = "none"]
  OBVIOUS
<1>2. gesturesFit(a, down)
  BY <1>1, EndSelection
<1>3. gesturesFit(b, down)
  BY <1>1, <1>2, EndFill
<1>4. gesturesFit(c, down) /\ c.owner["resize"] = NoPointer
  <2>1. gesturesFit(c, down) /\ leftBy(b, c, "resize", AnyPointer)
    BY <1>1, <1>3, EndResize
  <2> QED
    BY <2>1 DEF leftBy
<1>5. gesturesFit(d, down) /\ d.owner = c.owner
  <2>1. PICK n : n = "none"
    OBVIOUS
  <2>2. (n = "dragging" => dragging(c)) /\ (n = "focused" => ~dragging(c)) /\ d = [c EXCEPT !.stroke = n]
    BY <1>1, <2>1
  <2> QED
    BY <1>4, <2>2, StrokeForgotten
<1>6. PICK o : o = owned(d, "resize", p)
  OBVIOUS
<1>7. isSession(d) /\ "resize" \in GestureKinds /\ d.stroke = "none" /\ d.lawful
  BY <1>1, <1>4, <1>5 DEF gesturesFit, GestureKinds, isSession
<1>8. /\ isSession(o)
      /\ o.owner = [d.owner EXCEPT !["resize"] = p]
      /\ o.frames = d.frames /\ o.stroke = d.stroke
      /\ o.opened = d.opened /\ o.lawful = d.lawful
      /\ o.reorder = d.reorder /\ o.tree = d.tree /\ o.fill = d.fill
  <2>1. isSession(d) /\ "resize" \in GestureKinds
    BY <1>7
  <2>2. o = owned(d, "resize", p)
    BY <1>6
  <2> QED
    BY <2>1, <2>2, OwnedIs
<1>9. h = [o EXCEPT !.opened = @ + 1]
  BY <1>1, <1>6 DEF beginColumnResize
<1>10. /\ isSession(h) /\ h.owner = o.owner /\ h.frames = o.frames /\ h.stroke = o.stroke
       /\ h.opened = o.opened + 1 /\ h.lawful = o.lawful
  BY <1>8, <1>9 DEF isSession
<1>11. h.opened = d.opened + 1 /\ h.lawful /\ h.stroke = "none" /\ h.frames = d.frames
       /\ h.owner = [d.owner EXCEPT !["resize"] = p] /\ d.owner["resize"] = NoPointer
  BY <1>4, <1>5, <1>7, <1>8, <1>10
<1> QED
  BY <1>5, <1>7, <1>10, <1>11, BeginningFits

LEMMA BeginReorder ==
  ASSUME NEW g, NEW down, gesturesFit(g, down), NEW p \in Pointers, p \notin down,
         NEW column, NEW columnIdle, NEW h, h = beginColumnReorder(g, p, column, columnIdle)
  PROVE  gesturesFit(h, down \cup {p})
<1>1. PICK a, b, c, o : /\ a = endColumnReorder(g, AnyPointer, FALSE)
                        /\ b = endSelectionDrag(a, AnyPointer)
                        /\ c = endFillHandleDrag(b, AnyPointer)
                        /\ o = owned(c, "reorder", p)
  OBVIOUS
<1>2. gesturesFit(a, down)
  BY <1>1, EndReorder
<1>3. gesturesFit(b, down)
  BY <1>1, <1>2, EndSelection
<1>4. gesturesFit(c, down)
  BY <1>1, <1>3, EndFill
<1>5. isSession(c) /\ "reorder" \in GestureKinds
  BY <1>4 DEF gesturesFit, GestureKinds
<1>6. /\ isSession(o)
      /\ o.owner = [c.owner EXCEPT !["reorder"] = p]
      /\ o.frames = c.frames /\ o.stroke = c.stroke
      /\ o.opened = c.opened /\ o.lawful = c.lawful
      /\ o.reorder = c.reorder /\ o.tree = c.tree /\ o.fill = c.fill
  <2>1. isSession(c) /\ "reorder" \in GestureKinds
    BY <1>5
  <2>2. o = owned(c, "reorder", p)
    BY <1>1
  <2> QED
    BY <2>1, <2>2, OwnedIs
<1>7. CASE h = a
  <2>1. down \subseteq down \cup {p}
    OBVIOUS
  <2> QED
    BY <1>2, <1>7, <2>1, MorePointersDown
<1>8. CASE h = [o EXCEPT !.reorder = [column |-> column, order |-> <<>>]]
  <2>1. /\ h.owner = o.owner /\ h.frames = o.frames /\ h.stroke = o.stroke
        /\ h.opened = o.opened /\ h.lawful = o.lawful
        /\ h.tree = o.tree /\ h.fill = o.fill /\ h.reorder = [column |-> column, order |-> <<>>]
        /\ h = [owner |-> h.owner, reorder |-> h.reorder, tree |-> h.tree, fill |-> h.fill,
                dragged |-> h.dragged, frames |-> h.frames, opened |-> h.opened,
                stroke |-> h.stroke, lawful |-> h.lawful]
    BY <1>6, <1>8 DEF isSession
  <2>2. h.reorder = [column |-> h.reorder.column, order |-> h.reorder.order]
    BY <2>1
  <2>3. isSession(h)
    BY <1>6, <2>1, <2>2 DEF isSession
  <2>4. h.lawful /\ h.frames = c.frames /\ h.stroke = c.stroke /\ h.opened = c.opened
        /\ h.owner = [c.owner EXCEPT !["reorder"] = p]
    BY <1>4, <1>6, <2>1 DEF gesturesFit
  <2> QED
    BY <1>4, <1>5, <2>3, <2>4, BeginningFits
<1> QED
  BY <1>1, <1>7, <1>8 DEF beginColumnReorder

LEMMA BeginTree ==
  ASSUME NEW g, NEW down, gesturesFit(g, down), NEW p \in Pointers, p \notin down,
         NEW row, NEW rowIdle, NEW h, h = beginTreeMove(g, p, row, rowIdle)
  PROVE  gesturesFit(h, down \cup {p})
<1>1. PICK a, b, c, d, e, o, rows :
        /\ a = endTreeMove(g, AnyPointer, FALSE)
        /\ b = endSelectionDrag(a, AnyPointer)
        /\ c = endFillHandleDrag(b, AnyPointer)
        /\ d = endColumnResize(c, AnyPointer)
        /\ e = endColumnReorder(d, AnyPointer, FALSE)
        /\ o = owned(e, "tree", p)
        /\ rows = treeMoveOccurrenceIds(row)
  OBVIOUS
<1>2. gesturesFit(a, down)
  BY <1>1, EndTree
<1>3. gesturesFit(b, down)
  BY <1>1, <1>2, EndSelection
<1>4. gesturesFit(c, down)
  BY <1>1, <1>3, EndFill
<1>5. gesturesFit(d, down)
  BY <1>1, <1>4, EndResize
<1>6. gesturesFit(e, down)
  BY <1>1, <1>5, EndReorder
<1>7. isSession(e) /\ "tree" \in GestureKinds
  BY <1>6 DEF gesturesFit, GestureKinds
<1>8. /\ isSession(o)
      /\ o.owner = [e.owner EXCEPT !["tree"] = p]
      /\ o.frames = e.frames /\ o.stroke = e.stroke
      /\ o.opened = e.opened /\ o.lawful = e.lawful
      /\ o.reorder = e.reorder /\ o.tree = e.tree /\ o.fill = e.fill
  <2>1. isSession(e) /\ "tree" \in GestureKinds
    BY <1>7
  <2>2. o = owned(e, "tree", p)
    BY <1>1
  <2> QED
    BY <2>1, <2>2, OwnedIs
<1>9. CASE h = a
  <2>1. down \subseteq down \cup {p}
    OBVIOUS
  <2> QED
    BY <1>2, <1>9, <2>1, MorePointersDown
<1>10. CASE h = [o EXCEPT !.stroke = "none",
                          !.tree = [rows |-> rows, moved |-> FALSE, target |-> NoRow]]
  <2>1. /\ h.owner = o.owner /\ h.frames = o.frames /\ h.stroke = "none"
        /\ h.opened = o.opened /\ h.lawful = o.lawful
        /\ h.reorder = o.reorder /\ h.fill = o.fill
        /\ h.tree = [rows |-> rows, moved |-> FALSE, target |-> NoRow]
        /\ h = [owner |-> h.owner, reorder |-> h.reorder, tree |-> h.tree, fill |-> h.fill,
                dragged |-> h.dragged, frames |-> h.frames, opened |-> h.opened,
                stroke |-> h.stroke, lawful |-> h.lawful]
    BY <1>8, <1>10 DEF isSession
  <2>2. h.tree = [rows |-> h.tree.rows, moved |-> h.tree.moved, target |-> h.tree.target]
    BY <2>1
  <2>3. isSession(h)
    BY <1>8, <2>1, <2>2 DEF isSession
  <2>4. h.lawful /\ h.frames = e.frames /\ h.opened = e.opened
        /\ h.owner = [e.owner EXCEPT !["tree"] = p]
    BY <1>6, <1>8, <2>1 DEF gesturesFit
  <2> QED
    BY <1>6, <1>7, <2>1, <2>3, <2>4, BeginningFits
<1>11. [NoGesture.tree EXCEPT !.rows = rows] = [rows |-> rows, moved |-> FALSE, target |-> NoRow]
  <2>1. PICK z : z = NoGesture.tree
    OBVIOUS
  <2>2. z = [rows |-> {}, moved |-> FALSE, target |-> NoRow]
    BY <2>1 DEF NoGesture
  <2>3. PICK w : w = [z EXCEPT !.rows = rows]
    OBVIOUS
  <2>4. w.rows = rows /\ w.moved = FALSE /\ w.target = NoRow
        /\ w = [rows |-> w.rows, moved |-> w.moved, target |-> w.target]
    BY <2>2, <2>3
  <2> QED
    BY <2>1, <2>3, <2>4
<1> QED
  BY <1>1, <1>9, <1>10, <1>11 DEF beginTreeMove

LEMMA BeginFill ==
  ASSUME NEW g, NEW down, gesturesFit(g, down), NEW p \in Pointers, p \notin down,
         NEW h, h = beginFillHandleDrag(g, p)
  PROVE  gesturesFit(h, down \cup {p})
<1>1. PICK a, b, d, o, last :
        /\ a = endSelectionDrag(g, AnyPointer) /\ b = endFillHandleDrag(a, AnyPointer)
        /\ d = [b EXCEPT !.stroke = "none"] /\ o = owned(d, "fill", p) /\ last = viewModel.lastSource
  OBVIOUS
<1>2. gesturesFit(a, down)
  BY <1>1, EndSelection
<1>3. gesturesFit(b, down)
  BY <1>1, <1>2, EndFill
<1>4. gesturesFit(d, down) /\ d.owner = b.owner
  <2>1. PICK n : n = "none"
    OBVIOUS
  <2>2. (n = "dragging" => dragging(b)) /\ (n = "focused" => ~dragging(b)) /\ d = [b EXCEPT !.stroke = n]
    BY <1>1, <2>1
  <2> QED
    BY <1>3, <2>2, StrokeForgotten
<1>5. isSession(d) /\ "fill" \in GestureKinds /\ d.stroke = "none" /\ d.lawful
  BY <1>1, <1>3, <1>4 DEF gesturesFit, GestureKinds, isSession
<1>6. /\ isSession(o)
      /\ o.owner = [d.owner EXCEPT !["fill"] = p]
      /\ o.frames = d.frames /\ o.stroke = d.stroke
      /\ o.opened = d.opened /\ o.lawful = d.lawful
      /\ o.reorder = d.reorder /\ o.tree = d.tree /\ o.fill = d.fill
  <2>1. isSession(d) /\ "fill" \in GestureKinds
    BY <1>5
  <2>2. o = owned(d, "fill", p)
    BY <1>1
  <2> QED
    BY <2>1, <2>2, OwnedIs
<1>7. h = [o EXCEPT !.fill = [last |-> last, changed |-> FALSE]]
  BY <1>1 DEF beginFillHandleDrag
<1>8. /\ h.owner = o.owner /\ h.frames = o.frames /\ h.stroke = o.stroke
      /\ h.opened = o.opened /\ h.lawful = o.lawful
      /\ h.reorder = o.reorder /\ h.tree = o.tree
      /\ h.fill = [last |-> last, changed |-> FALSE]
      /\ h = [owner |-> h.owner, reorder |-> h.reorder, tree |-> h.tree, fill |-> h.fill,
              dragged |-> h.dragged, frames |-> h.frames, opened |-> h.opened,
              stroke |-> h.stroke, lawful |-> h.lawful]
  BY <1>6, <1>7 DEF isSession
<1>9. h.fill = [last |-> h.fill.last, changed |-> h.fill.changed]
  BY <1>8
<1>10. isSession(h)
  BY <1>6, <1>8, <1>9 DEF isSession
<1>11. h.lawful /\ h.stroke = "none" /\ h.frames = d.frames /\ h.opened = d.opened
       /\ h.owner = [d.owner EXCEPT !["fill"] = p]
  BY <1>5, <1>6, <1>8
<1> QED
  BY <1>4, <1>5, <1>10, <1>11, BeginningFits

LEMMA BeginSelection ==
  ASSUME NEW g, NEW down, gesturesFit(g, down), NEW p \in Pointers, p \notin down,
         NEW additive, NEW h, h = beginSelectionDrag(g, p, additive)
  PROVE  gesturesFit(h, down \cup {p})
<1>1. PICK a, d, o : /\ a = endSelectionDrag(g, AnyPointer)
                     /\ d = [a EXCEPT !.stroke = "none"] /\ o = owned(d, "select", p)
  OBVIOUS
<1>2. gesturesFit(a, down)
  BY <1>1, EndSelection
<1>3. gesturesFit(d, down) /\ d.owner = a.owner
  <2>1. PICK n : n = "none"
    OBVIOUS
  <2>2. (n = "dragging" => dragging(a)) /\ (n = "focused" => ~dragging(a)) /\ d = [a EXCEPT !.stroke = n]
    BY <1>1, <2>1
  <2> QED
    BY <1>2, <2>2, StrokeForgotten
<1>4. isSession(d) /\ "select" \in GestureKinds /\ d.stroke = "none" /\ d.lawful
  BY <1>1, <1>2, <1>3 DEF gesturesFit, GestureKinds, isSession
<1>5. /\ isSession(o)
      /\ o.owner = [d.owner EXCEPT !["select"] = p]
      /\ o.frames = d.frames /\ o.stroke = d.stroke
      /\ o.opened = d.opened /\ o.lawful = d.lawful
  <2>1. isSession(d) /\ "select" \in GestureKinds
    BY <1>4
  <2>2. o = owned(d, "select", p)
    BY <1>1
  <2> QED
    BY <2>1, <2>2, OwnedIs
<1>6. CASE h = d
  <2>1. down \subseteq down \cup {p}
    OBVIOUS
  <2> QED
    BY <1>3, <1>6, <2>1, MorePointersDown
<1>7. CASE h = o
  <2>1. h.lawful /\ h.stroke = "none" /\ h.frames = d.frames /\ h.opened = d.opened
        /\ h.owner = [d.owner EXCEPT !["select"] = p] /\ isSession(h)
    BY <1>4, <1>5, <1>7
  <2> QED
    BY <1>3, <1>4, <2>1, BeginningFits
<1> QED
  BY <1>1, <1>6, <1>7 DEF beginSelectionDrag

-----------------------------------------------------------------------------
(* Extending a gesture.                                                    *)

\* What it would ask for if it ended now fits the view model.
readyToEnd(g, kind, v) ==
    /\ kind = "reorder" /\ g.reorder.order # <<>> => isLawfulOrder(g.reorder.order, g.reorder.column, v)
    /\ kind = "tree" /\ g.tree.moved /\ g.tree.target # NoRow =>
         isTreeMoveTargetAllowed(g.tree.rows, g.tree.target, v)

LEMMA ExtendedFits ==
  ASSUME NEW g, NEW down, gesturesFit(g, down), NEW h, isSession(h),
         h.owner = g.owner, h.frames = g.frames, h.opened = g.opened, h.stroke = g.stroke,
         h.lawful = g.lawful
  PROVE  gesturesFit(h, down)
<1>1. dragging(h) = dragging(g)
  BY DEF dragging
<1> QED
  BY <1>1 DEF gesturesFit

LEMMA ExtendReorder ==
  ASSUME NEW g, NEW down, gesturesFit(g, down), viewModel \in Views, NEW hit,
         NEW h, h = extendColumnReorderAt(g, hit)
  PROVE  gesturesFit(h, down) /\ h.owner = g.owner /\ readyToEnd(h, "reorder", viewModel)
<1>1. PICK order : order = (IF hit.column = 0 THEN <<>>
                            ELSE reorderedTo(viewModel, g.reorder.column, hit.column, hit.before))
  OBVIOUS
<1>2. h = [g EXCEPT !.reorder.order = order]
  BY <1>1 DEF extendColumnReorderAt
<1>3. g.reorder = [column |-> g.reorder.column, order |-> g.reorder.order]
  BY DEF gesturesFit, isSession
<1>4. /\ h.owner = g.owner /\ h.frames = g.frames /\ h.opened = g.opened
      /\ h.stroke = g.stroke /\ h.lawful = g.lawful /\ h.tree = g.tree /\ h.fill = g.fill
      /\ h.reorder = [g.reorder EXCEPT !.order = order]
      /\ h = [owner |-> h.owner, reorder |-> h.reorder, tree |-> h.tree, fill |-> h.fill,
              dragged |-> h.dragged, frames |-> h.frames, opened |-> h.opened,
              stroke |-> h.stroke, lawful |-> h.lawful]
  BY <1>2 DEF gesturesFit, isSession
<1>5. /\ h.reorder.order = order /\ h.reorder.column = g.reorder.column
      /\ h.reorder = [column |-> h.reorder.column, order |-> h.reorder.order]
  BY <1>3, <1>4
<1>6. isSession(h)
  BY <1>4, <1>5 DEF gesturesFit, isSession
<1>7. order # <<>> => isLawfulOrder(order, g.reorder.column, viewModel)
  <2>1. SUFFICES ASSUME order # <<>> PROVE isLawfulOrder(order, g.reorder.column, viewModel)
    OBVIOUS
  <2>2. order = reorderedTo(viewModel, g.reorder.column, hit.column, hit.before)
    BY <1>1, <2>1
  <2> QED
    BY <2>1, <2>2, ReorderIsLawful
<1>8. gesturesFit(h, down)
  BY <1>4, <1>6, ExtendedFits
<1> QED
  BY <1>4, <1>5, <1>7, <1>8 DEF readyToEnd

LEMMA ExtendTree ==
  ASSUME NEW g, NEW down, gesturesFit(g, down), NEW far, NEW hit,
         NEW h, h = extendTreeMoveAt(g, far, hit)
  PROVE  gesturesFit(h, down) /\ h.owner = g.owner /\ readyToEnd(h, "tree", viewModel)
<1>1. PICK moved, row, target :
        /\ moved = (g.tree.moved \/ far)
        /\ row = IF hit = 0 THEN NoRow ELSE shownLayout.rows[hit]
        /\ target = IF moved /\ isTreeMoveTargetAllowed(g.tree.rows, row, viewModel) THEN row ELSE NoRow
  OBVIOUS
<1>2. h = [g EXCEPT !.tree.moved = moved, !.tree.target = target]
  BY <1>1 DEF extendTreeMoveAt, setTreeMovePreview
<1>3. g.tree = [rows |-> g.tree.rows, moved |-> g.tree.moved, target |-> g.tree.target]
  BY DEF gesturesFit, isSession
<1>4. /\ h.owner = g.owner /\ h.frames = g.frames /\ h.opened = g.opened
      /\ h.stroke = g.stroke /\ h.lawful = g.lawful /\ h.reorder = g.reorder /\ h.fill = g.fill
      /\ h.tree = [g.tree EXCEPT !.moved = moved, !.target = target]
      /\ h = [owner |-> h.owner, reorder |-> h.reorder, tree |-> h.tree, fill |-> h.fill,
              dragged |-> h.dragged, frames |-> h.frames, opened |-> h.opened,
              stroke |-> h.stroke, lawful |-> h.lawful]
  BY <1>2 DEF gesturesFit, isSession
<1>5. /\ h.tree.rows = g.tree.rows /\ h.tree.target = target
      /\ h.tree = [rows |-> h.tree.rows, moved |-> h.tree.moved, target |-> h.tree.target]
  BY <1>3, <1>4
<1>6. isSession(h)
  BY <1>4, <1>5 DEF gesturesFit, isSession
<1>7. target # NoRow => isTreeMoveTargetAllowed(g.tree.rows, target, viewModel)
  BY <1>1
<1>8. gesturesFit(h, down)
  BY <1>4, <1>6, ExtendedFits
<1> QED
  BY <1>4, <1>5, <1>7, <1>8 DEF readyToEnd

LEMMA ExtendFill ==
  ASSUME NEW g, NEW down, gesturesFit(g, down), NEW hit, NEW h, h = extendFillHandleAt(g, hit)
  PROVE  gesturesFit(h, down) /\ h.owner = g.owner /\ readyToEnd(h, "fill", viewModel)
<1>1. PICK changed : changed = IF hit = 0 THEN g.fill.changed ELSE hit > g.fill.last
  OBVIOUS
<1>2. h = [g EXCEPT !.fill.changed = changed]
  BY <1>1 DEF extendFillHandleAt, gesturesFit, isSession
<1>3. g.fill = [last |-> g.fill.last, changed |-> g.fill.changed]
  BY DEF gesturesFit, isSession
<1>4. /\ h.owner = g.owner /\ h.frames = g.frames /\ h.opened = g.opened
      /\ h.stroke = g.stroke /\ h.lawful = g.lawful /\ h.reorder = g.reorder /\ h.tree = g.tree
      /\ h.fill = [g.fill EXCEPT !.changed = changed]
      /\ h = [owner |-> h.owner, reorder |-> h.reorder, tree |-> h.tree, fill |-> h.fill,
              dragged |-> h.dragged, frames |-> h.frames, opened |-> h.opened,
              stroke |-> h.stroke, lawful |-> h.lawful]
  BY <1>2 DEF gesturesFit, isSession
<1>5. h.fill = [last |-> h.fill.last, changed |-> h.fill.changed]
  BY <1>3, <1>4
<1>6. isSession(h)
  BY <1>4, <1>5 DEF gesturesFit, isSession
<1>7. gesturesFit(h, down)
  BY <1>4, <1>6, ExtendedFits
<1> QED
  BY <1>4, <1>7 DEF readyToEnd

LEMMA ExtendSelection ==
  ASSUME NEW g, NEW down, gesturesFit(g, down), NEW far, NEW h, h = extendSelectionDragAt(g, far)
  PROVE  gesturesFit(h, down) /\ h.owner = g.owner /\ readyToEnd(h, "select", viewModel)
<1>1. /\ h.owner = g.owner /\ h.frames = g.frames /\ h.opened = g.opened
      /\ h.stroke = g.stroke /\ h.lawful = g.lawful /\ h.reorder = g.reorder /\ h.tree = g.tree
      /\ h.fill = g.fill
      /\ h = [owner |-> h.owner, reorder |-> h.reorder, tree |-> h.tree, fill |-> h.fill,
              dragged |-> h.dragged, frames |-> h.frames, opened |-> h.opened,
              stroke |-> h.stroke, lawful |-> h.lawful]
  BY DEF gesturesFit, isSession, extendSelectionDragAt
<1>2. isSession(h)
  BY <1>1 DEF gesturesFit, isSession
<1>3. gesturesFit(h, down)
  BY <1>1, <1>2, ExtendedFits
<1> QED
  BY <1>1, <1>3 DEF readyToEnd

LEMMA ExtensionsFit ==
  ASSUME NEW g, NEW down, gesturesFit(g, down), viewModel \in Views, NEW kind \in GestureKinds,
         NEW h \in extensions(g, kind)
  PROVE  gesturesFit(h, down) /\ h.owner = g.owner /\ readyToEnd(h, kind, viewModel)
<1>1. CASE kind = "resize"
  <2>1. h = g
    BY <1>1 DEF extensions
  <2> QED
    BY <1>1, <2>1 DEF readyToEnd
<1>2. CASE kind = "reorder"
  <2>1. PICK hit \in columnHits : h = extendColumnReorderAt(g, hit)
    BY <1>2 DEF extensions
  <2> QED
    BY <1>2, <2>1, ExtendReorder
<1>3. CASE kind = "tree"
  <2>1. PICK far \in BOOLEAN, hit \in rowHits : h = extendTreeMoveAt(g, far, hit)
    BY <1>3 DEF extensions
  <2> QED
    BY <1>3, <2>1, ExtendTree
<1>4. CASE kind = "fill"
  <2>1. PICK hit \in rowHits : h = extendFillHandleAt(g, hit)
    BY <1>4 DEF extensions
  <2> QED
    BY <1>4, <2>1, ExtendFill
<1>5. CASE kind = "select"
  <2>1. PICK far \in BOOLEAN : h = extendSelectionDragAt(g, far)
    BY <1>5 DEF extensions
  <2> QED
    BY <1>5, <2>1, ExtendSelection
<1> QED
  BY <1>1, <1>2, <1>3, <1>4, <1>5 DEF GestureKinds

LEMMA ScheduledFits ==
  ASSUME NEW g, NEW down, gesturesFit(g, down), NEW kind \in GestureKinds, g.owner[kind] # NoPointer,
         NEW h, h = scheduled(g, kind)
  PROVE  gesturesFit(h, down)
<1>1. CASE h = g
  BY <1>1
<1>2. CASE h = [g EXCEPT !.frames = @ \cup {kind}]
  <2>1. /\ h.owner = g.owner /\ h.frames = g.frames \cup {kind} /\ h.opened = g.opened
        /\ h.stroke = g.stroke /\ h.lawful = g.lawful /\ h.reorder = g.reorder /\ h.tree = g.tree
        /\ h.fill = g.fill
        /\ h = [owner |-> h.owner, reorder |-> h.reorder, tree |-> h.tree, fill |-> h.fill,
                dragged |-> h.dragged, frames |-> h.frames, opened |-> h.opened,
                stroke |-> h.stroke, lawful |-> h.lawful]
    BY <1>2 DEF gesturesFit, isSession
  <2>2. isSession(h)
    BY <2>1 DEF gesturesFit, isSession
  <2>3. dragging(h) = dragging(g)
    BY <2>1 DEF dragging
  <2> QED
    BY <2>1, <2>2, <2>3 DEF gesturesFit
<1> QED
  BY <1>1, <1>2 DEF scheduled

LEMMA FrameRun ==
  ASSUME NEW g, NEW down, gesturesFit(g, down), NEW kind, NEW h, h = [g EXCEPT !.frames = @ \ {kind}]
  PROVE  gesturesFit(h, down) /\ h.owner = g.owner
<1>1. /\ h.owner = g.owner /\ h.frames = g.frames \ {kind} /\ h.opened = g.opened
      /\ h.stroke = g.stroke /\ h.lawful = g.lawful /\ h.reorder = g.reorder /\ h.tree = g.tree
      /\ h.fill = g.fill
      /\ h = [owner |-> h.owner, reorder |-> h.reorder, tree |-> h.tree, fill |-> h.fill,
              dragged |-> h.dragged, frames |-> h.frames, opened |-> h.opened,
              stroke |-> h.stroke, lawful |-> h.lawful]
  BY DEF gesturesFit, isSession
<1>2. isSession(h)
  BY <1>1 DEF gesturesFit, isSession
<1>3. dragging(h) = dragging(g)
  BY <1>1 DEF dragging
<1> QED
  BY <1>1, <1>2, <1>3 DEF gesturesFit

-----------------------------------------------------------------------------
(* Lifting a pointer.                                                      *)

LEMMA FirstOwnedIsOwned ==
  ASSUME NEW g, NEW p \in owners(g)
  PROVE  firstOwned(g, p) \in GestureKinds /\ g.owner[firstOwned(g, p)] = p
<1>1. PICK k \in GestureKinds : g.owner[k] = p
  BY DEF owners
<1>2. CASE g.owner["resize"] = p
  BY <1>2 DEF firstOwned, GestureKinds
<1>3. CASE g.owner["resize"] # p /\ g.owner["reorder"] = p
  BY <1>3 DEF firstOwned, GestureKinds
<1>4. CASE p \notin {g.owner["resize"], g.owner["reorder"]} /\ g.owner["tree"] = p
  BY <1>4 DEF firstOwned, GestureKinds
<1>5. CASE p \notin {g.owner["resize"], g.owner["reorder"], g.owner["tree"]} /\ g.owner["fill"] = p
  BY <1>5 DEF firstOwned, GestureKinds
<1>6. CASE p \notin {g.owner["resize"], g.owner["reorder"], g.owner["tree"], g.owner["fill"]}
  <2>1. g.owner["select"] = p
    BY <1>1, <1>6 DEF GestureKinds
  <2>2. firstOwned(g, p) = "select"
    BY <1>6 DEF firstOwned
  <2> QED
    BY <2>1, <2>2 DEF GestureKinds
<1> QED
  BY <1>2, <1>3, <1>4, <1>5, <1>6

LEMMA CommittedFits ==
  ASSUME NEW g, NEW down, gesturesFit(g, down), NEW kind \in GestureKinds, NEW p,
         readyToEnd(g, kind, viewModel), NEW h, h = committed(g, kind, p)
  PROVE  gesturesFit(h, down) /\ leftBy(g, h, kind, p)
<1>1. CASE kind = "resize"
  <2>1. h = endColumnResize(g, p)
    BY <1>1 DEF committed
  <2> QED
    BY <1>1, <2>1, EndResize
<1>2. CASE kind = "reorder"
  <2>1. h = endColumnReorder(g, p, TRUE)
    BY <1>2 DEF committed
  <2>2. TRUE /\ g.reorder.order # <<>> => isLawfulOrder(g.reorder.order, g.reorder.column, viewModel)
    BY <1>2 DEF readyToEnd
  <2> QED
    BY <1>2, <2>1, <2>2, EndReorder
<1>3. CASE kind = "tree"
  <2>1. h = endTreeMove(g, p, TRUE)
    BY <1>3 DEF committed
  <2>2. TRUE /\ g.tree.moved /\ g.tree.target # NoRow =>
          isTreeMoveTargetAllowed(g.tree.rows, g.tree.target, viewModel)
    BY <1>3 DEF readyToEnd
  <2> QED
    BY <1>3, <2>1, <2>2, EndTree
<1>4. CASE kind = "fill"
  <2>1. h = endFillHandleDrag(g, p)
    BY <1>4 DEF committed
  <2> QED
    BY <1>4, <2>1, EndFill
<1>5. CASE kind = "select"
  <2>1. h = endSelectionDrag(g, p)
    BY <1>5 DEF committed
  <2> QED
    BY <1>5, <2>1, EndSelection
<1> QED
  BY <1>1, <1>2, <1>3, <1>4, <1>5 DEF GestureKinds

\* A pointer that is up owns nothing, for it had one gesture and that ended.
LEMMA LiftedFits ==
  ASSUME NEW g, NEW down, gesturesFit(g, down), viewModel \in Views, NEW p \in owners(g),
         NEW h \in lifted(g, p)
  PROVE  gesturesFit(h, down \ {p})
<1>1. PICK kind : kind = firstOwned(g, p)
  OBVIOUS
<1>2. kind \in GestureKinds /\ g.owner[kind] = p /\ p # NoPointer
  BY <1>1, FirstOwnedIsOwned DEF owners
<1>3. PICK e \in extensions(g, kind) : h = committed(e, kind, p)
  BY <1>1 DEF lifted
<1>4. gesturesFit(e, down) /\ e.owner = g.owner /\ readyToEnd(e, kind, viewModel)
  BY <1>2, <1>3, ExtensionsFit
<1>5. gesturesFit(h, down) /\ leftBy(e, h, kind, p)
  BY <1>2, <1>3, <1>4, CommittedFits
<1>6. \A k \in GestureKinds : h.owner[k] # p
  <2>1. \A k \in GestureKinds : k # kind => g.owner[k] # p
    BY <1>2 DEF gesturesFit
  <2> QED
    BY <1>2, <1>4, <1>5, <2>1 DEF leftBy
<1> QED
  BY <1>5, <1>6, PointerIsUp

LEMMA CancelledFits ==
  ASSUME NEW g, NEW down, gesturesFit(g, down), NEW p, p # NoPointer, NEW h, h = cancelled(g, p)
  PROVE  gesturesFit(h, down) /\ \A k \in GestureKinds : h.owner[k] # p
<1>1. PICK a, b, c, d : /\ a = endColumnResize(g, p)
                        /\ b = endColumnReorder(a, p, FALSE)
                        /\ c = endTreeMove(b, p, FALSE)
                        /\ d = endFillHandleDrag(c, p)
                        /\ h = endSelectionDrag(d, p)
  BY DEF cancelled
<1>2. gesturesFit(a, down) /\ leftBy(g, a, "resize", p)
  BY <1>1, EndResize
<1>3. gesturesFit(b, down) /\ leftBy(a, b, "reorder", p)
  BY <1>1, <1>2, EndReorder
<1>4. gesturesFit(c, down) /\ leftBy(b, c, "tree", p)
  BY <1>1, <1>3, EndTree
<1>5. gesturesFit(d, down) /\ leftBy(c, d, "fill", p)
  BY <1>1, <1>4, EndFill
<1>6. gesturesFit(h, down) /\ leftBy(d, h, "select", p)
  BY <1>1, <1>5, EndSelection
<1> QED
  BY <1>2, <1>3, <1>4, <1>5, <1>6 DEF leftBy, GestureKinds

-----------------------------------------------------------------------------
(* The steps of the grid.                                                  *)

LEMMA AskingFits ==
  ASSUME NEW d, draftFits(d), d.pending = FALSE, NEW e, e = asking(d)
  PROVE  draftFits(e)
<1>1. d.asked = 0
  BY DEF draftFits
<1>2. /\ e.pending = TRUE /\ e.asked = d.asked + 1
      /\ e = [open |-> e.open, pending |-> e.pending, composing |-> e.composing, asked |-> e.asked]
  BY DEF draftFits, asking
<1>3. e.asked = 1
  BY <1>1, <1>2
<1> QED
  BY <1>2, <1>3 DEF draftFits

LEMMA PointerDownKeeps == GestureInv /\ OnPointerDown => GestureInv'
<1> SUFFICES ASSUME GestureInv, OnPointerDown PROVE GestureInv'
  OBVIOUS
<1>1. PICK p \in Pointers \ buttons : \E d \in {draft, onPortalBlur(draft)} :
        /\ draft' = d
        /\ buttons' = buttons \cup {p}
        /\ \/ gestures' = beginColumnResize(gestures, p)
           \/ \E c : gestures' = beginColumnReorder(gestures, p, c, idle)
           \/ \E r : gestures' = beginTreeMove(gestures, p, r, idle)
           \/ gestures' = beginFillHandleDrag(gestures, p)
           \/ \E additive : gestures' = beginSelectionDrag(gestures, p, additive)
           \/ gestures' = gestures
  BY DEF OnPointerDown
<1>2. draftFits(draft) => draftFits(onPortalBlur(draft))
  <2>1. SUFFICES ASSUME draftFits(draft), draft.pending = FALSE
                 PROVE  draftFits(asking(draft))
    BY DEF onPortalBlur, canAsk, draftFits
  <2> QED
    BY <2>1, AskingFits
<1>3. draftFits(draft')
  BY <1>1, <1>2 DEF GestureInv
<1>4. p \in Pointers /\ p \notin buttons /\ gesturesFit(gestures, buttons) /\ buttons' = buttons \cup {p}
  BY <1>1 DEF GestureInv
<1>5. PICK h : h = gestures'
  OBVIOUS
<1>6. gesturesFit(h, buttons \cup {p})
  <2>1. CASE h = beginColumnResize(gestures, p)
    BY <1>4, <2>1, BeginResize
  <2>2. CASE \E c : h = beginColumnReorder(gestures, p, c, idle)
    BY <1>4, <2>2, BeginReorder
  <2>3. CASE \E r : h = beginTreeMove(gestures, p, r, idle)
    BY <1>4, <2>3, BeginTree
  <2>4. CASE h = beginFillHandleDrag(gestures, p)
    BY <1>4, <2>4, BeginFill
  <2>5. CASE \E additive : h = beginSelectionDrag(gestures, p, additive)
    BY <1>4, <2>5, BeginSelection
  <2>6. CASE h = gestures
    <3>1. buttons \subseteq buttons \cup {p}
      OBVIOUS
    <3> QED
      BY <1>4, <2>6, <3>1, MorePointersDown
  <2> QED
    BY <1>1, <1>5, <2>1, <2>2, <2>3, <2>4, <2>5, <2>6
<1>7. viewModel' \in Views /\ shownLayout' \in Views
  BY DEF GestureInv, OnPointerDown
<1> QED
  BY <1>3, <1>4, <1>5, <1>6, <1>7 DEF GestureInv

LEMMA PointerMoveKeeps == GestureInv /\ OnPointerMove => GestureInv'
<1> SUFFICES ASSUME GestureInv, OnPointerMove PROVE GestureInv'
  OBVIOUS
<1>1. PICK p \in owners(gestures) :
        gestures' \in {scheduled(g, firstOwned(gestures, p)) :
                         g \in extensions(gestures, firstOwned(gestures, p))}
  BY DEF OnPointerMove
<1>2. PICK kind : kind = firstOwned(gestures, p)
  OBVIOUS
<1>3. kind \in GestureKinds /\ gestures.owner[kind] = p /\ p # NoPointer
  BY <1>2, FirstOwnedIsOwned DEF owners
<1>4. PICK e \in extensions(gestures, kind) : gestures' = scheduled(e, kind)
  BY <1>1, <1>2
<1>5. gesturesFit(gestures, buttons) /\ viewModel \in Views
  BY DEF GestureInv
<1>6. gesturesFit(e, buttons) /\ e.owner = gestures.owner
  BY <1>3, <1>4, <1>5, ExtensionsFit
<1>7. e.owner[kind] # NoPointer
  BY <1>3, <1>6
<1>8. PICK h : h = gestures'
  OBVIOUS
<1>9. gesturesFit(h, buttons)
  BY <1>3, <1>4, <1>6, <1>7, <1>8, ScheduledFits
<1> QED
  BY <1>8, <1>9 DEF GestureInv, OnPointerMove

LEMMA PointerUpKeeps == GestureInv /\ OnPointerUp => GestureInv'
<1> SUFFICES ASSUME GestureInv, OnPointerUp PROVE GestureInv'
  OBVIOUS
<1>1. PICK p \in buttons : /\ buttons' = buttons \ {p}
                           /\ gestures' \in (IF p \in owners(gestures) THEN lifted(gestures, p)
                                             ELSE {gestures})
  BY DEF OnPointerUp
<1>2. gesturesFit(gestures, buttons) /\ viewModel \in Views /\ p # NoPointer
  BY GestureAssumption DEF GestureInv
<1>3. PICK h : h = gestures'
  OBVIOUS
<1>4. gesturesFit(h, buttons \ {p})
  <2>1. CASE p \in owners(gestures)
    <3>1. h \in lifted(gestures, p)
      BY <1>1, <1>3, <2>1
    <3> QED
      BY <1>2, <2>1, <3>1, LiftedFits
  <2>2. CASE p \notin owners(gestures)
    <3>1. h = gestures
      BY <1>1, <1>3, <2>2
    <3>2. \A k \in GestureKinds : h.owner[k] # p
      BY <1>2, <2>2, <3>1 DEF owners
    <3> QED
      BY <1>2, <3>1, <3>2, PointerIsUp
  <2> QED
    BY <2>1, <2>2
<1> QED
  BY <1>1, <1>3, <1>4 DEF GestureInv, OnPointerUp

LEMMA PointerCancelKeeps == GestureInv /\ OnPointerCancel => GestureInv'
<1> SUFFICES ASSUME GestureInv, OnPointerCancel PROVE GestureInv'
  OBVIOUS
<1>1. PICK p \in buttons : buttons' \in {buttons, buttons \ {p}} /\ gestures' = cancelled(gestures, p)
  BY DEF OnPointerCancel
<1>2. gesturesFit(gestures, buttons) /\ p # NoPointer
  BY GestureAssumption DEF GestureInv
<1>3. PICK h : h = gestures'
  OBVIOUS
<1>4. gesturesFit(h, buttons) /\ gesturesFit(h, buttons \ {p})
  <2>1. gesturesFit(h, buttons) /\ \A k \in GestureKinds : h.owner[k] # p
    BY <1>1, <1>2, <1>3, CancelledFits
  <2> QED
    BY <2>1, PointerIsUp
<1> QED
  BY <1>1, <1>3, <1>4 DEF GestureInv, OnPointerCancel

LEMMA FrameRunKeeps ==
  ASSUME NEW kind \in {"tree", "fill", "select"}
  PROVE  GestureInv /\ FrameRuns(kind) => GestureInv'
<1> SUFFICES ASSUME GestureInv, FrameRuns(kind) PROVE GestureInv'
  OBVIOUS
<1>1. PICK g : g = [gestures EXCEPT !.frames = @ \ {kind}]
  OBVIOUS
<1>2. gestures' = g \/ \E e \in extensions(g, kind) : gestures' = scheduled(e, kind)
  BY <1>1 DEF FrameRuns
<1>3. gesturesFit(gestures, buttons) /\ viewModel \in Views /\ kind \in GestureKinds
      /\ kind \in gestures.frames
  BY DEF GestureInv, FrameRuns, GestureKinds
<1>4. gesturesFit(g, buttons) /\ g.owner = gestures.owner
  BY <1>1, <1>3, FrameRun
<1>5. g.owner[kind] # NoPointer
  BY <1>3, <1>4 DEF gesturesFit
<1>6. PICK h : h = gestures'
  OBVIOUS
<1>7. gesturesFit(h, buttons)
  <2>1. CASE h = g
    BY <1>4, <2>1
  <2>2. ASSUME NEW e \in extensions(g, kind), h = scheduled(e, kind)
        PROVE  gesturesFit(h, buttons)
    <3>1. gesturesFit(e, buttons) /\ e.owner = g.owner
      BY <1>3, <1>4, ExtensionsFit
    <3>2. e.owner[kind] # NoPointer
      BY <1>5, <3>1
    <3> QED
      BY <1>3, <2>2, <3>1, <3>2, ScheduledFits
  <2> QED
    BY <1>2, <1>6, <2>1, <2>2
<1> QED
  BY <1>6, <1>7 DEF GestureInv, FrameRuns

LEMMA KeysKeep == GestureInv /\ (PortalKey \/ GridKey) => GestureInv'
<1> SUFFICES ASSUME GestureInv, PortalKey \/ GridKey PROVE GestureInv'
  OBVIOUS
<1>1. PICK stroke, h : h = gestures' /\ (h = gestures \/ h = [gestures EXCEPT !.stroke = stroke])
                       /\ (stroke = "dragging" => dragging(gestures))
                       /\ (stroke = "focused" => ~dragging(gestures))
  <2>1. CASE PortalKey
    BY <2>1 DEF PortalKey
  <2>2. CASE GridKey
    BY <2>2 DEF GridKey
  <2> QED
    BY <2>1, <2>2
<1>2. gesturesFit(gestures, buttons)
  BY DEF GestureInv
<1>3. gesturesFit(h, buttons)
  BY <1>1, <1>2, StrokeForgotten
<1>4. draftFits(draft')
  <2>1. CASE PortalKey /\ draft' = asking(draft)
    <3>1. draft.pending = FALSE
      BY <2>1 DEF PortalKey, canAsk, GestureInv, draftFits
    <3> QED
      BY <2>1, <3>1, AskingFits DEF GestureInv
  <2>2. CASE draft' = draft
    BY <2>2 DEF GestureInv
  <2> QED
    BY <2>1, <2>2 DEF PortalKey, GridKey
<1>5. UNCHANGED <<viewModel, shownLayout, buttons>>
  BY DEF PortalKey, GridKey
<1> QED
  BY <1>1, <1>3, <1>4, <1>5 DEF GestureInv

LEMMA DraftKeeps ==
  GestureInv /\ (PortalBlur \/ PortalComposition \/ RenderFrame \/ Update) => GestureInv'
<1> SUFFICES ASSUME GestureInv, PortalBlur \/ PortalComposition \/ RenderFrame \/ Update
             PROVE  GestureInv'
  OBVIOUS
<1>1. draftFits(draft')
  <2>1. CASE PortalBlur
    <3>1. CASE draft' = draft
      BY <3>1 DEF GestureInv
    <3>2. CASE draft' = asking(draft) /\ canAsk(draft)
      <4>1. draft.pending = FALSE
        BY <3>2 DEF canAsk, GestureInv, draftFits
      <4> QED
        BY <3>2, <4>1, AskingFits DEF GestureInv
    <3> QED
      BY <2>1, <3>1, <3>2 DEF PortalBlur, onPortalBlur
  <2>2. CASE PortalComposition
    BY <2>2 DEF PortalComposition, GestureInv, draftFits
  <2>3. CASE RenderFrame
    <3>1. draftFits(NoDraft)
      BY DEF draftFits, NoDraft
    <3> QED
      BY <2>3, <3>1 DEF RenderFrame, syncPortal, GestureInv
  <2>4. CASE Update
    BY <2>4 DEF Update, draftFits
  <2> QED
    BY <2>1, <2>2, <2>3, <2>4
<1>2. UNCHANGED <<gestures, buttons>>
  BY DEF PortalBlur, PortalComposition, RenderFrame, Update
<1>3. viewModel' \in Views /\ shownLayout' \in Views
  BY DEF PortalBlur, PortalComposition, RenderFrame, Update, GestureInv
<1> QED
  BY <1>1, <1>2, <1>3 DEF GestureInv

LEMMA DestroyKeeps == GestureInv /\ DestroyRenderer => GestureInv'
<1> SUFFICES ASSUME GestureInv, DestroyRenderer PROVE GestureInv'
  OBVIOUS
<1>1. PICK h, lawful : h = gestures' /\ lawful = gestures.lawful
                       /\ h = [NoGesture EXCEPT !.lawful = lawful]
  BY DEF DestroyRenderer
<1>2. lawful
  BY <1>1 DEF GestureInv, gesturesFit
<1>3. gesturesFit(h, buttons)
  BY <1>1, <1>2, NoGestureFits
<1>4. draftFits(draft')
  BY DEF DestroyRenderer, draftFits, NoDraft
<1> QED
  BY <1>1, <1>3, <1>4 DEF GestureInv, DestroyRenderer

LEMMA GestureInvInitially == GestureInit => GestureInv
<1> SUFFICES ASSUME GestureInit PROVE GestureInv
  OBVIOUS
<1>1. PICK h, lawful : h = gestures /\ lawful = TRUE /\ h = NoGesture
  BY DEF GestureInit
<1>2. gesturesFit(h, buttons)
  BY <1>1, NoGestureFits
<1>3. draftFits(draft)
  BY DEF GestureInit, draftFits, NoDraft
<1> QED
  BY <1>1, <1>2, <1>3 DEF GestureInit, GestureInv

\* The columns that a command of the keyboard names are those of the view.
LEMMA SelectedColumns ==
  ASSUME viewModel \in Views, NEW x \in selectedColumnIds
  PROVE  x \in ToSet(viewModel.columns) /\ (x = viewModel.active \/ x \in ToSet(columnsShown))
<1>1. PICK v, c, A : v = viewModel /\ c = v.columns /\ A = ToSet(c)
  OBVIOUS
<1>2. c \in Seq(A) /\ IsInjective(c) /\ v.active \in A \cup {0}
  BY <1>1, GestureAssumption
<1>3. PICK s : s = shownColumns(c, v)
  OBVIOUS
<1>4. s \in Seq(A) /\ \A y : y \in ToSet(s) <=> y \in ToSet(c) /\ y \notin v.hidden
  BY <1>2, <1>3, ShownColumnsAre
<1>5. s = columnsShown /\ DOMAIN s = 1 .. Len(s) /\ ToSet(s) = {s[i] : i \in 1 .. Len(s)}
  BY <1>1, <1>3, <1>4, ToSetFacts DEF columnsShown
<1>6. v.active # 0 /\ (x = v.active \/ \E i \in DOMAIN s : x = s[i])
  <2>1. CASE v.active = 0
    BY <1>1, <2>1 DEF selectedColumnIds
  <2>2. CASE v.active # 0 /\ (v.axis = "cells" \/ (v.axis = "column" /\ v.range = {}))
    BY <1>1, <2>2 DEF selectedColumnIds
  <2>3. CASE v.active # 0 /\ v.axis # "cells" /\ ~(v.axis = "column" /\ v.range = {})
    BY <1>1, <1>5, <2>3 DEF selectedColumnIds
  <2> QED
    BY <2>1, <2>2, <2>3
<1>7. x \in A
  BY <1>1, <1>2, <1>4, <1>5, <1>6
<1> QED
  BY <1>1, <1>5, <1>6, <1>7

\* More columns are shown than are deleted, so that one of those shown stays.
LEMMA DeletionLeavesOne ==
  ASSUME viewModel \in Views, canDeleteColumns
  PROVE  takesAway(selectedColumnIds)
<1>1. PICK c, A, s, gone : /\ c = viewModel.columns /\ A = ToSet(c)
                          /\ s = columnsShown /\ gone = selectedColumnIds
  OBVIOUS
<1>2. c \in Seq(A) /\ IsInjective(c)
  BY <1>1, GestureAssumption
<1>3. s \in Seq(A) /\ IsInjective(s)
  BY <1>1, <1>2, ShownColumnsAre DEF columnsShown
<1>4. /\ Len(s) \in Nat /\ DOMAIN s = 1 .. Len(s) /\ ToSet(s) = {s[i] : i \in 1 .. Len(s)}
      /\ \A i, j \in 1 .. Len(s) : s[i] = s[j] => i = j
  BY <1>3, ToSetFacts DEF IsInjective
<1>5. gone # {} /\ c[1] \notin gone /\ Len(s) > Cardinality(gone) /\ gone \subseteq A
  <2>1. gone # {} /\ c[1] \notin gone /\ Len(s) > Cardinality(gone)
    BY <1>1 DEF canDeleteColumns
  <2>2. ASSUME NEW x \in gone PROVE x \in A
    <3>1. x \in selectedColumnIds
      BY <1>1
    <3>2. x \in ToSet(viewModel.columns)
      BY <3>1, SelectedColumns
    <3> QED
      BY <1>1, <3>2
  <2> QED
    BY <2>1, <2>2
<1>6. IsFiniteSet(ToSet(s)) /\ Cardinality(ToSet(s)) = Len(s)
  <2>1. IsFiniteSet(1 .. Len(s)) /\ Cardinality(1 .. Len(s)) = Len(s)
    <3>1. PICK n \in Nat : n = Len(s)
      BY <1>4
    <3>2. IsFiniteSet(1 .. n) /\ Cardinality(1 .. n) = n
      BY <3>1, CountedSet
    <3> QED
      BY <3>1, <3>2
  <2>2. PICK h : h = [i \in 1 .. Len(s) |-> s[i]]
    OBVIOUS
  <2>3. h \in Bijection(1 .. Len(s), ToSet(s))
    BY <1>4, <2>2 DEF Bijection, Injection, Surjection, IsInjective
  <2>4. ExistsBijection(1 .. Len(s), ToSet(s))
    BY <2>3 DEF ExistsBijection
  <2> QED
    BY <2>1, <2>4, FS_Bijection
<1>7. IsFiniteSet(gone)
  <2>1. IsFiniteSet(1 .. Len(c)) /\ A = {c[i] : i \in 1 .. Len(c)}
    <3>1. Len(c) \in Nat /\ A = {c[i] : i \in 1 .. Len(c)}
      BY <1>1, <1>2, ToSetFacts
    <3>2. PICK n \in Nat : n = Len(c)
      BY <3>1
    <3>3. IsFiniteSet(1 .. n)
      BY FS_Interval
    <3> QED
      BY <3>1, <3>2, <3>3
  <2>2. PICK h : h = [i \in 1 .. Len(c) |-> c[i]]
    OBVIOUS
  <2>3. h \in Surjection(1 .. Len(c), A)
    BY <2>1, <2>2 DEF Surjection
  <2>4. IsFiniteSet(A)
    BY <2>1, <2>3, FS_Surjection
  <2> QED
    BY <1>5, <2>4, FS_Subset
<1>8. ToSet(s) \ gone # {}
  <2>1. SUFFICES ASSUME ToSet(s) \subseteq gone PROVE FALSE
    OBVIOUS
  <2>2. Cardinality(ToSet(s)) <= Cardinality(gone)
    BY <1>7, <2>1, FS_Subset
  <2>3. Cardinality(gone) \in Nat
    BY <1>7, FS_CardinalityType
  <2>4. Len(s) <= Cardinality(gone) /\ Len(s) > Cardinality(gone)
    BY <1>5, <1>6, <2>2
  <2> QED
    BY <1>4, <2>3, <2>4
<1> QED
  BY <1>1, <1>5, <1>8 DEF takesAway

\* The active column is shown behind another one.
LEMMA ActiveColumnShown ==
  ASSUME viewModel \in Views, activeAt > 0
  PROVE  /\ viewModel.active \in ToSet(viewModel.columns)
         /\ activeAt > 1 => /\ viewModel.active # viewModel.columns[1]
                            /\ ToSet(columnsShown) \ {viewModel.active} # {}
<1>1. PICK v, c, A, s, column : /\ v = viewModel /\ c = v.columns /\ A = ToSet(c)
                                /\ s = columnsShown /\ column = v.active
  OBVIOUS
<1>2. c \in Seq(A) /\ IsInjective(c)
  BY <1>1, GestureAssumption
<1>3. /\ s \in Seq(A) /\ IsInjective(s) /\ s = shownColumns(c, v)
      /\ \A y : y \in ToSet(s) <=> y \in ToSet(c) /\ y \notin v.hidden
  <2>1. s = shownColumns(c, v)
    BY <1>1 DEF columnsShown
  <2> QED
    BY <1>2, <2>1, ShownColumnsAre
<1>4. /\ Len(s) \in Nat /\ DOMAIN s = 1 .. Len(s) /\ ToSet(s) = {s[i] : i \in 1 .. Len(s)}
      /\ \A i, j \in 1 .. Len(s) : s[i] = s[j] => i = j
  BY <1>3, ToSetFacts DEF IsInjective
<1>5. PICK at : at = positionIn(s, column) /\ at = activeAt
  BY <1>1 DEF activeAt
<1>6. at \in 1 .. Len(s) /\ s[at] = column
  <2>1. positionIn(s, column) # 0
    BY <1>5
  <2>2. positionIn(s, column) \in 1 .. Len(s) /\ s[positionIn(s, column)] = column
    BY <1>3, <2>1, PlaceIsOf
  <2> QED
    BY <1>5, <2>2
<1>7. column \in A /\ column \notin v.hidden
  BY <1>1, <1>3, <1>4, <1>6
<1>8. ASSUME at > 1 PROVE column # c[1] /\ ToSet(s) \ {column} # {}
  <2>1. 1 \in 1 .. Len(s) /\ s[1] # column
    BY <1>4, <1>6, <1>8
  <2>2. ToSet(s) \ {column} # {}
    BY <1>4, <2>1
  <2>3. ASSUME column = c[1] PROVE FALSE
    <3>1. s[1] = c[1]
      <4>1. c # <<>>
        <5>1. PICK i \in DOMAIN c : c[i] = column
          BY <1>1, <1>2, <1>7, ToSetFacts
        <5>2. DOMAIN <<>> = {}
          OBVIOUS
        <5> QED
          BY <5>1, <5>2
      <4>2. c[1] \notin v.hidden
        BY <1>7, <2>3
      <4> QED
        BY <1>2, <1>3, <4>1, <4>2, FirstShown
    <3> QED
      BY <2>1, <2>3, <3>1
  <2> QED
    BY <2>2, <2>3
<1> QED
  BY <1>1, <1>5, <1>7, <1>8

LEMMA ColumnCommandKeeps == GestureInv /\ ColumnCommand => GestureInv'
<1> SUFFICES ASSUME GestureInv, ColumnCommand PROVE GestureInv'
  OBVIOUS
<1>1. gesturesFit(gestures, buttons) /\ viewModel \in Views
  BY DEF GestureInv
<1>2. PICK taken \in BOOLEAN : taken /\ Asks(taken)
  <2>1. CASE canResizeActiveColumn /\ Asks(takesReference(viewModel.active))
    <3>1. takesReference(viewModel.active) = TRUE
      BY <1>1, <2>1, ActiveColumnShown DEF canResizeActiveColumn, takesReference
    <3> QED
      BY <2>1, <3>1
  <2>2. CASE \E target \in DOMAIN columnsShown :
               /\ canReorderActiveColumn(target)
               /\ Asks(isLawfulOrder(reorderActiveColumn(target), viewModel.active, viewModel))
    <3>1. PICK target \in DOMAIN columnsShown :
               /\ canReorderActiveColumn(target)
               /\ Asks(isLawfulOrder(reorderActiveColumn(target), viewModel.active, viewModel))
      BY <2>2
    <3>2. isLawfulOrder(reorderActiveColumn(target), viewModel.active, viewModel) = TRUE
      BY <1>1, <3>1, SwapIsLawful DEF isLawfulOrder
    <3> QED
      BY <3>1, <3>2
  <2>3. CASE canHideActiveColumn /\ Asks(takesAway({viewModel.active}))
    <3>1. activeAt > 1
      BY <2>3 DEF canHideActiveColumn
    <3>2. activeAt > 0
      <4>1. activeAt \in Nat
        BY <1>1, ActivePlace
      <4> QED
        BY <3>1, <4>1
    <3>3. takesAway({viewModel.active}) = TRUE
      BY <1>1, <3>1, <3>2, ActiveColumnShown DEF takesAway
    <3> QED
      BY <2>3, <3>3
  <2>4. CASE canShowAllColumns /\ Asks(takesVisible(ToSet(viewModel.columns) \cap viewModel.hidden))
    <3>1. takesVisible(ToSet(viewModel.columns) \cap viewModel.hidden) = TRUE
      BY <2>4 DEF canShowAllColumns, takesVisible
    <3> QED
      BY <2>4, <3>1
  <2>5. CASE canInsertColumns /\ Asks(takesReference(viewModel.active))
    <3>1. takesReference(viewModel.active) = TRUE
      BY <1>1, <2>5, ActiveColumnShown DEF canInsertColumns, takesReference
    <3> QED
      BY <2>5, <3>1
  <2>6. CASE canDeleteColumns /\ Asks(takesAway(selectedColumnIds))
    <3>1. takesAway(selectedColumnIds) = TRUE
      BY <1>1, <2>6, DeletionLeavesOne DEF takesAway
    <3> QED
      BY <2>6, <3>1
  <2>7. CASE canSetActiveColumnFrozen /\ Asks(takesFrozen(viewModel.active))
    <3>1. activeAt > 1
      BY <2>7 DEF canSetActiveColumnFrozen
    <3>2. activeAt > 0
      <4>1. activeAt \in Nat
        BY <1>1, ActivePlace
      <4> QED
        BY <3>1, <4>1
    <3>3. takesFrozen(viewModel.active) = TRUE
      BY <1>1, <3>1, <3>2, ActiveColumnShown DEF takesFrozen, takesReference
    <3> QED
      BY <2>7, <3>3
  <2> QED
    BY <2>1, <2>2, <2>3, <2>4, <2>5, <2>6, <2>7 DEF ColumnCommand
<1>3. PICK h : h = gestures'
  OBVIOUS
<1>4. h = [gestures EXCEPT !.stroke = "none"]
  <2>1. gestures.lawful
    BY <1>1 DEF gesturesFit
  <2>2. h = [gestures EXCEPT !.stroke = "none", !.lawful = @ /\ taken]
    BY <1>2, <1>3 DEF Asks
  <2> QED
    BY <1>1, <1>2, <2>1, <2>2 DEF gesturesFit, isSession
<1>5. gesturesFit(h, buttons)
  BY <1>1, <1>4, StrokeForgotten
<1>6. UNCHANGED <<viewModel, shownLayout, draft, buttons>>
  BY DEF ColumnCommand
<1> QED
  BY <1>3, <1>5, <1>6 DEF GestureInv

LEMMA GestureInvKept == GestureInv /\ [GestureNext]_gestureVars => GestureInv'
<1> SUFFICES ASSUME GestureInv, [GestureNext]_gestureVars PROVE GestureInv'
  OBVIOUS
<1>1. CASE OnPointerDown
  BY <1>1, PointerDownKeeps
<1>2. CASE OnPointerMove
  BY <1>2, PointerMoveKeeps
<1>3. CASE OnPointerUp
  BY <1>3, PointerUpKeeps
<1>4. CASE OnPointerCancel
  BY <1>4, PointerCancelKeeps
<1>5. CASE AutoScrollTreeMove \/ AutoScrollFillHandle \/ AutoScrollSelection
  BY <1>5, FrameRunKeeps DEF AutoScrollTreeMove, AutoScrollFillHandle, AutoScrollSelection
<1>6. CASE PortalKey \/ GridKey
  BY <1>6, KeysKeep
<1>7. CASE PortalBlur \/ PortalComposition \/ RenderFrame \/ Update
  BY <1>7, DraftKeeps
<1>8. CASE DestroyRenderer
  BY <1>8, DestroyKeeps
<1>9. CASE UNCHANGED gestureVars
  BY <1>9 DEF gestureVars, GestureInv
<1>10. CASE ColumnCommand
  BY <1>10, ColumnCommandKeeps
<1> QED
  BY <1>1, <1>2, <1>3, <1>4, <1>5, <1>6, <1>7, <1>8, <1>9, <1>10 DEF GestureNext

LEMMA GestureInvIsSound == GestureInv => GesturesAreSound
  BY DEF GestureInv, gesturesFit, draftFits, GesturesAreSound

(* GesturesAreSound for any pointers and view models: what the grid asks   *)
(* of the editor when gestures begin, move, scroll, end and are cancelled  *)
(* in any order.                                                           *)
THEOREM GesturesEndWell ==
  GestureInit /\ [][GestureNext]_gestureVars => []GesturesAreSound
<1> QED
  BY GestureInvInitially, GestureInvKept, GestureInvIsSound, PTL

-----------------------------------------------------------------------------
(* The rows that are shown.                                                *)

Trees == [Holders -> Seq(TreeRows)]
Projections == [kids : Trees, open : SUBSET TreeRows, matches : Matches \cup {TreeRows}]

LEMMA ThoseFacts ==
  ASSUME NEW A, NEW s \in Seq(A), NEW B
  PROVE  those(s, B) \in Seq(A \cap B)
<1>1. PICK t : t = [i \in DOMAIN s |-> IF s[i] \in B THEN <<s[i]>> ELSE <<>>]
  OBVIOUS
<1>2. PICK C : C = Seq(A \cap B)
  OBVIOUS
<1>3. DOMAIN s = 1 .. Len(s) /\ Len(s) \in Nat /\ \A i \in 1 .. Len(s) : s[i] \in A
  BY ElementOfSeq, LenProperties
<1>4. ASSUME NEW i \in 1 .. Len(s) PROVE t[i] \in C
  <2>1. CASE s[i] \in B
    <3>1. s[i] \in A \cap B
      BY <1>3, <2>1
    <3> QED
      BY <1>1, <1>2, <1>3, <2>1, <3>1
  <2>2. CASE s[i] \notin B
    BY <1>1, <1>2, <1>3, <2>2
  <2> QED
    BY <2>1, <2>2
<1>5. t \in Seq(C)
  BY <1>1, <1>3, <1>4, IsASeq
<1>6. FlattenSeq(t) \in Seq(A \cap B)
  BY <1>2, <1>5, FlattenIsSeq
<1> QED
  BY <1>1, <1>6 DEF those

LEMMA RowCount == Cardinality(TreeRows) \in Nat
  BY TreeAssumption, FS_CardinalityType DEF TreeAssumption

LEMMA UnfoldedIsSeq ==
  ASSUME NEW p, NEW keep, NEW r \in TreeRows, NEW beneath \in Trees
  PROVE  unfolded(p, keep, r, beneath) \in Seq(TreeRows)
<1>1. r \in Holders
  BY DEF Holders
<1>2. beneath[r] \in Seq(TreeRows) /\ <<>> \in Seq(TreeRows) /\ <<r>> \in Seq(TreeRows)
  BY <1>1 DEF Trees
<1> QED
  BY <1>2, ConcatProperties DEF unfolded

\* The walk through the open rows is a sequence of rows, to any depth.
LEMMA WalkIsSeq ==
  ASSUME NEW p, p.kids \in Trees, NEW keep
  PROVE  walk(p, keep) \in Seq(TreeRows)
<1> DEFINE around(t) == [r \in Holders |->
                            FlattenSeq([i \in DOMAIN p.kids[r] |->
                                unfolded(p, keep, p.kids[r][i], t)])]
           none == [r \in Holders |-> <<>>]
           defined(f) == f = [n \in Depths |-> [r \in Holders |->
                            IF n = 0 THEN <<>>
                            ELSE FlattenSeq([i \in DOMAIN p.kids[r] |->
                                    unfolded(p, keep, p.kids[r][i], f[n - 1])])]]
<1>1. PICK f : f = CHOOSE h : defined(h)
  OBVIOUS
<1>2. walk(p, keep) = f[Cardinality(TreeRows)][TreeRoot]
  BY <1>1 DEF walk
<1>3. PICK N \in Nat : N = Cardinality(TreeRows) /\ Depths = 0 .. N
  BY RowCount DEF Depths
<1>4. none \in Trees
  BY DEF Trees
<1>5. ASSUME NEW t \in Trees PROVE around(t) \in Trees
  <2>1. ASSUME NEW r \in Holders
        PROVE  FlattenSeq([i \in DOMAIN p.kids[r] |-> unfolded(p, keep, p.kids[r][i], t)]) \in Seq(TreeRows)
    <3>1. PICK s \in Seq(TreeRows) : s = p.kids[r]
      BY DEF Trees
    <3>2. DOMAIN s = 1 .. Len(s) /\ Len(s) \in Nat /\ \A i \in 1 .. Len(s) : s[i] \in TreeRows
      BY <3>1, ElementOfSeq, LenProperties
    <3>3. PICK u : u = [i \in DOMAIN s |-> unfolded(p, keep, s[i], t)]
      OBVIOUS
    <3>4. PICK A : A = Seq(TreeRows)
      OBVIOUS
    <3>5. \A i \in 1 .. Len(s) : u[i] \in A
      BY <3>2, <3>3, <3>4, UnfoldedIsSeq
    <3>6. u \in Seq(A)
      BY <3>2, <3>3, <3>5, IsASeq
    <3>7. FlattenSeq(u) \in Seq(TreeRows)
      BY <3>4, <3>6, FlattenIsSeq
    <3> QED
      BY <3>1, <3>3, <3>7
  <2> QED
    BY <2>1 DEF Trees
<1>6. PICK next : next = [n \in 1 .. N |-> [t \in Trees |-> around(t)]]
  OBVIOUS
<1>7. next \in nextsOn(Trees, N)
  <2> HIDE DEF around
  <2> QED
    BY <1>5, <1>6 DEF nextsOn
<1>8. PICK base : base = none
  OBVIOUS
<1>9. PICK g : /\ g[0] = base
               /\ \A n \in 1 .. N : g[n - 1] \in Trees /\ g[n] = next[n][g[n - 1]]
  <2>1. base \in Trees
    BY <1>4, <1>8
  <2> QED
    BY <1>3, <1>7, <2>1, RecursionExists
<1>10. PICK h : h = [n \in 0 .. N |-> g[n]]
  OBVIOUS
<1>11. ASSUME NEW n \in 0 .. N
       PROVE  h[n] = [r \in Holders |->
                         IF n = 0 THEN <<>>
                         ELSE FlattenSeq([i \in DOMAIN p.kids[r] |->
                                 unfolded(p, keep, p.kids[r][i], h[n - 1])])]
  <2>1. CASE n = 0
    BY <1>8, <1>9, <1>10, <2>1
  <2>2. CASE n # 0
    <3>1. n \in 1 .. N /\ h[n] = g[n] /\ h[n - 1] = g[n - 1]
      BY <1>3, <1>10, <2>2
    <3>2. PICK t \in Trees : t = g[n - 1]
      BY <1>9, <3>1
    <3>3. next[n][t] = around(t)
      <4> HIDE DEF around
      <4> QED
        BY <1>6, <3>1
    <3>4. g[n] = around(t)
      BY <1>9, <3>1, <3>2, <3>3
    <3> QED
      BY <2>2, <3>1, <3>2, <3>4
  <2> QED
    BY <2>1, <2>2
<1>12. defined(h)
  <2>1. h = [n \in 0 .. N |-> [r \in Holders |->
                         IF n = 0 THEN <<>>
                         ELSE FlattenSeq([i \in DOMAIN p.kids[r] |->
                                 unfolded(p, keep, p.kids[r][i], h[n - 1])])]]
    BY <1>10, <1>11
  <2> QED
    BY <1>3, <2>1
<1>13. defined(f)
  <2> HIDE DEF defined
  <2> QED
    BY <1>1, <1>12
<1>14. \A n \in 0 .. N : f[n] = IF n = 0 THEN none ELSE around(f[n - 1])
  BY <1>3, <1>13
<1> HIDE DEF around, none, defined
<1>15. f[0] \in Trees
  BY <1>3, <1>4, <1>14
<1>16. ASSUME NEW n \in 0 + 1 .. N, f[n - 1] \in Trees PROVE f[n] \in Trees
  BY <1>3, <1>5, <1>14, <1>16
<1>17. f[N] \in Trees
  <2>1. \A n \in 0 .. N : f[n] \in Trees
    BY <1>3, <1>15, <1>16, ValueByValue
  <2> QED
    BY <1>3, <2>1
<1> QED
  BY <1>2, <1>3, <1>17 DEF Trees, Holders

LEMMA VisibleIsSeq == ASSUME NEW p \in Projections PROVE visible(p) \in Seq(TreeRows)
<1>1. p.kids \in Trees
  BY DEF Projections
<1> QED
  BY <1>1, WalkIsSeq DEF visible

\* So is the way up from a row.
LEMMA PathIsSeq ==
  ASSUME NEW kids, NEW r \in TreeRows
  PROVE  ancestors(kids, r) \in Seq(TreeRows)
<1> DEFINE onTop(t) == [s \in Holders |->
                            IF parentIn(kids, s) \notin TreeRows THEN <<>>
                            ELSE Append(t[parentIn(kids, s)], parentIn(kids, s))]
           none == [s \in Holders |-> <<>>]
           defined(f) == f = [n \in Depths |-> [s \in Holders |->
                            IF n = 0 \/ parentIn(kids, s) \notin TreeRows THEN <<>>
                            ELSE Append(f[n - 1][parentIn(kids, s)], parentIn(kids, s))]]
<1>1. PICK f : f = CHOOSE h : defined(h)
  OBVIOUS
<1>2. ancestors(kids, r) = f[Cardinality(TreeRows)][r]
  BY <1>1 DEF ancestors
<1>3. PICK N \in Nat : N = Cardinality(TreeRows) /\ Depths = 0 .. N
  BY RowCount DEF Depths
<1>4. none \in Trees
  BY DEF Trees
<1>5. ASSUME NEW t \in Trees PROVE onTop(t) \in Trees
  <2>1. ASSUME NEW s \in Holders, parentIn(kids, s) \in TreeRows
        PROVE  Append(t[parentIn(kids, s)], parentIn(kids, s)) \in Seq(TreeRows)
    <3>1. PICK above \in TreeRows : above = parentIn(kids, s)
      BY <2>1
    <3>2. t[above] \in Seq(TreeRows)
      BY <3>1 DEF Trees, Holders
    <3>3. Append(t[above], above) \in Seq(TreeRows)
      BY <3>2, AppendProperties
    <3> QED
      BY <3>1, <3>3
  <2>2. <<>> \in Seq(TreeRows)
    OBVIOUS
  <2> QED
    BY <2>1, <2>2 DEF Trees
<1>6. PICK next : next = [n \in 1 .. N |-> [t \in Trees |-> onTop(t)]]
  OBVIOUS
<1>7. next \in nextsOn(Trees, N)
  <2> HIDE DEF onTop
  <2> QED
    BY <1>5, <1>6 DEF nextsOn
<1>8. PICK base : base = none
  OBVIOUS
<1>9. PICK g : /\ g[0] = base
               /\ \A n \in 1 .. N : g[n - 1] \in Trees /\ g[n] = next[n][g[n - 1]]
  <2>1. base \in Trees
    BY <1>4, <1>8
  <2> QED
    BY <1>3, <1>7, <2>1, RecursionExists
<1>10. PICK h : h = [n \in 0 .. N |-> g[n]]
  OBVIOUS
<1>11. ASSUME NEW n \in 0 .. N
       PROVE  h[n] = [s \in Holders |->
                         IF n = 0 \/ parentIn(kids, s) \notin TreeRows THEN <<>>
                         ELSE Append(h[n - 1][parentIn(kids, s)], parentIn(kids, s))]
  <2>1. CASE n = 0
    BY <1>8, <1>9, <1>10, <2>1
  <2>2. CASE n # 0
    <3>1. n \in 1 .. N /\ h[n] = g[n] /\ h[n - 1] = g[n - 1]
      BY <1>3, <1>10, <2>2
    <3>2. PICK t \in Trees : t = g[n - 1]
      BY <1>9, <3>1
    <3>3. next[n][t] = onTop(t)
      <4> HIDE DEF onTop
      <4> QED
        BY <1>6, <3>1
    <3>4. g[n] = onTop(t)
      BY <1>9, <3>1, <3>2, <3>3
    <3> QED
      BY <2>2, <3>1, <3>2, <3>4
  <2> QED
    BY <2>1, <2>2
<1>12. defined(h)
  <2>1. h = [n \in 0 .. N |-> [s \in Holders |->
                         IF n = 0 \/ parentIn(kids, s) \notin TreeRows THEN <<>>
                         ELSE Append(h[n - 1][parentIn(kids, s)], parentIn(kids, s))]]
    BY <1>10, <1>11
  <2> QED
    BY <1>3, <2>1
<1>13. defined(f)
  <2> HIDE DEF defined
  <2> QED
    BY <1>1, <1>12
<1>14. \A n \in 0 .. N : f[n] = IF n = 0 THEN none ELSE onTop(f[n - 1])
  BY <1>3, <1>13
<1> HIDE DEF onTop, none, defined
<1>15. f[0] \in Trees
  BY <1>3, <1>4, <1>14
<1>16. ASSUME NEW n \in 0 + 1 .. N, f[n - 1] \in Trees PROVE f[n] \in Trees
  BY <1>3, <1>5, <1>14, <1>16
<1>17. f[N] \in Trees
  <2>1. \A n \in 0 .. N : f[n] \in Trees
    BY <1>3, <1>15, <1>16, ValueByValue
  <2> QED
    BY <1>3, <2>1
<1> QED
  BY <1>2, <1>3, <1>17 DEF Trees, Holders

-----------------------------------------------------------------------------
(* Selections of cells that are shown.                                     *)

Spans      == [anchor : Cells, focus : Cells]
Modes      == {"cell", "row", "column"}
Selections == [active : Cells \cup {Nowhere}, range : Spans \cup {Nowhere}, ranges : Seq(Spans),
               mode : Modes]

ShownSpans(p) == {range \in Spans : isValidRange(p, range)}

isShown(p, sel) ==
    /\ sel \in Selections
    /\ sel.active = Nowhere <=> visible(p) = <<>>
    /\ sel.active # Nowhere => isValidAddress(p, sel.active)
    /\ sel.range \in ShownSpans(p) \cup {Nowhere}
    /\ sel.ranges \in Seq(ShownSpans(p))

LEMMA SomewhereFacts ==
  /\ \A r, c : cell(r, c) # Nowhere
  /\ \A a, f : span(a, f) # Nowhere
<1>1. ASSUME NEW r, NEW c, cell(r, c) = <<>> PROVE FALSE
  <2>1. DOMAIN cell(r, c) = {"row", "col"}
    BY DEF cell
  <2>2. "row" \notin DOMAIN <<>>
    OBVIOUS
  <2> QED
    BY <1>1, <2>1, <2>2
<1>2. ASSUME NEW a, NEW f, span(a, f) = <<>> PROVE FALSE
  <2>1. DOMAIN span(a, f) = {"anchor", "focus"}
    BY DEF span
  <2>2. "anchor" \notin DOMAIN <<>>
    OBVIOUS
  <2> QED
    BY <1>2, <2>1, <2>2
<1> QED
  BY <1>1, <1>2 DEF Nowhere

\* A place in a sequence, or an element of it.
LEMMA ContainsFacts ==
  ASSUME NEW A, NEW s \in Seq(A)
  PROVE  /\ \A x : Contains(s, x) => x \in A /\ s # <<>>
         /\ \A i \in DOMAIN s : Contains(s, s[i])
<1>1. DOMAIN s = 1 .. Len(s) /\ Len(s) \in Nat /\ \A i \in 1 .. Len(s) : s[i] \in A
  BY ElementOfSeq, LenProperties
<1>2. s # <<>> <=> Len(s) # 0
  BY EmptySeq
<1> QED
  BY <1>1, <1>2 DEF Contains

LEMMA ColumnFacts ==
  /\ Columns \in Seq(ToSet(Columns))
  /\ Contains(Columns, Columns[1]) /\ Contains(Columns, Last(Columns))
<1>1. Columns \in Seq(ToSet(Columns)) /\ Columns # <<>>
  BY TreeAssumption DEF TreeAssumption
<1>2. Len(Columns) \in Nat \ {0} /\ Last(Columns) = Columns[Len(Columns)]
  BY <1>1, LastIsElement
<1> QED
  BY <1>1, <1>2 DEF Contains

\* What is shown is a cell, and so are its row and its column.
LEMMA ValidFacts ==
  ASSUME NEW p \in Projections
  PROVE  /\ \A r, c : isValidAddress(p, cell(r, c)) <=> Contains(visible(p), r) /\ Contains(Columns, c)
         /\ \A r, c : isValidAddress(p, cell(r, c)) => cell(r, c) \in Cells
         /\ \A a \in Cells : a = cell(a.row, a.col)
         /\ \A a : isValidAddress(p, a) => visible(p) # <<>> /\ a # Nowhere
<1>1. \A r : Contains(visible(p), r) => r \in TreeRows /\ visible(p) # <<>>
  BY VisibleIsSeq, ContainsFacts
<1>2. \A c : Contains(Columns, c) => c \in ToSet(Columns)
  BY ColumnFacts, ContainsFacts
<1>3. \A r, c : /\ isValidAddress(p, cell(r, c)) <=> Contains(visible(p), r) /\ Contains(Columns, c)
  BY SomewhereFacts DEF isValidAddress, cell
<1>4. \A r, c : isValidAddress(p, cell(r, c)) => cell(r, c) \in Cells
  BY <1>1, <1>2, <1>3 DEF Cells
<1>5. \A a \in Cells : a = cell(a.row, a.col)
  BY DEF Cells, cell
<1>6. \A a : isValidAddress(p, a) => visible(p) # <<>> /\ a # Nowhere
  BY <1>1 DEF isValidAddress
<1> QED
  BY <1>3, <1>4, <1>5, <1>6

\* Whatever freezeSelection puts together from cells that are shown is shown.
LEMMA FrozenIsShown ==
  ASSUME NEW p \in Projections, NEW a \in Cells, isValidAddress(p, a),
         NEW range \in ShownSpans(p) \cup {Nowhere}, NEW ranges \in Seq(ShownSpans(p)),
         NEW mode \in Modes
  PROVE  isShown(p, freezeSelection(a, range, ranges, mode))
<1>1. PICK kept : kept = IF Len(ranges) < 2 THEN <<>> ELSE ranges
  OBVIOUS
<1>2. kept \in Seq(ShownSpans(p)) /\ kept \in Seq(Spans)
  <2>1. kept \in Seq(ShownSpans(p)) /\ ShownSpans(p) \subseteq Spans
    BY <1>1 DEF ShownSpans
  <2> QED
    BY <2>1
<1>3. PICK sel : sel = freezeSelection(a, range, ranges, mode)
  OBVIOUS
<1>4. sel = [active |-> a, range |-> range, ranges |-> kept, mode |-> mode]
  BY <1>1, <1>3 DEF freezeSelection
<1>5. sel \in Selections
  <2>1. range \in Spans \cup {Nowhere}
    BY DEF ShownSpans
  <2> QED
    BY <1>2, <1>4, <2>1 DEF Selections
<1>6. visible(p) # <<>> /\ a # Nowhere
  BY ValidFacts
<1> QED
  BY <1>2, <1>3, <1>4, <1>5, <1>6 DEF isShown

LEMMA SingleIsShown ==
  ASSUME NEW p \in Projections, NEW a \in Cells, isValidAddress(p, a)
  PROVE  isShown(p, single(a))
<1>1. <<>> \in Seq(ShownSpans(p))
  BY EmptySeq
<1>2. Nowhere \in ShownSpans(p) \cup {Nowhere} /\ "cell" \in Modes
  BY DEF Modes
<1> QED
  BY <1>1, <1>2, FrozenIsShown DEF single

LEMMA FrozenRangesAreShown ==
  ASSUME NEW p \in Projections, NEW a \in Cells, isValidAddress(p, a),
         NEW ranges \in Seq(ShownSpans(p)), ranges # <<>>
  PROVE  isShown(p, freezeRanges(a, ranges))
<1>1. PICK range : range = IF Last(ranges).anchor = Last(ranges).focus THEN Nowhere ELSE Last(ranges)
  OBVIOUS
<1>2. Last(ranges) \in ShownSpans(p)
  BY LastIsElement
<1>3. range \in ShownSpans(p) \cup {Nowhere}
  BY <1>1, <1>2
<1>4. "cell" \in Modes
  BY DEF Modes
<1> QED
  BY <1>1, <1>3, <1>4, FrozenIsShown DEF freezeRanges

LEMMA FirstSelectionIsShown ==
  ASSUME NEW p \in Projections
  PROVE  isShown(p, firstSelection(p))
<1>1. CASE visible(p) = <<>>
  <2>1. PICK sel : sel = single(Nowhere)
    OBVIOUS
  <2>2. sel = [active |-> Nowhere, range |-> Nowhere, ranges |-> <<>>, mode |-> "cell"]
    BY <2>1 DEF single, freezeSelection
  <2>3. sel \in Selections
    BY <2>2 DEF Selections, Modes
  <2>4. isShown(p, sel)
    BY <1>1, <2>2, <2>3, EmptySeq DEF isShown
  <2> QED
    BY <1>1, <2>1, <2>4 DEF firstSelection
<1>2. CASE visible(p) # <<>>
  <2>1. 1 \in DOMAIN visible(p)
    BY <1>2, VisibleIsSeq, EmptySeq
  <2>2. Contains(visible(p), visible(p)[1]) /\ Contains(Columns, Columns[1])
    BY <2>1, VisibleIsSeq, ContainsFacts, ColumnFacts
  <2>3. PICK a : a = cell(visible(p)[1], Columns[1])
    OBVIOUS
  <2>4. a \in Cells /\ isValidAddress(p, a)
    BY <2>2, <2>3, ValidFacts
  <2> QED
    BY <1>2, <2>3, <2>4, SingleIsShown DEF firstSelection
<1> QED
  BY <1>1, <1>2

LEMMA FirstOrFacts ==
  ASSUME NEW places \in SUBSET Nat, NEW i
  PROVE  firstOr(places, i) \in places \/ (places = {} /\ firstOr(places, i) = i)
<1>1. CASE places = {}
  BY <1>1 DEF firstOr
<1>2. CASE places # {}
  <2>1. \E m \in places : \A n \in places : m <= n
    BY <1>2, LeastNatural
  <2> QED
    BY <1>2, <2>1 DEF firstOr
<1> QED
  BY <1>1, <1>2

\* A selection made again for what is shown is shown, whatever it was.
LEMMA SanitizedIsShown ==
  ASSUME NEW p \in Projections, NEW sel \in Selections, NEW fallback \in Cells \cup {Nowhere}
  PROVE  isShown(p, sanitizeSelection(sel, p, fallback))
<1>1. PICK T : T = {range \in ToSet(sel.ranges) : isValidRange(p, range)}
  OBVIOUS
<1>2. PICK ranges : ranges = those(sel.ranges, T)
  OBVIOUS
<1>3. PICK at : at = firstOr({i \in DOMAIN ranges : ranges[i].focus = sel.active}, Len(ranges))
  OBVIOUS
<1>4. ranges \in Seq(ShownSpans(p))
  <2>1. sel.ranges \in Seq(Spans)
    BY DEF Selections
  <2>2. ranges \in Seq(Spans \cap T)
    BY <1>2, <2>1, ThoseFacts
  <2>3. Spans \cap T \subseteq ShownSpans(p)
    BY <1>1 DEF ShownSpans
  <2> QED
    BY <2>2, <2>3
<1>5. PICK out : out = sanitizeSelection(sel, p, fallback)
  OBVIOUS
<1>6. CASE ranges # <<>>
  <2>1. DOMAIN ranges = 1 .. Len(ranges) /\ Len(ranges) \in Nat \ {0}
    BY <1>4, <1>6, EmptySeq, LenProperties
  <2>2. at \in DOMAIN ranges
    <3>1. PICK places : places = {i \in DOMAIN ranges : ranges[i].focus = sel.active}
      OBVIOUS
    <3>2. places \in SUBSET Nat /\ places \subseteq DOMAIN ranges
      BY <2>1, <3>1
    <3>3. at \in places \/ at = Len(ranges)
      BY <1>3, <3>1, <3>2, FirstOrFacts
    <3>4. Len(ranges) \in DOMAIN ranges
      BY <2>1
    <3> QED
      BY <3>2, <3>3, <3>4
  <2>3. PICK chosen \in ShownSpans(p) : chosen = ranges[at]
    BY <1>4, <2>1, <2>2, ElementOfSeq
  <2>4. PICK rest \in Seq(ShownSpans(p)) : rest = RemoveAt(ranges, at)
    BY <1>4, <2>2, RemoveAtSet
  <2>5. PICK again : again = Append(rest, chosen)
    OBVIOUS
  <2>6. again \in Seq(ShownSpans(p)) /\ again # <<>>
    BY <2>3, <2>4, <2>5, AppendProperties
  <2>7. chosen.focus \in Cells /\ isValidAddress(p, chosen.focus)
    BY <2>3 DEF ShownSpans, Spans, isValidRange
  <2>8. out = freezeRanges(chosen.focus, again)
    BY <1>1, <1>2, <1>3, <1>5, <1>6, <2>3, <2>4, <2>5 DEF sanitizeSelection
  <2> QED
    BY <1>5, <2>6, <2>7, <2>8, FrozenRangesAreShown
<1>7. CASE ranges = <<>> /\ sel.ranges = <<>> /\ isValidAddress(p, sel.active)
  <2>1. sel.active \in Cells /\ visible(p) # <<>> /\ sel.active # Nowhere
    BY <1>7, ValidFacts DEF Selections
  <2>2. CASE sel.range # Nowhere /\ isValidRange(p, sel.range) /\ sel.range.focus = sel.active
    <3>1. out = sel
      BY <1>1, <1>2, <1>5, <1>7, <2>2 DEF sanitizeSelection
    <3>2. sel.range \in ShownSpans(p)
      BY <2>2 DEF ShownSpans, Selections
    <3>3. sel.ranges \in Seq(ShownSpans(p))
      BY <1>7, EmptySeq
    <3>4. isShown(p, sel)
      BY <1>7, <2>1, <3>2, <3>3 DEF isShown
    <3> QED
      BY <1>5, <3>1, <3>4
  <2>3. CASE ~(sel.range # Nowhere /\ isValidRange(p, sel.range) /\ sel.range.focus = sel.active)
    <3>1. out = single(sel.active)
      BY <1>1, <1>2, <1>5, <1>7, <2>3 DEF sanitizeSelection
    <3> QED
      BY <1>5, <1>7, <2>1, <3>1, SingleIsShown
  <2> QED
    BY <2>2, <2>3
<1>8. CASE ranges = <<>> /\ ~(sel.ranges = <<>> /\ isValidAddress(p, sel.active))
  <2>1. out = IF isValidAddress(p, fallback) THEN single(fallback) ELSE firstSelection(p)
    BY <1>1, <1>2, <1>5, <1>8 DEF sanitizeSelection
  <2>2. CASE isValidAddress(p, fallback)
    <3>1. fallback \in Cells
      BY <2>2, ValidFacts
    <3> QED
      BY <1>5, <2>1, <2>2, <3>1, SingleIsShown
  <2>3. CASE ~isValidAddress(p, fallback)
    BY <1>5, <2>1, <2>3, FirstSelectionIsShown
  <2> QED
    BY <2>2, <2>3
<1> QED
  BY <1>6, <1>7, <1>8


-----------------------------------------------------------------------------
(* Selecting.                                                              *)

LEMMA ReplacedElement ==
  ASSUME NEW A, NEW s \in Seq(A), NEW i \in DOMAIN s, NEW x \in A
  PROVE  [s EXCEPT ![i] = x] \in Seq(A) /\ [s EXCEPT ![i] = x] # <<>>
<1>1. PICK u : u = [s EXCEPT ![i] = x]
  OBVIOUS
<1>2. DOMAIN s = 1 .. Len(s) /\ Len(s) \in Nat /\ \A j \in 1 .. Len(s) : s[j] \in A
  BY ElementOfSeq, LenProperties
<1>3. u = [j \in 1 .. Len(s) |-> IF j = i THEN x ELSE s[j]]
  BY <1>1, <1>2
<1>4. u \in Seq(A) /\ Len(u) = Len(s)
  BY <1>2, <1>3, IsASeq
<1>5. u # <<>>
  BY <1>2, <1>4, EmptySeq
<1> QED
  BY <1>1, <1>4, <1>5

LEMMA AnchorFacts ==
  ASSUME NEW p \in Projections, NEW sel, isShown(p, sel), sel.active # Nowhere
  PROVE  anchorOf(sel) \in Cells /\ isValidAddress(p, anchorOf(sel))
<1>1. CASE sel.range # Nowhere
  <2>1. sel.range \in ShownSpans(p)
    BY <1>1 DEF isShown
  <2>2. sel.range.anchor \in Cells /\ isValidAddress(p, sel.range.anchor)
    BY <2>1 DEF ShownSpans, Spans, isValidRange
  <2> QED
    BY <1>1, <2>2 DEF anchorOf
<1>2. CASE sel.range = Nowhere
  <2>1. sel.active \in Cells /\ isValidAddress(p, sel.active)
    BY DEF isShown, Selections
  <2> QED
    BY <1>2, <2>1 DEF anchorOf
<1> QED
  BY <1>1, <1>2

LEMMA SpanIsShown ==
  ASSUME NEW p, NEW a \in Cells, NEW f \in Cells, isValidAddress(p, a), isValidAddress(p, f)
  PROVE  span(a, f) \in ShownSpans(p)
BY DEF span, ShownSpans, Spans, isValidRange

LEMMA RangesAreShown ==
  ASSUME NEW p \in Projections, NEW sel, isShown(p, sel)
  PROVE  selectionRanges(sel) \in Seq(ShownSpans(p))
<1>1. CASE sel.ranges # <<>>
  BY <1>1 DEF selectionRanges, isShown
<1>2. CASE sel.ranges = <<>> /\ sel.range # Nowhere
  <2>1. sel.range \in ShownSpans(p)
    BY <1>2 DEF isShown
  <2> QED
    BY <1>2, <2>1 DEF selectionRanges
<1>3. CASE sel.ranges = <<>> /\ sel.range = Nowhere
  <2>1. CASE sel.active = Nowhere
    BY <1>3, <2>1, EmptySeq DEF selectionRanges
  <2>2. CASE sel.active # Nowhere
    <3>1. sel.active \in Cells /\ isValidAddress(p, sel.active)
      BY <2>2 DEF isShown, Selections
    <3>2. PICK x \in ShownSpans(p) : x = span(sel.active, sel.active)
      BY <3>1, SpanIsShown
    <3>3. selectionRanges(sel) = <<x>>
      BY <1>3, <2>2, <3>2 DEF selectionRanges
    <3> QED
      BY <3>3
  <2> QED
    BY <2>1, <2>2
<1> QED
  BY <1>1, <1>2, <1>3

LEMMA ExtendedIsShown ==
  ASSUME NEW p \in Projections, NEW sel, isShown(p, sel), NEW a \in Cells, isValidAddress(p, a),
         sel.ranges # <<>>, sel.active # Nowhere
  PROVE  isShown(p, extendRanges(sel, a))
<1>1. PICK s \in Seq(ShownSpans(p)) : s = sel.ranges
  BY DEF isShown
<1>2. PICK x \in ShownSpans(p) : x = span(anchorOf(sel), a)
  BY AnchorFacts, SpanIsShown
<1>3. DOMAIN s = 1 .. Len(s) /\ Len(s) \in Nat \ {0}
  BY <1>1, EmptySeq, LenProperties
<1>4. PICK places : places = {i \in DOMAIN s : s[i] = sel.range}
  OBVIOUS
<1>5. places \in SUBSET Nat /\ places \subseteq DOMAIN s /\ Len(s) \in DOMAIN s
  BY <1>3, <1>4
<1>6. PICK at : at = firstOr(places, Len(s))
  OBVIOUS
<1>7. at \in DOMAIN s
  BY <1>5, <1>6, FirstOrFacts
<1>8. PICK u : u = [s EXCEPT ![at] = x]
  OBVIOUS
<1>9. u \in Seq(ShownSpans(p)) /\ u # <<>>
  BY <1>2, <1>7, <1>8, ReplacedElement
<1>10. extendRanges(sel, a) = freezeRanges(a, u)
  BY <1>1, <1>2, <1>4, <1>6, <1>8 DEF extendRanges
<1> QED
  BY <1>9, <1>10, FrozenRangesAreShown

LEMMA AddedIsShown ==
  ASSUME NEW p \in Projections, NEW sel, isShown(p, sel), NEW a \in Cells, isValidAddress(p, a),
         NEW extend \in BOOLEAN
  PROVE  isShown(p, addRange(sel, a, extend))
<1>1. PICK s \in Seq(ShownSpans(p)) : s = selectionRanges(sel)
  BY RangesAreShown
<1>2. PICK from : from = IF extend /\ sel.active # Nowhere THEN sel.active ELSE a
  OBVIOUS
<1>3. from \in Cells /\ isValidAddress(p, from)
  BY <1>2 DEF isShown, Selections
<1>4. PICK x \in ShownSpans(p) : x = span(from, a)
  BY <1>3, SpanIsShown
<1>5. PICK others : others = RemoveAt(s, firstOr({i \in DOMAIN s : s[i] = x}, 0))
  OBVIOUS
<1>6. PICK out : out = addRange(sel, a, extend)
  OBVIOUS
<1>7. CASE ~Contains(s, x)
  <2>1. PICK more : more = Append(s, x)
    OBVIOUS
  <2>2. more \in Seq(ShownSpans(p)) /\ more # <<>>
    BY <2>1, AppendProperties
  <2>3. out = freezeRanges(a, more)
    BY <1>1, <1>2, <1>4, <1>6, <1>7, <2>1 DEF addRange
  <2> QED
    BY <1>6, <2>2, <2>3, FrozenRangesAreShown
<1>8. CASE Contains(s, x)
  <2>1. DOMAIN s = 1 .. Len(s) /\ Len(s) \in Nat
    BY LenProperties
  <2>2. PICK places : places = {i \in DOMAIN s : s[i] = x}
    OBVIOUS
  <2>3. places \in SUBSET Nat /\ places # {} /\ places \subseteq DOMAIN s
    BY <1>8, <2>1, <2>2 DEF Contains
  <2>4. PICK at : at = firstOr(places, 0)
    OBVIOUS
  <2>5. at \in DOMAIN s
    BY <2>3, <2>4, FirstOrFacts
  <2>6. others \in Seq(ShownSpans(p))
    BY <1>5, <2>2, <2>4, <2>5, RemoveAtSet
  <2>7. CASE others = <<>>
    <3>1. out = single(a)
      BY <1>1, <1>2, <1>4, <1>5, <1>6, <1>8, <2>7 DEF addRange
    <3> QED
      BY <1>6, <3>1, SingleIsShown
  <2>8. CASE others # <<>>
    <3>1. PICK last \in ShownSpans(p) : last = Last(others)
      BY <2>6, <2>8, LastIsElement
    <3>2. last.focus \in Cells /\ isValidAddress(p, last.focus)
      BY <3>1 DEF ShownSpans, Spans, isValidRange
    <3>3. out = freezeRanges(last.focus, others)
      BY <1>1, <1>2, <1>4, <1>5, <1>6, <1>8, <2>8, <3>1 DEF addRange
    <3> QED
      BY <1>6, <2>6, <2>8, <3>2, <3>3, FrozenRangesAreShown
  <2> QED
    BY <2>7, <2>8
<1> QED
  BY <1>7, <1>8

LEMMA AddressIsShown ==
  ASSUME NEW p \in Projections, NEW sel, isShown(p, sel), NEW a \in Cells, isValidAddress(p, a),
         NEW extend \in BOOLEAN, NEW additive \in BOOLEAN
  PROVE  isShown(p, selectionForAddress(sel, a, extend, additive))
<1>1. PICK out : out = selectionForAddress(sel, a, extend, additive)
  OBVIOUS
<1>2. CASE extend /\ ~additive /\ sel.ranges # <<>> /\ sel.active # Nowhere
  <2>1. out = extendRanges(sel, a)
    BY <1>1, <1>2 DEF selectionForAddress
  <2> QED
    BY <1>1, <1>2, <2>1, ExtendedIsShown
<1>3. CASE additive /\ sel.mode = "cell"
  <2>1. out = addRange(sel, a, extend)
    BY <1>1, <1>3 DEF selectionForAddress
  <2> QED
    BY <1>1, <2>1, AddedIsShown
<1>4. CASE /\ ~(extend /\ ~additive /\ sel.ranges # <<>> /\ sel.active # Nowhere)
           /\ ~(additive /\ sel.mode = "cell")
  <2>1. out = IF extend /\ sel.active # Nowhere /\ anchorOf(sel) # a
              THEN freezeSelection(a, span(anchorOf(sel), a), <<>>, "cell") ELSE single(a)
    BY <1>1, <1>4 DEF selectionForAddress
  <2>2. CASE extend /\ sel.active # Nowhere /\ anchorOf(sel) # a
    <3>1. PICK x \in ShownSpans(p) : x = span(anchorOf(sel), a)
      BY <2>2, AnchorFacts, SpanIsShown
    <3>2. PICK none \in Seq(ShownSpans(p)) : none = <<>>
      BY EmptySeq
    <3>3. "cell" \in Modes /\ x \in ShownSpans(p) \cup {Nowhere}
      BY DEF Modes
    <3>4. isShown(p, freezeSelection(a, x, none, "cell"))
      BY <3>3, FrozenIsShown
    <3> QED
      BY <1>1, <2>1, <2>2, <3>1, <3>2, <3>4
  <2>3. CASE ~(extend /\ sel.active # Nowhere /\ anchorOf(sel) # a)
    BY <1>1, <2>1, <2>3, SingleIsShown
  <2> QED
    BY <2>2, <2>3
<1> QED
  BY <1>2, <1>3, <1>4

LEMMA AxisIsShown ==
  ASSUME NEW p \in Projections, NEW sel, isShown(p, sel), NEW a \in Cells, isValidAddress(p, a),
         NEW extend \in BOOLEAN, NEW mode \in {"row", "column"}
  PROVE  isShown(p, selectionForAxis(sel, a, extend, mode, p))
<1>1. PICK from : from = IF extend /\ sel.mode = mode /\ sel.range # Nowhere THEN sel.range.anchor ELSE a
  OBVIOUS
<1>2. from \in Cells /\ isValidAddress(p, from)
  <2>1. ASSUME sel.range # Nowhere
        PROVE  sel.range.anchor \in Cells /\ isValidAddress(p, sel.range.anchor)
    BY <2>1 DEF isShown, ShownSpans, Spans, isValidRange
  <2> QED
    BY <1>1, <2>1
<1>3. PICK s \in Seq(TreeRows) : s = visible(p) /\ s # <<>>
  BY VisibleIsSeq, ValidFacts
<1>4. Contains(s, s[1]) /\ Contains(s, Last(s))
  <2>1. DOMAIN s = 1 .. Len(s) /\ Len(s) \in Nat \ {0} /\ Last(s) = s[Len(s)]
    BY <1>3, LastIsElement, LenProperties
  <2> QED
    BY <2>1, ContainsFacts
<1>5. /\ Contains(s, from.row) /\ Contains(Columns, from.col)
      /\ Contains(s, a.row) /\ Contains(Columns, a.col)
  BY <1>2, <1>3 DEF isValidAddress
<1>6. PICK anchor : anchor = IF mode = "row" THEN cell(from.row, Columns[1]) ELSE cell(s[1], from.col)
  OBVIOUS
<1>7. PICK focus : focus = IF mode = "row" THEN cell(a.row, Last(Columns)) ELSE cell(Last(s), a.col)
  OBVIOUS
<1>8. isValidAddress(p, anchor) /\ isValidAddress(p, focus) /\ anchor \in Cells /\ focus \in Cells
  <2>1. CASE mode = "row"
    BY <1>3, <1>5, <1>6, <1>7, <2>1, ValidFacts, ColumnFacts
  <2>2. CASE mode # "row"
    BY <1>3, <1>4, <1>5, <1>6, <1>7, <2>2, ValidFacts
  <2> QED
    BY <2>1, <2>2
<1>9. PICK x \in ShownSpans(p) : x = span(anchor, focus)
  BY <1>8, SpanIsShown
<1>10. PICK none \in Seq(ShownSpans(p)) : none = <<>>
  BY EmptySeq
<1>11. mode \in Modes /\ x \in ShownSpans(p) \cup {Nowhere}
  BY DEF Modes
<1>12. isShown(p, freezeSelection(focus, x, none, mode))
  BY <1>8, <1>11, FrozenIsShown
<1> QED
  BY <1>1, <1>3, <1>6, <1>7, <1>9, <1>10, <1>12 DEF selectionForAxis


-----------------------------------------------------------------------------
(* Opening and closing rows.                                               *)

LEMMA InTreeFacts ==
  ASSUME NEW kids \in Trees
  PROVE  inTree(kids) \subseteq TreeRows
<1>1. ASSUME NEW q \in Holders PROVE ToSet(kids[q]) \subseteq TreeRows
  <2>1. kids[q] \in Seq(TreeRows)
    BY DEF Trees
  <2> QED
    BY <2>1, ToSetFacts, ElementOfSeq
<1>2. DOMAIN kids = Holders
  BY DEF Trees
<1> QED
  BY <1>1, <1>2 DEF inTree

LEMMA IncludedFacts ==
  ASSUME NEW p, p.kids \in Trees
  PROVE  included(p) \subseteq TreeRows
BY InTreeFacts DEF included

LEMMA ProjectionIsOne ==
  ASSUME NEW kids \in Trees, NEW open, NEW matches \in Matches \cup {TreeRows}
  PROVE  projection(kids, open, matches) \in Projections
<1>1. PICK p : p = [kids |-> kids, open |-> open, matches |-> matches]
  OBVIOUS
<1>2. p.kids = kids
  BY <1>1
<1>3. PICK shown : shown = open \cap included(p)
  OBVIOUS
<1>4. shown \in SUBSET TreeRows
  BY <1>2, <1>3, IncludedFacts
<1>5. projection(kids, open, matches) = [kids |-> kids, open |-> shown, matches |-> matches]
  <2>1. projection(kids, open, matches) = [p EXCEPT !.open = shown]
    BY <1>1, <1>3 DEF projection
  <2> QED
    BY <1>1, <2>1
<1> QED
  BY <1>4, <1>5 DEF Projections

ShownStates == {s \in [published : Projections, selection : Selections] : isShown(s.published, s.selection)}

LEMMA ToggledIsShown ==
  ASSUME NEW s \in ShownStates, NEW r, NEW expanded \in BOOLEAN
  PROVE  toggleExpansion(s, r, expanded) \in ShownStates
<1>1. PICK p \in Projections : p = s.published
  BY DEF ShownStates
<1>2. PICK sel \in Selections : sel = s.selection
  BY DEF ShownStates
<1>3. CASE r \notin included(p)
  BY <1>1, <1>3 DEF toggleExpansion
<1>4. CASE r \in included(p)
  <2>1. r \in TreeRows /\ p.kids \in Trees
    BY <1>4, IncludedFacts DEF Projections
  <2>2. PICK now : now = [p EXCEPT !.open = IF expanded THEN @ \cup {r} ELSE @ \ {r}]
    OBVIOUS
  <2>3. now \in Projections
    BY <2>1, <2>2 DEF Projections
  <2>4. PICK fallback : fallback = cell(r, Columns[1])
    OBVIOUS
  <2>5. fallback \in Cells
    <3>1. Columns[1] \in ToSet(Columns)
      BY ColumnFacts, ContainsFacts
    <3> QED
      BY <2>1, <2>4, <3>1 DEF Cells
  <2>6. PICK kept : kept = sanitizeSelection(sel, now, fallback)
    OBVIOUS
  <2>7. isShown(now, kept)
    BY <2>3, <2>5, <2>6, SanitizedIsShown
  <2>8. toggleExpansion(s, r, expanded) = [published |-> now, selection |-> kept]
    BY <1>1, <1>2, <1>4, <2>2, <2>4, <2>6 DEF toggleExpansion
  <2>9. kept \in Selections
    BY <2>7 DEF isShown
  <2> QED
    BY <2>3, <2>7, <2>8, <2>9 DEF ShownStates
<1> QED
  BY <1>3, <1>4

LEMMA ExpandedAlongIsShown ==
  ASSUME NEW s \in ShownStates, NEW path \in Seq(TreeRows)
  PROVE  expandedAlong(s, path) \in ShownStates
<1> DEFINE defined(f) == f = [n \in 0 .. Len(path) |->
                            IF n = 0 THEN s ELSE toggleExpansion(f[n - 1], path[n], TRUE)]
<1>1. PICK f : f = CHOOSE h : defined(h)
  OBVIOUS
<1>2. expandedAlong(s, path) = f[Len(path)]
  BY <1>1 DEF expandedAlong
<1>3. PICK N \in Nat : N = Len(path)
  BY LenProperties
<1>4. PICK next : next = [n \in 1 .. N |-> [t \in ShownStates |-> toggleExpansion(t, path[n], TRUE)]]
  OBVIOUS
<1>5. \A n \in 1 .. N : \A t \in ShownStates : toggleExpansion(t, path[n], TRUE) \in ShownStates
  BY ToggledIsShown
<1>6. next \in nextsOn(ShownStates, N)
  BY <1>4, <1>5 DEF nextsOn
<1>7. PICK g : /\ g[0] = s
               /\ \A n \in 1 .. N : g[n - 1] \in ShownStates /\ g[n] = next[n][g[n - 1]]
  BY <1>3, <1>6, RecursionExists
<1>8. PICK h : h = [n \in 0 .. N |-> g[n]]
  OBVIOUS
<1>9. ASSUME NEW n \in 0 .. N
      PROVE  h[n] = IF n = 0 THEN s ELSE toggleExpansion(h[n - 1], path[n], TRUE)
  <2>1. CASE n = 0
    BY <1>7, <1>8, <2>1
  <2>2. CASE n # 0
    <3>1. n \in 1 .. N /\ h[n] = g[n] /\ h[n - 1] = g[n - 1]
      BY <1>3, <1>8, <2>2
    <3>2. PICK t \in ShownStates : t = g[n - 1]
      BY <1>7, <3>1
    <3>3. g[n] = toggleExpansion(t, path[n], TRUE)
      BY <1>4, <1>7, <3>1, <3>2
    <3> QED
      BY <2>2, <3>1, <3>2, <3>3
  <2> QED
    BY <2>1, <2>2
<1>10. defined(h)
  <2>1. h = [n \in 0 .. N |-> IF n = 0 THEN s ELSE toggleExpansion(h[n - 1], path[n], TRUE)]
    BY <1>8, <1>9
  <2> QED
    BY <1>3, <2>1
<1>11. defined(f)
  <2> HIDE DEF defined
  <2> QED
    BY <1>1, <1>10
<1>12. \A n \in 0 .. N : f[n] = IF n = 0 THEN s ELSE toggleExpansion(f[n - 1], path[n], TRUE)
  BY <1>3, <1>11
<1>13. f[0] \in ShownStates
  <2>1. 0 \in 0 .. N
    BY <1>3
  <2>2. f[0] = s
    BY <1>12, <2>1
  <2> QED
    BY <2>2
<1>14. ASSUME NEW n \in 0 + 1 .. N, f[n - 1] \in ShownStates PROVE f[n] \in ShownStates
  <2>1. n \in 0 .. N /\ n # 0
    BY <1>3
  <2> QED
    BY <1>12, <1>14, <2>1, ToggledIsShown
<1>15. \A n \in 0 .. N : f[n] \in ShownStates
  BY <1>3, <1>13, <1>14, ValueByValue
<1> QED
  BY <1>2, <1>3, <1>15

-----------------------------------------------------------------------------
(* The tree after a command.                                               *)

LEMMA DetachedIsATree ==
  ASSUME NEW kids \in Trees, NEW rows
  PROVE  detach(kids, rows) \in Trees
<1>1. ASSUME NEW q \in Holders PROVE those(kids[q], TreeRows \ rows) \in Seq(TreeRows)
  <2>1. kids[q] \in Seq(TreeRows)
    BY DEF Trees
  <2>2. those(kids[q], TreeRows \ rows) \in Seq(TreeRows \cap (TreeRows \ rows))
    BY <2>1, ThoseFacts
  <2>3. TreeRows \cap (TreeRows \ rows) \subseteq TreeRows
    OBVIOUS
  <2> QED
    BY <2>2, <2>3
<1>2. DOMAIN kids = Holders
  BY DEF Trees
<1> QED
  BY <1>1, <1>2 DEF detach, Trees

LEMMA DroppedIsATree ==
  ASSUME NEW kids \in Trees, NEW rows
  PROVE  dropSubtrees(kids, rows) \in Trees
<1>1. PICK dropped : dropped = rows \cup UNION {below(kids, r) : r \in rows}
  OBVIOUS
<1>2. PICK t \in Trees : t = detach(kids, dropped)
  BY DetachedIsATree
<1>3. DOMAIN kids = Holders
  BY DEF Trees
<1>4. dropSubtrees(kids, rows) = [q \in Holders |-> IF q \in dropped THEN <<>> ELSE t[q]]
  BY <1>1, <1>2, <1>3 DEF dropSubtrees, detach
<1>5. \A q \in Holders : t[q] \in Seq(TreeRows)
  BY <1>2 DEF Trees
<1> QED
  BY <1>4, <1>5 DEF Trees

LEMMA AttachedIsATree ==
  ASSUME NEW kids \in Trees, NEW c, c.parent \in Holders, c.rows \in Seq(TreeRows)
  PROVE  attach(kids, c) \in Trees
<1>1. PICK rows \in Seq(TreeRows) : rows = c.rows
  OBVIOUS
<1>2. PICK s \in Seq(TreeRows) : s = kids[c.parent]
  BY DEF Trees
<1>3. PICK t : t = [i \in DOMAIN s |->
                      CASE s[i] # c.at -> <<s[i]>>
                        [] s[i] = c.at /\ c.before -> Append(rows, s[i])
                        [] OTHER -> <<s[i]>> \o rows]
  OBVIOUS
<1>4. PICK A : A = Seq(TreeRows)
  OBVIOUS
<1>5. DOMAIN s = 1 .. Len(s) /\ Len(s) \in Nat /\ \A i \in 1 .. Len(s) : s[i] \in TreeRows
  BY ElementOfSeq, LenProperties
<1>6. ASSUME NEW i \in 1 .. Len(s) PROVE t[i] \in A
  <2>1. PICK x \in TreeRows : x = s[i]
    BY <1>5
  <2>2. <<x>> \in A /\ Append(rows, x) \in A /\ <<x>> \o rows \in A
    BY <1>4, AppendProperties, ConcatProperties
  <2>3. t[i] = <<x>> \/ t[i] = Append(rows, x) \/ t[i] = <<x>> \o rows
    BY <1>3, <1>5, <2>1
  <2> QED
    BY <2>2, <2>3
<1>7. t \in Seq(A)
  BY <1>3, <1>5, <1>6, IsASeq
<1>8. PICK now : now = IF c.at = TreeRoot THEN s \o rows ELSE FlattenSeq(t)
  OBVIOUS
<1>9. now \in Seq(TreeRows)
  BY <1>4, <1>7, <1>8, FlattenIsSeq, ConcatProperties
<1>10. attach(kids, c) = [kids EXCEPT ![c.parent] = now]
  BY <1>1, <1>2, <1>3, <1>8 DEF attach, Trees
<1> QED
  BY <1>9, <1>10 DEF Trees

LEMMA AppliedIsATree ==
  ASSUME NEW kids \in Trees, NEW c, c.op \in {"insert", "move"} => c.rows \in Seq(TreeRows)
  PROVE  applied(kids, c) \in Trees \/ applied(kids, c) = <<>>
<1>1. placeable(kids, c) => c.parent \in Holders
  BY InTreeFacts DEF placeable, Holders
<1>2. CASE c.op = "insert" /\ placeable(kids, c) /\ NewRow \notin inTree(kids)
  <2>1. applied(kids, c) = attach(kids, c)
    BY <1>2 DEF applied
  <2> QED
    BY <1>1, <1>2, <2>1, AttachedIsATree
<1>3. CASE /\ c.op = "move" /\ placeable(kids, c) /\ ToSet(c.rows) \subseteq inTree(kids)
           /\ \A r \in ToSet(c.rows) : c.parent # r /\ c.parent \notin below(kids, r)
  <2>1. applied(kids, c) = attach(detach(kids, ToSet(c.rows)), c)
    BY <1>3 DEF applied
  <2>2. PICK t \in Trees : t = detach(kids, ToSet(c.rows))
    BY DetachedIsATree
  <2> QED
    BY <1>1, <1>3, <2>1, <2>2, AttachedIsATree
<1>4. CASE /\ c.op = "delete" /\ ToSet(c.rows) \subseteq inTree(kids)
           /\ \A r \in ToSet(c.rows) : below(kids, r) \cap ToSet(c.rows) = {}
  <2>1. applied(kids, c) = dropSubtrees(kids, ToSet(c.rows))
    BY <1>4 DEF applied
  <2> QED
    BY <2>1, DroppedIsATree
<1>5. CASE /\ ~(c.op = "insert" /\ placeable(kids, c) /\ NewRow \notin inTree(kids))
           /\ ~(/\ c.op = "move" /\ placeable(kids, c) /\ ToSet(c.rows) \subseteq inTree(kids)
                /\ \A r \in ToSet(c.rows) : c.parent # r /\ c.parent \notin below(kids, r))
           /\ ~(/\ c.op = "delete" /\ ToSet(c.rows) \subseteq inTree(kids)
                /\ \A r \in ToSet(c.rows) : below(kids, r) \cap ToSet(c.rows) = {})
  BY <1>5 DEF applied
<1> QED
  BY <1>2, <1>3, <1>4, <1>5


-----------------------------------------------------------------------------
(* The tree view: what is published, what is prepared, what waits.         *)

ordersFit(orders) ==
    /\ orders \in Seq(ToSet(orders))
    /\ \A c \in ToSet(orders) : c.op \in {"insert", "move"} => c.rows \in Seq(TreeRows)

TreeInv ==
    /\ published \in Projections
    /\ viewQuery \in Matches \cup {TreeRows}
    /\ isShown(published, selection)
    /\ ordersFit(commands)
    /\ prepared # <<>> => prepared \in Projections /\ commands # <<>>

LEMMA OrderAppended ==
  ASSUME NEW orders, ordersFit(orders), NEW c,
         c.op \in {"insert", "move"} => c.rows \in Seq(TreeRows)
  PROVE  ordersFit(Append(orders, c)) /\ Append(orders, c) # <<>>
<1>1. PICK A : A = ToSet(orders) \cup {c}
  OBVIOUS
<1>2. orders \in Seq(A) /\ c \in A
  <2>1. orders \in Seq(ToSet(orders)) /\ ToSet(orders) \subseteq A
    BY <1>1 DEF ordersFit
  <2> QED
    BY <1>1, <2>1
<1>3. PICK more : more = Append(orders, c)
  OBVIOUS
<1>4. more \in Seq(A) /\ ToSet(more) = A /\ more # <<>>
  BY <1>1, <1>2, <1>3, AppendSet, AppendProperties
<1> QED
  BY <1>1, <1>3, <1>4 DEF ordersFit

LEMMA OrderTaken ==
  ASSUME NEW orders, ordersFit(orders), orders # <<>>
  PROVE  /\ ordersFit(Tail(orders))
         /\ Head(orders).op \in {"insert", "move"} => Head(orders).rows \in Seq(TreeRows)
<1>1. orders \in Seq(ToSet(orders))
  BY DEF ordersFit
<1>2. PICK rest : rest = Tail(orders)
  OBVIOUS
<1>3. rest \in Seq(ToSet(orders)) /\ ToSet(rest) \subseteq ToSet(orders)
  BY <1>1, <1>2, TailSet
<1>4. rest \in Seq(ToSet(rest))
  <2>1. DOMAIN rest = 1 .. Len(rest) /\ Len(rest) \in Nat /\ \A i \in 1 .. Len(rest) : rest[i] \in ToSet(rest)
    BY <1>3, ToSetFacts, LenProperties
  <2>2. rest = [i \in 1 .. Len(rest) |-> rest[i]]
    BY <1>3, <2>1
  <2> QED
    BY <2>1, <2>2, IsASeq
<1>5. Head(orders) \in ToSet(orders)
  BY <1>1, HeadIsFirst
<1> QED
  BY <1>2, <1>3, <1>4, <1>5 DEF ordersFit

LEMMA TreeInvInitially == TreeInit => TreeInv
<1> SUFFICES ASSUME TreeInit PROVE TreeInv
  OBVIOUS
<1>1. FirstTree \in Trees
  BY TreeAssumption DEF TreeAssumption, Trees, Holders
<1>2. projection(FirstTree, {}, TreeRows) \in Projections
  BY <1>1, ProjectionIsOne
<1>3. published \in Projections /\ viewQuery \in Matches \cup {TreeRows}
  BY <1>2 DEF TreeInit
<1>4. isShown(published, selection)
  BY <1>2, FirstSelectionIsShown DEF TreeInit
<1>5. ordersFit(commands)
  BY EmptySeq DEF TreeInit, ordersFit, ToSet
<1> QED
  BY <1>3, <1>4, <1>5 DEF TreeInit, TreeInv

LEMMA SelectKeeps ==
  ASSUME TreeInv, NEW a \in Cells, NEW extend \in BOOLEAN, NEW additive \in BOOLEAN,
         NEW mode \in {"cell", "row", "column"}, Select(a, extend, additive, mode)
  PROVE  TreeInv'
<1>1. isValidAddress(published, a)
  BY DEF Select
<1>2. published \in Projections /\ isShown(published, selection)
  BY DEF TreeInv
<1>3. isShown(published, selection')
  <2>1. CASE mode = "cell"
    BY <1>1, <1>2, <2>1, AddressIsShown DEF Select
  <2>2. CASE mode \in {"row", "column"}
    BY <1>1, <1>2, <2>2, AxisIsShown DEF Select
  <2> QED
    BY <2>1, <2>2
<1> QED
  BY <1>2, <1>3 DEF Select, TreeInv

LEMMA SelectAllKeeps == ASSUME TreeInv, SelectAll PROVE TreeInv'
<1>1. PICK p \in Projections : p = published
  BY DEF TreeInv
<1>2. PICK s \in Seq(TreeRows) : s = visible(p) /\ s # <<>>
  BY <1>1, VisibleIsSeq DEF SelectAll
<1>3. Contains(s, s[1]) /\ Contains(s, Last(s))
  <2>1. DOMAIN s = 1 .. Len(s) /\ Len(s) \in Nat \ {0} /\ Last(s) = s[Len(s)]
    BY <1>2, LastIsElement, LenProperties
  <2> QED
    BY <2>1, ContainsFacts
<1>4. PICK anchor, focus : anchor = cell(s[1], Columns[1]) /\ focus = cell(Last(s), Last(Columns))
  OBVIOUS
<1>5. isValidAddress(p, anchor) /\ isValidAddress(p, focus) /\ anchor \in Cells /\ focus \in Cells
  BY <1>2, <1>3, <1>4, ValidFacts, ColumnFacts
<1>6. PICK x \in ShownSpans(p) : x = span(anchor, focus)
  BY <1>5, SpanIsShown
<1>7. PICK none \in Seq(ShownSpans(p)) : none = <<>>
  BY EmptySeq
<1>8. "cell" \in Modes /\ x \in ShownSpans(p) \cup {Nowhere}
  BY DEF Modes
<1>9. isShown(p, freezeSelection(focus, x, none, "cell"))
  BY <1>5, <1>8, FrozenIsShown
<1>10. selection' = freezeSelection(focus, x, none, "cell") /\ published' = p
  BY <1>1, <1>2, <1>4, <1>6, <1>7 DEF SelectAll
<1>11. UNCHANGED <<viewQuery, commands, prepared>>
  BY DEF SelectAll
<1> QED
  BY <1>9, <1>10, <1>11 DEF TreeInv

LEMMA CurrentIsShown == TreeInv => current \in ShownStates
  BY DEF TreeInv, ShownStates, current, isShown

LEMMA OpeningKeeps ==
  ASSUME TreeInv, NEW r, NEW expanded \in BOOLEAN,
         Opening(r) \/ Becomes(toggleExpansion(current, r, expanded))
  PROVE  published' \in Projections /\ isShown(published', selection')
<1>1. current \in ShownStates
  BY CurrentIsShown
<1>2. PICK s \in ShownStates : Becomes(s)
  BY <1>1, ToggledIsShown DEF Opening
<1> QED
  BY <1>2 DEF Becomes, ShownStates

LEMMA ExpansionKeeps ==
  ASSUME TreeInv, NEW r \in TreeRows, NEW expanded \in BOOLEAN, ToggleExpansion(r, expanded)
  PROVE  TreeInv'
<1>1. published' \in Projections /\ isShown(published', selection')
  BY OpeningKeeps DEF ToggleExpansion
<1> QED
  BY <1>1 DEF ToggleExpansion, TreeInv

LEMMA FocusCellKeeps ==
  ASSUME TreeInv, NEW a \in Cells, FocusCell(a)
  PROVE  TreeInv'
<1>1. a.row \in TreeRows
  <2>1. published.kids \in Trees
    BY DEF TreeInv, Projections
  <2> QED
    BY <2>1, InTreeFacts DEF FocusCell
<1>2. PICK path \in Seq(TreeRows) : path = ancestors(published.kids, a.row)
  BY <1>1, PathIsSeq
<1>3. PICK s \in ShownStates : s = expandedAlong(current, path)
  BY CurrentIsShown, ExpandedAlongIsShown
<1>4. /\ published' = s.published
      /\ selection' = IF isValidAddress(s.published, a) THEN single(a) ELSE s.selection
      /\ UNCHANGED <<viewQuery, commands, prepared>>
  BY <1>2, <1>3 DEF FocusCell
<1>5. s.published \in Projections /\ isShown(s.published, s.selection)
  BY <1>3 DEF ShownStates
<1>6. isShown(published', selection')
  BY <1>4, <1>5, SingleIsShown
<1> QED
  BY <1>4, <1>5, <1>6 DEF TreeInv

LEMMA RepublishKeeps ==
  ASSUME TreeInv, NEW p \in Projections, Republish(p) \/ Publishes(p)
  PROVE  published' \in Projections /\ isShown(published', selection')
<1>1. selection \in Selections
  BY DEF TreeInv, isShown
<1>2. published' = p /\ selection' = sanitizeSelection(selection, p, Nowhere)
  BY DEF Republish, Publishes
<1> QED
  BY <1>1, <1>2, SanitizedIsShown

LEMMA ViewKeeps ==
  ASSUME TreeInv,
         (\E expanded \in BOOLEAN : SetExpansionAll(expanded)) \/ \E matches \in Matches : SetViewQuery(matches)
  PROVE  TreeInv'
<1>1. published.kids \in Trees
  BY DEF TreeInv, Projections
<1>2. CASE \E expanded \in BOOLEAN : SetExpansionAll(expanded)
  <2>1. PICK open : Republish(projection(published.kids, open, viewQuery))
    BY <1>2 DEF SetExpansionAll
  <2>2. PICK p \in Projections : p = projection(published.kids, open, viewQuery)
    BY <1>1, ProjectionIsOne DEF TreeInv
  <2>3. published' \in Projections /\ isShown(published', selection')
    BY <2>1, <2>2, RepublishKeeps
  <2> QED
    BY <1>2, <2>3 DEF SetExpansionAll, TreeInv
<1>3. CASE \E matches \in Matches : SetViewQuery(matches)
  <2>1. PICK matches \in Matches : SetViewQuery(matches)
    BY <1>3
  <2>2. PICK p \in Projections : p = projection(published.kids, published.open, matches)
    BY <1>1, ProjectionIsOne
  <2>3. published' \in Projections /\ isShown(published', selection')
    BY <2>1, <2>2, RepublishKeeps DEF SetViewQuery
  <2> QED
    BY <2>1, <2>3 DEF SetViewQuery, TreeInv
<1> QED
  BY <1>2, <1>3

LEMMA EnqueueKeeps ==
  ASSUME TreeInv, NEW c, c.op \in {"insert", "move"} => c.rows \in Seq(TreeRows), Enqueue(c),
         published' \in Projections, isShown(published', selection'), UNCHANGED <<viewQuery, prepared>>
  PROVE  TreeInv'
<1>1. ordersFit(commands') /\ commands' # <<>>
  BY OrderAppended DEF TreeInv, Enqueue
<1> QED
  BY <1>1 DEF TreeInv

LEMMA CommandFacts ==
  /\ \A parent, after : insertCommand(parent, after).rows \in Seq(TreeRows)
  /\ \A rows \in Seq(TreeRows) : \A parent, at, before, select :
        moveCommand(rows, parent, at, before, select).rows \in Seq(TreeRows)
  /\ \A rows : deleteCommand(rows).op \notin {"insert", "move"}
BY TreeAssumption DEF TreeAssumption, insertCommand, moveCommand, deleteCommand

LEMMA InsertKeeps ==
  ASSUME TreeInv, NEW asChild \in BOOLEAN, InsertSelectedSubtree(asChild)
  PROVE  TreeInv'
<1>1. published \in Projections /\ isShown(published, selection)
  BY DEF TreeInv
<1>2. UNCHANGED <<viewQuery, prepared>>
  BY DEF InsertSelectedSubtree
<1>3. CASE asChild
  <2>1. PICK row : Opening(row) /\ Enqueue(insertCommand(row, TreeRoot))
    BY <1>3 DEF InsertSelectedSubtree
  <2>2. published' \in Projections /\ isShown(published', selection')
    BY <2>1, OpeningKeeps
  <2> QED
    BY <1>2, <2>1, <2>2, CommandFacts, EnqueueKeeps
<1>4. CASE ~asChild
  <2>1. PICK row : /\ Enqueue(insertCommand(parentIn(published.kids, row), row))
                   /\ UNCHANGED <<published, selection>>
    BY <1>4 DEF InsertSelectedSubtree
  <2>2. published' \in Projections /\ isShown(published', selection')
    BY <1>1, <2>1
  <2> QED
    BY <1>2, <2>1, <2>2, CommandFacts, EnqueueKeeps
<1> QED
  BY <1>3, <1>4

LEMMA MoveSelectedKeeps ==
  ASSUME TreeInv, NEW direction, MoveSelectedSubtree(direction)
  PROVE  TreeInv'
<1>1. published \in Projections /\ isShown(published, selection)
  BY DEF TreeInv
<1>2. UNCHANGED <<viewQuery, prepared>>
  BY DEF MoveSelectedSubtree
<1>3. PICK row \in TreeRows : row = selection.active.row
  <2>1. selection.active \in Cells
    BY <1>1 DEF MoveSelectedSubtree, isFocusedForStructureEdit, isShown, Selections
  <2>2. PICK r \in TreeRows, c \in ToSet(Columns) : selection.active = cell(r, c)
    BY <2>1 DEF Cells
  <2>3. selection.active.row = r
    BY <2>2 DEF cell
  <2> QED
    BY <2>3
<1>4. PICK rows \in Seq(TreeRows) : rows = <<row>>
  <2>1. row \in TreeRows
    BY <1>3
  <2>2. <<row>> \in Seq(TreeRows)
    BY <2>1
  <2> QED
    BY <2>2
<1>5. PICK parent, at, before :
        /\ Enqueue(moveCommand(rows, parent, at, before, FALSE))
        /\ (\E r : Opening(r)) \/ UNCHANGED <<published, selection>>
  <2>1. PICK moved \in {selection.active.row} : \E siblings, parent, place :
        \/ /\ Enqueue(moveCommand(<<moved>>, parent, siblings[place - 1], TRUE, FALSE))
           /\ UNCHANGED <<published, selection>>
        \/ /\ Enqueue(moveCommand(<<moved>>, parent, siblings[place + 1], FALSE, FALSE))
           /\ UNCHANGED <<published, selection>>
        \/ /\ Opening(siblings[place - 1])
           /\ Enqueue(moveCommand(<<moved>>, siblings[place - 1], TreeRoot, FALSE, FALSE))
        \/ /\ Enqueue(moveCommand(<<moved>>, parentIn(published.kids, parent), parent, FALSE, FALSE))
           /\ UNCHANGED <<published, selection>>
    BY Zenon DEF MoveSelectedSubtree
  <2>2. moved = row
    BY <1>3, <2>1
  <2> QED
    BY <1>4, <2>1, <2>2, Zenon
<1>6. published' \in Projections /\ isShown(published', selection')
  BY <1>1, <1>5, OpeningKeeps
<1> QED
  BY <1>2, <1>5, <1>6, CommandFacts, EnqueueKeeps

LEMMA MoveDraggedKeeps ==
  ASSUME TreeInv, NEW rows \in Seq(TreeRows), NEW target, NEW position,
         MoveDraggedSubtree(rows, target, position)
  PROVE  TreeInv'
<1>1. published \in Projections /\ isShown(published, selection)
  BY DEF TreeInv
<1>2. UNCHANGED <<viewQuery, prepared>>
  BY DEF MoveDraggedSubtree
<1>3. PICK parent, at, before : 
        /\ Enqueue(moveCommand(rows, parent, at, before, TRUE))
        /\ (\E r : Opening(r)) \/ UNCHANGED <<published, selection>>
  BY DEF MoveDraggedSubtree
<1>4. published' \in Projections /\ isShown(published', selection')
  BY <1>1, <1>3, OpeningKeeps
<1> QED
  BY <1>2, <1>3, <1>4, CommandFacts, EnqueueKeeps

LEMMA OtherOrdersKeep ==
  ASSUME TreeInv,
         DeleteSelectedSubtree \/ \E preserveView, preserveSelection \in BOOLEAN :
                                     ReplaceDocument(preserveView, preserveSelection)
  PROVE  TreeInv'
<1>1. UNCHANGED <<published, viewQuery, selection, prepared>>
  BY DEF DeleteSelectedSubtree, ReplaceDocument
<1>2. PICK c : Enqueue(c) /\ c.op \notin {"insert", "move"}
  <2>1. CASE DeleteSelectedSubtree
    <3>1. PICK rows : Enqueue(deleteCommand(rows))
      BY <2>1 DEF DeleteSelectedSubtree
    <3> QED
      BY <3>1, CommandFacts
  <2>2. CASE \E preserveView, preserveSelection \in BOOLEAN :
                ReplaceDocument(preserveView, preserveSelection)
    <3>1. PICK c, view, chosen : /\ c = [op |-> "replace", view |-> view, selection |-> chosen]
                                 /\ Enqueue(c)
      BY <2>2 DEF ReplaceDocument
    <3>2. c.op = "replace"
      BY <3>1
    <3> QED
      BY <3>1, <3>2
  <2> QED
    BY <2>1, <2>2
<1>3. published' \in Projections /\ isShown(published', selection')
  BY <1>1 DEF TreeInv
<1> QED
  BY <1>1, <1>2, <1>3, EnqueueKeeps

LEMMA PrepareKeeps == ASSUME TreeInv, Prepare PROVE TreeInv'
<1>1. PICK c : c = Head(commands)
  OBVIOUS
<1>2. ordersFit(Tail(commands)) /\ (c.op \in {"insert", "move"} => c.rows \in Seq(TreeRows))
  BY <1>1, OrderTaken DEF TreeInv, Prepare
<1>3. published.kids \in Trees
  BY DEF TreeInv, Projections
<1>4. PICK kids : kids = applied(published.kids, c)
  OBVIOUS
<1>5. kids \in Trees \/ kids = <<>>
  BY <1>2, <1>3, <1>4, AppliedIsATree
<1>6. UNCHANGED <<published, viewQuery, selection>> /\ commands # <<>>
  BY DEF Prepare
<1>7. CASE kids = <<>>
  <2>1. commands' = Tail(commands) /\ UNCHANGED prepared /\ prepared = <<>>
    BY <1>1, <1>4, <1>7 DEF Prepare
  <2> QED
    BY <1>2, <1>6, <2>1 DEF TreeInv
<1>8. CASE kids # <<>>
  <2>1. prepared' = projection(kids, published.open, viewQuery) /\ UNCHANGED commands
    BY <1>1, <1>4, <1>8 DEF Prepare
  <2>2. prepared' \in Projections
    BY <1>5, <1>8, <2>1, ProjectionIsOne DEF TreeInv
  <2> QED
    BY <1>6, <2>1, <2>2 DEF TreeInv
<1> QED
  BY <1>7, <1>8

LEMMA PreventKeeps == ASSUME TreeInv, Prevent PROVE TreeInv'
<1>1. ordersFit(Tail(commands))
  BY OrderTaken DEF TreeInv, Prevent
<1> QED
  BY <1>1 DEF TreeInv, Prevent

LEMMA FinishKeeps == ASSUME TreeInv, Finish PROVE TreeInv'
<1>1. PICK p \in Projections : p = prepared
  BY DEF TreeInv, Finish
<1>2. ordersFit(Tail(commands))
  BY OrderTaken DEF TreeInv, Finish
<1>3. published' \in Projections /\ isShown(published', selection')
  <2>1. PICK row : /\ row = cell(Head(commands).rows[1], Columns[1])
                   /\ \/ isValidAddress(p, row) /\ published' = p /\ selection' = single(row)
                      \/ Publishes(p)
    BY <1>1 DEF Finish
  <2>2. CASE isValidAddress(p, row) /\ published' = p /\ selection' = single(row)
    <3>1. row \in Cells
      BY <2>1, <2>2, ValidFacts
    <3> QED
      BY <2>2, <3>1, SingleIsShown
  <2>3. CASE Publishes(p)
    BY <2>3, RepublishKeeps
  <2> QED
    BY <2>1, <2>2, <2>3
<1>4. commands' = Tail(commands) /\ prepared' = <<>> /\ UNCHANGED viewQuery
  BY DEF Finish
<1> QED
  BY <1>2, <1>3, <1>4 DEF TreeInv

LEMMA ReplacementKeeps == ASSUME TreeInv, RunReplaceDocument PROVE TreeInv'
<1>1. OtherTree \in Trees
  BY TreeAssumption DEF TreeAssumption, Trees, Holders
<1>2. PICK open : open = IF Head(commands).view THEN published.open ELSE {}
  OBVIOUS
<1>3. PICK p \in Projections : p = projection(OtherTree, open, viewQuery)
  BY <1>1, ProjectionIsOne DEF TreeInv
<1>4. /\ published' = p
      /\ selection' = IF Head(commands).selection
                      THEN sanitizeSelection(selection, p, Nowhere) ELSE firstSelection(p)
  BY <1>2, <1>3 DEF RunReplaceDocument
<1>5. isShown(published', selection')
  <2>1. selection \in Selections
    BY DEF TreeInv, isShown
  <2>2. isShown(p, sanitizeSelection(selection, p, Nowhere)) /\ isShown(p, firstSelection(p))
    BY <2>1, SanitizedIsShown, FirstSelectionIsShown
  <2> QED
    BY <1>4, <2>2
<1>6. ordersFit(Tail(commands))
  BY OrderTaken DEF TreeInv, RunReplaceDocument
<1>7. commands' = Tail(commands) /\ UNCHANGED <<viewQuery, prepared>> /\ prepared = <<>>
  BY DEF RunReplaceDocument
<1> QED
  BY <1>4, <1>5, <1>6, <1>7 DEF TreeInv

LEMMA TreeInvKept == TreeInv /\ [TreeNext]_treeVars => TreeInv'
<1> SUFFICES ASSUME TreeInv, [TreeNext]_treeVars PROVE TreeInv'
  OBVIOUS
<1>1. CASE \E a \in Cells, extend, additive \in BOOLEAN, mode \in {"cell", "row", "column"} :
              Select(a, extend, additive, mode)
  BY <1>1, SelectKeeps
<1>2. CASE SelectAll
  BY <1>2, SelectAllKeeps
<1>3. CASE \E r \in TreeRows, expanded \in BOOLEAN : ToggleExpansion(r, expanded)
  BY <1>3, ExpansionKeeps
<1>4. CASE \E a \in Cells : FocusCell(a)
  BY <1>4, FocusCellKeeps
<1>5. CASE (\E expanded \in BOOLEAN : SetExpansionAll(expanded)) \/ \E matches \in Matches : SetViewQuery(matches)
  BY <1>5, ViewKeeps
<1>6. CASE \E asChild \in BOOLEAN : InsertSelectedSubtree(asChild)
  BY <1>6, InsertKeeps
<1>7. CASE \E direction \in {"up", "down", "indent", "outdent"} : MoveSelectedSubtree(direction)
  BY <1>7, MoveSelectedKeeps
<1>8. CASE \E r, s, target \in TreeRows, position \in {"before", "after", "inside"} :
              \/ MoveDraggedSubtree(<<r>>, target, position)
              \/ MoveDraggedSubtree(<<r, s>>, target, position)
  <2>1. PICK r \in TreeRows, s \in TreeRows, target \in TreeRows, position \in {"before", "after", "inside"} :
           \/ MoveDraggedSubtree(<<r>>, target, position)
           \/ MoveDraggedSubtree(<<r, s>>, target, position)
    BY <1>8
  <2>2. <<r>> \in Seq(TreeRows) /\ <<r, s>> \in Seq(TreeRows)
    OBVIOUS
  <2> QED
    BY <2>1, <2>2, MoveDraggedKeeps
<1>9. CASE DeleteSelectedSubtree \/ \E preserveView, preserveSelection \in BOOLEAN :
                                       ReplaceDocument(preserveView, preserveSelection)
  BY <1>9, OtherOrdersKeep
<1>10. CASE Prepare
  BY <1>10, PrepareKeeps
<1>11. CASE Prevent
  BY <1>11, PreventKeeps
<1>12. CASE Finish
  BY <1>12, FinishKeeps
<1>13. CASE RunReplaceDocument
  BY <1>13, ReplacementKeeps
<1>14. CASE UNCHANGED treeVars
  BY <1>14 DEF treeVars, TreeInv
<1> QED
  BY <1>1, <1>2, <1>3, <1>4, <1>5, <1>6, <1>7, <1>8, <1>9, <1>10, <1>11, <1>12, <1>13, <1>14 DEF TreeNext

LEMMA TreeInvIsShown == TreeInv => SelectionIsShown
<1> SUFFICES ASSUME TreeInv PROVE SelectionIsShown
  OBVIOUS
<1>1. PICK p \in Projections : p = published /\ isShown(p, selection)
  BY DEF TreeInv
<1>2. PICK s \in Seq(ShownSpans(p)) : s = selectionRanges(selection)
  BY <1>1, RangesAreShown
<1>3. ToSet(s) \subseteq ShownSpans(p)
  BY <1>2, ToSetFacts, ElementOfSeq
<1>4. \A range \in ToSet(s) : isValidAddress(p, range.anchor) /\ isValidAddress(p, range.focus)
  BY <1>3 DEF ShownSpans, isValidRange
<1> QED
  BY <1>1, <1>2, <1>4 DEF isShown, SelectionIsShown

(* SelectionIsShown for any documents, queries and columns: whatever view  *)
(* operations, commands, prevented commits and replacements follow one     *)
(* another, the selection names rows and columns that are on the screen,   *)
(* and it is empty only while no row is.                                   *)
THEOREM SelectionStaysOnScreen == TreeInit /\ [][TreeNext]_treeVars => []SelectionIsShown
<1> QED
  BY TreeInvInitially, TreeInvKept, TreeInvIsShown, PTL

=============================================================================
