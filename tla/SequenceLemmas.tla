--------------------------- MODULE SequenceLemmas ---------------------------
(***************************************************************************)
(* Facts about queues: appending to a sequence, dropping its first or last *)
(* element or one in the middle, cutting a prefix, putting one in.         *)
(***************************************************************************)
EXTENDS Integers, SequencesExt, SequenceTheorems, WellFoundedInduction, TLAPS

LEMMA PrefixProperties ==
  ASSUME NEW S, NEW s \in Seq(S), NEW n \in 0 .. Len(s)
  PROVE  /\ SubSeq(s, 1, n) \in Seq(S)
         /\ Len(SubSeq(s, 1, n)) = n
         /\ \A i \in 1 .. n : SubSeq(s, 1, n)[i] = s[i]
<1>1. \A i \in 1 .. n : s[i] \in S
  BY ElementOfSeq
<1>2. n \in Int /\ 1 \in Int
  OBVIOUS
<1>. QED
  BY <1>1, <1>2, SubSeqProperties

LEMMA FrontProperties ==
  ASSUME NEW S, NEW s \in Seq(S), s # <<>>
  PROVE  /\ Front(s) \in Seq(S)
         /\ Len(Front(s)) = Len(s) - 1
         /\ \A i \in 1 .. Len(s) - 1 : Front(s)[i] = s[i]
<1>1. Len(s) - 1 \in 0 .. Len(s)
  BY EmptySeq
<1>. QED
  BY <1>1, PrefixProperties DEF Front

LEMMA FrontIsSeq ==
  ASSUME NEW S, NEW s \in Seq(S)
  PROVE  Front(s) \in Seq(S)
<1>1. CASE s = <<>>
  <2>1. Front(s) = <<>>
    BY <1>1, SubSeqEmpty DEF Front
  <2>. QED
    BY <2>1, EmptySeq
<1>2. CASE s # <<>>
  BY <1>2, FrontProperties
<1>. QED
  BY <1>1, <1>2

LEMMA LastIsElement ==
  ASSUME NEW S, NEW s \in Seq(S), s # <<>>
  PROVE  Last(s) \in S /\ Len(s) \in Nat \ {0} /\ Last(s) = s[Len(s)]
<1>1. Len(s) \in Nat \ {0}
  BY EmptySeq
<1>2. Len(s) \in 1 .. Len(s)
  BY <1>1
<1>. QED
  BY <1>1, <1>2, ElementOfSeq DEF Last

LEMMA ToSetFacts ==
  ASSUME NEW S, NEW s \in Seq(S)
  PROVE  /\ DOMAIN s = 1 .. Len(s)
         /\ Len(s) \in Nat
         /\ ToSet(s) = {s[i] : i \in 1 .. Len(s)}
BY LenProperties DEF ToSet

LEMMA HeadIsFirst ==
  ASSUME NEW S, NEW s \in Seq(S), s # <<>>
  PROVE  Head(s) = s[1] /\ Head(s) \in ToSet(s) /\ Len(s) \in Nat \ {0}
<1>1. Len(s) \in Nat \ {0}
  BY EmptySeq
<1>2. 1 \in 1 .. Len(s)
  BY <1>1
<1>. QED
  BY <1>1, <1>2, ToSetFacts

(* Appending an element that is not there yet.                             *)
LEMMA AppendFacts ==
  ASSUME NEW S, NEW s \in Seq(S), IsInjective(s), NEW x \in S, x \notin ToSet(s)
  PROVE  /\ IsInjective(Append(s, x))
         /\ ToSet(Append(s, x)) = ToSet(s) \cup {x}
         /\ Append(s, x) # <<>>
         /\ s # <<>> => Head(Append(s, x)) = Head(s)
<1>. DEFINE u == Append(s, x)
<1>1. /\ u \in Seq(S) /\ u # <<>> /\ Len(u) = Len(s) + 1
      /\ \A i \in 1 .. Len(s) : u[i] = s[i]
      /\ u[Len(s) + 1] = x
  BY AppendProperties
<1>2. s # <<>> => Head(u) = Head(s)
  BY HeadTailAppend
<1>. HIDE DEF u
<1>3. DOMAIN u = 1 .. Len(s) + 1 /\ DOMAIN s = 1 .. Len(s) /\ Len(s) \in Nat
  BY <1>1, ToSetFacts
<1>4. \A i \in 1 .. Len(s) : s[i] # x
  BY <1>3 DEF ToSet
<1>5. IsInjective(u)
  BY <1>1, <1>3, <1>4 DEF IsInjective
<1>6. ToSet(u) = ToSet(s) \cup {x}
  BY <1>1, <1>3 DEF ToSet
<1>. QED
  BY <1>1, <1>2, <1>5, <1>6 DEF u

(* Dropping the first element of a sequence without duplicates.            *)
LEMMA TailFacts ==
  ASSUME NEW S, NEW s \in Seq(S), s # <<>>, IsInjective(s)
  PROVE  /\ IsInjective(Tail(s))
         /\ ToSet(Tail(s)) = ToSet(s) \ {Head(s)}
         /\ \A i \in DOMAIN Tail(s) : i + 1 \in DOMAIN s /\ Tail(s)[i] = s[i + 1]
<1>. DEFINE u == Tail(s)
<1>1. /\ u \in Seq(S) /\ Len(u) = Len(s) - 1
      /\ \A i \in 1 .. Len(u) : u[i] = s[i + 1]
  BY HeadTailProperties
<1>. HIDE DEF u
<1>2. Head(s) = s[1] /\ Len(s) \in Nat \ {0} /\ DOMAIN s = 1 .. Len(s)
  BY HeadIsFirst, ToSetFacts
<1>3. DOMAIN u = 1 .. Len(s) - 1
  BY <1>1, ToSetFacts
<1>4. \A i \in DOMAIN u : i + 1 \in DOMAIN s /\ u[i] = s[i + 1] /\ i + 1 # 1
  BY <1>1, <1>2, <1>3
<1>5. IsInjective(u)
  BY <1>2, <1>3, <1>4 DEF IsInjective
<1>6. ASSUME NEW x \in ToSet(s), x # Head(s)
      PROVE  x \in ToSet(u)
  <2>1. PICK i \in 1 .. Len(s) : x = s[i]
    BY <1>2 DEF ToSet
  <2>2. i - 1 \in 1 .. Len(s) - 1
    BY <1>2, <1>6, <2>1
  <2>3. u[i - 1] = x
    BY <1>1, <2>1, <2>2
  <2>. QED
    BY <1>3, <2>2, <2>3 DEF ToSet
<1>7. ASSUME NEW x \in ToSet(u)
      PROVE  x \in ToSet(s) \ {Head(s)}
  <2>1. PICK i \in DOMAIN u : x = u[i]
    BY DEF ToSet
  <2>2. x = s[i + 1] /\ i + 1 \in DOMAIN s /\ i + 1 # 1 /\ 1 \in DOMAIN s
    BY <1>2, <1>4, <2>1
  <2>. QED
    BY <1>2, <2>2 DEF ToSet, IsInjective
<1>. QED
  BY <1>4, <1>5, <1>6, <1>7 DEF u

(* Dropping the last element of a sequence without duplicates.             *)
LEMMA FrontFacts ==
  ASSUME NEW S, NEW s \in Seq(S), s # <<>>, IsInjective(s)
  PROVE  /\ IsInjective(Front(s))
         /\ ToSet(Front(s)) = ToSet(s) \ {Last(s)}
         /\ \A i \in DOMAIN Front(s) : i \in DOMAIN s /\ Front(s)[i] = s[i]
         /\ Front(s) # <<>> => Head(Front(s)) = Head(s)
         /\ Front(s) = <<>> => Head(s) = Last(s)
<1>. DEFINE u == Front(s)
<1>1. /\ u \in Seq(S) /\ Len(u) = Len(s) - 1
      /\ \A i \in 1 .. Len(s) - 1 : u[i] = s[i]
  BY FrontProperties
<1>. HIDE DEF u
<1>2. /\ Head(s) = s[1] /\ Last(s) = s[Len(s)]
      /\ Len(s) \in Nat \ {0} /\ DOMAIN s = 1 .. Len(s)
  BY HeadIsFirst, LastIsElement, ToSetFacts
<1>3. DOMAIN u = 1 .. Len(s) - 1
  BY <1>1, ToSetFacts
<1>4. \A i \in DOMAIN u : i \in DOMAIN s /\ u[i] = s[i] /\ i # Len(s)
  BY <1>1, <1>2, <1>3
<1>5. IsInjective(u)
  BY <1>2, <1>3, <1>4 DEF IsInjective
<1>6. ASSUME NEW x \in ToSet(s), x # Last(s)
      PROVE  x \in ToSet(u)
  <2>1. PICK i \in 1 .. Len(s) : x = s[i]
    BY <1>2 DEF ToSet
  <2>2. i \in 1 .. Len(s) - 1
    BY <1>2, <1>6, <2>1
  <2>. QED
    BY <1>1, <1>3, <2>1, <2>2 DEF ToSet
<1>7. ASSUME NEW x \in ToSet(u)
      PROVE  x \in ToSet(s) \ {Last(s)}
  <2>1. PICK i \in DOMAIN u : x = u[i]
    BY DEF ToSet
  <2>2. x = s[i] /\ i \in DOMAIN s /\ i # Len(s) /\ Len(s) \in DOMAIN s
    BY <1>2, <1>4, <2>1
  <2>. QED
    BY <1>2, <2>2 DEF ToSet, IsInjective
<1>8. ASSUME u # <<>>
      PROVE  Head(u) = Head(s)
  <2>1. Head(u) = u[1] /\ Len(u) \in Nat \ {0}
    BY <1>1, <1>8, HeadIsFirst
  <2>. QED
    BY <1>1, <1>2, <2>1
<1>9. ASSUME u = <<>>
      PROVE  Head(s) = Last(s)
  <2>1. Len(u) = 0
    BY <1>9
  <2>2. Len(s) = 1
    BY <1>1, <1>2, <2>1
  <2>. QED
    BY <1>2, <2>2
<1>. QED
  BY <1>4, <1>5, <1>6, <1>7, <1>8, <1>9 DEF u

(* What has come before stays what it was when something is appended.      *)
LEMMA PrefixOfAppend ==
  ASSUME NEW S, NEW s \in Seq(S), NEW x \in S, NEW n \in 0 .. Len(s)
  PROVE  SubSeq(Append(s, x), 1, n) = SubSeq(s, 1, n)
<1>. DEFINE u == Append(s, x)
<1>1. /\ u \in Seq(S) /\ Len(u) = Len(s) + 1
      /\ \A i \in 1 .. Len(s) : u[i] = s[i]
  BY AppendProperties
<1>. HIDE DEF u
<1>2. Len(s) \in Nat /\ n \in 0 .. Len(u)
  BY <1>1, LenProperties
<1>3. /\ SubSeq(u, 1, n) \in Seq(S) /\ Len(SubSeq(u, 1, n)) = n
      /\ \A i \in 1 .. n : SubSeq(u, 1, n)[i] = u[i]
  BY <1>1, <1>2, PrefixProperties
<1>4. /\ SubSeq(s, 1, n) \in Seq(S) /\ Len(SubSeq(s, 1, n)) = n
      /\ \A i \in 1 .. n : SubSeq(s, 1, n)[i] = s[i]
  BY PrefixProperties
<1>5. \A i \in 1 .. n : SubSeq(u, 1, n)[i] = SubSeq(s, 1, n)[i]
  BY <1>1, <1>2, <1>3, <1>4
<1>6. SubSeq(u, 1, n) = SubSeq(s, 1, n)
  BY <1>3, <1>4, <1>5, SeqEqual
<1>. QED
  BY <1>6 DEF u

(* A prefix that is one longer has one element more.                       *)
LEMMA PrefixGrows ==
  ASSUME NEW S, NEW s \in Seq(S), NEW n \in Nat, n + 1 \in 1 .. Len(s)
  PROVE  SubSeq(s, 1, n + 1) = Append(SubSeq(s, 1, n), s[n + 1])
<1>1. Len(s) \in Nat /\ n \in 0 .. Len(s) /\ 1 \in 1 .. Len(s) /\ n + 1 - 1 = n
  BY LenProperties
<1>2. SubSeq(s, 1, n + 1) = SubSeq(s, 1, n) \o <<s[n + 1]>>
  BY <1>1, SubSeqRecursiveSecond
<1>3. s[n + 1] \in S /\ SubSeq(s, 1, n) \in Seq(S)
  BY <1>1, ElementOfSeq, PrefixProperties
<1>. QED
  BY <1>2, <1>3, AppendIsConcat

(* A queue q behind what is already there, a.                              *)
LEMMA ConcatHead ==
  ASSUME NEW S, NEW a \in Seq(S), NEW q \in Seq(S), q # <<>>
  PROVE  Append(a, Head(q)) \o Tail(q) = a \o q
<1>1. Head(q) \in S /\ Tail(q) \in Seq(S) /\ Head(q) = q[1] /\ Len(q) \in Nat \ {0}
  BY HeadTailProperties, HeadIsFirst
<1>2. q = <<q[1]>> \o Tail(q)
  <2>1. 1 \in 1 .. Len(q) /\ Len(q) \in 1 .. Len(q) /\ 1 + 1 = 2
    BY <1>1
  <2>2. SubSeq(q, 1, Len(q)) = <<q[1]>> \o SubSeq(q, 2, Len(q))
    BY <2>1, SubSeqRecursiveFirst
  <2>. QED
    BY <2>2, SubSeqFull, TailIsSubSeq
<1>3. <<Head(q)>> \in Seq(S)
  BY <1>1
<1>4. (a \o <<Head(q)>>) \o Tail(q) = a \o (<<Head(q)>> \o Tail(q))
  BY <1>1, <1>3, ConcatAssociative
<1>. QED
  BY <1>1, <1>2, <1>4, AppendIsConcat

LEMMA ConcatFront ==
  ASSUME NEW S, NEW a \in Seq(S), NEW q \in Seq(S), q # <<>>
  PROVE  Front(a \o q) = a \o Front(q)
<1>. DEFINE w == a \o q
            f == Front(q)
<1>1. /\ w \in Seq(S) /\ Len(w) = Len(a) + Len(q)
      /\ \A i \in 1 .. Len(a) + Len(q) : w[i] = IF i <= Len(a) THEN a[i] ELSE q[i - Len(a)]
  BY ConcatProperties
<1>2. /\ f \in Seq(S) /\ Len(f) = Len(q) - 1
      /\ \A i \in 1 .. Len(q) - 1 : f[i] = q[i]
  BY FrontProperties
<1>. HIDE DEF w, f
<1>3. Len(a) \in Nat /\ Len(q) \in Nat \ {0}
  BY EmptySeq, LenProperties
<1>4. w # <<>>
  BY <1>1, <1>3
<1>5. /\ Front(w) \in Seq(S) /\ Len(Front(w)) = Len(a) + Len(q) - 1
      /\ \A i \in 1 .. Len(a) + Len(q) - 1 : Front(w)[i] = w[i]
  BY <1>1, <1>4, FrontProperties
<1>6. /\ a \o f \in Seq(S) /\ Len(a \o f) = Len(a) + Len(f)
      /\ \A i \in 1 .. Len(a) + Len(f) :
           (a \o f)[i] = IF i <= Len(a) THEN a[i] ELSE f[i - Len(a)]
  BY <1>2, ConcatProperties
<1>7. ASSUME NEW i \in 1 .. Len(Front(w))
      PROVE  Front(w)[i] = (a \o f)[i]
  <2>1. i \in 1 .. Len(a) + Len(q) - 1 /\ i \in 1 .. Len(a) + Len(q) /\ i \in 1 .. Len(a) + Len(f)
    BY <1>2, <1>3, <1>5
  <2>2. CASE i <= Len(a)
    BY <1>1, <1>5, <1>6, <2>1, <2>2
  <2>3. CASE ~(i <= Len(a))
    <3>1. i - Len(a) \in 1 .. Len(q) - 1
      BY <1>3, <2>1, <2>3
    <3>2. f[i - Len(a)] = q[i - Len(a)]
      BY <1>2, <3>1
    <3>. QED
      BY <1>1, <1>5, <1>6, <2>1, <2>3, <3>2
  <2>. QED
    BY <2>2, <2>3
<1>8. Len(Front(w)) = Len(a \o f)
  BY <1>2, <1>3, <1>5, <1>6
<1>9. Front(w) = a \o f
  BY <1>5, <1>6, <1>7, <1>8, SeqEqual
<1>. QED
  BY <1>9 DEF w, f

-----------------------------------------------------------------------------
(* Elements.                                                               *)

LEMMA AppendSet ==
  ASSUME NEW A, NEW s \in Seq(A), NEW x \in A
  PROVE  Append(s, x) \in Seq(A) /\ ToSet(Append(s, x)) = ToSet(s) \cup {x}
<1>1. PICK u : u = Append(s, x)
  OBVIOUS
<1>2. /\ u \in Seq(A) /\ Len(u) = Len(s) + 1
      /\ \A i \in 1 .. Len(s) : u[i] = s[i]
      /\ u[Len(s) + 1] = x
  BY <1>1, AppendProperties
<1>3. DOMAIN u = 1 .. Len(s) + 1 /\ DOMAIN s = 1 .. Len(s) /\ Len(s) \in Nat
  BY <1>2, ToSetFacts
<1>4. ToSet(u) = ToSet(s) \cup {x}
  BY <1>2, <1>3 DEF ToSet
<1>. QED
  BY <1>1, <1>2, <1>4

LEMMA TailSet ==
  ASSUME NEW A, NEW s \in Seq(A), s # <<>>
  PROVE  /\ Tail(s) \in Seq(A) /\ ToSet(Tail(s)) \subseteq ToSet(s)
         /\ s[1] \in A /\ s[1] \in ToSet(s)
<1>1. /\ Tail(s) \in Seq(A) /\ Len(Tail(s)) = Len(s) - 1
      /\ \A i \in 1 .. Len(Tail(s)) : Tail(s)[i] = s[i + 1]
  BY HeadTailProperties
<1>2. Len(s) \in Nat \ {0} /\ DOMAIN s = 1 .. Len(s) /\ DOMAIN Tail(s) = 1 .. Len(Tail(s))
  BY <1>1, HeadIsFirst, ToSetFacts
<1>3. \A i \in DOMAIN Tail(s) : i + 1 \in DOMAIN s /\ Tail(s)[i] = s[i + 1]
  BY <1>1, <1>2
<1>4. 1 \in DOMAIN s
  BY <1>2
<1>. QED
  BY <1>1, <1>2, <1>3, <1>4, ElementOfSeq DEF ToSet

(* Induction: a set of numbers has a least element.                        *)
LEMMA LeastNatural ==
  ASSUME NEW B \in SUBSET Nat, B # {}
  PROVE  \E n \in B : \A m \in B : n <= m
<1>. DEFINE R == {ss \in Nat \X Nat : ss[1] < ss[2]}
<1>1. R = OpToRel(<, Nat)
  BY DEF OpToRel
<1>2. IsWellFoundedOn(R, Nat)
  BY <1>1, NatLessThanWellFounded
<1>. HIDE DEF R
<1>3. PICK n \in B : \A m \in B : ~ (<<m, n>> \in R)
  BY <1>2, WFMin
<1>4. \A m \in B : ~(m < n)
  BY <1>3 DEF R
<1>. QED
  BY <1>4

(* What holds of zero and, with a number, of the next holds of them all.   *)
LEMMA CountingUp ==
  ASSUME NEW T, 0 \in T, \A k \in Nat : k \in T => k + 1 \in T
  PROVE  Nat \subseteq T
<1> DEFINE B == Nat \ T
<1>1. ASSUME B # {} PROVE FALSE
  <2>1. PICK k \in B : \A m \in B : k <= m
    BY <1>1, LeastNatural
  <2>2. k # 0 /\ k \in Nat
    BY <2>1
  <2>3. k - 1 \in Nat /\ ~(k <= k - 1)
    BY <2>2
  <2>4. k - 1 \in T
    BY <2>1, <2>3
  <2> QED
    BY <2>1, <2>2, <2>3, <2>4
<1> QED
  BY <1>1

(* What holds of a first value, and of each value when of the one before. *)
LEMMA ValueByValue ==
  ASSUME NEW S, NEW f, NEW N \in Nat, NEW b \in Nat, f[b] \in S,
         \A n \in b + 1 .. N : f[n - 1] \in S => f[n] \in S
  PROVE  \A n \in b .. N : f[n] \in S
<1> DEFINE T == {k \in Nat : b + k <= N => f[b + k] \in S}
<1>1. 0 \in T
  OBVIOUS
<1>2. ASSUME NEW k \in Nat, k \in T PROVE k + 1 \in T
  <2>1. ASSUME b + (k + 1) <= N PROVE f[b + (k + 1)] \in S
    <3>1. b + k <= N /\ f[b + k] \in S
      BY <1>2, <2>1
    <3>2. PICK n \in b + 1 .. N : n = b + (k + 1) /\ n - 1 = b + k
      BY <2>1
    <3> QED
      BY <3>1, <3>2
  <2> QED
    BY <2>1
<1>3. Nat \subseteq T
  <2> HIDE DEF T
  <2> QED
    BY <1>1, <1>2, CountingUp
<1>4. ASSUME NEW n \in b .. N PROVE f[n] \in S
  <2>1. PICK k \in Nat : n = b + k
    <3>1. n - b \in Nat /\ n = b + (n - b)
      OBVIOUS
    <3> QED
      BY <3>1
  <2>2. k \in T
    BY <1>3
  <2> QED
    BY <2>1, <2>2
<1> QED
  BY <1>4

nextsOn(S, N) == [1 .. N -> [S -> S]]

(* A function that is defined from its value one place before exists.      *)
LEMMA RecursionExists ==
  ASSUME NEW S, NEW base \in S, NEW N \in Nat, NEW next \in nextsOn(S, N)
  PROVE  \E g : /\ g[0] = base
                /\ \A n \in 1 .. N : g[n - 1] \in S /\ g[n] = next[n][g[n - 1]]
<1> USE DEF nextsOn
<1> DEFINE upTo(k, g) == g[0] = base /\ \A n \in 1 .. k : g[n] = next[n][g[n - 1]]
           T == {k \in Nat : k <= N => \E g \in [0 .. k -> S] : upTo(k, g)}
<1>1. 0 \in T
  <2>1. PICK g : g = [i \in 0 .. 0 |-> base]
    OBVIOUS
  <2>2. g \in [0 .. 0 -> S] /\ upTo(0, g)
    BY <2>1
  <2> QED
    BY <2>2
<1>2. ASSUME NEW k \in Nat, k \in T PROVE k + 1 \in T
  <2>1. ASSUME k + 1 <= N PROVE \E g \in [0 .. k + 1 -> S] : upTo(k + 1, g)
    <3>1. PICK g \in [0 .. k -> S] : upTo(k, g)
      BY <1>2, <2>1
    <3>2. PICK last : last = next[k + 1][g[k]]
      OBVIOUS
    <3>3. k \in 0 .. k /\ k + 1 \in 1 .. N
      BY <2>1
    <3>4. g[k] \in S /\ next[k + 1] \in [S -> S]
      BY <3>3
    <3>5. last \in S
      BY <3>2, <3>4
    <3>6. PICK h : h = [i \in 0 .. k + 1 |-> IF i <= k THEN g[i] ELSE last]
      OBVIOUS
    <3>7. h \in [0 .. k + 1 -> S]
      BY <3>5, <3>6
    <3>8. h[0] = base /\ \A i \in 0 .. k : h[i] = g[i]
      BY <3>1, <3>6
    <3>9. ASSUME NEW n \in 1 .. k + 1 PROVE h[n] = next[n][h[n - 1]]
      <4>1. n - 1 \in 0 .. k /\ h[n - 1] = g[n - 1]
        BY <3>8
      <4>2. CASE n <= k
        <5>1. n \in 1 .. k /\ n \in 0 .. k
          BY <4>2
        <5> QED
          BY <3>1, <3>8, <4>1, <5>1
      <4>3. CASE n = k + 1
        <5>1. h[n] = last
          BY <3>6, <4>3
        <5>2. h[n - 1] = g[k]
          BY <4>1, <4>3
        <5> QED
          BY <3>2, <4>3, <5>1, <5>2
      <4> QED
        BY <4>2, <4>3
    <3> QED
      BY <3>7, <3>8, <3>9
  <2> QED
    BY <2>1
<1>3. Nat \subseteq T
  <2> HIDE DEF T
  <2> QED
    BY <1>1, <1>2, CountingUp
<1>4. PICK g \in [0 .. N -> S] : upTo(N, g)
  BY <1>3
<1>5. \A n \in 1 .. N : n - 1 \in 0 .. N
  OBVIOUS
<1>6. \A n \in 1 .. N : g[n - 1] \in S
  BY <1>4, <1>5
<1> QED
  BY <1>4, <1>6

-----------------------------------------------------------------------------
(* Sequences of sequences one after the other.                             *)

LEMMA FlattenIsSeq ==
  ASSUME NEW S, NEW s \in Seq(Seq(S))
  PROVE  FlattenSeq(s) \in Seq(S)
<1>1. CASE Len(s) = 0
  <2>1. s = <<>>
    BY <1>1
  <2> QED
    BY <1>1, <2>1 DEF FlattenSeq
<1>2. CASE Len(s) # 0
  <2> DEFINE defined(f) == f = [i \in 1 .. Len(s) |-> IF i = 1 THEN s[i] ELSE f[i - 1] \o s[i]]
  <2>1. PICK f : f = CHOOSE h : defined(h)
    OBVIOUS
  <2>2. FlattenSeq(s) = f[Len(s)]
    BY <1>2, <2>1 DEF FlattenSeq
  <2>3. PICK N \in Nat \ {0} : N = Len(s)
    BY <1>2
  <2>4. PICK A : A = Seq(S)
    OBVIOUS
  <2>5. \A i \in 1 .. N : s[i] \in A
    BY <2>3, <2>4, ElementOfSeq
  <2>6. \A i \in 1 .. N : \A t \in A : t \o s[i] \in A
    BY <2>4, <2>5, ConcatProperties
  <2>7. PICK next : next = [i \in 1 .. N |-> [t \in A |-> IF i = 1 THEN s[i] ELSE t \o s[i]]]
    OBVIOUS
  <2>8. next \in nextsOn(A, N)
    BY <2>5, <2>6, <2>7 DEF nextsOn
  <2>9. PICK none \in A : TRUE
    BY <2>4, EmptySeq
  <2>10. PICK g : /\ g[0] = none
                   /\ \A n \in 1 .. N : g[n - 1] \in A /\ g[n] = next[n][g[n - 1]]
    BY <2>3, <2>8, <2>9, RecursionExists
  <2>11. PICK h : h = [i \in 1 .. N |-> g[i]]
    OBVIOUS
  <2>12. ASSUME NEW i \in 1 .. N PROVE h[i] = IF i = 1 THEN s[i] ELSE h[i - 1] \o s[i]
    <3>1. i - 1 \in 0 .. N
      OBVIOUS
    <3>2. g[i - 1] \in A
      BY <2>10, <3>1
    <3>3. g[i] = IF i = 1 THEN s[i] ELSE g[i - 1] \o s[i]
      BY <2>7, <2>10, <3>2
    <3>4. i # 1 => h[i - 1] = g[i - 1]
      BY <2>11
    <3> QED
      BY <2>11, <3>3, <3>4
  <2>13. defined(h)
    <3>1. h = [i \in 1 .. N |-> IF i = 1 THEN s[i] ELSE h[i - 1] \o s[i]]
      BY <2>11, <2>12
    <3> QED
      BY <2>3, <3>1
  <2>14. defined(f)
    <3> HIDE DEF defined
    <3> QED
      BY <2>1, <2>13
  <2>15. f = [i \in 1 .. N |-> IF i = 1 THEN s[i] ELSE f[i - 1] \o s[i]]
    BY <2>3, <2>14
  <2>16. f[1] \in A
    BY <2>5, <2>15
  <2>17. ASSUME NEW i \in 1 + 1 .. N, f[i - 1] \in A PROVE f[i] \in A
    <3>1. i \in 1 .. N /\ i # 1
      BY <2>3
    <3>2. f[i] = f[i - 1] \o s[i]
      BY <2>15, <3>1
    <3> QED
      BY <2>6, <2>17, <3>1, <3>2
  <2>18. \A i \in 1 .. N : f[i] \in A
    BY <2>3, <2>16, <2>17, ValueByValue
  <2> QED
    BY <2>2, <2>3, <2>4, <2>18
<1> QED
  BY <1>1, <1>2

-----------------------------------------------------------------------------
(* Taking an element out of a sequence and putting one in.                 *)

\* The place of the j-th when place i is left out.
leavingOut(i, j) == IF j < i THEN j ELSE j + 1

LEMMA RemovedAt ==
  ASSUME NEW A, NEW s \in Seq(A), NEW i \in 1 .. Len(s), NEW u, u = RemoveAt(s, i)
  PROVE  /\ u \in Seq(A) /\ Len(u) = Len(s) - 1
         /\ \A j \in 1 .. Len(s) - 1 : u[j] = s[leavingOut(i, j)]
<1>1. Len(s) \in Nat /\ i - 1 \in 0 .. Len(s)
  BY LenProperties
<1>2. PICK a, b : a = SubSeq(s, 1, i - 1) /\ b = SubSeq(s, i + 1, Len(s))
  OBVIOUS
<1>3. a \in Seq(A) /\ Len(a) = i - 1 /\ \A j \in 1 .. i - 1 : a[j] = s[j]
  BY <1>1, <1>2, PrefixProperties
<1>4. b \in Seq(A) /\ Len(b) = Len(s) - i /\ \A j \in 1 .. Len(s) - i : b[j] = s[i + j]
  <2>1. \A j \in i + 1 .. Len(s) : s[j] \in A
    BY <1>1, ElementOfSeq
  <2>2. b \in Seq(A) /\ Len(b) = Len(s) - i
    BY <1>1, <1>2, <2>1, SubSeqProperties
  <2>3. \A j \in 1 .. Len(s) - i : b[j] = s[i + 1 + j - 1]
    BY <1>1, <1>2, <2>1, SubSeqProperties
  <2> QED
    BY <1>1, <2>2, <2>3
<1>5. /\ u \in Seq(A) /\ Len(u) = Len(a) + Len(b)
      /\ \A j \in 1 .. Len(a) + Len(b) : u[j] = IF j <= Len(a) THEN a[j] ELSE b[j - Len(a)]
  <2>1. u = a \o b
    BY <1>2 DEF RemoveAt
  <2>2. a \in Seq(A) /\ b \in Seq(A)
    BY <1>3, <1>4
  <2> QED
    BY <2>1, <2>2, ConcatProperties
<1>6. ASSUME NEW j \in 1 .. Len(s) - 1 PROVE u[j] = s[leavingOut(i, j)]
  <2>1. j \in 1 .. Len(a) + Len(b)
    BY <1>1, <1>3, <1>4
  <2>2. CASE j < i
    BY <1>1, <1>3, <1>5, <2>1, <2>2 DEF leavingOut
  <2>3. CASE ~(j < i)
    <3>1. j - (i - 1) \in 1 .. Len(s) - i /\ i + (j - (i - 1)) = j + 1 /\ ~(j <= Len(a))
      BY <1>1, <1>3, <2>3
    <3>2. u[j] = b[j - (i - 1)]
      BY <1>3, <1>5, <2>1, <3>1
    <3> QED
      BY <1>4, <2>3, <3>1, <3>2 DEF leavingOut
  <2> QED
    BY <2>2, <2>3
<1>7. Len(u) = Len(s) - 1
  BY <1>1, <1>3, <1>4, <1>5
<1> QED
  BY <1>5, <1>6, <1>7

LEMMA InsertedAt ==
  ASSUME NEW A, NEW s \in Seq(A), NEW i \in 1 .. Len(s) + 1, NEW e \in A, NEW t, t = InsertAt(s, i, e)
  PROVE  /\ t \in Seq(A) /\ Len(t) = Len(s) + 1 /\ t[i] = e
         /\ \A j \in 1 .. Len(s) : t[leavingOut(i, j)] = s[j]
<1>1. Len(s) \in Nat /\ i - 1 \in 0 .. Len(s)
  BY LenProperties
<1>2. PICK a, b, c, o : a = SubSeq(s, 1, i - 1) /\ b = SubSeq(s, i, Len(s)) /\ o = <<e>> /\ c = a \o o
  OBVIOUS
<1>3. a \in Seq(A) /\ Len(a) = i - 1 /\ \A j \in 1 .. i - 1 : a[j] = s[j]
  BY <1>1, <1>2, PrefixProperties
<1>4. b \in Seq(A) /\ Len(b) = Len(s) + 1 - i /\ \A j \in 1 .. Len(s) + 1 - i : b[j] = s[i + j - 1]
  <2>1. \A j \in i .. Len(s) : s[j] \in A
    BY <1>1, ElementOfSeq
  <2>2. b \in Seq(A) /\ Len(b) = IF i <= Len(s) THEN Len(s) - i + 1 ELSE 0
    BY <1>1, <1>2, <2>1, SubSeqProperties
  <2>3. \A j \in 1 .. Len(s) - i + 1 : b[j] = s[i + j - 1]
    BY <1>1, <1>2, <2>1, SubSeqProperties
  <2>4. Len(b) = Len(s) + 1 - i /\ Len(s) - i + 1 = Len(s) + 1 - i
    BY <1>1, <2>2
  <2> QED
    BY <2>2, <2>3, <2>4
<1>5. o \in Seq(A) /\ Len(o) = 1 /\ o[1] = e
  BY <1>2
<1>6. /\ c \in Seq(A) /\ Len(c) = i
      /\ \A j \in 1 .. i : c[j] = IF j <= i - 1 THEN a[j] ELSE o[j - (i - 1)]
  <2>1. /\ c \in Seq(A) /\ Len(c) = Len(a) + Len(o)
        /\ \A j \in 1 .. Len(a) + Len(o) : c[j] = IF j <= Len(a) THEN a[j] ELSE o[j - Len(a)]
    BY <1>2, <1>3, <1>5, ConcatProperties
  <2>2. Len(a) + Len(o) = i
    BY <1>1, <1>3, <1>5
  <2> QED
    BY <1>3, <2>1, <2>2
<1>7. /\ t \in Seq(A) /\ Len(t) = Len(s) + 1
      /\ \A j \in 1 .. Len(s) + 1 : t[j] = IF j <= i THEN c[j] ELSE b[j - i]
  <2>1. t = c \o b
    BY <1>2 DEF InsertAt
  <2>2. /\ t \in Seq(A) /\ Len(t) = Len(c) + Len(b)
        /\ \A j \in 1 .. Len(c) + Len(b) : t[j] = IF j <= Len(c) THEN c[j] ELSE b[j - Len(c)]
    BY <1>4, <1>6, <2>1, ConcatProperties
  <2>3. Len(c) + Len(b) = Len(s) + 1
    BY <1>1, <1>4, <1>6
  <2> QED
    BY <1>6, <2>2, <2>3
<1>8. t[i] = e
  <2>1. i \in 1 .. Len(s) + 1 /\ i \in 1 .. i /\ ~(i <= i - 1) /\ i - (i - 1) = 1 /\ i <= i
    BY <1>1
  <2> QED
    BY <1>5, <1>6, <1>7, <2>1
<1>9. ASSUME NEW j \in 1 .. Len(s) PROVE t[leavingOut(i, j)] = s[j]
  <2>1. CASE j < i
    <3>1. j \in 1 .. Len(s) + 1 /\ j <= i /\ j \in 1 .. i /\ j <= i - 1 /\ j \in 1 .. i - 1
      BY <1>1, <2>1
    <3>2. t[j] = c[j] /\ c[j] = a[j] /\ a[j] = s[j]
      BY <1>3, <1>6, <1>7, <3>1
    <3> QED
      BY <2>1, <3>2 DEF leavingOut
  <2>2. CASE ~(j < i)
    <3>1. /\ j + 1 \in 1 .. Len(s) + 1 /\ ~(j + 1 <= i) /\ j + 1 - i \in 1 .. Len(s) + 1 - i
          /\ i + (j + 1 - i) - 1 = j
      BY <1>1, <2>2
    <3>2. t[j + 1] = b[j + 1 - i]
      BY <1>7, <3>1
    <3>3. b[j + 1 - i] = s[j]
      BY <1>4, <3>1
    <3> QED
      BY <2>2, <3>2, <3>3 DEF leavingOut
  <2> QED
    BY <2>1, <2>2
<1> QED
  BY <1>7, <1>8, <1>9

LEMMA TakenBack ==
  ASSUME NEW A, NEW s \in Seq(A), NEW i \in 1 .. Len(s) + 1, NEW e \in A, NEW t, t = InsertAt(s, i, e)
  PROVE  RemoveAt(t, i) = s
<1>1. Len(s) \in Nat
  BY LenProperties
<1>2. /\ t \in Seq(A) /\ Len(t) = Len(s) + 1
      /\ \A j \in 1 .. Len(s) : t[leavingOut(i, j)] = s[j]
  BY InsertedAt
<1>3. PICK w : w = RemoveAt(t, i)
  OBVIOUS
<1>4. i \in 1 .. Len(t)
  BY <1>2
<1>5. PICK n \in 1 .. Len(t) : n = i
  BY <1>4
<1>6. t \in Seq(A) /\ w = RemoveAt(t, n)
  BY <1>2, <1>3, <1>5
<1>7. /\ w \in Seq(A) /\ Len(w) = Len(t) - 1
      /\ \A j \in 1 .. Len(t) - 1 : w[j] = t[leavingOut(n, j)]
  BY <1>5, <1>6, RemovedAt
<1>8. Len(w) = Len(s) /\ Len(t) - 1 = Len(s)
  BY <1>1, <1>2, <1>7
<1>9. \A j \in 1 .. Len(w) : w[j] = s[j]
  BY <1>2, <1>5, <1>7, <1>8
<1>10. w \in Seq(A)
  BY <1>7
<1> QED
  BY <1>3, <1>8, <1>9, <1>10, SeqEqual

LEMMA RemoveAtSet ==
    ASSUME NEW A, NEW s \in Seq(A), NEW i \in DOMAIN s
    PROVE  /\ RemoveAt(s, i) \in Seq(A) /\ ToSet(RemoveAt(s, i)) \subseteq ToSet(s)
           /\ \A j \in DOMAIN s : j # i => s[j] \in ToSet(RemoveAt(s, i))
<1>1. Len(s) \in Nat /\ DOMAIN s = 1 .. Len(s) /\ i \in 1 .. Len(s)
      /\ ToSet(s) = {s[j] : j \in 1 .. Len(s)}
  BY ToSetFacts
<1>2. PICK u : u = RemoveAt(s, i)
  OBVIOUS
<1>3. /\ u \in Seq(A) /\ Len(u) = Len(s) - 1
      /\ \A j \in 1 .. Len(s) - 1 : u[j] = s[leavingOut(i, j)]
  BY <1>1, <1>2, RemovedAt
<1>4. ToSet(u) = {u[j] : j \in 1 .. Len(s) - 1}
  BY <1>3, ToSetFacts
<1>5. ASSUME NEW j \in 1 .. Len(s) - 1 PROVE u[j] \in ToSet(s)
  <2>1. leavingOut(i, j) \in 1 .. Len(s)
    BY <1>1 DEF leavingOut
  <2> QED
    BY <1>1, <1>3, <2>1
<1>6. ASSUME NEW j \in DOMAIN s, j # i PROVE s[j] \in ToSet(u)
  <2>1. PICK m : m = IF j < i THEN j ELSE j - 1
    OBVIOUS
  <2>2. m \in 1 .. Len(s) - 1 /\ leavingOut(i, m) = j
    BY <1>1, <1>6, <2>1 DEF leavingOut
  <2>3. u[m] = s[j]
    BY <1>3, <2>2
  <2> QED
    BY <1>4, <2>2, <2>3
<1> QED
  BY <1>2, <1>3, <1>4, <1>5, <1>6

=============================================================================
