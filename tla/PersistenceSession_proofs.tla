---------------------- MODULE PersistenceSession_proofs ----------------------
(***************************************************************************)
(* Proofs about PersistenceSession: the session knows who made each entry  *)
(* of the engine's history, for every number of changes, faults, undos and *)
(* sessions, every history budget, and with or without cancellation and    *)
(* remote operations in a conflict.                                        *)
(***************************************************************************)
EXTENDS PersistenceSession, SequenceLemmas

-----------------------------------------------------------------------------
(* Suffixes.  Which set its elements are from matters to no queue here.    *)
IsSeq(s) == \E S : s \in Seq(S)

LEMMA ReverseFacts ==
  ASSUME NEW S, NEW s \in Seq(S)
  PROVE  /\ Reverse(s) \in Seq(S) /\ Len(Reverse(s)) = Len(s)
         /\ \A i \in 1 .. Len(s) : Reverse(s)[i] = s[Len(s) - i + 1]
<1>1. Len(s) \in Nat
  BY LenProperties
<1>2. \A i \in 1 .. Len(s) : s[Len(s) - i + 1] \in S
  BY <1>1, ElementOfSeq
<1>3. Reverse(s) = [i \in 1 .. Len(s) |-> s[Len(s) - i + 1]]
  BY DEF Reverse
<1>4. Reverse(s) \in [1 .. Len(s) -> S]
  BY <1>2, <1>3
<1>5. Reverse(s) \in Seq(S)
  BY <1>1, <1>4, SeqDef
<1>6. DOMAIN Reverse(s) = 1 .. Len(s) /\ DOMAIN Reverse(s) = 1 .. Len(Reverse(s))
      /\ Len(Reverse(s)) \in Nat
  BY <1>3, <1>5, LenProperties
<1>7. Len(Reverse(s)) = Len(s)
  BY <1>1, <1>6
<1>. QED
  BY <1>3, <1>5, <1>7

(* A suffix, place by place.                                               *)
LEMMA SuffixPlaces ==
  ASSUME NEW S, NEW s \in Seq(S), NEW T, NEW t \in Seq(T)
  PROVE  IsSuffix(s, t) <=>
           /\ Len(s) <= Len(t)
           /\ \A i \in 1 .. Len(s) : s[i] = t[Len(t) - Len(s) + i]
<1>. DEFINE rs == Reverse(s)
            rt == Reverse(t)
            n  == Len(s)
            m  == Len(t)
            ps == SubSeq(rs, 1, n)
            pt == SubSeq(rt, 1, n)
            U  == S \cup T
<1>1. n \in Nat /\ m \in Nat /\ s \in Seq(U) /\ t \in Seq(U)
  BY LenProperties, SeqMonotonic
<1>2. /\ rs \in Seq(U) /\ Len(rs) = n /\ \A i \in 1 .. n : rs[i] = s[n - i + 1]
  BY <1>1, ReverseFacts
<1>3. /\ rt \in Seq(U) /\ Len(rt) = m /\ \A i \in 1 .. m : rt[i] = t[m - i + 1]
  BY <1>1, ReverseFacts
<1>. HIDE DEF rs, rt, n, m, U
<1>4. IsSuffix(s, t) <=> n <= m /\ ps = pt
  BY <1>2, <1>3 DEF IsSuffix, IsPrefix, rs, rt
<1>5. CASE n <= m
  <2>1. n \in 0 .. Len(rs) /\ n \in 0 .. Len(rt)
    BY <1>1, <1>2, <1>3, <1>5
  <2>2. ps \in Seq(U) /\ Len(ps) = n /\ \A i \in 1 .. n : ps[i] = rs[i]
    BY <1>2, <2>1, PrefixProperties
  <2>3. pt \in Seq(U) /\ Len(pt) = n /\ \A i \in 1 .. n : pt[i] = rt[i]
    BY <1>3, <2>1, PrefixProperties
  <2>. HIDE DEF ps, pt
  <2>4. ps = pt <=> \A i \in 1 .. n : ps[i] = pt[i]
    BY <2>2, <2>3, SeqEqual
  <2>5. ASSUME \A i \in 1 .. n : ps[i] = pt[i], NEW i \in 1 .. n
        PROVE  s[i] = t[m - n + i]
    <3>1. PICK j : j = n - i + 1
      OBVIOUS
    <3>2. j \in 1 .. n /\ j \in 1 .. m /\ n - j + 1 = i /\ m - j + 1 = m - n + i
      BY <1>1, <1>5, <3>1
    <3>3. ps[j] = s[i]
      BY ONLY <1>2, <2>2, <3>2
    <3>4. pt[j] = t[m - n + i]
      BY ONLY <1>3, <2>3, <3>2
    <3>5. ps[j] = pt[j]
      BY ONLY <2>5, <3>2
    <3>. QED
      BY ONLY <3>3, <3>4, <3>5
  <2>6. ASSUME \A i \in 1 .. n : s[i] = t[m - n + i], NEW j \in 1 .. n
        PROVE  ps[j] = pt[j]
    <3>1. PICK i : i = n - j + 1
      OBVIOUS
    <3>2. i \in 1 .. n /\ j \in 1 .. m /\ m - n + i = m - j + 1
      BY <1>1, <1>5, <3>1
    <3>3. ps[j] = s[i]
      BY ONLY <1>2, <2>2, <3>1
    <3>4. pt[j] = t[m - n + i]
      BY ONLY <1>3, <2>3, <3>2
    <3>. QED
      BY ONLY <2>6, <3>2, <3>3, <3>4
  <2>. QED
    BY <1>4, <1>5, <2>4, <2>5, <2>6 DEF n, m
<1>6. CASE ~(n <= m)
  BY <1>4, <1>6 DEF n, m
<1>. QED
  BY <1>5, <1>6

(* A suffix is what a sequence ends with.                                  *)
LEMMA SuffixIsEnd ==
  ASSUME NEW S, NEW a \in Seq(S), NEW s \in Seq(S)
  PROVE  IsSuffix(s, a \o s)
<1>1. /\ a \o s \in Seq(S) /\ Len(a \o s) = Len(a) + Len(s)
      /\ \A i \in 1 .. Len(a) + Len(s) :
           (a \o s)[i] = IF i <= Len(a) THEN a[i] ELSE s[i - Len(a)]
  BY ConcatProperties
<1>2. Len(a) \in Nat /\ Len(s) \in Nat
  BY LenProperties
<1>3. PICK w : w = a \o s
  OBVIOUS
<1>4. ASSUME NEW i \in 1 .. Len(s)
      PROVE  s[i] = w[Len(w) - Len(s) + i]
  <2>1. PICK j : j = Len(w) - Len(s) + i
    OBVIOUS
  <2>2. j \in 1 .. Len(a) + Len(s) /\ ~(j <= Len(a)) /\ j - Len(a) = i
    BY <1>1, <1>2, <1>3, <2>1
  <2>. QED
    BY <1>1, <1>3, <2>1, <2>2
<1>5. Len(s) <= Len(w) /\ w \in Seq(S)
  BY <1>1, <1>2, <1>3
<1>. QED
  BY <1>3, <1>4, <1>5, SuffixPlaces

LEMMA EndOfSuffix ==
  ASSUME NEW S, NEW s \in Seq(S), NEW T, NEW p \in Seq(T), IsSuffix(p, s)
  PROVE  /\ p \in Seq(S)
         /\ Len(s) - Len(p) \in 0 .. Len(s)
         /\ SubSeq(s, 1, Len(s) - Len(p)) \in Seq(S)
         /\ s = SubSeq(s, 1, Len(s) - Len(p)) \o p
<1>. DEFINE k == Len(s) - Len(p)
            b == SubSeq(s, 1, k)
<1>1. Len(s) \in Nat /\ Len(p) \in Nat /\ p \in [1 .. Len(p) -> T]
  BY LenProperties
<1>2. Len(p) <= Len(s) /\ \A i \in 1 .. Len(p) : p[i] = s[k + i]
  BY SuffixPlaces
<1>3. k \in 0 .. Len(s)
  BY <1>1, <1>2
<1>4. b \in Seq(S) /\ Len(b) = k /\ \A i \in 1 .. k : b[i] = s[i]
  BY <1>3, PrefixProperties
<1>. HIDE DEF b
<1>5. ASSUME NEW i \in 1 .. Len(p)
      PROVE  p[i] \in S
  <2>1. PICK j : j = k + i
    OBVIOUS
  <2>2. j \in 1 .. Len(s) /\ p[i] = s[j]
    BY <1>1, <1>2, <2>1
  <2>. QED
    BY <2>2, ElementOfSeq
<1>6. p \in [1 .. Len(p) -> S]
  BY <1>1, <1>5
<1>7. p \in Seq(S)
  BY <1>1, <1>6, SeqDef
<1>8. /\ b \o p \in Seq(S) /\ Len(b \o p) = Len(b) + Len(p)
      /\ \A i \in 1 .. Len(b) + Len(p) :
           (b \o p)[i] = IF i <= Len(b) THEN b[i] ELSE p[i - Len(b)]
  BY <1>4, <1>7, ConcatProperties
<1>9. PICK w : w = b \o p
  OBVIOUS
<1>10. ASSUME NEW i \in 1 .. Len(s)
       PROVE  s[i] = w[i]
  <2>1. i \in 1 .. Len(b) + Len(p)
    BY <1>1, <1>4
  <2>2. CASE i <= k
    BY <1>1, <1>4, <1>8, <1>9, <2>1, <2>2
  <2>3. CASE ~(i <= k)
    <3>1. PICK j : j = i - k
      OBVIOUS
    <3>2. j \in 1 .. Len(p) /\ k + j = i
      BY <1>1, <1>3, <2>3, <3>1
    <3>3. w[i] = p[j]
      BY <1>4, <1>8, <1>9, <2>1, <2>3, <3>1
    <3>. QED
      BY <1>2, <3>2, <3>3
  <2>. QED
    BY <2>2, <2>3
<1>11. Len(w) = Len(s) /\ w \in Seq(S)
  BY <1>1, <1>4, <1>8, <1>9
<1>12. s = w
  BY <1>10, <1>11, SeqEqual
<1>. QED
  BY <1>3, <1>4, <1>7, <1>9, <1>12 DEF b

LEMMA CancelRight ==
  ASSUME NEW S, NEW s \in Seq(S), NEW t \in Seq(S), NEW v \in Seq(S), s \o v = t \o v
  PROVE  s = t
BY ConcatSimplifications

LEMMA FrontOfAppend ==
  ASSUME NEW S, NEW s \in Seq(S), NEW x \in S
  PROVE  Front(Append(s, x)) = s
<1>. DEFINE u == Append(s, x)
<1>1. /\ u \in Seq(S) /\ u # <<>> /\ Len(u) = Len(s) + 1
      /\ \A i \in 1 .. Len(s) : u[i] = s[i]
  BY AppendProperties
<1>. HIDE DEF u
<1>2. /\ Front(u) \in Seq(S) /\ Len(Front(u)) = Len(u) - 1
      /\ \A i \in 1 .. Len(u) - 1 : Front(u)[i] = u[i]
  BY <1>1, FrontProperties
<1>3. Len(s) \in Nat
  BY LenProperties
<1>4. Len(Front(u)) = Len(s) /\ \A i \in 1 .. Len(s) : Front(u)[i] = s[i]
  BY <1>1, <1>2, <1>3
<1>5. Front(u) = s
  BY <1>2, <1>4, SeqEqual
<1>. QED
  BY <1>5 DEF u

-----------------------------------------------------------------------------
(* The owners o end with the history h.                                    *)
Covered(h, o) ==
  \E S : h \in Seq(S) /\ \E a \in Seq(S) : o = a \o h

LEMMA CoveredIsSuffix ==
  ASSUME NEW h, NEW o, Covered(h, o)
  PROVE  IsSuffix(h, o)
BY SuffixIsEnd DEF Covered

LEMMA NothingCovered == Covered(<<>>, <<>>)
<1>1. <<>> \in Seq({}) /\ <<>> = <<>> \o <<>>
  BY EmptySeq, ConcatEmptySeq
<1>. QED
  BY <1>1 DEF Covered

(* An entry more, of which the session knows.                              *)
LEMMA CoveredAppend ==
  ASSUME NEW h, NEW o, NEW x, Covered(h, o)
  PROVE  Covered(Append(h, x), Append(o, x))
<1>1. PICK S : h \in Seq(S) /\ \E a \in Seq(S) : o = a \o h
  BY DEF Covered
<1>2. PICK a \in Seq(S) : o = a \o h
  BY <1>1
<1>. DEFINE U == S \cup {x}
<1>3. h \in Seq(U) /\ a \in Seq(U) /\ x \in U
  BY <1>1, <1>2, SeqMonotonic
<1>. HIDE DEF U
<1>4. <<x>> \in Seq(U)
  BY <1>3
<1>5. Append(h, x) = h \o <<x>> /\ h \o <<x>> \in Seq(U)
  BY <1>3, <1>4, AppendIsConcat, ConcatProperties
<1>6. a \o h \in Seq(U)
  BY <1>3, ConcatProperties
<1>7. Append(a \o h, x) = (a \o h) \o <<x>>
  BY <1>3, <1>6, AppendIsConcat
<1>8. (a \o h) \o <<x>> = a \o (h \o <<x>>)
  BY <1>3, <1>4, ConcatAssociative
<1>. QED
  BY <1>2, <1>3, <1>5, <1>7, <1>8 DEF Covered

(* The oldest entry is evicted.                                            *)
LEMMA CoveredTail ==
  ASSUME NEW h, NEW o, Covered(h, o), h # <<>>
  PROVE  Covered(Tail(h), o)
<1>1. PICK S : h \in Seq(S) /\ \E a \in Seq(S) : o = a \o h
  BY DEF Covered
<1>2. PICK a \in Seq(S) : o = a \o h
  BY <1>1
<1>3. Append(a, Head(h)) \o Tail(h) = a \o h
  BY <1>1, ConcatHead
<1>4. Head(h) \in S /\ Tail(h) \in Seq(S)
  BY <1>1, HeadTailProperties
<1>5. Append(a, Head(h)) \in Seq(S)
  BY <1>4, AppendProperties
<1>. QED
  BY <1>2, <1>3, <1>4, <1>5 DEF Covered

(* The newest entry and its owner go.                                      *)
LEMMA CoveredFront ==
  ASSUME NEW h, NEW o, Covered(h, o), h # <<>>
  PROVE  Covered(Front(h), Front(o)) /\ o # <<>>
<1>1. PICK S : h \in Seq(S) /\ \E a \in Seq(S) : o = a \o h
  BY DEF Covered
<1>2. PICK a \in Seq(S) : o = a \o h
  BY <1>1
<1>3. Front(o) = a \o Front(h) /\ Front(h) \in Seq(S)
  BY <1>1, <1>2, ConcatFront, FrontIsSeq
<1>4. o # <<>>
  BY <1>1, <1>2, ConcatEqualIffEmpty
<1>. QED
  BY <1>3, <1>4 DEF Covered

(* The newest entries and their owners make way for others.                *)
LEMMA CoveredSpliced ==
  ASSUME NEW h, NEW o, NEW p, NEW r, Covered(h, o), IsSeq(p), IsSeq(r), IsSuffix(p, h)
  PROVE  Covered(spliced(h, Len(p), r), spliced(o, Len(p), r))
<1>1. PICK S : h \in Seq(S) /\ \E a \in Seq(S) : o = a \o h
  BY DEF Covered
<1>2. PICK a \in Seq(S) : o = a \o h
  BY <1>1
<1>3. PICK T : p \in Seq(T)
  BY DEF IsSeq
<1>4. PICK R : r \in Seq(R)
  BY DEF IsSeq
<1>. DEFINE b == SubSeq(h, 1, Len(h) - Len(p))
            c == a \o b
            U == S \cup R
<1>5. p \in Seq(S) /\ b \in Seq(S) /\ h = b \o p
  BY <1>1, <1>3, EndOfSuffix
<1>. HIDE DEF b
<1>6. c \in Seq(S) /\ o = c \o p /\ o \in Seq(S)
  BY <1>1, <1>2, <1>5, ConcatAssociative, ConcatProperties
<1>7. SubSeq(o, 1, Len(o) - Len(p)) = c
  <2>1. IsSuffix(p, o)
    BY <1>5, <1>6, SuffixIsEnd
  <2>2. /\ SubSeq(o, 1, Len(o) - Len(p)) \in Seq(S)
        /\ o = SubSeq(o, 1, Len(o) - Len(p)) \o p
    BY ONLY <1>3, <1>6, <2>1, EndOfSuffix
  <2>. QED
    BY <1>5, <1>6, <2>2, CancelRight
<1>8. a \in Seq(U) /\ b \in Seq(U) /\ r \in Seq(U)
  BY <1>2, <1>4, <1>5, SeqMonotonic
<1>9. c \o r = a \o (b \o r) /\ b \o r \in Seq(U)
  BY <1>8, ConcatAssociative, ConcatProperties
<1>10. spliced(h, Len(p), r) = b \o r
  BY DEF spliced, b
<1>11. spliced(o, Len(p), r) = c \o r
  BY <1>7 DEF spliced
<1>. QED
  BY <1>8, <1>9, <1>10, <1>11 DEF Covered

LEMMA CoveredRecorded ==
  ASSUME NEW h, NEW o, NEW x, Covered(h, o)
  PROVE  /\ Covered(recorded(h, x), Append(o, x))
         /\ recorded(h, x) # <<>> => Covered(Front(recorded(h, x)), o)
<1>1. PICK S : h \in Seq(S) /\ \E a \in Seq(S) : o = a \o h
  BY DEF Covered
<1>2. PICK a \in Seq(S) : o = a \o h
  BY <1>1
<1>. DEFINE U == S \cup {x}
            all == Append(h, x)
<1>3. h \in Seq(U) /\ a \in Seq(U) /\ x \in U
  BY <1>1, <1>2, SeqMonotonic
<1>. HIDE DEF U
<1>4. all \in Seq(U) /\ all # <<>>
  BY <1>3, AppendProperties
<1>5. Covered(all, Append(o, x))
  BY CoveredAppend
<1>6. Front(all) = h
  BY <1>3, FrontOfAppend
<1>. HIDE DEF all
<1>7. recorded(h, x) = all \/ recorded(h, x) = Tail(all)
  BY DEF recorded, all
<1>8. CASE recorded(h, x) = all
  BY <1>5, <1>6, <1>8
<1>9. CASE recorded(h, x) = Tail(all)
  <2>1. Covered(Tail(all), Append(o, x))
    BY <1>4, <1>5, CoveredTail
  <2>2. Tail(all) = IF h = <<>> THEN <<>> ELSE Append(Tail(h), x)
    BY <1>3, HeadTailAppend DEF all
  <2>3. ASSUME Tail(all) # <<>>
        PROVE  Covered(Front(Tail(all)), o)
    <3>1. h # <<>> /\ Tail(all) = Append(Tail(h), x)
      BY <2>2, <2>3
    <3>2. Tail(h) \in Seq(U)
      BY <1>3, <3>1, HeadTailProperties
    <3>3. Front(Append(Tail(h), x)) = Tail(h)
      BY <1>3, <3>2, FrontOfAppend
    <3>4. Covered(Tail(h), o)
      BY <3>1, CoveredTail
    <3>. QED
      BY <3>1, <3>3, <3>4
  <2>. QED
    BY <1>9, <2>1, <2>3
<1>. QED
  BY <1>7, <1>8, <1>9

-----------------------------------------------------------------------------
(* The inductive invariant.  A session that has not stopped owns the       *)
(* history of the engine; the queue of the coordinator and the             *)
(* transactions that a replacement has taken back are sequences.           *)
EngineIs(e) ==
  e = [doc |-> e.doc, history |-> e.history, redo |-> e.redo, source |-> e.source]
SessionIs(s) ==
  s = [epoch |-> s.epoch, owners |-> s.owners, order |-> s.order, own |-> s.own,
       rev |-> s.rev, base |-> s.base, pre |-> s.pre, stopped |-> s.stopped,
       reloading |-> s.reloading, raced |-> s.raced]
CoordinatorIs(c) ==
  c = [mode |-> c.mode, queue |-> c.queue, rev |-> c.rev, expected |-> c.expected,
       flight |-> c.flight, answer |-> c.answer, seen |-> c.seen, cancelling |-> c.cancelling]
ReplacementIs(r) ==
  r = [at |-> r.at, how |-> r.how, epoch |-> r.epoch, records |-> r.records, taken |-> r.taken]

Owned(e, s) ==
  /\ EngineIs(e) /\ SessionIs(s)
  /\ s.reloading => s.stopped
  /\ ~s.stopped => Covered(e.history, s.owners)
Queued(c) ==
  /\ CoordinatorIs(c) /\ IsSeq(c.queue)
  /\ c.flight = "answered" => c.answer \in {"acknowledged", "rejected", "conflicted", "thrown"}
Taken(r) == ReplacementIs(r) /\ IsSeq(r.taken)

SessionInv == Owned(engine, session) /\ Queued(coordinator) /\ Taken(replacing)

-----------------------------------------------------------------------------
(* What the steps do to the parts.                                         *)
LEMMA SeqSteps ==
  ASSUME NEW s, IsSeq(s), NEW x
  PROVE  /\ IsSeq(Append(s, x)) /\ IsSeq(Front(s)) /\ IsSeq(<<x>> \o s)
         /\ IsSeq(txOf(s)) /\ IsSeq(shift(s))
<1>1. PICK S : s \in Seq(S)
  BY DEF IsSeq
<1>. DEFINE U == S \cup {x}
<1>2. s \in Seq(U) /\ x \in U
  BY <1>1, SeqMonotonic
<1>. HIDE DEF U
<1>3. Append(s, x) \in Seq(U) /\ Front(s) \in Seq(U) /\ <<x>> \in Seq(U)
  BY <1>2, AppendProperties, FrontIsSeq
<1>4. <<x>> \o s \in Seq(U)
  BY <1>2, <1>3, ConcatProperties
<1>5. IsSeq(txOf(s))
  <2>. DEFINE T == {y.tx : y \in S}
  <2>1. Len(s) \in Nat /\ s \in [1 .. Len(s) -> S] /\ DOMAIN s = 1 .. Len(s)
    BY <1>1, LenProperties
  <2>2. txOf(s) \in [1 .. Len(s) -> T]
    BY <2>1 DEF txOf
  <2>3. txOf(s) \in Seq(T)
    BY <2>1, <2>2, SeqDef
  <2>. QED
    BY <2>3 DEF IsSeq
<1>6. IsSeq(shift(s))
  <2>1. Len(s) \in Nat /\ \A i \in 2 .. Len(s) : s[i] \in S
    BY <1>1, LenProperties, ElementOfSeq
  <2>2. SubSeq(s, 2, Len(s)) \in Seq(S)
    BY <2>1, SubSeqProperties
  <2>. QED
    BY <2>2 DEF IsSeq, shift
<1>. QED
  BY <1>3, <1>4, <1>5, <1>6 DEF IsSeq

LEMMA EmptyIsSeq == IsSeq(<<>>)
<1>1. <<>> \in Seq({})
  BY EmptySeq
<1>. QED
  BY <1>1 DEF IsSeq

(* A session that is to reload has stopped, whatever the engine holds.     *)
LEMMA OwnedReload ==
  ASSUME NEW e, NEW s, NEW e2, Owned(e, s), EngineIs(e2)
  PROVE  Owned(e2, requestReload(s))
<1>1. CASE s.reloading
  BY <1>1 DEF Owned, requestReload
<1>2. CASE ~s.reloading
  <2>1. PICK own : requestReload(s) = [s EXCEPT !.reloading = TRUE, !.stopped = TRUE, !.own = own]
    BY <1>2 DEF requestReload
  <2>. QED
    BY <2>1 DEF Owned, SessionIs
<1>. QED
  BY <1>1, <1>2

(* What is outside the history, its owners and the two flags is free.      *)
LEMMA OwnedSame ==
  ASSUME NEW e, NEW s, NEW e2, NEW s2, Owned(e, s), EngineIs(e2), SessionIs(s2),
         e2.history = e.history, s2.owners = s.owners,
         s2.stopped = s.stopped, s2.reloading = s.reloading
  PROVE  Owned(e2, s2)
BY DEF Owned

LEMMA OwnedHandled ==
  ASSUME NEW e, NEW s, NEW c, NEW status, NEW rev, Owned(e, s)
  PROVE  Owned(handled(s, e, c, status, rev).engine, handled(s, e, c, status, rev).session)
<1>. DEFINE next == [s EXCEPT !.own = transition(@, c.tx, status),
                              !.order = removePendingRecord(@, c.tx)]
            H == handled(s, e, c, status, rev)
<1>1. ASSUME NEW own
      PROVE  Owned(e, [s EXCEPT !.own = own])
  <2>1. PICK s2 : s2 = [s EXCEPT !.own = own]
    OBVIOUS
  <2>2. /\ SessionIs(s2) /\ s2.owners = s.owners
        /\ s2.stopped = s.stopped /\ s2.reloading = s.reloading
    BY <2>1 DEF Owned, SessionIs
  <2>3. EngineIs(e) /\ e.history = e.history
    BY DEF Owned
  <2>. QED
    BY <2>1, <2>2, <2>3, OwnedSame
<1>2. ASSUME NEW own
      PROVE  Owned(e, requestReload([s EXCEPT !.own = own]))
  BY <1>1, OwnedReload DEF Owned
<1>3. ASSUME NEW own, NEW order
      PROVE  /\ Owned(e, [s EXCEPT !.own = own, !.order = order])
             /\ Owned([e EXCEPT !.source = rev], [s EXCEPT !.own = own, !.order = order])
  <2>1. PICK s2 : s2 = [s EXCEPT !.own = own, !.order = order]
    OBVIOUS
  <2>2. PICK e2 : e2 = [e EXCEPT !.source = rev]
    OBVIOUS
  <2>3. /\ SessionIs(s2) /\ s2.owners = s.owners
        /\ s2.stopped = s.stopped /\ s2.reloading = s.reloading
    BY <2>1 DEF Owned, SessionIs
  <2>4. EngineIs(e2) /\ e2.history = e.history /\ EngineIs(e)
    BY <2>2 DEF Owned, EngineIs
  <2>. QED
    BY <2>1, <2>2, <2>3, <2>4, OwnedSame
<1>4. Owned(e, next) /\ Owned([e EXCEPT !.source = rev], [next EXCEPT !.own[c.tx].rev = rev])
  <2>1. Owned(e, next)
    BY <1>3
  <2>2. PICK own : own = [transition(s.own, c.tx, status) EXCEPT ![c.tx].rev = rev]
    OBVIOUS
  <2>3. [next EXCEPT !.own[c.tx].rev = rev]
          = [s EXCEPT !.own = own, !.order = removePendingRecord(@, c.tx)]
    BY <2>2 DEF Owned, SessionIs
  <2>. QED
    BY <1>3, <2>1, <2>3
<1>5. \/ H = [session |-> requestReload([s EXCEPT !.own = transition(@, c.tx, "reloadRequired")]),
              engine |-> e]
      \/ H = [session |-> [next EXCEPT !.own[c.tx].rev = rev],
              engine |-> [e EXCEPT !.source = rev]]
      \/ H = [session |-> requestReload([s EXCEPT !.own = transition(@, c.tx, status)]),
              engine |-> e]
      \/ H = [session |-> next, engine |-> e]
  BY DEF handled
<1>. HIDE DEF next, H
<1>6. Owned(H.engine, H.session)
  BY <1>2, <1>4, <1>5
<1>. QED
  BY <1>6 DEF H

-----------------------------------------------------------------------------
(* The coordinator's steps touch its own queue and the replacement only.   *)
LEMMA CancelKeeps ==
  ASSUME Queued(coordinator), NEW t, Cancel(t)
  PROVE  Queued(coordinator')
<1>1. CASE takesBack
  <2>1. IsSeq(Front(coordinator.queue))
    BY SeqSteps DEF Queued
  <2>2. coordinator' = [coordinator EXCEPT !.queue = Front(@), !.cancelling = FALSE,
                         !.flight = IF Len(coordinator.queue) = 1 THEN "idle" ELSE @]
    BY <1>1 DEF takesBack
  <2>. QED
    BY <2>1, <2>2 DEF Queued, CoordinatorIs
<1>2. CASE coordinator' = [coordinator EXCEPT !.cancelling = TRUE]
  BY <1>2 DEF Queued, CoordinatorIs
<1>3. CASE UNCHANGED coordinator
  BY <1>3
<1>4. cancelStarts(t) \in {"cancelled", "asked", "declined"}
  BY DEF cancelStarts
<1>. QED
  BY <1>1, <1>2, <1>3, <1>4 DEF Cancel

LEMMA CoordinatorSteps ==
  ASSUME Queued(coordinator), Send \/ Commit \/ CommitThrows \/ Answered \/ Recovered \/ CancelAnswered
  PROVE  Queued(coordinator')
<1>0. IsSeq(shift(coordinator.queue))
  BY SeqSteps DEF Queued
<1>1. CASE Send
  BY <1>1 DEF Queued, CoordinatorIs, Send
<1>2. CASE Commit
  BY <1>2 DEF Queued, CoordinatorIs, Commit, replies
<1>3. CASE CommitThrows
  BY <1>3 DEF Queued, CoordinatorIs, CommitThrows, replies
<1>4. CASE Answered
  <2>1. CASE coordinator.answer = "acknowledged"
    BY <1>0, <1>4, <2>1 DEF Queued, CoordinatorIs, Answered
  <2>2. CASE coordinator.answer \in {"rejected", "conflicted"}
    BY <1>4, <2>2 DEF Queued, CoordinatorIs, Answered
  <2>3. CASE coordinator.answer = "thrown"
    BY <1>4, <2>3 DEF Queued, CoordinatorIs, Answered, suspended
  <2>. QED
    BY <1>4, <2>1, <2>2, <2>3 DEF Queued, Answered
<1>5. CASE Recovered
  <2>1. CASE coordinator.mode = "rolledBack"
    BY <1>0, <1>5, <2>1 DEF Queued, CoordinatorIs, Recovered
  <2>2. CASE coordinator.mode # "rolledBack"
    BY <1>5, <2>2 DEF Queued, CoordinatorIs, Recovered, suspended
  <2>. QED
    BY <2>1, <2>2
<1>6. CASE CancelAnswered
  <2>1. CASE takesBack
    <3>1. IsSeq(Front(coordinator.queue))
      BY SeqSteps DEF Queued
    <3>. QED
      BY <2>1, <3>1 DEF takesBack, Queued, CoordinatorIs
  <2>2. CASE coordinator' = [coordinator EXCEPT !.cancelling = FALSE]
    BY <2>2 DEF Queued, CoordinatorIs
  <2>. QED
    BY <1>6, <2>1, <2>2 DEF CancelAnswered
<1>. QED
  BY <1>1, <1>2, <1>3, <1>4, <1>5, <1>6

LEMMA CoordinatesKeep ==
  ASSUME SessionInv, Send \/ Commit \/ CommitThrows \/ Answered \/ Recovered \/ CancelAnswered
  PROVE  SessionInv'
<1>1. Queued(coordinator')
  BY CoordinatorSteps DEF SessionInv
<1>2. UNCHANGED <<engine, session, replacing>>
  BY DEF Send, Commit, CommitThrows, Answered, Recovered, CancelAnswered, callVars
<1>. QED
  BY <1>1, <1>2 DEF SessionInv

-----------------------------------------------------------------------------
(* Works of the editor's queue.                                            *)
LEMMA RunExecuteKeeps ==
  ASSUME SessionInv, RunExecute
  PROVE  SessionInv'
<1>1. UNCHANGED replacing
  BY DEF RunExecute
<1>. DEFINE tx == Head(tail).tx
            c  == [tx |-> tx, of |-> tx]
            h  == recorded(engine.history, tx)
            done == [engine EXCEPT !.doc = applyChange(@, c), !.redo = FALSE,
                                   !.history = recorded(@, c.tx)]
<1>2. EngineIs(done) /\ done.history = h
  <2>1. PICK doc, history : doc = applyChange(engine.doc, c) /\ history = h
    OBVIOUS
  <2>2. PICK d : d = [engine EXCEPT !.doc = doc, !.redo = FALSE, !.history = history]
    OBVIOUS
  <2>3. d = done
    BY <2>1, <2>2
  <2>. HIDE DEF done, h
  <2>4. EngineIs(engine)
    BY DEF SessionInv, Owned
  <2>5. d.history = history /\ EngineIs(d)
    BY <2>2, <2>4 DEF EngineIs
  <2>. QED
    BY <2>1, <2>3, <2>5
<1>3. ASSUME mutable
      PROVE  /\ Covered(h, Append(session.owners, tx))
             /\ h # <<>> => Covered(Front(h), session.owners)
             /\ ~session.stopped /\ ~session.reloading
  <2>1. Covered(engine.history, session.owners) /\ ~session.stopped /\ ~session.reloading
    BY <1>3 DEF SessionInv, Owned, mutable
  <2>. QED
    BY <2>1, CoveredRecorded
<1>4. \/ UNCHANGED <<engine, session, coordinator>>
      \/ /\ mutable /\ engine' = done /\ session' = registered(session, c, TRUE)
         /\ coordinator' = enqueued(c)
      \/ /\ mutable /\ engine' = discarded(done, session).engine
         /\ session' = discarded(done, session).session /\ UNCHANGED coordinator
  BY DEF RunExecute
<1>. HIDE DEF done, h
<1>5. CASE UNCHANGED <<engine, session, coordinator>>
  BY <1>1, <1>5 DEF SessionInv
<1>6. CASE /\ mutable /\ engine' = done /\ session' = registered(session, c, TRUE)
           /\ coordinator' = enqueued(c)
  <2>1. session' = [session EXCEPT !.order = Append(@, c),
                      !.own[c.tx] = [status |-> "pending", rev |-> 0],
                      !.owners = Append(@, tx)]
    BY <1>6 DEF registered
  <2>2. /\ SessionIs(session') /\ session'.owners = Append(session.owners, tx)
        /\ session'.stopped = session.stopped /\ session'.reloading = session.reloading
    BY <2>1 DEF SessionInv, Owned, SessionIs
  <2>3. Owned(engine', session')
    BY <1>2, <1>3, <1>6, <2>2 DEF Owned
  <2>4. coordinator' = [coordinator EXCEPT !.queue = Append(@, c)]
    BY <1>6 DEF enqueued
  <2>5. IsSeq(Append(coordinator.queue, c))
    BY SeqSteps DEF SessionInv, Queued
  <2>6. Queued(coordinator')
    BY <2>4, <2>5 DEF SessionInv, Queued, CoordinatorIs
  <2>. QED
    BY <1>1, <2>3, <2>6 DEF SessionInv
<1>7. CASE /\ mutable /\ engine' = discarded(done, session).engine
           /\ session' = discarded(done, session).session /\ UNCHANGED coordinator
  <2>1. CASE h = <<>>
    <3>1. engine' = done /\ session' = requestReload(session)
      BY <1>2, <1>7, <2>1 DEF discarded
    <3>2. Owned(done, requestReload(session))
      BY <1>2, OwnedReload DEF SessionInv
    <3>. QED
      BY <1>1, <1>7, <3>1, <3>2 DEF SessionInv
  <2>2. CASE h # <<>>
    <3>1. engine' = [done EXCEPT !.doc = Front(@), !.history = Front(@)] /\ session' = session
      BY <1>2, <1>7, <2>2 DEF discarded
    <3>2. EngineIs(engine') /\ engine'.history = Front(h)
      BY <1>2, <3>1 DEF EngineIs
    <3>3. Owned(engine', session')
      BY <1>3, <1>7, <2>2, <3>1, <3>2 DEF SessionInv, Owned
    <3>. QED
      BY <1>1, <1>7, <3>3 DEF SessionInv
  <2>. QED
    BY <2>1, <2>2
<1>. QED
  BY <1>4, <1>5, <1>6, <1>7

LEMMA RunOutcomeKeeps ==
  ASSUME SessionInv, RunOutcome
  PROVE  SessionInv'
<1>1. UNCHANGED <<coordinator, replacing>>
  BY DEF RunOutcome
<1>2. \/ UNCHANGED <<engine, session>>
      \/ \E c, status, rev : /\ session' = handled(session, engine, c, status, rev).session
                             /\ engine' = handled(session, engine, c, status, rev).engine
  BY DEF RunOutcome
<1>3. ASSUME NEW c, NEW status, NEW rev,
             session' = handled(session, engine, c, status, rev).session,
             engine' = handled(session, engine, c, status, rev).engine
      PROVE  Owned(engine', session')
  BY <1>3, OwnedHandled DEF SessionInv
<1>4. Owned(engine', session')
  BY <1>2, <1>3 DEF SessionInv
<1>. QED
  BY <1>1, <1>4 DEF SessionInv

LEMMA TxFacts ==
  ASSUME NEW s, IsSeq(s)
  PROVE  IsSeq(txOf(s)) /\ Len(txOf(s)) = Len(s)
<1>1. PICK S : s \in Seq(S)
  BY DEF IsSeq
<1>2. Len(s) \in Nat /\ DOMAIN s = 1 .. Len(s)
  BY <1>1, LenProperties
<1>3. PICK T : txOf(s) \in Seq(T)
  BY SeqSteps DEF IsSeq
<1>4. Len(txOf(s)) \in Nat /\ DOMAIN txOf(s) = 1 .. Len(txOf(s))
  BY <1>3, LenProperties
<1>5. DOMAIN txOf(s) = DOMAIN s
  BY DEF txOf
<1>6. Len(txOf(s)) = Len(s)
  <2>1. PICK n, m : n = Len(s) /\ m = Len(txOf(s))
    OBVIOUS
  <2>2. n \in Nat /\ m \in Nat /\ 1 .. n = 1 .. m
    BY <1>2, <1>4, <1>5, <2>1
  <2>. QED
    BY <2>1, <2>2
<1>. QED
  BY <1>3, <1>6 DEF IsSeq

(* A rollback that is allowed replaces the end of the history and of its   *)
(* owners by the same transactions.                                        *)
LEMMA RunRollbackKeeps ==
  ASSUME SessionInv, RunRollback
  PROVE  SessionInv'
<1>1. UNCHANGED replacing
  BY DEF RunRollback, callVars
<1>. DEFINE suffix == coordinator.queue
            p == txOf(suffix)
            r == txOf(shift(suffix))
            reconciled(ids) == spliced(ids, Len(suffix), r)
<1>2. IsSeq(p) /\ Len(p) = Len(suffix) /\ IsSeq(r)
  BY SeqSteps, TxFacts DEF SessionInv, Queued
<1>3. Queued(coordinator')
  <2>1. coordinator' = coordinator \/ \E result : coordinator' = [coordinator EXCEPT !.mode = result]
    BY DEF RunRollback
  <2>. QED
    BY <2>1 DEF SessionInv, Queued, CoordinatorIs
<1>4. \/ UNCHANGED <<engine, session>>
      \/ /\ rollbackAllowed(suffix)
         /\ \E doc, source : engine' = [engine EXCEPT !.doc = doc, !.history = reconciled(@),
                                                      !.source = source]
         /\ \E own, pre : session' = [session EXCEPT !.owners = reconciled(@), !.own = own,
                                                     !.pre = pre]
  BY DEF RunRollback
<1>. HIDE DEF suffix, p, r
<1>5. ASSUME rollbackAllowed(suffix),
             NEW doc, NEW source, NEW own, NEW pre,
             engine' = [engine EXCEPT !.doc = doc, !.history = reconciled(@), !.source = source],
             session' = [session EXCEPT !.owners = reconciled(@), !.own = own, !.pre = pre]
      PROVE  Owned(engine', session')
  <2>1. EngineIs(engine') /\ engine'.history = spliced(engine.history, Len(p), r)
    BY <1>2, <1>5 DEF SessionInv, Owned, EngineIs
  <2>2. /\ SessionIs(session') /\ session'.owners = spliced(session.owners, Len(p), r)
        /\ session'.stopped = session.stopped /\ session'.reloading = session.reloading
    BY <1>2, <1>5 DEF SessionInv, Owned, SessionIs
  <2>3. IsSuffix(p, engine.history)
    BY <1>5 DEF rollbackAllowed, p
  <2>4. ASSUME ~session.stopped
        PROVE  Covered(engine'.history, session'.owners)
    <3>1. Covered(engine.history, session.owners)
      BY <2>4 DEF SessionInv, Owned
    <3>2. Covered(spliced(engine.history, Len(p), r), spliced(session.owners, Len(p), r))
      BY <1>2, <2>3, <3>1, CoveredSpliced
    <3>. QED
      BY <2>1, <2>2, <3>2
  <2>. QED
    BY <2>1, <2>2, <2>4 DEF SessionInv, Owned
<1>6. Owned(engine', session')
  BY <1>4, <1>5 DEF SessionInv
<1>. QED
  BY <1>1, <1>3, <1>6 DEF SessionInv

(* A remote change that is applied is an entry more, and its owner is      *)
(* known unless the session stops.                                         *)
LEMMA RunEnvelopeKeeps ==
  ASSUME SessionInv, RunEnvelope
  PROVE  SessionInv'
<1>1. UNCHANGED <<coordinator, replacing>>
  BY DEF RunEnvelope
<1>. DEFINE n == Head(tail).rev
            c == log[n]
            h == recorded(engine.history, c.tx)
            patched == [engine EXCEPT !.doc = applyChange(@, c), !.redo = FALSE,
                                      !.history = recorded(@, c.tx)]
<1>2. EngineIs(engine) /\ SessionIs(session) /\ Owned(engine, session)
  BY DEF SessionInv, Owned
<1>3. EngineIs(patched) /\ patched.history = h
  <2>1. PICK doc, history : doc = applyChange(engine.doc, c) /\ history = h
    OBVIOUS
  <2>2. PICK d : d = [engine EXCEPT !.doc = doc, !.redo = FALSE, !.history = history]
    OBVIOUS
  <2>3. d = patched
    BY <2>1, <2>2
  <2>. HIDE DEF patched, h
  <2>4. d.history = history /\ EngineIs(d)
    BY <1>2, <2>2 DEF EngineIs
  <2>. QED
    BY <2>1, <2>3, <2>4
<1>4. \/ UNCHANGED <<engine, session>>
      \/ session' = requestReload(session) /\ (UNCHANGED engine \/ engine' = patched)
      \/ UNCHANGED engine /\ session' = [session EXCEPT !.rev = n, !.own[c.tx].rev = n]
      \/ UNCHANGED engine
         /\ session' = [session EXCEPT !.rev = n, !.pre = {p \in @ : p[1] # n}]
      \/ /\ engine' = [patched EXCEPT !.source = n]
         /\ session' = [session EXCEPT !.rev = n, !.owners = Append(@, c.tx)]
  <2>1. verdict(n) \in {"duplicate", "fail", "echo", "applied before", "apply"}
    BY DEF verdict
  <2>2. PICK v : v = verdict(n)
    OBVIOUS
  <2>. HIDE DEF n, c, patched
  <2>3. CASE UNCHANGED <<engine, session>>
    BY <2>3
  <2>4. CASE ~UNCHANGED <<engine, session>>
    BY <2>1, <2>2, <2>4 DEF RunEnvelope, n, c, patched
  <2>. QED
    BY <2>3, <2>4
<1>. HIDE DEF n, c, h, patched
<1>5. ASSUME session' = requestReload(session), UNCHANGED engine \/ engine' = patched
      PROVE  Owned(engine', session')
  <2>1. EngineIs(engine')
    BY <1>2, <1>3, <1>5
  <2>2. Owned(engine', requestReload(session))
    BY <1>2, <2>1, OwnedReload
  <2>. QED
    BY <1>5, <2>2
<1>6. ASSUME UNCHANGED engine, NEW own, NEW pre,
             session' = [session EXCEPT !.rev = n, !.own = own, !.pre = pre]
      PROVE  Owned(engine', session')
  <2>1. /\ SessionIs(session') /\ session'.owners = session.owners
        /\ session'.stopped = session.stopped /\ session'.reloading = session.reloading
    BY <1>2, <1>6 DEF SessionIs
  <2>2. EngineIs(engine') /\ engine'.history = engine.history
    BY <1>2, <1>6
  <2>. QED
    BY <1>2, <2>1, <2>2, OwnedSame
<1>7. ASSUME engine' = [patched EXCEPT !.source = n],
             session' = [session EXCEPT !.rev = n, !.owners = Append(@, c.tx)]
      PROVE  Owned(engine', session')
  <2>1. EngineIs(engine') /\ engine'.history = h
    BY <1>3, <1>7 DEF EngineIs
  <2>2. /\ SessionIs(session') /\ session'.owners = Append(session.owners, c.tx)
        /\ session'.stopped = session.stopped /\ session'.reloading = session.reloading
    BY <1>2, <1>7 DEF SessionIs
  <2>3. ASSUME ~session.stopped
        PROVE  Covered(h, Append(session.owners, c.tx))
    <3>1. Covered(engine.history, session.owners)
      BY <1>2, <2>3 DEF Owned
    <3>. QED
      BY <3>1, CoveredRecorded DEF h
  <2>. QED
    BY <1>2, <2>1, <2>2, <2>3 DEF Owned
<1>8. Owned(engine', session')
  <2>1. CASE UNCHANGED <<engine, session>>
    BY <1>2, <2>1
  <2>2. CASE session' = requestReload(session) /\ (UNCHANGED engine \/ engine' = patched)
    BY <1>5, <2>2
  <2>3. CASE UNCHANGED engine /\ session' = [session EXCEPT !.rev = n, !.own[c.tx].rev = n]
    <3>1. PICK own, pre : own = [session.own EXCEPT ![c.tx].rev = n] /\ pre = session.pre
      OBVIOUS
    <3>2. session' = [session EXCEPT !.rev = n, !.own = own, !.pre = pre]
      BY <1>2, <2>3, <3>1 DEF SessionIs
    <3>. QED
      BY <1>6, <2>3, <3>2
  <2>4. CASE UNCHANGED engine
             /\ session' = [session EXCEPT !.rev = n, !.pre = {p \in @ : p[1] # n}]
    <3>1. PICK own, pre : own = session.own /\ pre = {p \in session.pre : p[1] # n}
      OBVIOUS
    <3>2. session' = [session EXCEPT !.rev = n, !.own = own, !.pre = pre]
      BY <1>2, <2>4, <3>1 DEF SessionIs
    <3>. QED
      BY <1>6, <2>4, <3>2
  <2>5. CASE /\ engine' = [patched EXCEPT !.source = n]
             /\ session' = [session EXCEPT !.rev = n, !.owners = Append(@, c.tx)]
    BY <1>7, <2>5
  <2>. QED
    BY <1>4, <2>1, <2>2, <2>3, <2>4, <2>5
<1>. QED
  BY <1>1, <1>8 DEF SessionInv

(* A document that is installed has a session and a coordinator of its own. *)
LEMMA NewParts ==
  ASSUME NEW n, NEW epoch
  PROVE  Owned(newEngine(n), newSession(epoch, n)) /\ Queued(newCoordinator(n))
<1>1. EngineIs(newEngine(n)) /\ newEngine(n).history = <<>>
  BY DEF newEngine, EngineIs
<1>2. /\ SessionIs(newSession(epoch, n)) /\ newSession(epoch, n).owners = <<>>
      /\ ~newSession(epoch, n).stopped /\ ~newSession(epoch, n).reloading
  BY DEF newSession, SessionIs
<1>3. Owned(newEngine(n), newSession(epoch, n))
  BY <1>1, <1>2, NothingCovered DEF Owned
<1>4. Queued(newCoordinator(n))
  BY EmptyIsSeq DEF newCoordinator, Queued, CoordinatorIs
<1>. QED
  BY <1>3, <1>4

LEMMA NoReplacementIsTaken == Taken(noReplacement)
BY EmptyIsSeq DEF Taken, ReplacementIs, noReplacement

LEMMA InstallsKeep ==
  ASSUME SessionInv, RunReload \/ RunReplace
  PROVE  SessionInv'
<1>1. Taken(replacing')
  BY NoReplacementIsTaken DEF RunReload, RunReplace, SessionInv
<1>2. UNCHANGED <<engine, session, coordinator>> \/ \E n : install(n)
  BY DEF RunReload, RunReplace
<1>3. Owned(engine', session') /\ Queued(coordinator')
  BY <1>2, NewParts DEF SessionInv, install
<1>. QED
  BY <1>1, <1>3 DEF SessionInv

-----------------------------------------------------------------------------
(* Steps that leave the history and its owners alone.                      *)
LEMMA ReloadsKeep ==
  ASSUME SessionInv, SubscriptionFails \/ ReloadIdle \/ ReloadFails
  PROVE  SessionInv'
<1>1. UNCHANGED <<engine, coordinator, replacing>>
  BY DEF SubscriptionFails, ReloadIdle, ReloadFails
<1>2. \/ UNCHANGED session \/ session' = requestReload(session)
      \/ session' = [session EXCEPT !.reloading = FALSE]
  BY DEF SubscriptionFails, ReloadIdle, ReloadFails
<1>3. Owned(engine, requestReload(session))
  BY OwnedReload DEF SessionInv, Owned
<1>4. Owned(engine, [session EXCEPT !.reloading = FALSE])
  <2>1. PICK s : s = [session EXCEPT !.reloading = FALSE]
    OBVIOUS
  <2>2. EngineIs(engine) /\ SessionIs(session)
    BY DEF SessionInv, Owned
  <2>3. /\ SessionIs(s) /\ ~s.reloading
        /\ s.stopped = session.stopped /\ s.owners = session.owners
    BY <2>1, <2>2 DEF SessionIs
  <2>4. Owned(engine, s)
    BY <2>2, <2>3 DEF SessionInv, Owned
  <2>. QED
    BY <2>1, <2>4
<1>. QED
  BY <1>1, <1>2, <1>3, <1>4 DEF SessionInv

LEMMA CallsKeep ==
  ASSUME SessionInv,
         \/ Execute \/ CommitLate \/ OtherCommits \/ Deliver \/ Lose \/ Duplicate
         \/ ReloadLoaded \/ UndoCancelled \/ UndoEnqueues
  PROVE  SessionInv'
<1>1. UNCHANGED <<engine, session, coordinator, replacing>>
  BY DEF Execute, CommitLate, OtherCommits, Deliver, Lose, Duplicate, ReloadLoaded,
         UndoCancelled, UndoEnqueues, editorVars, callVars
<1>. QED
  BY <1>1 DEF SessionInv

LEMMA UndoStartsKeeps ==
  ASSUME SessionInv, UndoStarts
  PROVE  SessionInv'
<1>1. UNCHANGED <<engine, session, replacing>>
  BY DEF UndoStarts
<1>2. \/ UNCHANGED coordinator \/ Cancel(pendingTarget)
  BY DEF UndoStarts
<1>3. Queued(coordinator')
  BY <1>2, CancelKeeps DEF SessionInv
<1>. QED
  BY <1>1, <1>3 DEF SessionInv

LEMMA ReplacementsKeep ==
  ASSUME SessionInv,
         \/ ReplaceStarts \/ ReplaceIdle \/ RecoverStarts \/ ReplaceLoaded \/ ReplaceFails
         \/ ReplaceCancels
  PROVE  SessionInv'
<1>1. UNCHANGED <<engine, session>>
  BY DEF ReplaceStarts, ReplaceIdle, RecoverStarts, ReplaceLoaded, ReplaceFails,
         ReplaceCancels, editorVars
<1>2. UNCHANGED coordinator \/ \E t : Cancel(t)
  BY DEF ReplaceStarts, ReplaceIdle, RecoverStarts, ReplaceLoaded, ReplaceFails,
         ReplaceCancels, editorVars
<1>3. Queued(coordinator')
  BY <1>2, CancelKeeps DEF SessionInv
<1>4. Taken(replacing')
  <2>1. CASE ReplaceStarts
    BY <2>1, EmptyIsSeq DEF ReplaceStarts, Taken, ReplacementIs
  <2>2. CASE ReplaceIdle \/ ReplaceLoaded \/ ReplaceFails \/ ReplaceCancels
    <3>1. replacing' = noReplacement \/ \E at : replacing' = [replacing EXCEPT !.at = at]
      BY <2>2 DEF ReplaceIdle, ReplaceLoaded, ReplaceFails, ReplaceCancels
    <3>. QED
      BY <3>1, NoReplacementIsTaken DEF SessionInv, Taken, ReplacementIs
  <2>3. CASE RecoverStarts
    BY <2>3, EmptyIsSeq DEF RecoverStarts, noReplacement, Taken, ReplacementIs
  <2>. QED
    BY <2>1, <2>2, <2>3
<1>. QED
  BY <1>1, <1>3, <1>4 DEF SessionInv

LEMMA ReplaceCancelledKeeps ==
  ASSUME SessionInv, ReplaceCancelled \/ ReplaceRollsBack
  PROVE  SessionInv'
<1>1. UNCHANGED <<engine, coordinator>>
  BY DEF ReplaceCancelled, ReplaceRollsBack
<1>2. UNCHANGED session \/ session' = requestReload(session)
  BY DEF ReplaceCancelled, ReplaceRollsBack, givesUp
<1>3. Owned(engine', session')
  BY <1>1, <1>2, OwnedReload DEF SessionInv, Owned
<1>4. Taken(replacing')
  <2>1. CASE replacing' = noReplacement
    BY <2>1, NoReplacementIsTaken
  <2>2. CASE replacing' = [replacing EXCEPT !.at = "rollingBack"]
    BY <2>2 DEF SessionInv, Taken, ReplacementIs
  <2>3. CASE replacing' = [replacing EXCEPT !.at = "cancelling", !.records = Front(@),
                                            !.taken = <<Last(replacing.records)>> \o @]
    <3>1. PICK x : x = Last(replacing.records)
      OBVIOUS
    <3>2. IsSeq(<<x>> \o replacing.taken)
      BY SeqSteps DEF SessionInv, Taken
    <3>. QED
      BY <2>3, <3>1, <3>2 DEF SessionInv, Taken, ReplacementIs
  <2>. QED
    BY <2>1, <2>2, <2>3 DEF ReplaceCancelled, ReplaceRollsBack, givesUp
<1>. QED
  BY <1>1, <1>3, <1>4 DEF SessionInv

-----------------------------------------------------------------------------
(* Undo and the rollback of what a replacement has taken back.             *)

(* The newest entry of the history goes, with its owner.                   *)
LEMMA OwnedUndone ==
  ASSUME NEW e, NEW s, Owned(e, s), e.history # <<>>, NEW s2, NEW e2,
         SessionIs(s2), s2.stopped = s.stopped, s2.reloading = s.reloading,
         s2.owners = IF s.owners = <<>> THEN s.owners ELSE Front(s.owners),
         e2 = undone(e)
  PROVE  Owned(e2, s2)
<1>1. EngineIs(e)
  BY DEF Owned
<1>2. PICK doc : e2 = [e EXCEPT !.history = Front(@), !.redo = TRUE, !.doc = doc]
  BY DEF undone
<1>3. EngineIs(e2) /\ e2.history = Front(e.history)
  BY <1>1, <1>2 DEF EngineIs
<1>4. ASSUME ~s.stopped
      PROVE  Covered(e2.history, s2.owners)
  <2>1. Covered(e.history, s.owners)
    BY <1>4 DEF Owned
  <2>2. Covered(Front(e.history), Front(s.owners)) /\ s.owners # <<>>
    BY <2>1, CoveredFront
  <2>. QED
    BY <1>3, <2>2
<1>. QED
  BY <1>3, <1>4 DEF Owned

LEMMA RunUndoKeeps ==
  ASSUME SessionInv, RunUndo
  PROVE  SessionInv'
<1>1. UNCHANGED replacing
  BY DEF RunUndo
<1>. DEFINE target    == undo.target
            status    == IF target = None THEN "none" ELSE receipts[target]
            cancelled == undo.reply = "cancelled"
            targets == {c \in ToSet(session.order) : c.tx = target}
            removed == [session EXCEPT !.order = removePendingRecord(@, target)]
            settled ==
              IF cancelled \/ targets = {}
              THEN {[session |-> removed, engine |-> engine]}
              ELSE {handled(session, engine, c, status, coordinator.rev) : c \in targets}
            compensation(e) == [tx |-> undo.tx, of |-> Last(e.history)]
            popped(s) == [s EXCEPT !.owners = IF @ = <<>> THEN @ ELSE Front(@)]
            seen(s, e) == [s EXCEPT !.raced = @ \/ Last(e.history) # undo.owner]
            missed(s) == [s EXCEPT !.raced = @ \/ cancelled]
            after(s, e) ==
              \/ session' = s /\ engine' = e /\ UNCHANGED coordinator
              \/ session' = missed(s) /\ engine' = e /\ UNCHANGED coordinator
              \/ /\ e.history # <<>>
                 /\ session' = popped(seen(s, e)) /\ engine' = undone(e)
                 /\ UNCHANGED coordinator
              \/ /\ e.history # <<>>
                 /\ session' = popped(registered(seen(s, e), compensation(e), FALSE))
                 /\ engine' = undone(e) /\ coordinator' = enqueued(compensation(e))
<1>2. \/ UNCHANGED <<engine, session, coordinator>>
      \/ \E next \in settled : after(next.session, next.engine)
  BY DEF RunUndo
<1>3. \A next \in settled : Owned(next.engine, next.session)
  <2>1. PICK order : order = removePendingRecord(session.order, target)
    OBVIOUS
  <2>2. removed = [session EXCEPT !.order = order]
    BY <2>1
  <2>3. /\ SessionIs(removed) /\ removed.owners = session.owners
        /\ removed.stopped = session.stopped /\ removed.reloading = session.reloading
    BY <2>2 DEF SessionInv, Owned, SessionIs
  <2>4. Owned(engine, removed)
    BY <2>3, OwnedSame DEF SessionInv, Owned
  <2>. HIDE DEF removed, cancelled
  <2>. QED
    BY <2>4, OwnedHandled DEF SessionInv
<1>. HIDE DEF settled, cancelled, removed
<1>4. ASSUME NEW s, NEW e, Owned(e, s), after(s, e)
      PROVE  Owned(engine', session') /\ Queued(coordinator')
  <2>0. Owned(e, s)
    BY ONLY <1>4
  <2>1. EngineIs(e) /\ SessionIs(s)
    BY <2>0 DEF Owned
  <2>2. CASE session' = s /\ engine' = e /\ UNCHANGED coordinator
    BY <1>4, <2>2 DEF SessionInv
  <2>3. CASE session' = missed(s) /\ engine' = e /\ UNCHANGED coordinator
    <3>1. /\ SessionIs(session') /\ session'.owners = s.owners
          /\ session'.stopped = s.stopped /\ session'.reloading = s.reloading
      BY <2>1, <2>3 DEF SessionIs
    <3>2. EngineIs(engine') /\ engine'.history = e.history
      BY <2>1, <2>3
    <3>3. Owned(engine', session')
      BY ONLY <2>0, <3>1, <3>2, OwnedSame
    <3>. QED
      BY <2>3, <3>3 DEF SessionInv
  <2>4. CASE /\ e.history # <<>>
             /\ session' = popped(seen(s, e)) /\ engine' = undone(e)
             /\ UNCHANGED coordinator
    <3>1. PICK raced : raced = (s.raced \/ Last(e.history) # undo.owner)
      OBVIOUS
    <3>2. PICK owners : owners = IF s.owners = <<>> THEN s.owners ELSE Front(s.owners)
      OBVIOUS
    <3>3. session' = [s EXCEPT !.raced = raced, !.owners = owners]
      BY <2>1, <2>4, <3>1, <3>2 DEF SessionIs
    <3>4. /\ SessionIs(session') /\ session'.owners = owners
          /\ session'.stopped = s.stopped /\ session'.reloading = s.reloading
      BY <2>1, <3>3 DEF SessionIs
    <3>5. Owned(engine', session')
      BY ONLY <2>0, <2>4, <3>2, <3>4, OwnedUndone
    <3>. QED
      BY <2>4, <3>5 DEF SessionInv
  <2>5. CASE /\ e.history # <<>>
             /\ session' = popped(registered(seen(s, e), compensation(e), FALSE))
             /\ engine' = undone(e) /\ coordinator' = enqueued(compensation(e))
    <3>1. PICK raced : raced = (s.raced \/ Last(e.history) # undo.owner)
      OBVIOUS
    <3>2. PICK owners : owners = IF s.owners = <<>> THEN s.owners ELSE Front(s.owners)
      OBVIOUS
    <3>3. PICK c : c = compensation(e)
      OBVIOUS
    <3>4. PICK g : g = [s EXCEPT !.raced = raced]
      OBVIOUS
    <3>5. /\ SessionIs(g) /\ g.owners = s.owners
          /\ g.stopped = s.stopped /\ g.reloading = s.reloading
      BY <2>1, <3>4 DEF SessionIs
    <3>6. g = seen(s, e)
      BY <3>1, <3>4
    <3>7. session' = popped(registered(g, c, FALSE))
      BY <2>5, <3>3, <3>6
    <3>8. PICK k : k = registered(g, c, FALSE)
      OBVIOUS
    <3>9. k = [g EXCEPT !.order = Append(@, c),
                        !.own[c.tx] = [status |-> "pending", rev |-> 0]]
      BY <3>5, <3>8 DEF registered, SessionIs
    <3>10. /\ SessionIs(k) /\ k.owners = g.owners
           /\ k.stopped = g.stopped /\ k.reloading = g.reloading
      BY <3>5, <3>9 DEF SessionIs
    <3>11. session' = [k EXCEPT !.owners = owners]
      BY <3>2, <3>5, <3>7, <3>8, <3>10
    <3>12. /\ SessionIs(session') /\ session'.owners = owners
           /\ session'.stopped = s.stopped /\ session'.reloading = s.reloading
      BY <3>5, <3>10, <3>11 DEF SessionIs
    <3>13. Owned(engine', session')
      BY ONLY <2>0, <2>5, <3>2, <3>12, OwnedUndone
    <3>14. coordinator' = [coordinator EXCEPT !.queue = Append(@, c)]
      BY <2>5, <3>3 DEF enqueued
    <3>15. IsSeq(Append(coordinator.queue, c))
      BY SeqSteps DEF SessionInv, Queued
    <3>16. Queued(coordinator')
      BY <3>14, <3>15 DEF SessionInv, Queued, CoordinatorIs
    <3>. QED
      BY <3>13, <3>16
  <2>. QED
    BY <1>4, <2>2, <2>3, <2>4, <2>5
<1>. HIDE DEF after
<1>5. Owned(engine', session') /\ Queued(coordinator')
  BY <1>2, <1>3, <1>4 DEF SessionInv
<1>. QED
  BY <1>1, <1>5 DEF SessionInv

LEMMA RunRollbackSuffixKeeps ==
  ASSUME SessionInv, RunRollbackSuffix
  PROVE  SessionInv'
<1>1. UNCHANGED coordinator
  BY DEF RunRollbackSuffix
<1>. DEFINE p == txOf(replacing.taken)
            shortened(ids) == spliced(ids, Len(replacing.taken), <<>>)
<1>2. IsSeq(p) /\ Len(p) = Len(replacing.taken) /\ IsSeq(<<>>)
  BY TxFacts, EmptyIsSeq DEF SessionInv, Taken
<1>3. Taken(replacing')
  <2>1. replacing' = noReplacement \/ replacing' = [replacing EXCEPT !.at = "loading"]
    BY DEF RunRollbackSuffix
  <2>. QED
    BY <2>1, NoReplacementIsTaken DEF SessionInv, Taken, ReplacementIs
<1>4. \/ UNCHANGED <<engine, session>>
      \/ UNCHANGED engine /\ session' = requestReload(session)
      \/ /\ IsSuffix(p, engine.history)
         /\ \E doc : engine' = [engine EXCEPT !.doc = doc, !.history = shortened(@)]
         /\ \E order, own : session' = [session EXCEPT !.owners = shortened(@),
                                                       !.order = order, !.own = own]
  BY DEF RunRollbackSuffix
<1>. HIDE DEF p
<1>5. ASSUME IsSuffix(p, engine.history), NEW doc, NEW order, NEW own,
             engine' = [engine EXCEPT !.doc = doc, !.history = shortened(@)],
             session' = [session EXCEPT !.owners = shortened(@), !.order = order, !.own = own]
      PROVE  Owned(engine', session')
  <2>1. EngineIs(engine) /\ SessionIs(session)
    BY DEF SessionInv, Owned
  <2>2. EngineIs(engine') /\ engine'.history = spliced(engine.history, Len(p), <<>>)
    BY <1>2, <1>5, <2>1 DEF EngineIs
  <2>3. /\ SessionIs(session') /\ session'.owners = spliced(session.owners, Len(p), <<>>)
        /\ session'.stopped = session.stopped /\ session'.reloading = session.reloading
    BY <1>2, <1>5, <2>1 DEF SessionIs
  <2>4. ASSUME ~session.stopped
        PROVE  Covered(engine'.history, session'.owners)
    <3>1. Covered(engine.history, session.owners)
      BY <2>4 DEF SessionInv, Owned
    <3>2. Covered(spliced(engine.history, Len(p), <<>>), spliced(session.owners, Len(p), <<>>))
      BY <1>2, <1>5, <3>1, CoveredSpliced
    <3>. QED
      BY <2>2, <2>3, <3>2
  <2>. QED
    BY <2>2, <2>3, <2>4 DEF SessionInv, Owned
<1>6. Owned(engine', session')
  <2>1. Owned(engine, requestReload(session))
    BY OwnedReload DEF SessionInv, Owned
  <2>. QED
    BY <1>4, <1>5, <2>1 DEF SessionInv
<1>. QED
  BY <1>1, <1>3, <1>6 DEF SessionInv

-----------------------------------------------------------------------------
(* The theorem.                                                            *)
LEMMA SessionInvInit ==
  ASSUME Init
  PROVE  SessionInv
BY NewParts, NoReplacementIsTaken DEF Init, SessionInv

LEMMA SessionInvNext ==
  ASSUME SessionInv, [Next]_vars
  PROVE  SessionInv'
<1>1. CASE Works
  BY <1>1, RunExecuteKeeps, RunOutcomeKeeps, RunRollbackKeeps, RunEnvelopeKeeps, InstallsKeep,
     RunUndoKeeps, RunRollbackSuffixKeeps DEF Works
<1>2. CASE Continues
  BY <1>2, CallsKeep, ReloadsKeep, ReplacementsKeep, ReplaceCancelledKeeps DEF Continues
<1>3. CASE Coordinates
  BY <1>3, CoordinatesKeep DEF Coordinates
<1>4. CASE Calls
  BY <1>4, CallsKeep, UndoStartsKeeps, ReplacementsKeep DEF Calls
<1>5. CASE Environment
  BY <1>5, CallsKeep, CoordinatesKeep, ReloadsKeep, ReplacementsKeep DEF Environment
<1>6. CASE UNCHANGED vars
  BY <1>6 DEF SessionInv, vars, editorVars, callVars
<1>. QED
  BY <1>1, <1>2, <1>3, <1>4, <1>5, <1>6 DEF Next

(* While the session has not stopped, the entries of the engine's history  *)
(* are the newest of those whose author the session knows, in the same     *)
(* order, after every change, undo, rollback with its replay, eviction and *)
(* reload: so undo never takes a remote change for one of the user's, and  *)
(* a rollback that is allowed removes the entries it means                 *)
(* (#sourceUndo, #rollbackPersistence, #handleRemoteEnvelope).             *)
THEOREM OwnersAreKnown == Spec => []OwnersCoverHistory
<1>1. Init => SessionInv
  BY SessionInvInit
<1>2. SessionInv /\ [Next]_vars => SessionInv'
  BY SessionInvNext
<1>3. SessionInv => OwnersCoverHistory
  BY CoveredIsSuffix DEF SessionInv, Owned, OwnersCoverHistory
<1>. QED
  BY <1>1, <1>2, <1>3, PTL DEF Spec

=============================================================================
