------------------------ MODULE MutationQueue_proofs ------------------------
(***************************************************************************)
(* Proofs about what waits in the mutation queue of the editor.            *)
(* Proposals: a proposal is committed once and onto the revision it was    *)
(* computed from, for every number of calls, queued tasks and proposals    *)
(* kept, and everything a fix may touch.  CellCommands: a command touches  *)
(* what the user saw under it, and an edit is told its own outcome, for    *)
(* every grid, layout, selection and length of the queue.  Clipboard: a    *)
(* cut takes what was written, as it was, for every forest, set of fresh   *)
(* rows and number of payloads waiting.                                    *)
(***************************************************************************)
EXTENDS Proposals, CellCommands, Clipboard, SequenceLemmas, FiniteSetTheorems, TLAPS

-----------------------------------------------------------------------------
(* Proposals: what trimming a store keeps.                                 *)

(* What is being decided on or applied stays; nothing is added.            *)
Trimmed(kind, A, s, r) ==
    /\ r \in Seq(A) /\ ToSet(r) \subseteq ToSet(s)
    /\ \A x \in ToSet(s) : x.status \in unfinished(kind) \ {"active"} => x \in ToSet(r)

LEMMA DropOneTrims ==
    ASSUME NEW kind, NEW A, NEW s \in Seq(A)
    PROVE  Trimmed(kind, A, s, dropOne(s, kind))
<1>. DEFINE finished == {i \in DOMAIN s : s[i].status \notin unfinished(kind)}
            active == {i \in DOMAIN s : s[i].status = "active"}
            oldest(t) == CHOOSE i \in t : \A j \in t : i <= j
<1>1. dropOne(s, kind) = CASE finished # {} -> RemoveAt(s, oldest(finished))
                           [] finished = {} /\ active # {} -> RemoveAt(s, oldest(active))
                           [] OTHER -> s
  BY DEF dropOne
<1>2. DOMAIN s \in SUBSET Nat
  BY ToSetFacts
<1>3. ASSUME NEW t \in SUBSET DOMAIN s, t # {}
      PROVE  oldest(t) \in t
  BY <1>2, <1>3, LeastNatural
<1>. HIDE DEF oldest
<1>4. ASSUME NEW i \in finished \cup active
      PROVE  Trimmed(kind, A, s, RemoveAt(s, i))
  <2>1. ASSUME NEW x \in ToSet(s), x.status \in unfinished(kind) \ {"active"}
        PROVE  x \in ToSet(RemoveAt(s, i))
    <3>1. PICK j \in DOMAIN s : s[j] = x
      BY <2>1 DEF ToSet
    <3>2. j # i
      BY <2>1, <3>1
    <3>. QED
      BY <3>1, <3>2, RemoveAtSet
  <2>. QED
    BY <2>1, RemoveAtSet DEF Trimmed
<1>5. Trimmed(kind, A, s, s)
  BY DEF Trimmed
<1>. HIDE DEF finished, active
<1>6. finished \in SUBSET DOMAIN s /\ active \in SUBSET DOMAIN s
  BY DEF finished, active
<1>. QED
  BY <1>1, <1>3, <1>4, <1>5, <1>6

(* The recursion of trimProposals, up to n.                                *)
Trims(s, kind, n, g) ==
  g = [i \in 0 .. n |->
        IF i = 0 THEN s
        ELSE IF Len(g[i - 1]) > Retained THEN dropOne(g[i - 1], kind)
        ELSE g[i - 1]]

LEMMA TrimsExists ==
    ASSUME NEW s, NEW kind, NEW n \in Nat
    PROVE  \E g : Trims(s, kind, n, g)
<1>. DEFINE B == {k \in Nat : ~ \E g : Trims(s, kind, k, g)}
<1>1. ASSUME B # {}
      PROVE  FALSE
  <2>1. PICK k \in B : \A m \in B : k <= m
    BY <1>1, LeastNatural
  <2>2. CASE k = 0
    <3>. DEFINE g == [i \in 0 .. 0 |-> s]
    <3>1. g = [i \in 0 .. 0 |->
                IF i = 0 THEN s
                ELSE IF Len(g[i - 1]) > Retained THEN dropOne(g[i - 1], kind) ELSE g[i - 1]]
      OBVIOUS
    <3>2. Trims(s, kind, 0, g)
      BY <3>1 DEF Trims
    <3>. QED
      BY <2>1, <2>2, <3>2
  <2>3. CASE k # 0
    <3>1. k - 1 \in Nat /\ k - 1 \notin B
      BY <2>1, <2>3
    <3>2. PICK g : Trims(s, kind, k - 1, g)
      BY <3>1
    <3>. DEFINE new == IF Len(g[k - 1]) > Retained THEN dropOne(g[k - 1], kind) ELSE g[k - 1]
                f == [i \in 0 .. k |-> IF i = k THEN new ELSE g[i]]
    <3>3. \A i \in 0 .. k - 1 :
            g[i] = IF i = 0 THEN s
                   ELSE IF Len(g[i - 1]) > Retained THEN dropOne(g[i - 1], kind) ELSE g[i - 1]
      BY <3>2 DEF Trims
    <3>4. \A i \in 0 .. k :
            f[i] = IF i = 0 THEN s
                   ELSE IF Len(f[i - 1]) > Retained THEN dropOne(f[i - 1], kind) ELSE f[i - 1]
      <4>1. TAKE i \in 0 .. k
      <4>2. CASE i = 0
        BY <2>3, <3>1, <3>3, <4>2
      <4>3. CASE i # 0 /\ i # k
        <5>1. i \in 0 .. k - 1 /\ i - 1 \in 0 .. k - 1 /\ i - 1 \in 0 .. k /\ i - 1 # k
          BY <3>1, <4>3
        <5>2. f[i] = g[i] /\ f[i - 1] = g[i - 1]
          BY <4>3, <5>1
        <5>. QED
          BY <3>3, <4>3, <5>1, <5>2
      <4>4. CASE i = k
        <5>1. k - 1 \in 0 .. k /\ k - 1 # k /\ k \in 0 .. k
          BY <3>1
        <5>2. f[k] = new /\ f[k - 1] = g[k - 1]
          BY <5>1
        <5>. QED
          BY <2>3, <4>4, <5>2
      <4>. QED
        BY <4>2, <4>3, <4>4
    <3>5. f = [i \in 0 .. k |-> f[i]]
      OBVIOUS
    <3>. HIDE DEF f
    <3>6. Trims(s, kind, k, f)
      BY <3>4, <3>5 DEF Trims
    <3>. QED
      BY <2>1, <3>6
  <2>. QED
    BY <2>2, <2>3
<1>. QED
  BY <1>1

LEMMA TrimmingTrims ==
    ASSUME NEW kind, NEW A, NEW s \in Seq(A)
    PROVE  Trimmed(kind, A, s, trimProposals(s, kind))
<1>. DEFINE g == CHOOSE h : h = [i \in 0 .. Len(s) |->
                   IF i = 0 THEN s
                   ELSE IF Len(h[i - 1]) > Retained THEN dropOne(h[i - 1], kind) ELSE h[i - 1]]
<1>1. trimProposals(s, kind) = g[Len(s)]
  BY DEF trimProposals
<1>2. Len(s) \in Nat
  BY ToSetFacts
<1>3. PICK f : Trims(s, kind, Len(s), f)
  BY <1>2, TrimsExists
<1>4. g = [i \in 0 .. Len(s) |->
             IF i = 0 THEN s
             ELSE IF Len(g[i - 1]) > Retained THEN dropOne(g[i - 1], kind) ELSE g[i - 1]]
  BY <1>3 DEF Trims
<1>. HIDE DEF g
<1>. DEFINE good(k) == Trimmed(kind, A, s, g[k])
            B == {k \in 0 .. Len(s) : ~good(k)}
<1>5. good(0)
  <2>1. g[0] = s
    BY <1>2, <1>4
  <2>. QED
    BY <2>1 DEF Trimmed
<1>6. ASSUME NEW k \in 1 .. Len(s), good(k - 1)
      PROVE  good(k)
  <2>1. g[k] = IF Len(g[k - 1]) > Retained THEN dropOne(g[k - 1], kind) ELSE g[k - 1]
    BY <1>2, <1>4
  <2>2. g[k - 1] \in Seq(A)
    BY <1>6 DEF Trimmed
  <2>3. Trimmed(kind, A, g[k - 1], dropOne(g[k - 1], kind))
    BY <2>2, DropOneTrims
  <2>. QED
    BY <1>6, <2>1, <2>3 DEF Trimmed
<1>7. ASSUME B # {}
      PROVE  FALSE
  <2>. HIDE DEF good
  <2>1. B \in SUBSET Nat
    BY <1>2
  <2>2. PICK k \in B : \A m \in B : k <= m
    BY <1>7, <2>1, LeastNatural
  <2>3. k \in 1 .. Len(s) /\ k - 1 \in 0 .. Len(s) /\ ~(k <= k - 1)
    BY <1>2, <1>5, <2>2
  <2>4. good(k - 1)
    BY <2>2, <2>3
  <2>. QED
    BY <1>6, <2>2, <2>3, <2>4
<1>. QED
  BY <1>1, <1>2, <1>7

-----------------------------------------------------------------------------
(* The invariant.                                                          *)

FixStatus == {"active", "applying", "applied", "stale", "superseded"}
MatchStatus == {"active", "approvalPending", "applying", "applied", "stale"}
FixRecords == [no : Nat, base : Nat, impact : Impacts, status : FixStatus]
MatchRecords == [no : Nat, base : Nat, status : MatchStatus]
Decisions == [kind : {"host", "propose", "fix", "match"}, no : Nat, supersede : BOOLEAN,
              stage : {"waiting", "committing"}, impact : Impacts \cup {{}}]
Approvals == [no : Nat, stage : {"policy", "queued"}, aborted : BOOLEAN]
Landings == [kind : {"fix", "match"}, no : Nat, base : Nat, at : Nat]

ProposalTypes ==
    /\ snapshotNo \in Nat /\ proposalSteps \in Nat
    /\ fixes \in Seq(FixRecords) /\ matches \in Seq(MatchRecords)
    /\ approvals \subseteq Approvals
    /\ decisions \in Seq(Decisions) /\ landed \in Seq(Landings)

hasLanded(kind, no) == \E x \in ToSet(landed) : x.kind = kind /\ x.no = no

approvalNos == {a.no : a \in approvals}
queuedNos == {a.no : a \in {b \in approvals : b.stage = "queued"}}

OneEach(E) == \A x, y \in E : x.no = y.no => x = y

(* An open proposal is of the published revision and has not been          *)
(* committed; one that is being applied is the running task's; one that    *)
(* waits for an approval has it under way, an active one has not.          *)
FixFits(x) ==
    /\ x.no <= proposalSteps
    /\ x.status \in {"active", "applying"} => x.base = snapshotNo /\ ~hasLanded("fix", x.no)
    /\ x.status = "applying" => heads("fix", "committing") /\ decisions[1].no = x.no

MatchFits(x) ==
    /\ x.no <= proposalSteps
    /\ x.status \in {"active", "approvalPending", "applying"} =>
          x.base = snapshotNo /\ ~hasLanded("match", x.no)
    /\ x.status = "approvalPending" => x.no \in approvalNos
    /\ x.status = "applying" => heads("match", "committing") /\ decisions[1].no = x.no
    /\ x.status = "active" => x.no \notin approvalNos

(* A decision on a match has its approval.  The number of a fix that is    *)
(* not issued yet is nobody else's.                                        *)
DecisionFits(d) ==
    /\ d.no <= proposalSteps
    /\ d.kind = "match" => d.no \in queuedNos
    /\ d.kind = "propose" =>
          /\ ~hasLanded("fix", d.no) /\ \A x \in ToSet(fixes) : x.no # d.no
          /\ d.impact \in Impacts

(* Only the running task commits; no match is decided on twice.            *)
InOrder(D) ==
    \A i \in DOMAIN D :
        /\ D[i].stage = "committing" => i = 1 /\ D[i].kind \in {"fix", "match"}
        /\ \A j \in DOMAIN D :
              i # j /\ D[i].kind = D[j].kind /\ D[i].kind \in {"propose", "match"}
                => D[i].no # D[j].no

(* What the running task commits is there.                                 *)
HeadFits ==
    /\ heads("fix", "committing") =>
          \E x \in ToSet(fixes) : x.no = decisions[1].no /\ x.status = "applying"
    /\ heads("match", "committing") =>
          \E x \in ToSet(matches) : x.no = decisions[1].no /\ x.status = "applying"

LandedFit ==
    /\ \A x \in ToSet(landed) : x.at = x.base /\ x.no <= proposalSteps
    /\ \A i, j \in DOMAIN landed : i # j =>
          landed[i].kind # landed[j].kind \/ landed[i].no # landed[j].no

FixesFit == OneEach(ToSet(fixes)) /\ \A x \in ToSet(fixes) : FixFits(x)
MatchesFit == OneEach(ToSet(matches)) /\ \A x \in ToSet(matches) : MatchFits(x)
ApprovalsFit == OneEach(approvals) /\ \A a \in approvals : a.no <= proposalSteps
DecisionsFit == InOrder(decisions) /\ \A d \in ToSet(decisions) : DecisionFits(d)

ProposalInv ==
    ProposalTypes /\ FixesFit /\ MatchesFit /\ ApprovalsFit /\ DecisionsFit /\ HeadFits /\ LandedFit

-----------------------------------------------------------------------------
LEMMA ProposalsStart == ProposalInit => ProposalInv
<1>. SUFFICES ASSUME ProposalInit PROVE ProposalInv
  OBVIOUS
<1>1. ToSet(<<>>) = {} /\ DOMAIN <<>> = {}
  BY DEF ToSet
<1>2. ProposalTypes
  BY DEF ProposalInit, ProposalTypes
<1>3. HeadFits
  BY DEF ProposalInit, HeadFits, heads
<1>. QED
  BY <1>1, <1>2, <1>3 DEF ProposalInit, ProposalInv, FixesFit, MatchesFit, ApprovalsFit,
     DecisionsFit, LandedFit, OneEach, InOrder

(* The mutation queue: a task enters, the first leaves, or commits.        *)
committing(D) == D # <<>> /\ D[1].stage = "committing"

LEMMA EnteringKeepsOrder ==
    ASSUME NEW D \in Seq(Decisions), InOrder(D), NEW d \in Decisions, d.stage = "waiting",
           \A c \in ToSet(D) : d.kind = c.kind /\ d.kind \in {"propose", "match"} => d.no # c.no
    PROVE  /\ Append(D, d) \in Seq(Decisions) /\ InOrder(Append(D, d))
           /\ ToSet(Append(D, d)) = ToSet(D) \cup {d}
           /\ committing(Append(D, d)) <=> committing(D)
           /\ committing(D) => Append(D, d)[1] = D[1]
<1>1. PICK u : u = Append(D, d)
  OBVIOUS
<1>2. /\ u \in Seq(Decisions) /\ Len(u) = Len(D) + 1 /\ Len(D) \in Nat
      /\ \A i \in 1 .. Len(D) : u[i] = D[i]
      /\ u[Len(D) + 1] = d /\ ToSet(u) = ToSet(D) \cup {d}
  BY <1>1, AppendProperties, AppendSet, ToSetFacts
<1>3. DOMAIN u = 1 .. Len(D) + 1 /\ DOMAIN D = 1 .. Len(D)
  BY <1>2, ToSetFacts
<1>4. \A i \in DOMAIN D : D[i] \in ToSet(D)
  BY DEF ToSet
<1>5. InOrder(u)
  BY <1>2, <1>3, <1>4 DEF InOrder
<1>6. u # <<>> /\ (D # <<>> => Len(D) > 0 /\ u[1] = D[1]) /\ (D = <<>> => u[1] = d)
  BY <1>2, EmptySeq
<1>7. (committing(u) <=> committing(D)) /\ (committing(D) => u[1] = D[1])
  BY <1>6 DEF committing
<1>. QED
  BY <1>1, <1>2, <1>5, <1>7

LEMMA LeavingKeepsOrder ==
    ASSUME NEW D \in Seq(Decisions), InOrder(D), D # <<>>
    PROVE  /\ Tail(D) \in Seq(Decisions) /\ InOrder(Tail(D))
           /\ ToSet(Tail(D)) \subseteq ToSet(D) /\ ~committing(Tail(D))
           /\ D[1] \in Decisions /\ D[1] \in ToSet(D)
           /\ \A d \in ToSet(Tail(D)) :
                 d.kind = D[1].kind /\ d.kind \in {"propose", "match"} => d.no # D[1].no
<1>1. PICK u : u = Tail(D)
  OBVIOUS
<1>2. /\ u \in Seq(Decisions) /\ Len(u) = Len(D) - 1
      /\ \A i \in 1 .. Len(u) : u[i] = D[i + 1]
  BY <1>1, HeadTailProperties
<1>3. DOMAIN u = 1 .. Len(D) - 1 /\ DOMAIN D = 1 .. Len(D) /\ Len(D) \in Nat \ {0}
  BY <1>2, ToSetFacts, HeadIsFirst
<1>4. \A i \in DOMAIN u : i + 1 \in DOMAIN D /\ i + 1 # 1 /\ u[i] = D[i + 1]
  BY <1>2, <1>3
<1>5. InOrder(u)
  <2>1. ASSUME NEW i \in DOMAIN u, NEW j \in DOMAIN u, i # j
        PROVE  i + 1 # j + 1
    BY <1>3, <2>1
  <2>. QED
    BY <1>4, <2>1 DEF InOrder
<1>6. u # <<>> => 1 \in DOMAIN u
  BY <1>2, <1>3, EmptySeq
<1>7. ~committing(u)
  BY <1>4, <1>6 DEF committing, InOrder
<1>8. \A d \in ToSet(u) : \E j \in DOMAIN D : j # 1 /\ d = D[j]
  BY <1>4 DEF ToSet
<1>9. 1 \in DOMAIN D
  BY <1>3
<1>10. \A d \in ToSet(u) : d.kind = D[1].kind /\ d.kind \in {"propose", "match"} => d.no # D[1].no
  BY <1>8, <1>9 DEF InOrder
<1>. QED
  BY <1>1, <1>2, <1>5, <1>7, <1>10, TailSet

LEMMA RunningKeepsOrder ==
    ASSUME NEW D \in Seq(Decisions), InOrder(D), D # <<>>, D[1].kind \in {"fix", "match"},
           NEW D2, D2 = [D EXCEPT ![1].stage = "committing"]
    PROVE  /\ D2 \in Seq(Decisions) /\ InOrder(D2) /\ committing(D2)
           /\ D2[1].kind = D[1].kind /\ D2[1].no = D[1].no
           /\ \A d \in ToSet(D2) : d \in ToSet(D) \/ (d.kind = D[1].kind /\ d.no = D[1].no)
<1>1. /\ DOMAIN D = 1 .. Len(D) /\ Len(D) \in Nat \ {0} /\ 1 \in DOMAIN D
      /\ \A i \in DOMAIN D : D[i] \in Decisions
  BY ToSetFacts, HeadIsFirst, ElementOfSeq
<1>2. PICK c : c = [D[1] EXCEPT !.stage = "committing"]
  OBVIOUS
<1>3. c \in Decisions /\ c.kind = D[1].kind /\ c.no = D[1].no /\ c.stage = "committing"
  BY <1>1, <1>2 DEF Decisions
<1>4. DOMAIN D2 = DOMAIN D /\ D2[1] = c /\ \A i \in DOMAIN D : i # 1 => D2[i] = D[i]
  BY <1>1, <1>2
<1>5. \A i \in DOMAIN D2 : D2[i] \in Decisions
  BY <1>1, <1>3, <1>4
<1>6. D2 \in Seq(Decisions)
  <2>1. D2 = [i \in 1 .. Len(D) |-> D2[i]]
    BY <1>1, <1>4
  <2>2. D2 \in [1 .. Len(D) -> Decisions]
    BY <1>1, <1>4, <1>5, <2>1
  <2>. QED
    BY <1>1, <2>2, SeqDef
<1>7. InOrder(D2)
  BY <1>3, <1>4 DEF InOrder
<1>8. D2 # <<>>
  BY <1>1, <1>4
<1>9. \A d \in ToSet(D2) : d \in ToSet(D) \/ (d.kind = D[1].kind /\ d.no = D[1].no)
  <2>. TAKE d \in ToSet(D2)
  <2>1. PICK i \in DOMAIN D : d = D2[i]
    BY <1>4 DEF ToSet
  <2>2. CASE i = 1
    BY <1>3, <1>4, <2>1, <2>2
  <2>3. CASE i # 1
    <3>1. d = D[i]
      BY <1>4, <2>1, <2>3
    <3>. QED
      BY <2>1, <3>1 DEF ToSet
  <2>. QED
    BY <2>2, <2>3
<1>. QED
  BY <1>3, <1>4, <1>6, <1>7, <1>8, <1>9 DEF committing

-----------------------------------------------------------------------------
(* Marking a proposal.                                                     *)

LEMMA MarkedFix ==
    ASSUME NEW x \in FixRecords, NEW st \in FixStatus, NEW y, y = [x EXCEPT !.status = st]
    PROVE  y \in FixRecords /\ y.no = x.no /\ y.base = x.base /\ y.status = st
BY DEF FixRecords

LEMMA MarkedMatch ==
    ASSUME NEW x \in MatchRecords, NEW st \in MatchStatus, NEW y, y = [x EXCEPT !.status = st]
    PROVE  y \in MatchRecords /\ y.no = x.no /\ y.base = x.base /\ y.status = st
BY DEF MatchRecords

LEMMA MappedStore ==
    ASSUME NEW A, NEW s \in Seq(A), NEW f \in [A -> A], \A x \in A : f[x].no = x.no,
           NEW r, r = [i \in DOMAIN s |-> f[s[i]]]
    PROVE  /\ r \in Seq(A) /\ ToSet(r) = {f[x] : x \in ToSet(s)}
           /\ OneEach(ToSet(s)) => OneEach(ToSet(r))
<1>1. Len(s) \in Nat /\ DOMAIN s = 1 .. Len(s) /\ \A i \in 1 .. Len(s) : s[i] \in A
  BY ToSetFacts, ElementOfSeq
<1>2. r \in [1 .. Len(s) -> A]
  BY <1>1
<1>3. r \in Seq(A)
  BY <1>1, <1>2, SeqDef
<1>4. DOMAIN r = DOMAIN s
  OBVIOUS
<1>5. ToSet(r) = {f[s[i]] : i \in DOMAIN s}
  BY <1>4 DEF ToSet
<1>6. {f[s[i]] : i \in DOMAIN s} = {f[x] : x \in ToSet(s)}
  BY DEF ToSet
<1>7. ToSet(s) \subseteq A
  BY ElementOfSeq, ToSetFacts
<1>8. ASSUME OneEach(ToSet(s)), NEW v \in ToSet(r), NEW w \in ToSet(r), v.no = w.no
      PROVE  v = w
  <2>1. PICK x \in ToSet(s) : v = f[x]
    BY <1>5, <1>6
  <2>2. PICK y \in ToSet(s) : w = f[y]
    BY <1>5, <1>6
  <2>. QED
    BY <1>7, <1>8, <2>1, <2>2 DEF OneEach
<1>. QED
  BY <1>3, <1>5, <1>6, <1>8 DEF OneEach

LEMMA MarkingFixes ==
    ASSUME NEW s \in Seq(FixRecords), OneEach(ToSet(s)), NEW no, NEW st \in FixStatus,
           NEW r, r = withStatus(s, no, st)
    PROVE  /\ r \in Seq(FixRecords) /\ OneEach(ToSet(r))
           /\ \A y \in ToSet(r) : \E x \in ToSet(s) :
                 /\ y.no = x.no /\ y.base = x.base
                 /\ y.status = IF x.no = no THEN st ELSE x.status
           /\ \A x \in ToSet(s) : \E y \in ToSet(r) :
                 /\ y.no = x.no /\ y.base = x.base
                 /\ y.status = IF x.no = no THEN st ELSE x.status
<1>. DEFINE f == [x \in FixRecords |-> IF x.no = no THEN [x EXCEPT !.status = st] ELSE x]
<1>1. \A x \in FixRecords :
        /\ f[x] \in FixRecords /\ f[x].no = x.no /\ f[x].base = x.base
        /\ f[x].status = IF x.no = no THEN st ELSE x.status
  BY MarkedFix
<1>2. f \in [FixRecords -> FixRecords]
  BY <1>1
<1>3. \A i \in DOMAIN s : s[i] \in FixRecords
  BY ElementOfSeq, ToSetFacts
<1>4. r = [i \in DOMAIN s |-> f[s[i]]]
  BY <1>3 DEF withStatus
<1>5. ToSet(s) \subseteq FixRecords
  BY <1>3 DEF ToSet
<1>. HIDE DEF f
<1>6. r \in Seq(FixRecords) /\ OneEach(ToSet(r)) /\ ToSet(r) = {f[x] : x \in ToSet(s)}
  BY <1>1, <1>2, <1>4, MappedStore
<1>. QED
  BY <1>1, <1>5, <1>6

LEMMA MarkingMatches ==
    ASSUME NEW s \in Seq(MatchRecords), OneEach(ToSet(s)), NEW no, NEW st \in MatchStatus,
           NEW r, r = withStatus(s, no, st)
    PROVE  /\ r \in Seq(MatchRecords) /\ OneEach(ToSet(r))
           /\ \A y \in ToSet(r) : \E x \in ToSet(s) :
                 /\ y.no = x.no /\ y.base = x.base
                 /\ y.status = IF x.no = no THEN st ELSE x.status
           /\ \A x \in ToSet(s) : \E y \in ToSet(r) :
                 /\ y.no = x.no /\ y.base = x.base
                 /\ y.status = IF x.no = no THEN st ELSE x.status
<1>. DEFINE f == [x \in MatchRecords |-> IF x.no = no THEN [x EXCEPT !.status = st] ELSE x]
<1>1. \A x \in MatchRecords :
        /\ f[x] \in MatchRecords /\ f[x].no = x.no /\ f[x].base = x.base
        /\ f[x].status = IF x.no = no THEN st ELSE x.status
  BY MarkedMatch
<1>2. f \in [MatchRecords -> MatchRecords]
  BY <1>1
<1>3. \A i \in DOMAIN s : s[i] \in MatchRecords
  BY ElementOfSeq, ToSetFacts
<1>4. r = [i \in DOMAIN s |-> f[s[i]]]
  BY <1>3 DEF withStatus
<1>5. ToSet(s) \subseteq MatchRecords
  BY <1>3 DEF ToSet
<1>. HIDE DEF f
<1>6. r \in Seq(MatchRecords) /\ OneEach(ToSet(r)) /\ ToSet(r) = {f[x] : x \in ToSet(s)}
  BY <1>1, <1>2, <1>4, MappedStore
<1>. QED
  BY <1>1, <1>5, <1>6

(* A commit outdates what was computed from an earlier revision.           *)
LEMMA ExpiringFixes ==
    ASSUME NEW s \in Seq(FixRecords), OneEach(ToSet(s)), NEW now,
           NEW r, r = expireProposals(s, "fix", now)
    PROVE  /\ r \in Seq(FixRecords) /\ OneEach(ToSet(r))
           /\ \A y \in ToSet(r) : \E x \in ToSet(s) :
                 /\ y.no = x.no /\ y.base = x.base
                 /\ y.status = "stale" \/ y.status = x.status
                 /\ y.status = "active" => x.base = now
<1>. DEFINE f == [x \in FixRecords |->
                   IF x.status \in {"active", "approvalPending"} /\ x.base # now
                   THEN [x EXCEPT !.status = "stale"] ELSE x]
<1>1. PICK t : t = [i \in DOMAIN s |->
        IF s[i].status \in {"active", "approvalPending"} /\ s[i].base # now
        THEN [s[i] EXCEPT !.status = "stale"] ELSE s[i]]
  OBVIOUS
<1>2. \A i \in DOMAIN s : s[i] \in FixRecords
  BY ElementOfSeq, ToSetFacts
<1>3. t = [i \in DOMAIN s |-> f[s[i]]]
  BY <1>1, <1>2
<1>4. "stale" \in FixStatus
  BY DEF FixStatus
<1>5. \A x \in FixRecords :
        /\ f[x] \in FixRecords /\ f[x].no = x.no /\ f[x].base = x.base
        /\ f[x].status = "stale" \/ f[x].status = x.status
        /\ f[x].status = "active" => x.base = now
  <2>. TAKE x \in FixRecords
  <2>1. CASE x.status \in {"active", "approvalPending"} /\ x.base # now
    <3>1. f[x] = [x EXCEPT !.status = "stale"]
      BY <2>1
    <3>. QED
      BY <1>4, <3>1, MarkedFix
  <2>2. CASE ~(x.status \in {"active", "approvalPending"} /\ x.base # now)
    <3>1. f[x] = x
      BY <2>2
    <3>. QED
      BY <2>2, <3>1
  <2>. QED
    BY <2>1, <2>2
<1>6. f \in [FixRecords -> FixRecords]
  BY <1>5
<1>7. ToSet(s) \subseteq FixRecords
  BY <1>2 DEF ToSet
<1>. HIDE DEF f
<1>8. t \in Seq(FixRecords) /\ OneEach(ToSet(t)) /\ ToSet(t) = {f[x] : x \in ToSet(s)}
  BY <1>3, <1>5, <1>6, MappedStore
<1>9. r = trimProposals(t, "fix")
  BY <1>1 DEF expireProposals
<1>10. r \in Seq(FixRecords) /\ ToSet(r) \subseteq ToSet(t)
  BY <1>8, <1>9, TrimmingTrims DEF Trimmed
<1>. QED
  BY <1>5, <1>7, <1>8, <1>10 DEF OneEach

LEMMA ExpiringMatches ==
    ASSUME NEW s \in Seq(MatchRecords), OneEach(ToSet(s)), NEW now,
           NEW r, r = expireProposals(s, "match", now)
    PROVE  /\ r \in Seq(MatchRecords) /\ OneEach(ToSet(r))
           /\ \A y \in ToSet(r) : \E x \in ToSet(s) :
                 /\ y.no = x.no /\ y.base = x.base
                 /\ y.status = "stale" \/ y.status = x.status
                 /\ y.status \in {"active", "approvalPending"} => x.base = now
<1>. DEFINE f == [x \in MatchRecords |->
                   IF x.status \in {"active", "approvalPending"} /\ x.base # now
                   THEN [x EXCEPT !.status = "stale"] ELSE x]
<1>1. PICK t : t = [i \in DOMAIN s |->
        IF s[i].status \in {"active", "approvalPending"} /\ s[i].base # now
        THEN [s[i] EXCEPT !.status = "stale"] ELSE s[i]]
  OBVIOUS
<1>2. \A i \in DOMAIN s : s[i] \in MatchRecords
  BY ElementOfSeq, ToSetFacts
<1>3. t = [i \in DOMAIN s |-> f[s[i]]]
  BY <1>1, <1>2
<1>4. "stale" \in MatchStatus
  BY DEF MatchStatus
<1>5. \A x \in MatchRecords :
        /\ f[x] \in MatchRecords /\ f[x].no = x.no /\ f[x].base = x.base
        /\ f[x].status = "stale" \/ f[x].status = x.status
        /\ f[x].status \in {"active", "approvalPending"} => x.base = now
  <2>. TAKE x \in MatchRecords
  <2>1. CASE x.status \in {"active", "approvalPending"} /\ x.base # now
    <3>1. f[x] = [x EXCEPT !.status = "stale"]
      BY <2>1
    <3>. QED
      BY <1>4, <3>1, MarkedMatch
  <2>2. CASE ~(x.status \in {"active", "approvalPending"} /\ x.base # now)
    <3>1. f[x] = x
      BY <2>2
    <3>. QED
      BY <2>2, <3>1
  <2>. QED
    BY <2>1, <2>2
<1>6. f \in [MatchRecords -> MatchRecords]
  BY <1>5
<1>7. ToSet(s) \subseteq MatchRecords
  BY <1>2 DEF ToSet
<1>. HIDE DEF f
<1>8. t \in Seq(MatchRecords) /\ OneEach(ToSet(t)) /\ ToSet(t) = {f[x] : x \in ToSet(s)}
  BY <1>3, <1>5, <1>6, MappedStore
<1>9. r = trimProposals(t, "match")
  BY <1>1 DEF expireProposals
<1>10. r \in Seq(MatchRecords) /\ ToSet(r) \subseteq ToSet(t)
  BY <1>8, <1>9, TrimmingTrims DEF Trimmed
<1>. QED
  BY <1>5, <1>7, <1>8, <1>10 DEF OneEach

(* The proposal a number stands for.                                       *)
LEMMA Numbered ==
    ASSUME NEW A, NEW s \in Seq(A), NEW no, NEW y, y = s[CHOOSE i \in numberedIn(s, no) : TRUE]
    PROVE  /\ numberedIn(s, no) # {} => y \in ToSet(s) /\ y.no = no
           /\ \A x \in ToSet(s) : x.no = no => numberedIn(s, no) # {}
BY DEF numberedIn, ToSet

LEMMA FixOfNumber ==
    ASSUME OneEach(ToSet(fixes)), fixes \in Seq(FixRecords), NEW no
    PROVE  /\ numberedIn(fixes, no) # {} => fixOf(no) \in ToSet(fixes) /\ fixOf(no).no = no
           /\ \A x \in ToSet(fixes) : x.no = no => fixOf(no) = x
BY Numbered DEF OneEach, fixOf

LEMMA MatchOfNumber ==
    ASSUME OneEach(ToSet(matches)), matches \in Seq(MatchRecords), NEW a
    PROVE  /\ numberedIn(matches, a.no) # {} => matchOf(a) \in ToSet(matches) /\ matchOf(a).no = a.no
           /\ \A x \in ToSet(matches) :
                 x.no = a.no => numberedIn(matches, a.no) # {} /\ matchOf(a) = x
BY Numbered DEF OneEach, matchOf

-----------------------------------------------------------------------------
(* The steps.                                                              *)

(* The running task, if it commits, is the same.                           *)
HeadStays ==
    /\ committing(decisions') <=> committing(decisions)
    /\ committing(decisions) => decisions'[1] = decisions[1]

LEMMA HeadStaysSame ==
    ASSUME HeadStays, NEW kind
    PROVE  /\ heads(kind, "committing")' <=> heads(kind, "committing")
           /\ heads(kind, "committing") => decisions'[1] = decisions[1]
BY DEF HeadStays, heads, committing

(* Nobody applies a proposal while no task commits.                        *)
LEMMA NobodyApplies ==
    ASSUME ProposalInv
    PROVE  /\ \A x \in ToSet(fixes) :
                 x.status = "applying" => committing(decisions) /\ decisions[1].kind = "fix"
                                          /\ decisions[1].no = x.no
           /\ \A x \in ToSet(matches) :
                 x.status = "applying" => committing(decisions) /\ decisions[1].kind = "match"
                                          /\ decisions[1].no = x.no
BY DEF ProposalInv, FixesFit, MatchesFit, FixFits, MatchFits, heads, committing

LEMMA FixesStay ==
    ASSUME ProposalInv, proposalSteps' \in {proposalSteps, proposalSteps + 1},
           UNCHANGED <<snapshotNo, landed, fixes>>,
           HeadStays \/ ~committing(decisions) \/ decisions[1].kind # "fix"
    PROVE  FixesFit'
<1>1. proposalSteps \in Nat /\ FixesFit /\ fixes \in Seq(FixRecords)
  BY DEF ProposalInv, ProposalTypes
<1>2. ASSUME NEW x \in ToSet(fixes)
      PROVE  FixFits(x)'
  <2>1. x.no \in Nat
    <3>1. x \in FixRecords
      BY <1>1, ElementOfSeq, ToSetFacts
    <3>. QED
      BY <3>1 DEF FixRecords
  <2>2. FixFits(x)
    BY <1>1 DEF FixesFit
  <2>3. x.no <= proposalSteps'
    BY <1>1, <2>1, <2>2 DEF FixFits
  <2>4. x.status = "applying" => heads("fix", "committing")' /\ decisions'[1].no = x.no
    BY <2>2, NobodyApplies, HeadStaysSame DEF FixFits
  <2>5. hasLanded("fix", x.no)' <=> hasLanded("fix", x.no)
    BY DEF hasLanded
  <2>. QED
    BY <2>2, <2>3, <2>4, <2>5 DEF FixFits
<1>. QED
  BY <1>1, <1>2 DEF FixesFit

LEMMA MatchesStay ==
    ASSUME ProposalInv, proposalSteps' \in {proposalSteps, proposalSteps + 1},
           UNCHANGED <<snapshotNo, landed, matches>>, approvalNos' \subseteq approvalNos,
           \A x \in ToSet(matches) : x.status = "approvalPending" /\ x.no \in approvalNos
              => x.no \in approvalNos',
           HeadStays \/ ~committing(decisions) \/ decisions[1].kind # "match"
    PROVE  MatchesFit'
<1>1. proposalSteps \in Nat /\ MatchesFit /\ matches \in Seq(MatchRecords)
  BY DEF ProposalInv, ProposalTypes
<1>2. ASSUME NEW x \in ToSet(matches)
      PROVE  MatchFits(x)'
  <2>1. x.no \in Nat
    <3>1. x \in MatchRecords
      BY <1>1, ElementOfSeq, ToSetFacts
    <3>. QED
      BY <3>1 DEF MatchRecords
  <2>2. MatchFits(x)
    BY <1>1 DEF MatchesFit
  <2>3. x.no <= proposalSteps'
    BY <1>1, <2>1, <2>2 DEF MatchFits
  <2>4. x.status = "applying" => heads("match", "committing")' /\ decisions'[1].no = x.no
    BY <2>2, NobodyApplies, HeadStaysSame DEF MatchFits
  <2>5. hasLanded("match", x.no)' <=> hasLanded("match", x.no)
    BY DEF hasLanded
  <2>. QED
    BY <2>2, <2>3, <2>4, <2>5 DEF MatchFits
<1>. QED
  BY <1>1, <1>2 DEF MatchesFit

LEMMA ApprovalsStay ==
    ASSUME ProposalInv, proposalSteps' \in {proposalSteps, proposalSteps + 1},
           approvals' \subseteq approvals
    PROVE  ApprovalsFit' /\ approvals' \subseteq Approvals
<1>1. /\ proposalSteps \in Nat /\ approvals \subseteq Approvals
      /\ OneEach(approvals) /\ \A a \in approvals : a.no <= proposalSteps
  BY DEF ProposalInv, ProposalTypes, ApprovalsFit
<1>2. \A a \in approvals : a.no \in Nat
  BY <1>1 DEF Approvals
<1>3. \A a \in approvals : a.no <= proposalSteps'
  BY <1>1, <1>2
<1>. QED
  BY <1>1, <1>3 DEF ApprovalsFit, OneEach

(* A decision stays what it is while its approval is there and no fix that *)
(* is yet to be issued appears.                                            *)
LEMMA DecisionStays ==
    ASSUME ProposalInv, NEW d \in ToSet(decisions),
           proposalSteps' \in {proposalSteps, proposalSteps + 1}, UNCHANGED landed,
           d.kind = "match" => d.no \in queuedNos',
           d.kind = "propose" => \A x \in ToSet(fixes') :
              x.no # d.no \/ \E y \in ToSet(fixes) : x.no = y.no
    PROVE  DecisionFits(d)'
<1>1. proposalSteps \in Nat /\ decisions \in Seq(Decisions) /\ DecisionFits(d)
  BY DEF ProposalInv, ProposalTypes, DecisionsFit
<1>2. d.no \in Nat
  <2>1. d \in Decisions
    BY <1>1, ElementOfSeq, ToSetFacts DEF ToSet
  <2>. QED
    BY <2>1 DEF Decisions
<1>3. d.no <= proposalSteps'
  BY <1>1, <1>2 DEF DecisionFits
<1>4. hasLanded("fix", d.no)' <=> hasLanded("fix", d.no)
  BY DEF hasLanded
<1>5. d.kind = "propose" => \A x \in ToSet(fixes') : x.no # d.no
  BY <1>1 DEF DecisionFits
<1>. QED
  BY <1>1, <1>3, <1>4, <1>5 DEF DecisionFits

LEMMA LandedStays ==
    ASSUME ProposalInv, proposalSteps' \in {proposalSteps, proposalSteps + 1}, UNCHANGED landed
    PROVE  LandedFit'
<1>1. proposalSteps \in Nat /\ landed \in Seq(Landings) /\ LandedFit
  BY DEF ProposalInv, ProposalTypes
<1>2. \A x \in ToSet(landed) : x.no <= proposalSteps'
  <2>. TAKE x \in ToSet(landed)
  <2>1. x \in Landings
    BY <1>1, ElementOfSeq, ToSetFacts
  <2>2. x.no \in Nat
    BY <2>1 DEF Landings
  <2>. QED
    BY <1>1, <2>2 DEF LandedFit
<1>. QED
  BY <1>1, <1>2 DEF LandedFit

LEMMA HeadFitStays ==
    ASSUME ProposalInv, HeadStays,
           \A x \in ToSet(fixes) : x.status = "applying" =>
              \E y \in ToSet(fixes') : y.no = x.no /\ y.status = "applying",
           \A x \in ToSet(matches) : x.status = "applying" =>
              \E y \in ToSet(matches') : y.no = x.no /\ y.status = "applying"
    PROVE  HeadFits'
<1>1. HeadFits
  BY DEF ProposalInv
<1>2. ASSUME heads("fix", "committing")'
      PROVE  \E y \in ToSet(fixes') : y.no = decisions'[1].no /\ y.status = "applying"
  BY <1>1, <1>2, HeadStaysSame DEF HeadFits
<1>3. ASSUME heads("match", "committing")'
      PROVE  \E y \in ToSet(matches') : y.no = decisions'[1].no /\ y.status = "applying"
  BY <1>1, <1>3, HeadStaysSame DEF HeadFits
<1>. QED
  BY <1>2, <1>3 DEF HeadFits

LEMMA NoHead ==
    ASSUME ~committing(decisions')
    PROVE  HeadFits'
BY DEF HeadFits, heads, committing

(* A task enters the queue behind the others.                              *)
LEMMA EnterFits ==
    ASSUME ProposalInv, NEW d \in Decisions, d.stage = "waiting", Enter(d),
           \A c \in ToSet(decisions) :
              d.kind = c.kind /\ d.kind \in {"propose", "match"} => d.no # c.no
    PROVE  /\ decisions' \in Seq(Decisions) /\ InOrder(decisions') /\ HeadStays
           /\ ToSet(decisions') = ToSet(decisions) \cup {d}
<1>1. decisions \in Seq(Decisions) /\ InOrder(decisions) /\ decisions' = Append(decisions, d)
  BY DEF ProposalInv, ProposalTypes, DecisionsFit, Enter
<1>. QED
  BY <1>1, EnteringKeepsOrder DEF HeadStays

(* The stores and the approvals are left alone.                            *)
LEMMA QueueGrows ==
    ASSUME ProposalInv, proposalSteps' = proposalSteps + 1,
           UNCHANGED <<snapshotNo, fixes, matches, approvals, landed>>,
           decisions' \in Seq(Decisions), InOrder(decisions'), HeadStays,
           \A d \in ToSet(decisions') : d \in ToSet(decisions) \/ DecisionFits(d)'
    PROVE  ProposalInv'
<1>1. approvalNos' = approvalNos /\ queuedNos' = queuedNos
  BY DEF approvalNos, queuedNos
<1>2. ProposalTypes'
  BY DEF ProposalInv, ProposalTypes
<1>3. FixesFit' /\ MatchesFit' /\ ApprovalsFit' /\ LandedFit' /\ HeadFits'
  BY <1>1, FixesStay, MatchesStay, ApprovalsStay, LandedStays, HeadFitStays
<1>4. \A d \in ToSet(decisions) : DecisionFits(d)'
  <2>. TAKE d \in ToSet(decisions)
  <2>1. d.kind = "match" => d.no \in queuedNos'
    BY <1>1 DEF ProposalInv, DecisionsFit, DecisionFits
  <2>. QED
    BY <2>1, DecisionStays
<1>5. DecisionsFit'
  BY <1>4 DEF DecisionsFit
<1>. QED
  BY <1>2, <1>3, <1>5 DEF ProposalInv

LEMMA NumbersSoFar ==
    ASSUME ProposalInv
    PROVE  /\ proposalSteps \in Nat
           /\ \A c \in ToSet(decisions) : c.no \in Nat /\ c.no <= proposalSteps
           /\ \A x \in ToSet(fixes) : x \in FixRecords /\ x.no \in Nat /\ x.no <= proposalSteps
           /\ \A x \in ToSet(matches) : x \in MatchRecords /\ x.no \in Nat /\ x.no <= proposalSteps
           /\ \A x \in ToSet(landed) : x.no \in Nat /\ x.no <= proposalSteps
           /\ \A a \in approvals : a \in Approvals /\ a.no \in Nat /\ a.no <= proposalSteps
<1>1. /\ proposalSteps \in Nat /\ decisions \in Seq(Decisions) /\ fixes \in Seq(FixRecords)
      /\ matches \in Seq(MatchRecords) /\ landed \in Seq(Landings) /\ approvals \subseteq Approvals
  BY DEF ProposalInv, ProposalTypes
<1>2. \A c \in ToSet(decisions) : c \in Decisions
  BY <1>1, ElementOfSeq, ToSetFacts
<1>3. \A x \in ToSet(fixes) : x \in FixRecords
  BY <1>1, ElementOfSeq, ToSetFacts
<1>4. \A x \in ToSet(matches) : x \in MatchRecords
  BY <1>1, ElementOfSeq, ToSetFacts
<1>5. \A x \in ToSet(landed) : x \in Landings
  BY <1>1, ElementOfSeq, ToSetFacts
<1>6. \A c \in ToSet(decisions) : c.no \in Nat /\ c.no <= proposalSteps
  BY <1>2 DEF ProposalInv, DecisionsFit, DecisionFits, Decisions
<1>7. \A x \in ToSet(fixes) : x.no \in Nat /\ x.no <= proposalSteps
  BY <1>3 DEF ProposalInv, FixesFit, FixFits, FixRecords
<1>8. \A x \in ToSet(matches) : x.no \in Nat /\ x.no <= proposalSteps
  BY <1>4 DEF ProposalInv, MatchesFit, MatchFits, MatchRecords
<1>9. \A x \in ToSet(landed) : x.no \in Nat /\ x.no <= proposalSteps
  BY <1>5 DEF ProposalInv, LandedFit, Landings
<1>10. \A a \in approvals : a \in Approvals /\ a.no \in Nat /\ a.no <= proposalSteps
  BY <1>1 DEF ProposalInv, ApprovalsFit, Approvals
<1>. QED
  BY <1>1, <1>3, <1>4, <1>6, <1>7, <1>8, <1>9, <1>10

LEMMA ViewChangesKeeps == ProposalInv /\ (ViewChanges \/ MatchMaterials) => ProposalInv'
<1>. SUFFICES ASSUME ProposalInv, ViewChanges \/ MatchMaterials PROVE ProposalInv'
  OBVIOUS
<1>1. /\ proposalSteps' = proposalSteps + 1
      /\ UNCHANGED <<snapshotNo, fixes, matches, approvals, landed, decisions>>
  BY DEF ViewChanges, MatchMaterials, ProposalStep
<1>2. decisions \in Seq(Decisions) /\ InOrder(decisions)
  BY DEF ProposalInv, ProposalTypes, DecisionsFit
<1>3. HeadStays
  BY <1>1 DEF HeadStays
<1>. QED
  BY <1>1, <1>2, <1>3, QueueGrows

LEMMA HostCommitsKeeps == ProposalInv /\ HostCommits => ProposalInv'
<1>. SUFFICES ASSUME ProposalInv, HostCommits PROVE ProposalInv'
  OBVIOUS
<1>1. PICK d : d = decision("host", 0, FALSE)
  OBVIOUS
<1>2. /\ proposalSteps' = proposalSteps + 1 /\ Enter(d)
      /\ UNCHANGED <<snapshotNo, fixes, matches, approvals, landed>>
  BY <1>1 DEF HostCommits, ProposalStep
<1>3. d \in Decisions /\ d.kind = "host" /\ d.no = 0 /\ d.stage = "waiting"
  BY <1>1 DEF decision, Decisions
<1>4. /\ decisions' \in Seq(Decisions) /\ InOrder(decisions') /\ HeadStays
      /\ ToSet(decisions') = ToSet(decisions) \cup {d}
  BY <1>2, <1>3, EnterFits
<1>5. DecisionFits(d)'
  BY <1>2, <1>3, NumbersSoFar DEF DecisionFits
<1>. QED
  BY <1>2, <1>4, <1>5, QueueGrows

(* The fix will be numbered by the call, and nothing has that number yet.  *)
LEMMA ProposeFixKeeps ==
    ASSUME ProposalInv, NEW impact \in Impacts, ProposeFix(impact)
    PROVE  ProposalInv'
<1>1. PICK c : c = decision("propose", proposalSteps', FALSE)
  OBVIOUS
<1>2. PICK d : d = [c EXCEPT !.impact = impact]
  OBVIOUS
<1>3. /\ proposalSteps' = proposalSteps + 1 /\ Enter(d) /\ proposalSteps' \in Nat
      /\ UNCHANGED <<snapshotNo, fixes, matches, approvals, landed>>
  BY <1>1, <1>2, NumbersSoFar DEF ProposeFix, ProposalStep
<1>4. c \in Decisions /\ c.kind = "propose" /\ c.no = proposalSteps' /\ c.stage = "waiting"
  BY <1>1, <1>3 DEF decision, Decisions
<1>5. /\ d \in Decisions /\ d.kind = "propose" /\ d.no = proposalSteps' /\ d.stage = "waiting"
      /\ d.impact = impact
  BY <1>2, <1>4 DEF Decisions
<1>6. \A e \in ToSet(decisions) : e.no # d.no
  BY <1>3, <1>5, NumbersSoFar
<1>7. /\ decisions' \in Seq(Decisions) /\ InOrder(decisions') /\ HeadStays
      /\ ToSet(decisions') = ToSet(decisions) \cup {d}
  BY <1>3, <1>5, <1>6, EnterFits
<1>8. \A x \in ToSet(landed) : x.no # d.no
  BY <1>3, <1>5, NumbersSoFar
<1>9. \A x \in ToSet(fixes) : x.no # d.no
  BY <1>3, <1>5, NumbersSoFar
<1>10. DecisionFits(d)'
  BY <1>3, <1>5, <1>8, <1>9 DEF DecisionFits, hasLanded
<1>. QED
  BY <1>3, <1>7, <1>10, QueueGrows

LEMMA ApplyFixKeeps ==
    ASSUME ProposalInv, NEW i, NEW supersede \in BOOLEAN, ApplyFix(i, supersede)
    PROVE  ProposalInv'
<1>1. PICK d : d = decision("fix", fixes[i].no, supersede)
  OBVIOUS
<1>2. /\ proposalSteps' = proposalSteps + 1 /\ Enter(d) /\ i \in DOMAIN fixes
      /\ UNCHANGED <<snapshotNo, fixes, matches, approvals, landed>>
  BY <1>1 DEF ApplyFix, ProposalStep
<1>3. fixes[i] \in ToSet(fixes)
  BY <1>2 DEF ToSet
<1>4. fixes[i].no \in Nat /\ fixes[i].no <= proposalSteps /\ proposalSteps \in Nat
  BY <1>3, NumbersSoFar
<1>5. d \in Decisions /\ d.kind = "fix" /\ d.no = fixes[i].no /\ d.stage = "waiting"
  BY <1>1, <1>4 DEF decision, Decisions
<1>6. /\ decisions' \in Seq(Decisions) /\ InOrder(decisions') /\ HeadStays
      /\ ToSet(decisions') = ToSet(decisions) \cup {d}
  BY <1>2, <1>5, EnterFits
<1>7. DecisionFits(d)'
  <2>1. d.no <= proposalSteps'
    BY <1>2, <1>4, <1>5
  <2>. QED
    BY <1>5, <2>1 DEF DecisionFits
<1>. QED
  BY <1>2, <1>6, <1>7, QueueGrows

-----------------------------------------------------------------------------
(* Deciding on a match.                                                    *)

(* One match changes its status, and only its approvals come or go.        *)
LEMMA MarkedMatchFits ==
    ASSUME ProposalInv, proposalSteps' \in {proposalSteps, proposalSteps + 1},
           UNCHANGED <<snapshotNo, landed>>,
           NEW no, NEW st \in MatchStatus, matches' = withStatus(matches, no, st),
           \A n : n # no => (n \in approvalNos' <=> n \in approvalNos),
           st = "active" => no \notin approvalNos',
           st = "approvalPending" => no \in approvalNos',
           st = "applying" => heads("match", "committing")' /\ decisions'[1].no = no,
           \A x \in ToSet(matches) : x.no = no /\ st \in {"active", "approvalPending", "applying"} =>
              x.base = snapshotNo /\ ~hasLanded("match", no),
           \A x \in ToSet(matches) : x.no # no /\ x.status = "applying" =>
              heads("match", "committing")' /\ decisions'[1].no = x.no
    PROVE  /\ matches' \in Seq(MatchRecords) /\ MatchesFit'
           /\ \A x \in ToSet(matches) : \E y \in ToSet(matches') :
                 y.no = x.no /\ y.status = IF x.no = no THEN st ELSE x.status
<1>1. matches \in Seq(MatchRecords) /\ OneEach(ToSet(matches))
  BY DEF ProposalInv, ProposalTypes, MatchesFit
<1>2. /\ matches' \in Seq(MatchRecords) /\ OneEach(ToSet(matches'))
      /\ \A y \in ToSet(matches') : \E x \in ToSet(matches) :
            /\ y.no = x.no /\ y.base = x.base
            /\ y.status = IF x.no = no THEN st ELSE x.status
      /\ \A x \in ToSet(matches) : \E y \in ToSet(matches') :
            y.no = x.no /\ y.status = IF x.no = no THEN st ELSE x.status
  BY <1>1, MarkingMatches
<1>3. ASSUME NEW y \in ToSet(matches')
      PROVE  MatchFits(y)'
  <2>1. PICK x \in ToSet(matches) : /\ y.no = x.no /\ y.base = x.base
                                    /\ y.status = IF x.no = no THEN st ELSE x.status
    BY <1>2
  <2>2. y.no <= proposalSteps'
    BY <2>1, NumbersSoFar
  <2>3. hasLanded("match", y.no)' <=> hasLanded("match", y.no)
    BY DEF hasLanded
  <2>4. MatchFits(x)
    BY DEF ProposalInv, MatchesFit
  <2>5. CASE x.no = no
    BY <2>1, <2>2, <2>3, <2>5 DEF MatchFits
  <2>6. CASE x.no # no
    BY <2>1, <2>2, <2>3, <2>4, <2>6 DEF MatchFits
  <2>. QED
    BY <2>5, <2>6
<1>. QED
  BY <1>2, <1>3 DEF MatchesFit

(* The fixes are left alone, no queued approval goes.                      *)
LEMMA ApprovalStep ==
    ASSUME ProposalInv, proposalSteps' \in {proposalSteps, proposalSteps + 1},
           UNCHANGED <<snapshotNo, fixes, landed>>,
           approvals' \subseteq Approvals, ApprovalsFit', queuedNos \subseteq queuedNos',
           matches' \in Seq(MatchRecords), MatchesFit',
           \A x \in ToSet(matches) : x.status = "applying" =>
              \E y \in ToSet(matches') : y.no = x.no /\ y.status = "applying",
           decisions' \in Seq(Decisions), InOrder(decisions'), HeadStays,
           \A d \in ToSet(decisions') : d \in ToSet(decisions) \/ DecisionFits(d)'
    PROVE  ProposalInv'
<1>1. ProposalTypes'
  <2>1. proposalSteps' \in Nat
    BY NumbersSoFar
  <2>. QED
    BY <2>1 DEF ProposalInv, ProposalTypes
<1>2. FixesFit' /\ LandedFit' /\ HeadFits'
  BY FixesStay, LandedStays, HeadFitStays
<1>3. \A d \in ToSet(decisions) : DecisionFits(d)'
  <2>. TAKE d \in ToSet(decisions)
  <2>1. d.kind = "match" => d.no \in queuedNos'
    BY DEF ProposalInv, DecisionsFit, DecisionFits
  <2>. QED
    BY <2>1, DecisionStays
<1>4. DecisionsFit'
  BY <1>3 DEF DecisionsFit
<1>. QED
  BY <1>1, <1>2, <1>4 DEF ProposalInv

(* The match is new: its number is the call's.                             *)
LEMMA ProposeMaterialMatchKeeps == ProposalInv /\ ProposeMaterialMatch => ProposalInv'
<1>. SUFFICES ASSUME ProposalInv, ProposeMaterialMatch PROVE ProposalInv'
  OBVIOUS
<1>1. PICK m : m = [no |-> proposalSteps', base |-> snapshotNo, status |-> "active"]
  OBVIOUS
<1>2. /\ proposalSteps' = proposalSteps + 1 /\ proposalSteps \in Nat
      /\ matches' = trimProposals(Append(matches, m), "match")
      /\ UNCHANGED <<snapshotNo, fixes, approvals, decisions, landed>>
  BY <1>1, NumbersSoFar DEF ProposeMaterialMatch, ProposalStep
<1>3. m \in MatchRecords
  BY <1>1, <1>2 DEF MatchRecords, MatchStatus, ProposalInv, ProposalTypes
<1>4. matches \in Seq(MatchRecords) /\ decisions \in Seq(Decisions) /\ InOrder(decisions)
  BY DEF ProposalInv, ProposalTypes, DecisionsFit
<1>5. /\ Append(matches, m) \in Seq(MatchRecords)
      /\ ToSet(Append(matches, m)) = ToSet(matches) \cup {m}
  BY <1>3, <1>4, AppendSet
<1>6. /\ matches' \in Seq(MatchRecords) /\ ToSet(matches') \subseteq ToSet(matches) \cup {m}
      /\ \A x \in ToSet(matches) : x.status = "applying" => x \in ToSet(matches')
  BY <1>2, <1>5, TrimmingTrims DEF Trimmed, unfinished
<1>7. approvalNos' = approvalNos /\ queuedNos' = queuedNos
  BY <1>2 DEF approvalNos, queuedNos
<1>8. HeadStays
  BY <1>2 DEF HeadStays
<1>9. \A x \in ToSet(matches) : x.no # m.no
  BY <1>1, <1>2, NumbersSoFar
<1>10. MatchFits(m)'
  <2>1. m.no \notin approvalNos
    BY <1>1, <1>2, NumbersSoFar DEF approvalNos
  <2>2. ~hasLanded("match", m.no)'
    BY <1>1, <1>2, NumbersSoFar DEF hasLanded
  <2>3. m.no <= proposalSteps' /\ m.base = snapshotNo' /\ m.status = "active"
    BY <1>1, <1>2
  <2>. QED
    BY <1>7, <2>1, <2>2, <2>3 DEF MatchFits
<1>11. MatchesFit'
  <2>1. \A x \in ToSet(matches) : MatchFits(x)'
    <3>. TAKE x \in ToSet(matches)
    <3>1. MatchFits(x)
      BY DEF ProposalInv, MatchesFit
    <3>2. x.no <= proposalSteps'
      BY <1>2, NumbersSoFar
    <3>3. hasLanded("match", x.no)' <=> hasLanded("match", x.no)
      BY <1>2 DEF hasLanded
    <3>. QED
      BY <1>2, <1>7, <1>8, <3>1, <3>2, <3>3, HeadStaysSame DEF MatchFits
  <2>2. OneEach(ToSet(matches) \cup {m})
    BY <1>9 DEF ProposalInv, MatchesFit, OneEach
  <2>. QED
    BY <1>6, <1>10, <2>1, <2>2 DEF MatchesFit, OneEach
<1>12. ApprovalsFit' /\ approvals' \subseteq Approvals
  BY <1>2, ApprovalsStay
<1>. QED
  BY <1>2, <1>4, <1>6, <1>7, <1>8, <1>11, <1>12, ApprovalStep

LEMMA ApprovalGoes ==
    ASSUME ProposalInv, NEW a \in approvals, approvals' = approvals \ {a},
           proposalSteps' = proposalSteps
    PROVE  /\ approvals' \subseteq Approvals /\ ApprovalsFit'
           /\ a.no \notin approvalNos' /\ a.no \in approvalNos
           /\ \A n : n # a.no => (n \in approvalNos' <=> n \in approvalNos)
           /\ \A n : n # a.no => (n \in queuedNos' <=> n \in queuedNos)
           /\ a.stage = "policy" => a.no \notin queuedNos
<1>1. approvals' \subseteq Approvals /\ ApprovalsFit'
  BY ApprovalsStay
<1>2. \A b \in approvals : b.no = a.no => b = a
  BY DEF ProposalInv, ApprovalsFit, OneEach
<1>. QED
  BY <1>1, <1>2 DEF approvalNos, queuedNos

LEMMA ApprovalMoves ==
    ASSUME ProposalInv, NEW a \in approvals, NEW b \in Approvals, b.no = a.no,
           approvals' = (approvals \ {a}) \cup {b}, proposalSteps' = proposalSteps
    PROVE  /\ approvals' \subseteq Approvals /\ ApprovalsFit' /\ approvalNos' = approvalNos
           /\ \A n : n # a.no => (n \in queuedNos' <=> n \in queuedNos)
           /\ a.no \in queuedNos <=> a.stage = "queued"
           /\ a.no \in queuedNos' <=> b.stage = "queued"
<1>1. approvals \subseteq Approvals /\ OneEach(approvals) /\ \A c \in approvals : c.no <= proposalSteps
  BY DEF ProposalInv, ProposalTypes, ApprovalsFit
<1>2. \A c \in approvals : c.no = a.no => c = a
  BY <1>1 DEF OneEach
<1>3. approvals' \subseteq Approvals
  BY <1>1
<1>4. OneEach(approvals')
  BY <1>1, <1>2 DEF OneEach
<1>5. ApprovalsFit'
  BY <1>1, <1>4 DEF ApprovalsFit
<1>6. approvalNos' = approvalNos
  BY DEF approvalNos
<1>7. \A n : n # a.no => (n \in queuedNos' <=> n \in queuedNos)
  BY DEF queuedNos
<1>8. (a.no \in queuedNos <=> a.stage = "queued") /\ (a.no \in queuedNos' <=> b.stage = "queued")
  BY <1>2 DEF queuedNos
<1>. QED
  BY <1>3, <1>5, <1>6, <1>7, <1>8

LEMMA ReleasedFits ==
    ASSUME ProposalInv, NEW a \in approvals, Released(a), approvals' = approvals \ {a},
           UNCHANGED <<snapshotNo, landed, proposalSteps>>, HeadStays \/ ~committing(decisions)
    PROVE  /\ matches' \in Seq(MatchRecords) /\ MatchesFit'
           /\ \A x \in ToSet(matches) : x.status = "applying" =>
                 \E y \in ToSet(matches') : y.no = x.no /\ y.status = "applying"
<1>1. matches \in Seq(MatchRecords) /\ OneEach(ToSet(matches))
  BY DEF ProposalInv, ProposalTypes, MatchesFit
<1>2. /\ a.no \notin approvalNos'
      /\ \A n : n # a.no => (n \in approvalNos' <=> n \in approvalNos)
  BY ApprovalGoes
<1>3. \A x \in ToSet(matches) : x.no = a.no => numberedIn(matches, a.no) # {} /\ matchOf(a) = x
  BY <1>1, MatchOfNumber
<1>4. CASE ~isPending(a)
  <2>1. matches' = matches
    BY <1>4 DEF Released
  <2>2. \A x \in ToSet(matches) : x.status = "approvalPending" => x.no # a.no
    BY <1>3, <1>4 DEF isPending
  <2>3. MatchesFit'
    BY <1>2, <2>1, <2>2, MatchesStay DEF approvalNos
  <2>. QED
    BY <1>1, <2>1, <2>3
<1>5. CASE isPending(a)
  <2>1. PICK st : st = IF isCurrent(a) THEN "active" ELSE "stale"
    OBVIOUS
  <2>2. st \in MatchStatus /\ st # "applying" /\ st # "approvalPending"
    BY <2>1 DEF MatchStatus
  <2>3. matches' = withStatus(matches, a.no, st)
    BY <1>5, <2>1 DEF Released
  <2>4. \A x \in ToSet(matches) : x.no = a.no => x.status = "approvalPending"
    BY <1>3, <1>5 DEF isPending
  <2>5. \A x \in ToSet(matches) :
           x.no = a.no => x.base = snapshotNo /\ ~hasLanded("match", a.no)
    BY <2>4 DEF ProposalInv, MatchesFit, MatchFits
  <2>6. \A x \in ToSet(matches) : x.status = "applying" =>
           heads("match", "committing")' /\ decisions'[1].no = x.no
    BY NobodyApplies, HeadStaysSame DEF ProposalInv, MatchesFit, MatchFits
  <2>7. /\ matches' \in Seq(MatchRecords) /\ MatchesFit'
        /\ \A x \in ToSet(matches) : \E y \in ToSet(matches') :
              y.no = x.no /\ y.status = IF x.no = a.no THEN st ELSE x.status
    BY <1>2, <2>2, <2>3, <2>5, <2>6, MarkedMatchFits
  <2>. QED
    BY <2>4, <2>7
<1>. QED
  BY <1>4, <1>5

\* What nobody decided on is of the published revision: a policy that throws
\* may leave it active.
LEMMA FreedReleases ==
    ASSUME ProposalInv, NEW a \in approvals, Freed(a)
    PROVE  Released(a)
<1>1. CASE ~isPending(a)
  BY <1>1 DEF Freed, Released
<1>2. CASE isPending(a)
  <2>1. matches \in Seq(MatchRecords) /\ OneEach(ToSet(matches))
    BY DEF ProposalInv, ProposalTypes, MatchesFit
  <2>2. PICK x \in ToSet(matches) : x.no = a.no
    BY <1>2, <2>1 DEF isPending, numberedIn, ToSet
  <2>3. matchOf(a) = x /\ x.status = "approvalPending"
    BY <1>2, <2>1, <2>2, MatchOfNumber DEF isPending
  <2>4. isCurrent(a)
    BY <2>3 DEF isCurrent, ProposalInv, MatchesFit, MatchFits
  <2>. QED
    BY <1>2, <2>4 DEF Freed, Released
<1>. QED
  BY <1>1, <1>2

LEMMA ApprovalFailsKeeps ==
    ASSUME ProposalInv, NEW a \in approvals, ApprovalFails(a)
    PROVE  ProposalInv'
<1>1. /\ a.stage = "policy" /\ Released(a) /\ approvals' = approvals \ {a}
      /\ UNCHANGED <<snapshotNo, fixes, decisions, landed, proposalSteps>>
  BY FreedReleases DEF ApprovalFails
<1>2. HeadStays /\ decisions \in Seq(Decisions) /\ InOrder(decisions)
  BY <1>1 DEF HeadStays, ProposalInv, ProposalTypes, DecisionsFit
<1>3. /\ approvals' \subseteq Approvals /\ ApprovalsFit'
      /\ \A n : n # a.no => (n \in queuedNos' <=> n \in queuedNos)
      /\ a.no \notin queuedNos
  BY <1>1, ApprovalGoes
<1>4. queuedNos \subseteq queuedNos'
  BY <1>3
<1>5. /\ matches' \in Seq(MatchRecords) /\ MatchesFit'
      /\ \A x \in ToSet(matches) : x.status = "applying" =>
            \E y \in ToSet(matches') : y.no = x.no /\ y.status = "applying"
  BY <1>1, <1>2, ReleasedFits
<1>. QED
  BY <1>1, <1>2, <1>3, <1>4, <1>5, ApprovalStep

LEMMA AbortQueuedKeeps ==
    ASSUME ProposalInv, NEW a \in approvals, AbortQueued(a)
    PROVE  ProposalInv'
<1>1. PICK b : b = [a EXCEPT !.aborted = TRUE]
  OBVIOUS
<1>2. /\ a.stage = "queued" /\ approvals' = (approvals \ {a}) \cup {b}
      /\ UNCHANGED <<snapshotNo, fixes, matches, decisions, landed, proposalSteps>>
  BY <1>1 DEF AbortQueued
<1>3. b \in Approvals /\ b.no = a.no /\ b.stage = a.stage
  BY <1>1, NumbersSoFar DEF Approvals
<1>4. HeadStays /\ decisions \in Seq(Decisions) /\ InOrder(decisions) /\ matches \in Seq(MatchRecords)
  BY <1>2 DEF HeadStays, ProposalInv, ProposalTypes, DecisionsFit
<1>5. /\ approvals' \subseteq Approvals /\ ApprovalsFit' /\ approvalNos' = approvalNos
      /\ queuedNos \subseteq queuedNos'
  BY <1>2, <1>3, ApprovalMoves
<1>6. MatchesFit'
  BY <1>2, <1>4, <1>5, MatchesStay
<1>. QED
  BY <1>2, <1>4, <1>5, <1>6, ApprovalStep

LEMMA ApplyMaterialMatchKeeps ==
    ASSUME ProposalInv, NEW i, ApplyMaterialMatch(i)
    PROVE  ProposalInv'
<1>1. PICK m : m = matches[i]
  OBVIOUS
<1>2. /\ proposalSteps' = proposalSteps + 1 /\ m.status = "active" /\ i \in DOMAIN matches
      /\ UNCHANGED <<snapshotNo, fixes, decisions, landed>>
  BY <1>1 DEF ApplyMaterialMatch, ProposalStep
<1>3. /\ HeadStays /\ decisions \in Seq(Decisions) /\ InOrder(decisions)
      /\ matches \in Seq(MatchRecords) /\ OneEach(ToSet(matches))
  BY <1>2 DEF HeadStays, ProposalInv, ProposalTypes, DecisionsFit, MatchesFit
<1>4. m \in ToSet(matches) /\ MatchFits(m)
  BY <1>1, <1>2 DEF ToSet, ProposalInv, MatchesFit
<1>5. \A x \in ToSet(matches) : x.no = m.no => x = m
  BY <1>3, <1>4 DEF OneEach
<1>6. /\ m.no \notin approvalNos /\ m.base = snapshotNo /\ ~hasLanded("match", m.no)
      /\ m.no \in Nat /\ m.no <= proposalSteps
  BY <1>2, <1>4, NumbersSoFar DEF MatchFits
<1>7. \A x \in ToSet(matches) : x.status = "applying" =>
         heads("match", "committing")' /\ decisions'[1].no = x.no
  BY <1>3, HeadStaysSame DEF ProposalInv, MatchesFit, MatchFits
<1>8. PICK a : a = [no |-> m.no, stage |-> "policy", aborted |-> FALSE]
  OBVIOUS
<1>9. a \in Approvals /\ a.no = m.no /\ a.stage = "policy"
  BY <1>6, <1>8 DEF Approvals
<1>10. /\ matches' = withStatus(matches, m.no, "approvalPending")
       /\ approvals' = approvals \cup {a}
  BY <1>1, <1>6, <1>8 DEF ApplyMaterialMatch
<1>11. /\ \A n : n # m.no => (n \in approvalNos' <=> n \in approvalNos)
       /\ m.no \in approvalNos' /\ queuedNos \subseteq queuedNos'
  BY <1>9, <1>10 DEF approvalNos, queuedNos
<1>12. approvals' \subseteq Approvals /\ ApprovalsFit'
  <2>1. approvals \subseteq Approvals /\ \A b \in approvals : b.no # m.no
    BY <1>6 DEF approvalNos, ProposalInv, ProposalTypes
  <2>2. \A b \in approvals' : b.no <= proposalSteps'
    BY <1>2, <1>6, <1>9, <1>10, NumbersSoFar
  <2>. QED
    BY <1>9, <1>10, <2>1, <2>2 DEF ApprovalsFit, OneEach, ProposalInv
<1>13. "approvalPending" \in MatchStatus
  BY DEF MatchStatus
<1>14. /\ matches' \in Seq(MatchRecords) /\ MatchesFit'
       /\ \A x \in ToSet(matches) : \E y \in ToSet(matches') :
             y.no = x.no /\ y.status = IF x.no = m.no THEN "approvalPending" ELSE x.status
  BY <1>2, <1>5, <1>6, <1>7, <1>10, <1>11, <1>13, MarkedMatchFits
<1>15. \A x \in ToSet(matches) : x.status = "applying" =>
          \E y \in ToSet(matches') : y.no = x.no /\ y.status = "applying"
  BY <1>2, <1>5, <1>14
<1>. QED
  BY <1>2, <1>3, <1>11, <1>12, <1>14, <1>15, ApprovalStep

LEMMA ApprovedKeeps ==
    ASSUME ProposalInv, NEW a \in approvals, Approved(a)
    PROVE  ProposalInv'
<1>1. /\ a.stage = "policy"
      /\ UNCHANGED <<snapshotNo, fixes, landed, proposalSteps>>
  BY DEF Approved
<1>2. a \in Approvals /\ a.no \in Nat /\ a.no <= proposalSteps
  BY NumbersSoFar
<1>3. /\ decisions \in Seq(Decisions) /\ InOrder(decisions)
      /\ matches \in Seq(MatchRecords) /\ OneEach(ToSet(matches))
  BY DEF ProposalInv, ProposalTypes, DecisionsFit, MatchesFit
<1>4. CASE isPending(a) /\ isCurrent(a)
  <2>1. PICK b : b = [a EXCEPT !.stage = "queued"]
    OBVIOUS
  <2>2. PICK d : d = decision("match", a.no, FALSE)
    OBVIOUS
  <2>3. /\ Enter(d) /\ matches' = matches
        /\ approvals' = (approvals \ {a}) \cup {b}
    BY <1>4, <2>1, <2>2 DEF Approved
  <2>4. b \in Approvals /\ b.no = a.no /\ b.stage = "queued"
    BY <1>2, <2>1 DEF Approvals
  <2>5. d \in Decisions /\ d.kind = "match" /\ d.no = a.no /\ d.stage = "waiting"
    BY <1>2, <2>2 DEF decision, Decisions
  <2>6. /\ approvals' \subseteq Approvals /\ ApprovalsFit' /\ approvalNos' = approvalNos
        /\ a.no \notin queuedNos /\ a.no \in queuedNos' /\ queuedNos \subseteq queuedNos'
    BY <1>1, <2>3, <2>4, ApprovalMoves
  <2>7. \A c \in ToSet(decisions) : c.kind = "match" => c.no # d.no
    BY <2>5, <2>6 DEF ProposalInv, DecisionsFit, DecisionFits
  <2>8. /\ decisions' \in Seq(Decisions) /\ InOrder(decisions') /\ HeadStays
        /\ ToSet(decisions') = ToSet(decisions) \cup {d}
    BY <2>3, <2>5, <2>7, EnterFits
  <2>9. DecisionFits(d)'
    BY <1>1, <1>2, <2>5, <2>6 DEF DecisionFits
  <2>10. MatchesFit'
    BY <1>1, <2>3, <2>6, <2>8, MatchesStay
  <2>. QED
    BY <1>1, <1>3, <2>3, <2>6, <2>8, <2>9, <2>10, ApprovalStep
<1>5. CASE ~(isPending(a) /\ isCurrent(a))
  <2>1. /\ matches' = IF isPending(a) THEN withStatus(matches, a.no, "stale") ELSE matches
        /\ approvals' = approvals \ {a} /\ decisions' = decisions
    BY <1>5 DEF Approved
  <2>2. Released(a)
    BY <1>5, <2>1 DEF Released
  <2>3. HeadStays
    BY <2>1 DEF HeadStays
  <2>4. /\ approvals' \subseteq Approvals /\ ApprovalsFit' /\ queuedNos \subseteq queuedNos'
    BY <1>1, <2>1, ApprovalGoes
  <2>5. /\ matches' \in Seq(MatchRecords) /\ MatchesFit'
        /\ \A x \in ToSet(matches) : x.status = "applying" =>
              \E y \in ToSet(matches') : y.no = x.no /\ y.status = "applying"
    BY <1>1, <2>1, <2>2, <2>3, ReleasedFits
  <2>. QED
    BY <1>1, <1>3, <2>1, <2>3, <2>4, <2>5, ApprovalStep
<1>. QED
  BY <1>4, <1>5

-----------------------------------------------------------------------------
(* The running task.                                                       *)

LEMMA HeadFacts ==
    ASSUME ProposalInv, decisions # <<>>
    PROVE  /\ decisions \in Seq(Decisions) /\ InOrder(decisions)
           /\ decisions[1] \in Decisions /\ decisions[1] \in ToSet(decisions)
           /\ DecisionFits(decisions[1])
           /\ Leave => /\ decisions' \in Seq(Decisions) /\ InOrder(decisions')
                       /\ ToSet(decisions') \subseteq ToSet(decisions) /\ ~committing(decisions')
                       /\ \A d \in ToSet(decisions') :
                             d.kind = decisions[1].kind /\ d.kind \in {"propose", "match"}
                                => d.no # decisions[1].no
                       /\ HeadFits'
<1>1. decisions \in Seq(Decisions) /\ InOrder(decisions)
  BY DEF ProposalInv, ProposalTypes, DecisionsFit
<1>2. /\ Tail(decisions) \in Seq(Decisions) /\ InOrder(Tail(decisions))
      /\ ToSet(Tail(decisions)) \subseteq ToSet(decisions) /\ ~committing(Tail(decisions))
      /\ decisions[1] \in Decisions /\ decisions[1] \in ToSet(decisions)
      /\ \A d \in ToSet(Tail(decisions)) :
            d.kind = decisions[1].kind /\ d.kind \in {"propose", "match"}
               => d.no # decisions[1].no
  BY <1>1, LeavingKeepsOrder
<1>3. Leave => decisions' = Tail(decisions)
  BY DEF Leave
<1>4. DecisionFits(decisions[1])
  BY <1>2 DEF ProposalInv, DecisionsFit
<1>. QED
  BY <1>1, <1>2, <1>3, <1>4, NoHead

(* A task leaves without a commit, and no match is touched.                *)
LEMMA FixStoreStep ==
    ASSUME ProposalInv, UNCHANGED <<snapshotNo, matches, approvals, landed, proposalSteps>>,
           fixes' \in Seq(FixRecords), FixesFit', HeadFits',
           decisions' \in Seq(Decisions), InOrder(decisions'), ~committing(decisions),
           \A d \in ToSet(decisions') : DecisionFits(d)'
    PROVE  ProposalInv'
<1>1. ProposalTypes'
  BY DEF ProposalInv, ProposalTypes
<1>2. approvalNos' = approvalNos
  BY DEF approvalNos
<1>3. MatchesFit' /\ ApprovalsFit' /\ LandedFit'
  BY <1>2, MatchesStay, ApprovalsStay, LandedStays
<1>4. DecisionsFit'
  BY DEF DecisionsFit
<1>. QED
  BY <1>1, <1>3, <1>4 DEF ProposalInv

LEMMA MarkedFixFits ==
    ASSUME ProposalInv, UNCHANGED <<snapshotNo, landed, proposalSteps>>,
           NEW no, NEW st \in FixStatus, fixes' = withStatus(fixes, no, st),
           st = "applying" => heads("fix", "committing")' /\ decisions'[1].no = no,
           \A x \in ToSet(fixes) : x.no = no /\ st \in {"active", "applying"} =>
              x.base = snapshotNo /\ ~hasLanded("fix", no),
           \A x \in ToSet(fixes) : x.no # no /\ x.status = "applying" =>
              heads("fix", "committing")' /\ decisions'[1].no = x.no
    PROVE  /\ fixes' \in Seq(FixRecords) /\ FixesFit'
           /\ \A y \in ToSet(fixes') : \E x \in ToSet(fixes) : y.no = x.no
           /\ \A x \in ToSet(fixes) : \E y \in ToSet(fixes') :
                 y.no = x.no /\ y.status = IF x.no = no THEN st ELSE x.status
<1>1. fixes \in Seq(FixRecords) /\ OneEach(ToSet(fixes))
  BY DEF ProposalInv, ProposalTypes, FixesFit
<1>2. /\ fixes' \in Seq(FixRecords) /\ OneEach(ToSet(fixes'))
      /\ \A y \in ToSet(fixes') : \E x \in ToSet(fixes) :
            /\ y.no = x.no /\ y.base = x.base
            /\ y.status = IF x.no = no THEN st ELSE x.status
      /\ \A x \in ToSet(fixes) : \E y \in ToSet(fixes') :
            y.no = x.no /\ y.status = IF x.no = no THEN st ELSE x.status
  BY <1>1, MarkingFixes
<1>3. ASSUME NEW y \in ToSet(fixes')
      PROVE  FixFits(y)'
  <2>1. PICK x \in ToSet(fixes) : /\ y.no = x.no /\ y.base = x.base
                                  /\ y.status = IF x.no = no THEN st ELSE x.status
    BY <1>2
  <2>2. y.no <= proposalSteps'
    BY <2>1, NumbersSoFar
  <2>3. hasLanded("fix", y.no)' <=> hasLanded("fix", y.no)
    BY DEF hasLanded
  <2>4. FixFits(x)
    BY DEF ProposalInv, FixesFit
  <2>5. CASE x.no = no
    BY <2>1, <2>2, <2>3, <2>5 DEF FixFits
  <2>6. CASE x.no # no
    BY <2>1, <2>2, <2>3, <2>4, <2>6 DEF FixFits
  <2>. QED
    BY <2>5, <2>6
<1>. QED
  BY <1>2, <1>3 DEF FixesFit

LEMMA FixIssuedKeeps == ProposalInv /\ FixIssued => ProposalInv'
<1>. SUFFICES ASSUME ProposalInv, FixIssued PROVE ProposalInv'
  OBVIOUS
<1>1. PICK h : h = decisions[1]
  OBVIOUS
<1>2. PICK m : m = [no |-> h.no, base |-> snapshotNo, impact |-> h.impact, status |-> "active"]
  OBVIOUS
<1>3. /\ decisions # <<>> /\ h.kind = "propose" /\ h.stage = "waiting" /\ Leave
      /\ fixes' = trimProposals(Append(fixes, m), "fix")
      /\ UNCHANGED <<snapshotNo, matches, approvals, landed, proposalSteps>>
  BY <1>1, <1>2 DEF FixIssued, heads
<1>4. /\ decisions' \in Seq(Decisions) /\ InOrder(decisions') /\ HeadFits'
      /\ ToSet(decisions') \subseteq ToSet(decisions) /\ h \in ToSet(decisions)
      /\ \A d \in ToSet(decisions') : d.kind = "propose" => d.no # h.no
  BY <1>1, <1>3, HeadFacts
<1>5. ~committing(decisions)
  BY <1>1, <1>3 DEF committing
<1>6. /\ h.no \in Nat /\ h.no <= proposalSteps /\ h.impact \in Impacts
      /\ ~hasLanded("fix", h.no) /\ \A x \in ToSet(fixes) : x.no # h.no
  BY <1>3, <1>4, NumbersSoFar DEF ProposalInv, DecisionsFit, DecisionFits
<1>7. snapshotNo \in Nat /\ fixes \in Seq(FixRecords) /\ OneEach(ToSet(fixes))
  BY DEF ProposalInv, ProposalTypes, FixesFit
<1>8. m \in FixRecords
  BY <1>2, <1>6, <1>7 DEF FixRecords, FixStatus
<1>9. /\ Append(fixes, m) \in Seq(FixRecords)
      /\ ToSet(Append(fixes, m)) = ToSet(fixes) \cup {m}
  BY <1>7, <1>8, AppendSet
<1>10. fixes' \in Seq(FixRecords) /\ ToSet(fixes') \subseteq ToSet(fixes) \cup {m}
  BY <1>3, <1>9, TrimmingTrims DEF Trimmed
<1>11. FixFits(m)'
  BY <1>2, <1>3, <1>6 DEF FixFits, hasLanded
<1>12. FixesFit'
  <2>1. \A x \in ToSet(fixes) : FixFits(x)'
    <3>. TAKE x \in ToSet(fixes)
    <3>1. FixFits(x) /\ x.status # "applying"
      BY <1>5, NobodyApplies DEF ProposalInv, FixesFit
    <3>2. hasLanded("fix", x.no)' <=> hasLanded("fix", x.no)
      BY <1>3 DEF hasLanded
    <3>. QED
      BY <1>3, <3>1, <3>2 DEF FixFits
  <2>2. OneEach(ToSet(fixes) \cup {m})
    BY <1>2, <1>6, <1>7 DEF OneEach
  <2>. QED
    BY <1>10, <1>11, <2>1, <2>2 DEF FixesFit, OneEach
<1>13. \A d \in ToSet(decisions') : DecisionFits(d)'
  <2>. TAKE d \in ToSet(decisions')
  <2>1. d \in ToSet(decisions) /\ DecisionFits(d)
    BY <1>4 DEF ProposalInv, DecisionsFit
  <2>2. queuedNos' = queuedNos
    BY <1>3 DEF queuedNos
  <2>3. d.kind = "propose" => \A x \in ToSet(fixes') :
           x.no # d.no \/ \E y \in ToSet(fixes) : x.no = y.no
    BY <1>2, <1>4, <1>10
  <2>. QED
    BY <1>3, <2>1, <2>2, <2>3, DecisionStays DEF DecisionFits
<1>. QED
  BY <1>3, <1>4, <1>5, <1>10, <1>12, <1>13, FixStoreStep

LEMMA RefuseFixKeeps == ProposalInv /\ RefuseFix => ProposalInv'
<1>. SUFFICES ASSUME ProposalInv, RefuseFix PROVE ProposalInv'
  OBVIOUS
<1>1. /\ decisions # <<>> /\ ~committing(decisions) /\ Leave
      /\ UNCHANGED <<snapshotNo, matches, approvals, landed, proposalSteps>>
  BY DEF RefuseFix, heads, committing
<1>2. /\ decisions' \in Seq(Decisions) /\ InOrder(decisions') /\ HeadFits'
      /\ ToSet(decisions') \subseteq ToSet(decisions)
  BY <1>1, HeadFacts
<1>3. /\ fixes' \in Seq(FixRecords) /\ FixesFit'
      /\ \A y \in ToSet(fixes') : \E x \in ToSet(fixes) : y.no = x.no
  <2>1. CASE fixes' = fixes
    <3>1. FixesFit'
      BY <1>1, <2>1, FixesStay
    <3>. QED
      BY <2>1, <3>1 DEF ProposalInv, ProposalTypes
  <2>2. CASE fixes' = withStatus(fixes, decisions[1].no, "stale")
    <3>1. "stale" \in FixStatus
      BY DEF FixStatus
    <3>2. \A x \in ToSet(fixes) : x.status # "applying"
      BY <1>1, NobodyApplies
    <3>. QED
      BY <1>1, <2>2, <3>1, <3>2, MarkedFixFits
  <2>. QED
    BY <2>1, <2>2 DEF RefuseFix
<1>4. \A d \in ToSet(decisions') : DecisionFits(d)'
  <2>. TAKE d \in ToSet(decisions')
  <2>1. d \in ToSet(decisions) /\ DecisionFits(d)
    BY <1>2 DEF ProposalInv, DecisionsFit
  <2>2. queuedNos' = queuedNos
    BY <1>1 DEF queuedNos
  <2>. QED
    BY <1>1, <1>3, <2>1, <2>2, DecisionStays DEF DecisionFits
<1>. QED
  BY <1>1, <1>2, <1>3, <1>4, FixStoreStep

LEMMA StartFixKeeps == ProposalInv /\ StartFix => ProposalInv'
<1>. SUFFICES ASSUME ProposalInv, StartFix PROVE ProposalInv'
  OBVIOUS
<1>1. PICK no : no = decisions[1].no
  OBVIOUS
<1>2. /\ decisions # <<>> /\ ~committing(decisions) /\ decisions[1].kind = "fix"
      /\ fixes' = withStatus(fixes, no, "applying") /\ Runs
      /\ numberedIn(fixes, no) # {} /\ fixOf(no).status = "active"
      /\ UNCHANGED <<snapshotNo, matches, approvals, landed, proposalSteps>>
  BY <1>1 DEF StartFix, heads, committing, fixMayStart
<1>3. decisions \in Seq(Decisions) /\ InOrder(decisions)
  BY DEF ProposalInv, ProposalTypes, DecisionsFit
<1>4. /\ decisions' \in Seq(Decisions) /\ InOrder(decisions') /\ committing(decisions')
      /\ decisions'[1].kind = "fix" /\ decisions'[1].no = no
      /\ \A d \in ToSet(decisions') : d \in ToSet(decisions) \/ (d.kind = "fix" /\ d.no = no)
  <2>1. decisions' = [decisions EXCEPT ![1].stage = "committing"]
    BY <1>2 DEF Runs
  <2>2. decisions[1].kind \in {"fix", "match"}
    BY <1>2
  <2>. QED
    BY <1>1, <1>2, <1>3, <2>1, <2>2, RunningKeepsOrder
<1>5. heads("fix", "committing")' /\ ~heads("match", "committing")'
  BY <1>4 DEF committing, heads
<1>6. fixes \in Seq(FixRecords) /\ OneEach(ToSet(fixes))
  BY DEF ProposalInv, ProposalTypes, FixesFit
<1>7. PICK f \in ToSet(fixes) : f.no = no /\ f.status = "active"
  BY <1>2, <1>6, FixOfNumber
<1>8. \A x \in ToSet(fixes) : x.no = no => x.base = snapshotNo /\ ~hasLanded("fix", no)
  BY <1>6, <1>7 DEF OneEach, ProposalInv, FixesFit, FixFits
<1>9. "applying" \in FixStatus
  BY DEF FixStatus
<1>10. \A x \in ToSet(fixes) : x.status # "applying"
  BY <1>2, NobodyApplies
<1>11. /\ fixes' \in Seq(FixRecords) /\ FixesFit'
       /\ \A y \in ToSet(fixes') : \E x \in ToSet(fixes) : y.no = x.no
       /\ \A x \in ToSet(fixes) : \E y \in ToSet(fixes') :
             y.no = x.no /\ y.status = IF x.no = no THEN "applying" ELSE x.status
  BY <1>2, <1>4, <1>5, <1>8, <1>9, <1>10, MarkedFixFits
<1>12. HeadFits'
  BY <1>4, <1>5, <1>7, <1>11 DEF HeadFits
<1>13. \A d \in ToSet(decisions') : DecisionFits(d)'
  <2>. TAKE d \in ToSet(decisions')
  <2>1. CASE d.kind = "fix" /\ d.no = no
    <3>1. no <= proposalSteps
      BY <1>7, NumbersSoFar
    <3>. QED
      BY <1>2, <2>1, <3>1 DEF DecisionFits
  <2>2. CASE d \in ToSet(decisions)
    <3>1. queuedNos' = queuedNos
      BY <1>2 DEF queuedNos
    <3>. QED
      BY <1>2, <1>11, <2>2, <3>1, DecisionStays DEF DecisionFits, ProposalInv, DecisionsFit
  <2>. QED
    BY <1>4, <2>1, <2>2
<1>. QED
  BY <1>2, <1>4, <1>11, <1>12, <1>13, FixStoreStep

LEMMA QueuedApprovalThere ==
    ASSUME ProposalInv, decisions # <<>>, decisions[1].kind = "match"
    PROVE  /\ queuedApproval \in approvals /\ queuedApproval.stage = "queued"
           /\ queuedApproval.no = decisions[1].no
<1>1. decisions[1].no \in queuedNos
  BY HeadFacts DEF DecisionFits
<1>2. \E a \in approvals : a.stage = "queued" /\ a.no = decisions[1].no
  BY <1>1 DEF queuedNos
<1>. QED
  BY <1>2 DEF queuedApproval

LEMMA StartMatchKeeps == ProposalInv /\ StartMatch => ProposalInv'
<1>. SUFFICES ASSUME ProposalInv, StartMatch PROVE ProposalInv'
  OBVIOUS
<1>1. PICK no : no = decisions[1].no
  OBVIOUS
<1>2. PICK a : a = queuedApproval
  OBVIOUS
<1>3. /\ decisions # <<>> /\ ~committing(decisions) /\ decisions[1].kind = "match"
      /\ matches' = withStatus(matches, no, "applying") /\ Runs /\ isPending(a)
      /\ UNCHANGED <<snapshotNo, fixes, approvals, landed, proposalSteps>>
  BY <1>1, <1>2 DEF StartMatch, heads, committing
<1>4. decisions \in Seq(Decisions) /\ InOrder(decisions)
  BY DEF ProposalInv, ProposalTypes, DecisionsFit
<1>5. /\ decisions' \in Seq(Decisions) /\ InOrder(decisions') /\ committing(decisions')
      /\ decisions'[1].kind = "match" /\ decisions'[1].no = no
      /\ \A d \in ToSet(decisions') : d \in ToSet(decisions) \/ (d.kind = "match" /\ d.no = no)
  <2>1. decisions' = [decisions EXCEPT ![1].stage = "committing"]
    BY <1>3 DEF Runs
  <2>2. decisions[1].kind \in {"fix", "match"}
    BY <1>3
  <2>. QED
    BY <1>1, <1>3, <1>4, <2>1, <2>2, RunningKeepsOrder
<1>6. heads("match", "committing")' /\ ~heads("fix", "committing")'
  BY <1>5 DEF committing, heads
<1>7. matches \in Seq(MatchRecords) /\ OneEach(ToSet(matches))
  BY DEF ProposalInv, ProposalTypes, MatchesFit
<1>8. a \in approvals /\ a.stage = "queued" /\ a.no = no
  BY <1>1, <1>2, <1>3, QueuedApprovalThere
<1>9. PICK m \in ToSet(matches) : m.no = no /\ m.status = "approvalPending"
  BY <1>3, <1>7, <1>8, MatchOfNumber DEF isPending
<1>10. \A x \in ToSet(matches) : x.no = no => x.base = snapshotNo /\ ~hasLanded("match", no)
  BY <1>7, <1>9 DEF OneEach, ProposalInv, MatchesFit, MatchFits
<1>11. "applying" \in MatchStatus
  BY DEF MatchStatus
<1>12. \A x \in ToSet(matches) : x.status # "applying"
  BY <1>3, NobodyApplies
<1>13. approvalNos' = approvalNos /\ queuedNos' = queuedNos
  BY <1>3 DEF approvalNos, queuedNos
<1>14. /\ matches' \in Seq(MatchRecords) /\ MatchesFit'
       /\ \A x \in ToSet(matches) : \E y \in ToSet(matches') :
             y.no = x.no /\ y.status = IF x.no = no THEN "applying" ELSE x.status
  BY <1>3, <1>5, <1>6, <1>10, <1>11, <1>12, <1>13, MarkedMatchFits
<1>15. HeadFits'
  BY <1>5, <1>6, <1>9, <1>14 DEF HeadFits
<1>16. \A d \in ToSet(decisions') : DecisionFits(d)'
  <2>. TAKE d \in ToSet(decisions')
  <2>1. CASE d.kind = "match" /\ d.no = no
    <3>1. no <= proposalSteps
      BY <1>9, NumbersSoFar
    <3>2. no \in queuedNos'
      BY <1>8, <1>13 DEF queuedNos
    <3>. QED
      BY <1>3, <2>1, <3>1, <3>2 DEF DecisionFits
  <2>2. CASE d \in ToSet(decisions)
    BY <1>3, <1>13, <2>2, DecisionStays DEF DecisionFits, ProposalInv, DecisionsFit
  <2>. QED
    BY <1>5, <2>1, <2>2
<1>17. FixesFit' /\ ApprovalsFit' /\ LandedFit'
  BY <1>3, FixesStay, ApprovalsStay, LandedStays
<1>18. ProposalTypes'
  BY <1>3, <1>5, <1>14 DEF ProposalInv, ProposalTypes
<1>. QED
  BY <1>5, <1>14, <1>15, <1>16, <1>17, <1>18 DEF ProposalInv, DecisionsFit

LEMMA RefuseMatchKeeps == ProposalInv /\ RefuseMatch => ProposalInv'
<1>. SUFFICES ASSUME ProposalInv, RefuseMatch PROVE ProposalInv'
  OBVIOUS
<1>1. PICK a : a = queuedApproval
  OBVIOUS
<1>2. /\ decisions # <<>> /\ ~committing(decisions) /\ decisions[1].kind = "match"
      /\ Released(a) /\ approvals' = approvals \ {a} /\ Leave
      /\ UNCHANGED <<snapshotNo, fixes, landed, proposalSteps>>
  BY <1>1 DEF RefuseMatch, heads, committing
<1>3. a \in approvals /\ a.stage = "queued" /\ a.no = decisions[1].no
  BY <1>1, <1>2, QueuedApprovalThere
<1>4. /\ decisions' \in Seq(Decisions) /\ InOrder(decisions') /\ HeadFits'
      /\ ToSet(decisions') \subseteq ToSet(decisions)
      /\ \A d \in ToSet(decisions') : d.kind = "match" => d.no # a.no
  BY <1>2, <1>3, HeadFacts
<1>5. /\ approvals' \subseteq Approvals /\ ApprovalsFit'
      /\ \A n : n # a.no => (n \in queuedNos' <=> n \in queuedNos)
  BY <1>2, <1>3, ApprovalGoes
<1>6. matches' \in Seq(MatchRecords) /\ MatchesFit'
  BY <1>2, <1>3, ReleasedFits
<1>7. FixesFit' /\ LandedFit'
  BY <1>2, FixesStay, LandedStays
<1>8. \A d \in ToSet(decisions') : DecisionFits(d)'
  <2>. TAKE d \in ToSet(decisions')
  <2>1. d \in ToSet(decisions) /\ DecisionFits(d)
    BY <1>4 DEF ProposalInv, DecisionsFit
  <2>2. d.kind = "match" => d.no \in queuedNos'
    BY <1>4, <1>5, <2>1 DEF DecisionFits
  <2>. QED
    BY <1>2, <2>1, <2>2, DecisionStays
<1>9. ProposalTypes'
  BY <1>2, <1>4, <1>5, <1>6 DEF ProposalInv, ProposalTypes
<1>. QED
  BY <1>4, <1>5, <1>6, <1>7, <1>8, <1>9 DEF ProposalInv, DecisionsFit

-----------------------------------------------------------------------------
(* A commit.                                                               *)

LEMMA FixesOutdated ==
    ASSUME ProposalInv, snapshotNo' = snapshotNo + 1,
           NEW r, r = expireProposals(fixes, "fix", snapshotNo')
    PROVE  /\ r \in Seq(FixRecords) /\ OneEach(ToSet(r))
           /\ \A y \in ToSet(r) : \E x \in ToSet(fixes) :
                 /\ y.no = x.no /\ y.status # "active"
                 /\ y.status = "applying" => x.status = "applying"
<1>1. fixes \in Seq(FixRecords) /\ OneEach(ToSet(fixes)) /\ snapshotNo \in Nat
  BY DEF ProposalInv, ProposalTypes, FixesFit
<1>2. \A x \in ToSet(fixes) : x.status = "active" => x.base # snapshotNo'
  BY <1>1 DEF ProposalInv, FixesFit, FixFits
<1>3. /\ r \in Seq(FixRecords) /\ OneEach(ToSet(r))
      /\ \A y \in ToSet(r) : \E x \in ToSet(fixes) :
            /\ y.no = x.no /\ y.base = x.base
            /\ y.status = "stale" \/ y.status = x.status
            /\ y.status = "active" => x.base = snapshotNo'
  BY <1>1, ExpiringFixes
<1>. QED
  BY <1>2, <1>3

LEMMA MatchesOutdated ==
    ASSUME ProposalInv, snapshotNo' = snapshotNo + 1,
           NEW r, r = expireProposals(matches, "match", snapshotNo')
    PROVE  /\ r \in Seq(MatchRecords) /\ OneEach(ToSet(r))
           /\ \A y \in ToSet(r) : \E x \in ToSet(matches) :
                 /\ y.no = x.no /\ y.status \notin {"active", "approvalPending"}
                 /\ y.status = "applying" => x.status = "applying"
<1>1. matches \in Seq(MatchRecords) /\ OneEach(ToSet(matches)) /\ snapshotNo \in Nat
  BY DEF ProposalInv, ProposalTypes, MatchesFit
<1>2. \A x \in ToSet(matches) :
         x.status \in {"active", "approvalPending"} => x.base # snapshotNo'
  BY <1>1 DEF ProposalInv, MatchesFit, MatchFits
<1>3. /\ r \in Seq(MatchRecords) /\ OneEach(ToSet(r))
      /\ \A y \in ToSet(r) : \E x \in ToSet(matches) :
            /\ y.no = x.no /\ y.base = x.base
            /\ y.status = "stale" \/ y.status = x.status
            /\ y.status \in {"active", "approvalPending"} => x.base = snapshotNo'
  BY <1>1, ExpiringMatches
<1>. QED
  BY <1>2, <1>3

(* Nothing is open after a commit.                                         *)
LEMMA ClosedFixesFit ==
    ASSUME ProposalInv, proposalSteps' = proposalSteps, OneEach(ToSet(fixes')),
           \A y \in ToSet(fixes') : /\ \E x \in ToSet(fixes) : y.no = x.no
                                    /\ y.status \notin {"active", "applying"}
    PROVE  FixesFit'
<1>1. \A y \in ToSet(fixes') : y.no <= proposalSteps'
  BY NumbersSoFar
<1>. QED
  BY <1>1 DEF FixesFit, FixFits

LEMMA ClosedMatchesFit ==
    ASSUME ProposalInv, proposalSteps' = proposalSteps, OneEach(ToSet(matches')),
           \A y \in ToSet(matches') :
              /\ \E x \in ToSet(matches) : y.no = x.no
              /\ y.status \notin {"active", "approvalPending", "applying"}
    PROVE  MatchesFit'
<1>1. \A y \in ToSet(matches') : y.no <= proposalSteps'
  BY NumbersSoFar
<1>. QED
  BY <1>1 DEF MatchesFit, MatchFits

LEMMA HostLandsKeeps == ProposalInv /\ HostLands => ProposalInv'
<1>. SUFFICES ASSUME ProposalInv, HostLands PROVE ProposalInv'
  OBVIOUS
<1>1. /\ decisions # <<>> /\ ~committing(decisions) /\ Leave
      /\ snapshotNo' = snapshotNo + 1
      /\ fixes' = expireProposals(fixes, "fix", snapshotNo')
      /\ matches' = expireProposals(matches, "match", snapshotNo')
      /\ UNCHANGED <<approvals, landed, proposalSteps>>
  BY DEF HostLands, heads, committing, Published
<1>2. /\ decisions' \in Seq(Decisions) /\ InOrder(decisions') /\ HeadFits'
      /\ ToSet(decisions') \subseteq ToSet(decisions)
  BY <1>1, HeadFacts
<1>3. /\ fixes' \in Seq(FixRecords) /\ OneEach(ToSet(fixes'))
      /\ \A y \in ToSet(fixes') : \E x \in ToSet(fixes) :
            /\ y.no = x.no /\ y.status # "active"
            /\ y.status = "applying" => x.status = "applying"
  BY <1>1, FixesOutdated
<1>4. /\ matches' \in Seq(MatchRecords) /\ OneEach(ToSet(matches'))
      /\ \A y \in ToSet(matches') : \E x \in ToSet(matches) :
            /\ y.no = x.no /\ y.status \notin {"active", "approvalPending"}
            /\ y.status = "applying" => x.status = "applying"
  BY <1>1, MatchesOutdated
<1>5. /\ \A x \in ToSet(fixes) : x.status # "applying"
      /\ \A x \in ToSet(matches) : x.status # "applying"
  BY <1>1, NobodyApplies
<1>6. FixesFit'
  BY <1>1, <1>3, <1>5, ClosedFixesFit
<1>7. MatchesFit'
  BY <1>1, <1>4, <1>5, ClosedMatchesFit
<1>8. ApprovalsFit' /\ LandedFit'
  BY <1>1, ApprovalsStay, LandedStays
<1>9. \A d \in ToSet(decisions') : DecisionFits(d)'
  <2>. TAKE d \in ToSet(decisions')
  <2>1. d \in ToSet(decisions) /\ DecisionFits(d)
    BY <1>2 DEF ProposalInv, DecisionsFit
  <2>2. queuedNos' = queuedNos
    BY <1>1 DEF queuedNos
  <2>3. \A x \in ToSet(fixes') : \E y \in ToSet(fixes) : x.no = y.no
    BY <1>3
  <2>. QED
    BY <1>1, <2>1, <2>2, <2>3, DecisionStays DEF DecisionFits
<1>10. ProposalTypes'
  BY <1>1, <1>2, <1>3, <1>4 DEF ProposalInv, ProposalTypes
<1>. QED
  BY <1>2, <1>6, <1>7, <1>8, <1>9, <1>10 DEF ProposalInv, DecisionsFit

(* What a commit refused, or landed, was about.                            *)
LEMMA CommittedFix ==
    ASSUME ProposalInv, committing(decisions), decisions # <<>>, decisions[1].kind = "fix"
    PROVE  \E x \in ToSet(fixes) :
              /\ x.no = decisions[1].no /\ x.status = "applying" /\ fixOf(x.no) = x
              /\ x.base = snapshotNo /\ ~hasLanded("fix", x.no)
<1>1. fixes \in Seq(FixRecords) /\ OneEach(ToSet(fixes))
  BY DEF ProposalInv, ProposalTypes, FixesFit
<1>2. heads("fix", "committing")
  BY DEF committing, heads
<1>3. PICK x \in ToSet(fixes) : x.no = decisions[1].no /\ x.status = "applying"
  BY <1>2 DEF ProposalInv, HeadFits
<1>4. fixOf(x.no) = x
  BY <1>1, <1>3, FixOfNumber
<1>5. x.base = snapshotNo /\ ~hasLanded("fix", x.no)
  BY <1>3 DEF ProposalInv, FixesFit, FixFits
<1>. QED
  BY <1>3, <1>4, <1>5

LEMMA CommittedMatch ==
    ASSUME ProposalInv, committing(decisions), decisions # <<>>, decisions[1].kind = "match",
           NEW a, a = queuedApproval
    PROVE  /\ a \in approvals /\ a.no = decisions[1].no
           /\ \E x \in ToSet(matches) :
                 /\ x.no = decisions[1].no /\ x.status = "applying" /\ matchOf(a) = x
                 /\ x.base = snapshotNo /\ ~hasLanded("match", x.no)
<1>1. matches \in Seq(MatchRecords) /\ OneEach(ToSet(matches))
  BY DEF ProposalInv, ProposalTypes, MatchesFit
<1>2. heads("match", "committing")
  BY DEF committing, heads
<1>3. PICK x \in ToSet(matches) : x.no = decisions[1].no /\ x.status = "applying"
  BY <1>2 DEF ProposalInv, HeadFits
<1>4. a \in approvals /\ a.no = decisions[1].no
  BY QueuedApprovalThere
<1>5. matchOf(a) = x
  BY <1>1, <1>3, <1>4, MatchOfNumber
<1>6. x.base = snapshotNo /\ ~hasLanded("match", x.no)
  BY <1>3 DEF ProposalInv, MatchesFit, MatchFits
<1>. QED
  BY <1>3, <1>4, <1>5, <1>6

(* The approval of the match that was committed goes with it.              *)
LEMMA ApprovalsAfterCommit ==
    ASSUME ProposalInv, committing(decisions), decisions # <<>>,
           approvals' = IF decisions[1].kind = "match" THEN approvals \ {queuedApproval}
                        ELSE approvals,
           proposalSteps' = proposalSteps
    PROVE  /\ approvals' \subseteq Approvals /\ ApprovalsFit'
           /\ \A n \in queuedNos :
                 decisions[1].kind # "match" \/ n # decisions[1].no => n \in queuedNos'
<1>1. CASE decisions[1].kind = "match"
  <2>1. PICK a : a = queuedApproval
    OBVIOUS
  <2>2. a \in approvals /\ a.no = decisions[1].no
    BY <1>1, <2>1, CommittedMatch
  <2>3. /\ approvals' \subseteq Approvals /\ ApprovalsFit'
        /\ \A n : n # a.no => (n \in queuedNos' <=> n \in queuedNos)
    BY <1>1, <2>1, <2>2, ApprovalGoes
  <2>. QED
    BY <1>1, <2>2, <2>3
<1>2. CASE decisions[1].kind # "match"
  <2>1. approvals' = approvals
    BY <1>2
  <2>2. approvals' \subseteq Approvals /\ ApprovalsFit'
    BY <2>1, ApprovalsStay
  <2>3. queuedNos' = queuedNos
    BY <2>1 DEF queuedNos
  <2>. QED
    BY <2>2, <2>3
<1>. QED
  BY <1>1, <1>2

LEMMA CommitRefusedKeeps == ProposalInv /\ CommitRefused => ProposalInv'
<1>. SUFFICES ASSUME ProposalInv, CommitRefused PROVE ProposalInv'
  OBVIOUS
<1>1. PICK h : h = decisions[1]
  OBVIOUS
<1>2. /\ decisions # <<>> /\ committing(decisions) /\ Leave
      /\ fixes' = IF h.kind = "fix" THEN withStatus(fixes, h.no, "active") ELSE fixes
      /\ matches' = IF h.kind = "match" THEN withStatus(matches, h.no, "active") ELSE matches
      /\ approvals' = IF h.kind = "match" THEN approvals \ {queuedApproval} ELSE approvals
      /\ UNCHANGED <<snapshotNo, landed, proposalSteps>>
  BY <1>1 DEF CommitRefused, committing
<1>3. /\ decisions' \in Seq(Decisions) /\ InOrder(decisions') /\ HeadFits'
      /\ ToSet(decisions') \subseteq ToSet(decisions)
      /\ \A d \in ToSet(decisions') : d.kind = "match" /\ h.kind = "match" => d.no # h.no
  BY <1>1, <1>2, HeadFacts
<1>4. /\ approvals' \subseteq Approvals /\ ApprovalsFit'
      /\ \A n \in queuedNos : h.kind # "match" \/ n # h.no => n \in queuedNos'
  BY <1>1, <1>2, ApprovalsAfterCommit
<1>5. /\ fixes' \in Seq(FixRecords) /\ FixesFit'
      /\ \A y \in ToSet(fixes') : \E x \in ToSet(fixes) : y.no = x.no
  <2>1. CASE h.kind # "fix"
    <3>1. fixes' = fixes
      BY <1>2, <2>1
    <3>2. FixesFit'
      BY <1>1, <1>2, <2>1, <3>1, FixesStay
    <3>. QED
      BY <3>1, <3>2 DEF ProposalInv, ProposalTypes
  <2>2. CASE h.kind = "fix"
    <3>1. OneEach(ToSet(fixes)) /\ "active" \in FixStatus
      BY DEF ProposalInv, FixesFit, FixStatus
    <3>2. PICK f \in ToSet(fixes) :
             f.no = h.no /\ f.base = snapshotNo /\ ~hasLanded("fix", h.no)
      BY <1>1, <1>2, <2>2, CommittedFix
    <3>3. \A x \in ToSet(fixes) : x.no = h.no => x.base = snapshotNo /\ ~hasLanded("fix", h.no)
      BY <3>1, <3>2 DEF OneEach
    <3>4. \A x \in ToSet(fixes) : x.no # h.no => x.status # "applying"
      BY <1>1, NobodyApplies
    <3>. QED
      BY <1>2, <2>2, <3>1, <3>3, <3>4, MarkedFixFits
  <2>. QED
    BY <2>1, <2>2
<1>6. matches' \in Seq(MatchRecords) /\ MatchesFit'
  <2>1. CASE h.kind # "match"
    <3>1. matches' = matches /\ approvals' = approvals
      BY <1>2, <2>1
    <3>2. approvalNos' = approvalNos
      BY <3>1 DEF approvalNos
    <3>3. MatchesFit'
      BY <1>1, <1>2, <2>1, <3>1, <3>2, MatchesStay
    <3>. QED
      BY <3>1, <3>3 DEF ProposalInv, ProposalTypes
  <2>2. CASE h.kind = "match"
    <3>1. OneEach(ToSet(matches)) /\ "active" \in MatchStatus
      BY DEF ProposalInv, MatchesFit, MatchStatus
    <3>2. PICK a : a = queuedApproval
      OBVIOUS
    <3>3. a \in approvals /\ a.no = h.no
      BY <1>1, <1>2, <2>2, <3>2, CommittedMatch
    <3>4. PICK m \in ToSet(matches) :
             m.no = h.no /\ m.base = snapshotNo /\ ~hasLanded("match", h.no)
      BY <1>1, <1>2, <2>2, <3>2, CommittedMatch
    <3>5. \A x \in ToSet(matches) : x.no = h.no => x.base = snapshotNo /\ ~hasLanded("match", h.no)
      BY <3>1, <3>4 DEF OneEach
    <3>6. \A x \in ToSet(matches) : x.no # h.no => x.status # "applying"
      BY <1>1, NobodyApplies
    <3>7. h.no \notin approvalNos' /\ \A n : n # h.no => (n \in approvalNos' <=> n \in approvalNos)
      BY <1>2, <2>2, <3>2, <3>3, ApprovalGoes
    <3>. QED
      BY <1>2, <2>2, <3>1, <3>5, <3>6, <3>7, MarkedMatchFits
  <2>. QED
    BY <2>1, <2>2
<1>7. LandedFit'
  BY <1>2, LandedStays
<1>8. \A d \in ToSet(decisions') : DecisionFits(d)'
  <2>. TAKE d \in ToSet(decisions')
  <2>1. d \in ToSet(decisions) /\ DecisionFits(d)
    BY <1>3 DEF ProposalInv, DecisionsFit
  <2>2. d.kind = "match" => d.no \in queuedNos'
    BY <1>3, <1>4, <2>1 DEF DecisionFits
  <2>. QED
    BY <1>2, <1>5, <2>1, <2>2, DecisionStays
<1>9. ProposalTypes'
  BY <1>2, <1>3, <1>4, <1>5, <1>6 DEF ProposalInv, ProposalTypes
<1>. QED
  BY <1>3, <1>4, <1>5, <1>6, <1>7, <1>8, <1>9 DEF ProposalInv, DecisionsFit

LEMMA LandingFits ==
    ASSUME ProposalInv, NEW l \in Landings, landed' = Append(landed, l), l.at = l.base,
           l.no <= proposalSteps, ~hasLanded(l.kind, l.no), proposalSteps' = proposalSteps
    PROVE  /\ landed' \in Seq(Landings) /\ LandedFit'
           /\ ToSet(landed') = ToSet(landed) \cup {l}
<1>1. landed \in Seq(Landings) /\ LandedFit
  BY DEF ProposalInv, ProposalTypes
<1>2. landed' \in Seq(Landings) /\ ToSet(landed') = ToSet(landed) \cup {l}
  BY <1>1, AppendSet
<1>3. \A x \in ToSet(landed') : x.at = x.base /\ x.no <= proposalSteps'
  BY <1>1, <1>2 DEF LandedFit
<1>4. /\ Len(landed') = Len(landed) + 1 /\ Len(landed) \in Nat
      /\ \A i \in 1 .. Len(landed) : landed'[i] = landed[i]
      /\ landed'[Len(landed) + 1] = l
  BY <1>1, AppendProperties, ToSetFacts
<1>5. DOMAIN landed' = 1 .. Len(landed) + 1 /\ DOMAIN landed = 1 .. Len(landed)
  BY <1>1, <1>2, <1>4, ToSetFacts
<1>6. \A i \in DOMAIN landed : landed[i].kind # l.kind \/ landed[i].no # l.no
  BY DEF hasLanded, ToSet
<1>7. ASSUME NEW i \in DOMAIN landed', NEW j \in DOMAIN landed', i # j
      PROVE  landed'[i].kind # landed'[j].kind \/ landed'[i].no # landed'[j].no
  <2>1. CASE i \in DOMAIN landed /\ j \in DOMAIN landed
    BY <1>1, <1>4, <1>5, <1>7, <2>1 DEF LandedFit
  <2>2. CASE i \in DOMAIN landed /\ j = Len(landed) + 1
    BY <1>4, <1>5, <1>6, <2>2
  <2>3. CASE j \in DOMAIN landed /\ i = Len(landed) + 1
    BY <1>4, <1>5, <1>6, <2>3
  <2>. QED
    BY <1>4, <1>5, <1>7, <2>1, <2>2, <2>3
<1>. QED
  BY <1>2, <1>3, <1>7 DEF LandedFit

(* What Lands makes of the fixes: all are closed, and none is new.         *)
settled(e, rivals, h) ==
    [i \in DOMAIN e |->
        IF e[i].no \in rivals THEN [e[i] EXCEPT !.status = "superseded"]
        ELSE IF h.kind = "fix" /\ e[i].no = h.no
        THEN [e[i] EXCEPT !.status = "applied"] ELSE e[i]]

LEMMA LandingClosesFixes ==
    ASSUME ProposalInv, committing(decisions), decisions # <<>>, snapshotNo' = snapshotNo + 1,
           NEW e, e = expireProposals(fixes, "fix", snapshotNo'), NEW rivals,
           NEW r, r = settled(e, rivals, decisions[1])
    PROVE  /\ r \in Seq(FixRecords) /\ OneEach(ToSet(r))
           /\ \A y \in ToSet(r) : /\ \E x \in ToSet(fixes) : y.no = x.no
                                       /\ y.status \notin {"active", "applying"}
<1>1. PICK h : h = decisions[1]
  OBVIOUS
<1>. DEFINE f == [x \in FixRecords |->
                   IF x.no \in rivals THEN [x EXCEPT !.status = "superseded"]
                   ELSE IF h.kind = "fix" /\ x.no = h.no
                   THEN [x EXCEPT !.status = "applied"] ELSE x]
<1>2. /\ e \in Seq(FixRecords) /\ OneEach(ToSet(e))
      /\ \A y \in ToSet(e) : \E x \in ToSet(fixes) :
            /\ y.no = x.no /\ y.status # "active"
            /\ y.status = "applying" => x.status = "applying"
  BY FixesOutdated
<1>3. \A i \in DOMAIN e : e[i] \in FixRecords
  BY <1>2, ElementOfSeq, ToSetFacts
<1>4. r = [i \in DOMAIN e |-> f[e[i]]]
  BY <1>1, <1>3 DEF settled
<1>5. "superseded" \in FixStatus /\ "applied" \in FixStatus
  BY DEF FixStatus
<1>6. \A x \in FixRecords :
        /\ f[x] \in FixRecords /\ f[x].no = x.no
        /\ f[x].status = "superseded" \/ f[x].status = "applied"
           \/ (f[x].status = x.status /\ ~(h.kind = "fix" /\ x.no = h.no))
  <2>. TAKE x \in FixRecords
  <2>1. CASE x.no \in rivals
    <3>1. f[x] = [x EXCEPT !.status = "superseded"]
      BY <2>1
    <3>. QED
      BY <1>5, <3>1, MarkedFix
  <2>2. CASE x.no \notin rivals /\ h.kind = "fix" /\ x.no = h.no
    <3>1. f[x] = [x EXCEPT !.status = "applied"]
      BY <2>2
    <3>. QED
      BY <1>5, <3>1, MarkedFix
  <2>3. CASE x.no \notin rivals /\ ~(h.kind = "fix" /\ x.no = h.no)
    <3>1. f[x] = x
      BY <2>3
    <3>. QED
      BY <2>3, <3>1
  <2>. QED
    BY <2>1, <2>2, <2>3
<1>7. f \in [FixRecords -> FixRecords]
  BY <1>6
<1>8. ToSet(e) \subseteq FixRecords
  BY <1>3 DEF ToSet
<1>. HIDE DEF f
<1>9. /\ r \in Seq(FixRecords) /\ OneEach(ToSet(r))
      /\ ToSet(r) = {f[x] : x \in ToSet(e)}
  <2>1. e \in Seq(FixRecords) /\ OneEach(ToSet(e))
    BY <1>2
  <2>2. \A x \in FixRecords : f[x].no = x.no
    BY <1>6
  <2>. QED
    BY <1>4, <1>7, <2>1, <2>2, MappedStore
<1>10. ASSUME NEW y \in ToSet(r)
       PROVE  /\ \E x \in ToSet(fixes) : y.no = x.no
              /\ y.status \notin {"active", "applying"}
  <2>1. PICK z \in ToSet(e) : y = f[z]
    BY <1>9
  <2>2. PICK x \in ToSet(fixes) : /\ z.no = x.no /\ z.status # "active"
                                  /\ z.status = "applying" => x.status = "applying"
    BY <1>2
  <2>3. x.status = "applying" => h.kind = "fix" /\ x.no = h.no
    BY <1>1, NobodyApplies
  <2>4. y.no = z.no /\ (\/ y.status = "superseded" \/ y.status = "applied"
                        \/ y.status = z.status /\ ~(h.kind = "fix" /\ z.no = h.no))
    BY <1>6, <1>8, <2>1
  <2>. QED
    BY <2>2, <2>3, <2>4
<1>. QED
  BY <1>9, <1>10

LEMMA LandingClosesMatches ==
    ASSUME ProposalInv, committing(decisions), decisions # <<>>, snapshotNo' = snapshotNo + 1,
           NEW e, e = expireProposals(matches, "match", snapshotNo'),
           matches' = IF decisions[1].kind = "match"
                      THEN withStatus(e, decisions[1].no, "applied") ELSE e
    PROVE  /\ matches' \in Seq(MatchRecords) /\ OneEach(ToSet(matches'))
           /\ \A y \in ToSet(matches') :
                 /\ \E x \in ToSet(matches) : y.no = x.no
                 /\ y.status \notin {"active", "approvalPending", "applying"}
<1>1. /\ e \in Seq(MatchRecords) /\ OneEach(ToSet(e))
      /\ \A y \in ToSet(e) : \E x \in ToSet(matches) :
            /\ y.no = x.no /\ y.status \notin {"active", "approvalPending"}
            /\ y.status = "applying" => x.status = "applying"
  BY MatchesOutdated
<1>2. \A x \in ToSet(matches) :
         x.status = "applying" => decisions[1].kind = "match" /\ x.no = decisions[1].no
  BY NobodyApplies
<1>3. CASE decisions[1].kind # "match"
  BY <1>1, <1>2, <1>3
<1>4. CASE decisions[1].kind = "match"
  <2>1. matches' = withStatus(e, decisions[1].no, "applied") /\ "applied" \in MatchStatus
    BY <1>4 DEF MatchStatus
  <2>2. /\ matches' \in Seq(MatchRecords) /\ OneEach(ToSet(matches'))
        /\ \A y \in ToSet(matches') : \E x \in ToSet(e) :
              /\ y.no = x.no /\ y.base = x.base
              /\ y.status = IF x.no = decisions[1].no THEN "applied" ELSE x.status
    BY <1>1, <2>1, MarkingMatches
  <2>3. ASSUME NEW y \in ToSet(matches')
        PROVE  /\ \E x \in ToSet(matches) : y.no = x.no
               /\ y.status \notin {"active", "approvalPending", "applying"}
    <3>1. PICK z \in ToSet(e) : /\ y.no = z.no
                                /\ y.status = IF z.no = decisions[1].no THEN "applied" ELSE z.status
      BY <2>2
    <3>2. PICK x \in ToSet(matches) :
             /\ z.no = x.no /\ z.status \notin {"active", "approvalPending"}
             /\ z.status = "applying" => x.status = "applying"
      BY <1>1
    <3>. QED
      BY <1>2, <3>1, <3>2
  <2>. QED
    BY <2>2, <2>3
<1>. QED
  BY <1>3, <1>4

LEMMA LandsKeeps == ProposalInv /\ Lands => ProposalInv'
<1>. SUFFICES ASSUME ProposalInv, Lands PROVE ProposalInv'
  OBVIOUS
<1>1. PICK h : h = decisions[1]
  OBVIOUS
<1>2. PICK base : base = IF h.kind = "fix" THEN fixOf(h.no).base ELSE matchOf(queuedApproval).base
  OBVIOUS
<1>3. PICK l : l = [kind |-> h.kind, no |-> h.no, base |-> base, at |-> snapshotNo]
  OBVIOUS
<1>4. /\ decisions # <<>> /\ committing(decisions) /\ Leave
      /\ snapshotNo' = snapshotNo + 1 /\ landed' = Append(landed, l)
      /\ approvals' = IF h.kind = "match" THEN approvals \ {queuedApproval} ELSE approvals
      /\ UNCHANGED <<candidates, proposalSteps>>
  BY <1>1, <1>2, <1>3 DEF Lands, committing, Published
<1>5. /\ decisions' \in Seq(Decisions) /\ InOrder(decisions') /\ HeadFits'
      /\ ToSet(decisions') \subseteq ToSet(decisions) /\ h \in ToSet(decisions)
      /\ \A d \in ToSet(decisions') : d.kind = "match" /\ h.kind = "match" => d.no # h.no
  BY <1>1, <1>4, HeadFacts
<1>6. h.kind \in {"fix", "match"}
  <2>1. 1 \in DOMAIN decisions
    BY <1>4, HeadFacts, HeadIsFirst, ToSetFacts
  <2>. QED
    BY <1>1, <1>4, <2>1 DEF ProposalInv, DecisionsFit, InOrder, committing
<1>7. snapshotNo \in Nat /\ h.no \in Nat /\ h.no <= proposalSteps
  BY <1>5, NumbersSoFar DEF ProposalInv, ProposalTypes
<1>8. base = snapshotNo /\ ~hasLanded(h.kind, h.no)
  <2>1. CASE h.kind = "fix"
    BY <1>1, <1>2, <1>4, <2>1, CommittedFix
  <2>2. CASE h.kind = "match"
    <3>1. PICK a : a = queuedApproval
      OBVIOUS
    <3>. QED
      BY <1>1, <1>2, <1>4, <2>2, <3>1, CommittedMatch
  <2>. QED
    BY <1>6, <2>1, <2>2
<1>9. l \in Landings /\ l.kind = h.kind /\ l.no = h.no /\ l.at = l.base
  BY <1>3, <1>6, <1>7, <1>8 DEF Landings
<1>10. /\ landed' \in Seq(Landings) /\ LandedFit'
       /\ ToSet(landed') = ToSet(landed) \cup {l}
  BY <1>4, <1>7, <1>8, <1>9, LandingFits
<1>11. /\ fixes' \in Seq(FixRecords) /\ OneEach(ToSet(fixes'))
       /\ \A y \in ToSet(fixes') : /\ \E x \in ToSet(fixes) : y.no = x.no
                                   /\ y.status \notin {"active", "applying"}
  <2>1. PICK rivals : \E e \in {expireProposals(fixes, "fix", snapshotNo')} :
                         fixes' = settled(e, rivals, decisions[1])
    BY Zenon DEF Lands, settled
  <2>. QED
    BY <1>4, <2>1, LandingClosesFixes
<1>12. /\ matches' \in Seq(MatchRecords) /\ OneEach(ToSet(matches'))
       /\ \A y \in ToSet(matches') :
             /\ \E x \in ToSet(matches) : y.no = x.no
             /\ y.status \notin {"active", "approvalPending", "applying"}
  <2>1. PICK e : e = expireProposals(matches, "match", snapshotNo')
    OBVIOUS
  <2>2. matches' = IF decisions[1].kind = "match"
                   THEN withStatus(e, decisions[1].no, "applied") ELSE e
    BY <2>1 DEF Lands
  <2>. QED
    BY <1>4, <2>1, <2>2, LandingClosesMatches
<1>13. FixesFit' /\ MatchesFit'
  BY <1>4, <1>11, <1>12, ClosedFixesFit, ClosedMatchesFit
<1>14. /\ approvals' \subseteq Approvals /\ ApprovalsFit'
       /\ \A n \in queuedNos : h.kind # "match" \/ n # h.no => n \in queuedNos'
  BY <1>1, <1>4, ApprovalsAfterCommit
<1>15. \A d \in ToSet(decisions') : DecisionFits(d)'
  <2>. TAKE d \in ToSet(decisions')
  <2>1. d \in ToSet(decisions) /\ DecisionFits(d)
    BY <1>5 DEF ProposalInv, DecisionsFit
  <2>2. d.no <= proposalSteps'
    BY <1>4, <2>1 DEF DecisionFits
  <2>3. d.kind = "match" => d.no \in queuedNos'
    BY <1>5, <1>14, <2>1 DEF DecisionFits
  <2>4. ASSUME d.kind = "propose"
        PROVE  ~hasLanded("fix", d.no)' /\ (\A x \in ToSet(fixes') : x.no # d.no)
    <3>1. ~hasLanded("fix", d.no) /\ \A x \in ToSet(fixes) : x.no # d.no
      BY <2>1, <2>4 DEF DecisionFits
    <3>2. l.kind = "fix" => l.no # d.no
      BY <1>1, <1>4, <1>9, <3>1, CommittedFix
    <3>. QED
      BY <1>10, <1>11, <3>1, <3>2 DEF hasLanded
  <2>. QED
    BY <2>1, <2>2, <2>3, <2>4 DEF DecisionFits
<1>16. ProposalTypes'
  BY <1>4, <1>5, <1>7, <1>10, <1>11, <1>12, <1>14 DEF ProposalInv, ProposalTypes
<1>. QED
  BY <1>5, <1>10, <1>13, <1>14, <1>15, <1>16 DEF ProposalInv, DecisionsFit

LEMMA ProposalStepKeeps == ProposalInv /\ [ProposalNext]_proposalVars => ProposalInv'
<1>. SUFFICES ASSUME ProposalInv, [ProposalNext]_proposalVars PROVE ProposalInv'
  OBVIOUS
<1>1. CASE ViewChanges \/ MatchMaterials
  BY <1>1, ViewChangesKeeps
<1>2. CASE HostCommits
  BY <1>2, HostCommitsKeeps
<1>3. CASE ProposeMaterialMatch
  BY <1>3, ProposeMaterialMatchKeeps
<1>4. CASE \E impact \in Impacts : ProposeFix(impact)
  BY <1>4, ProposeFixKeeps
<1>5. CASE \E i \in 1..MaxProposalSteps, supersede \in BOOLEAN : ApplyFix(i, supersede)
  BY <1>5, ApplyFixKeeps
<1>6. CASE \E i \in 1..MaxProposalSteps : ApplyMaterialMatch(i)
  BY <1>6, ApplyMaterialMatchKeeps
<1>7. CASE \E a \in approvals : ApprovalFails(a) \/ Approved(a) \/ AbortQueued(a)
  BY <1>7, ApprovalFailsKeeps, ApprovedKeeps, AbortQueuedKeeps
<1>8. CASE FixIssued \/ StartFix \/ RefuseFix
  BY <1>8, FixIssuedKeeps, StartFixKeeps, RefuseFixKeeps
<1>9. CASE StartMatch \/ RefuseMatch
  BY <1>9, StartMatchKeeps, RefuseMatchKeeps
<1>10. CASE HostLands \/ Lands \/ CommitRefused
  BY <1>10, HostLandsKeeps, LandsKeeps, CommitRefusedKeeps
<1>11. CASE UNCHANGED proposalVars
  BY <1>11 DEF proposalVars, ProposalInv, ProposalTypes, FixesFit, MatchesFit, ApprovalsFit,
     DecisionsFit, HeadFits, LandedFit, FixFits, MatchFits, DecisionFits, hasLanded, heads,
     approvalNos, queuedNos
<1>. QED
  BY <1>1, <1>2, <1>3, <1>4, <1>5, <1>6, <1>7, <1>8, <1>9, <1>10, <1>11 DEF ProposalNext

LEMMA ProposalsAgree == ProposalInv => ProposalsHitTheirDocument
<1>. SUFFICES ASSUME ProposalInv PROVE ProposalsHitTheirDocument
  OBVIOUS
<1>1. ASSUME NEW i \in DOMAIN landed
      PROVE  /\ landed[i].at = landed[i].base
             /\ \A j \in DOMAIN landed : i # j =>
                   <<landed[i].kind, landed[i].no>> # <<landed[j].kind, landed[j].no>>
  BY DEF ProposalInv, LandedFit, ToSet
<1>2. ASSUME NEW i \in DOMAIN fixes
      PROVE  /\ fixes[i].status = "active" => fixes[i].base = snapshotNo
             /\ fixes[i].status = "applying" =>
                   heads("fix", "committing") /\ decisions[1].no = fixes[i].no
  <2>1. FixFits(fixes[i])
    BY DEF ProposalInv, FixesFit, ToSet
  <2>. QED
    BY <2>1 DEF FixFits
<1>3. ASSUME NEW i \in DOMAIN matches
      PROVE  /\ matches[i].status \in {"active", "approvalPending"} => matches[i].base = snapshotNo
             /\ matches[i].status = "approvalPending" => \E a \in approvals : a.no = matches[i].no
             /\ matches[i].status = "applying" =>
                   heads("match", "committing") /\ decisions[1].no = matches[i].no
  <2>1. MatchFits(matches[i])
    BY DEF ProposalInv, MatchesFit, ToSet
  <2>. QED
    BY <2>1 DEF MatchFits, approvalNos
<1>. QED
  BY <1>1, <1>2, <1>3 DEF ProposalsHitTheirDocument

(* However many calls, queued tasks and commits of others come between a   *)
(* proposal and its decision: it is committed at most once and onto the    *)
(* revision it was computed from, the open ones are those of the published *)
(* revision, and one that waits for its approval or is being applied has a *)
(* call under way (editor.ts:2598, where a fix is compared again before it *)
(* is applied, and editor.ts:5396, where a match is).                      *)
THEOREM ProposalsAreOfTheirRevision ==
    ProposalInit /\ [][ProposalNext]_proposalVars => []ProposalsHitTheirDocument
<1>1. ProposalInv /\ [ProposalNext]_proposalVars => ProposalInv'
  BY ProposalStepKeeps
<1>. QED
  BY <1>1, ProposalsStart, ProposalsAgree, PTL

-----------------------------------------------------------------------------
(* CellCommands: the invariant.                                            *)

\* What is left open is what the elements are.
isSequence(s) == s \in Seq({s[i] : i \in 1 .. Len(s)})

TaskFields == {"kind", "stage", "version", "epoch", "commands", "cell", "id", "aimed", "relaid"}

TaskKinds == {"edit", "fillSelection", "host", "clear", "fillDown", "fillSeries", "paste", "replace"}

EditFields == {"status", "cell", "draft", "id"}

onSelection(t) == t.kind \in {"clear", "fillDown", "fillSeries"}

covers(commands, cells) == {<<c[1], c[2]>> : c \in commands} \subseteq cells

\* The cells that a command and a paste would take now.
seen == cellsOf(blocks(chosen, layout))

pasteSeen == IF pasteFits THEN UNION {{p.cell : p \in pasteAt(t)} : t \in pasteTargets} ELSE {}

\* As long as the target's epoch is that of the task and no column moved, what
\* the user saw is what the task takes when it is prepared.
isTask(t) == DOMAIN t = TaskFields

TaskFits(t, now, cells, pasteCells) ==
    /\ isTask(t)
    /\ t.kind \in TaskKinds /\ t.relaid \in BOOLEAN
    /\ t.epoch \in Nat /\ t.epoch <= now
    /\ ~t.relaid => covers(t.commands, t.aimed)
    /\ ~t.relaid /\ t.stage # "prepared" /\ t.epoch = now =>
         /\ onSelection(t) => t.aimed = cells
         /\ t.kind = "paste" => t.aimed = pasteCells

TasksFit ==
    /\ epoch \in Nat /\ isSequence(waiting)
    /\ \A i \in DOMAIN waiting : TaskFits(waiting[i], epoch, seen, pasteSeen)

EditFits ==
    /\ DOMAIN edit = EditFields
    /\ edit.status \in {"editing", "composing", "rejected", "committing"} =>
          edit.cell = <<edit.cell[1], edit.cell[2]>>

isEdit(t) == t.kind \in {"edit", "fillSelection"}

\* The edit that is committing has the one task of its kind in the queue.
OneEditWaits(w, e) ==
    \A i \in DOMAIN w : isEdit(w[i]) =>
        /\ e.status = "committing" /\ w[i].id = e.id
        /\ \A j \in DOMAIN w : isEdit(w[j]) => i = j

OutcomesFit ==
    /\ unsettled \in BOOLEAN
    /\ ~unsettled => OneEditWaits(waiting, edit)
    /\ ~unsettled /\ reported # <<>> => reported[1] = reported[2]

CellInv == TasksFit /\ EditFits /\ OutcomesFit

-----------------------------------------------------------------------------
LEMMA IsSequenceOf ==
  ASSUME NEW S, NEW s \in Seq(S)
  PROVE  isSequence(s) /\ DOMAIN s = 1 .. Len(s) /\ Len(s) \in Nat
<1>1. DOMAIN s = 1 .. Len(s) /\ Len(s) \in Nat
  BY ToSetFacts
<1>2. \A i \in 1 .. Len(s) : s[i] \in {s[k] : k \in 1 .. Len(s)}
  OBVIOUS
<1>3. s = [i \in 1 .. Len(s) |-> s[i]]
  BY <1>1
<1>4. [i \in 1 .. Len(s) |-> s[i]] \in Seq({s[k] : k \in 1 .. Len(s)})
  BY <1>1, <1>2
<1> QED
  BY <1>1, <1>3, <1>4 DEF isSequence

LEMMA AppendIsSequence ==
  ASSUME NEW s, isSequence(s), NEW x
  PROVE  /\ isSequence(Append(s, x))
         /\ \A i \in DOMAIN Append(s, x) :
              Append(s, x)[i] = x \/ (i \in DOMAIN s /\ Append(s, x)[i] = s[i])
         /\ \A i, j \in DOMAIN Append(s, x) : i \notin DOMAIN s /\ j \notin DOMAIN s => i = j
<1>1. PICK S : s \in Seq(S) /\ x \in S
  <2>1. s \in Seq({s[i] : i \in 1 .. Len(s)} \cup {x})
    BY DEF isSequence
  <2> QED
    BY <2>1
<1>2. PICK u : u = Append(s, x)
  OBVIOUS
<1>3. /\ u \in Seq(S) /\ Len(u) = Len(s) + 1
      /\ \A i \in 1 .. Len(s) : u[i] = s[i]
      /\ u[Len(s) + 1] = x
  BY <1>1, <1>2, AppendProperties
<1>4. /\ isSequence(u) /\ DOMAIN u = 1 .. Len(u) /\ DOMAIN s = 1 .. Len(s) /\ Len(s) \in Nat
  BY <1>1, <1>3, IsSequenceOf
<1>5. /\ \A i \in DOMAIN u : u[i] = x \/ (i \in DOMAIN s /\ u[i] = s[i])
      /\ \A i, j \in DOMAIN u : i \notin DOMAIN s /\ j \notin DOMAIN s => i = j
  BY <1>3, <1>4
<1> QED
  BY <1>2, <1>4, <1>5

LEMMA AppendKeeps ==
  ASSUME NEW s, isSequence(s), NEW x, NEW i \in DOMAIN s
  PROVE  Append(s, x)[i] = s[i]
<1>1. PICK S : s \in Seq(S) /\ x \in S
  <2>1. s \in Seq({s[k] : k \in 1 .. Len(s)} \cup {x})
    BY DEF isSequence
  <2> QED
    BY <2>1
<1>2. DOMAIN s = 1 .. Len(s)
  BY <1>1, ToSetFacts
<1> QED
  BY <1>1, <1>2, AppendProperties

LEMMA TailIsSequence ==
  ASSUME NEW s, isSequence(s), s # <<>>
  PROVE  /\ isSequence(Tail(s)) /\ 1 \in DOMAIN s
         /\ \A i \in DOMAIN Tail(s) : i + 1 \in DOMAIN s /\ Tail(s)[i] = s[i + 1] /\ i + 1 # 1
         /\ \A i, j \in DOMAIN Tail(s) : i + 1 = j + 1 => i = j
<1>1. PICK S : s \in Seq(S)
  BY DEF isSequence
<1>2. /\ Tail(s) \in Seq(S) /\ Len(Tail(s)) = Len(s) - 1
      /\ \A i \in 1 .. Len(Tail(s)) : Tail(s)[i] = s[i + 1]
  BY <1>1, HeadTailProperties
<1>3. /\ isSequence(Tail(s)) /\ DOMAIN Tail(s) = 1 .. Len(Tail(s)) /\ DOMAIN s = 1 .. Len(s)
      /\ Len(s) \in Nat \ {0}
  BY <1>1, <1>2, IsSequenceOf, HeadIsFirst
<1> QED
  BY <1>2, <1>3

LEMMA SameShapeIsSequence ==
  ASSUME NEW s, isSequence(s), NEW u, u = [i \in DOMAIN s |-> u[i]]
  PROVE  isSequence(u) /\ DOMAIN u = DOMAIN s
<1>1. PICK S : s \in Seq(S)
  BY DEF isSequence
<1>2. DOMAIN s = 1 .. Len(s) /\ Len(s) \in Nat
  BY <1>1, ToSetFacts
<1>3. u \in Seq({u[i] : i \in 1 .. Len(s)})
  BY <1>2
<1> QED
  BY <1>2, <1>3, IsSequenceOf

-----------------------------------------------------------------------------
(* What is prepared lies where the preparation looked.                     *)

LEMMA PreparedCovers ==
  ASSUME NEW C, NEW A, covers(C, A), NEW p, p = prepares(C), p.ok
  PROVE  covers(p.commands, A)
<1>1. p = Refused \/ p = [ok |-> TRUE, commands |-> C]
  BY DEF prepares
<1>2. Refused.ok = FALSE
  BY DEF Refused
<1> QED
  BY <1>1, <1>2

LEMMA CellsArePairs ==
  ASSUME NEW bs, NEW a \in cellsOf(bs)
  PROVE  a = <<a[1], a[2]>>
BY DEF cellsOf

LEMMA ClearCovers ==
  ASSUME NEW bs, NEW p, p = prepareClearCommands(bs), p.ok
  PROVE  covers(p.commands, cellsOf(bs))
<1> DEFINE C == {<<a[1], a[2], NoValue>> : a \in {c \in cellsOf(bs) : values[c[1]][c[2]] # NoValue}}
<1>1. p = prepares(C)
  BY DEF prepareClearCommands, Refused
<1>2. covers(C, cellsOf(bs))
  BY CellsArePairs DEF covers
<1> HIDE DEF C
<1> QED
  BY <1>1, <1>2, PreparedCovers

LEMMA FillDownCovers ==
  ASSUME NEW bs, NEW p, p = prepareFillDownCommands(bs), p.ok
  PROVE  covers(p.commands, cellsOf(bs))
<1> DEFINE filled(b) == {<<r, c, values[startOf(b.rows)][c]>> :
                           r \in b.rows \ {startOf(b.rows)}, c \in b.cols}
           C == UNION {filled(b) : b \in bs}
                  \ {<<a[1], a[2], values[a[1]][a[2]]>> : a \in cellsOf(bs)}
<1>1. p = prepares(C)
  BY DEF prepareFillDownCommands, Refused
<1>2. ASSUME NEW d \in C PROVE <<d[1], d[2]>> \in cellsOf(bs)
  <2>1. PICK b \in bs : d \in filled(b)
    BY <1>2
  <2>2. d[1] \in b.rows /\ d[2] \in b.cols
    BY <2>1
  <2> QED
    BY <2>2 DEF cellsOf
<1> HIDE DEF C
<1>3. covers(C, cellsOf(bs))
  BY <1>2 DEF covers
<1> QED
  BY <1>1, <1>3, PreparedCovers

LEMMA FillSeriesCovers ==
  ASSUME NEW bs, NEW p, p = prepareFillSeriesCommands(bs), p.ok
  PROVE  covers(p.commands, cellsOf(bs))
<1> DEFINE filled(b) ==
      {<<r, c, values[startOf(b.rows) + 1][c] + (r - startOf(b.rows) - 1) *
               (values[startOf(b.rows) + 1][c] - values[startOf(b.rows)][c])>> :
          r \in {n \in b.rows : n > startOf(b.rows) + 1}, c \in b.cols}
           C == UNION {filled(b) : b \in bs}
<1>1. p = prepares(C)
  BY DEF prepareFillSeriesCommands, Refused
<1>2. ASSUME NEW d \in C PROVE <<d[1], d[2]>> \in cellsOf(bs)
  <2>1. PICK b \in bs : d \in filled(b)
    BY <1>2
  <2>2. d[1] \in b.rows /\ d[2] \in b.cols
    BY <2>1
  <2> QED
    BY <2>2 DEF cellsOf
<1> HIDE DEF C
<1>3. covers(C, cellsOf(bs))
  BY <1>2 DEF covers
<1> QED
  BY <1>1, <1>3, PreparedCovers

LEMMA FillSelectionCovers ==
  ASSUME NEW cell, NEW value, NEW p, p = prepareFillSelectionCommands(cell, value), p.ok
  PROVE  covers(p.commands, seen)
<1> DEFINE C == {<<a[1], a[2], value>> :
                   a \in {c \in cellsOf(blocks(chosen, layout)) : values[c[1]][c[2]] # value}}
<1>1. p = prepares(C)
  BY DEF prepareFillSelectionCommands, Refused
<1>2. covers(C, seen)
  BY CellsArePairs DEF covers, seen
<1> HIDE DEF C
<1> QED
  BY <1>1, <1>2, PreparedCovers

LEMMA PasteCovers ==
  ASSUME NEW p, p = preparePaste, p.ok
  PROVE  covers(p.commands, pasteSeen)
<1> DEFINE pastes == UNION {pasteAt(t) : t \in pasteTargets}
           C == {<<q.cell[1], q.cell[2], Pasted[q.source[1]][q.source[2]]>> : q \in pastes}
<1>1. p = prepares(C) /\ pasteFits
  BY DEF preparePaste, Refused
<1>2. ASSUME NEW q \in pastes PROVE <<q.cell[1], q.cell[2]>> \in pasteSeen
  <2>1. PICK t \in pasteTargets : q \in pasteAt(t)
    BY <1>2
  <2>2. q.cell = <<q.cell[1], q.cell[2]>>
    BY <2>1 DEF pasteAt
  <2>3. q.cell \in {u.cell : u \in pasteAt(t)}
    BY <2>1
  <2> QED
    BY <1>1, <2>2, <2>3 DEF pasteSeen
<1>3. covers(C, pasteSeen)
  BY <1>2 DEF covers
<1> HIDE DEF C, pastes
<1> QED
  BY <1>1, <1>3, PreparedCovers

-----------------------------------------------------------------------------
(* The queue, step by step.                                                *)

\* Whoever selects something else, or begins an edit, moves the epoch.
TargetMoves == UNCHANGED <<chosen, layout, epoch>> \/ epoch' = epoch + 1

LEMMA SeenStands ==
  ASSUME UNCHANGED <<chosen, layout>>
  PROVE  seen' = seen /\ pasteSeen' = pasteSeen
<1>1. seen' = seen
  BY DEF seen
<1>2. pasteSeen' = pasteSeen
  BY DEF pasteSeen, pasteFits, pasteTargets, pasteAt
<1> QED
  BY <1>1, <1>2

LEMMA TaskStillFits ==
  ASSUME epoch \in Nat, TargetMoves, NEW t, TaskFits(t, epoch, seen, pasteSeen)
  PROVE  TaskFits(t, epoch', seen', pasteSeen')
<1>1. CASE UNCHANGED <<chosen, layout, epoch>>
  <2>1. seen' = seen /\ pasteSeen' = pasteSeen /\ epoch' = epoch
    BY <1>1, SeenStands
  <2> QED
    BY <2>1
<1>2. CASE epoch' = epoch + 1
  <2>1. t.epoch \in Nat /\ t.epoch <= epoch
    BY DEF TaskFits
  <2>2. t.epoch <= epoch' /\ t.epoch # epoch'
    BY <1>2, <2>1
  <2> QED
    BY <2>2 DEF TaskFits
<1> QED
  BY <1>1, <1>2 DEF TargetMoves

LEMMA ReplacingMoves ==
  ASSUME epoch \in Nat, NEW sel, replaceChosen(sel), layout' = layout
  PROVE  TargetMoves /\ epoch' \in Nat
BY DEF replaceChosen, TargetMoves

LEMMA TargetIsNat ==
  ASSUME epoch \in Nat, TargetMoves
  PROVE  epoch' \in Nat
BY DEF TargetMoves

LEMMA QueueStands ==
  ASSUME TasksFit, TargetMoves, UNCHANGED waiting
  PROVE  TasksFit'
<1>1. epoch' \in Nat /\ isSequence(waiting')
  BY TargetIsNat DEF TasksFit
<1>2. ASSUME NEW i \in DOMAIN waiting'
      PROVE  TaskFits(waiting'[i], epoch', seen', pasteSeen')
  <2>1. TaskFits(waiting[i], epoch, seen, pasteSeen) /\ epoch \in Nat
    BY <1>2 DEF TasksFit
  <2>2. TaskFits(waiting[i], epoch', seen', pasteSeen')
    BY <2>1, TaskStillFits
  <2> QED
    BY <2>2
<1> QED
  BY <1>1, <1>2 DEF TasksFit

LEMMA QueueShrinks ==
  ASSUME TasksFit, TargetMoves, waiting # <<>>, waiting' = Tail(waiting)
  PROVE  TasksFit'
<1>1. /\ isSequence(waiting') /\ epoch' \in Nat
      /\ \A i \in DOMAIN waiting' : i + 1 \in DOMAIN waiting /\ waiting'[i] = waiting[i + 1]
  BY TailIsSequence, TargetIsNat DEF TasksFit
<1>2. ASSUME NEW i \in DOMAIN waiting'
      PROVE  TaskFits(waiting'[i], epoch', seen', pasteSeen')
  <2>1. TaskFits(waiting'[i], epoch, seen, pasteSeen) /\ epoch \in Nat
    BY <1>1, <1>2 DEF TasksFit
  <2> QED
    BY <2>1, TaskStillFits
<1> QED
  BY <1>1, <1>2 DEF TasksFit

LEMMA TaskEnters ==
  ASSUME TasksFit, UNCHANGED <<chosen, layout, epoch>>, NEW t, Queue(t),
         TaskFits(t, epoch, seen, pasteSeen)
  PROVE  TasksFit'
<1>1. waiting' = Append(waiting, t)
  BY DEF Queue
<1>2. PICK w : w = Append(waiting, t)
  OBVIOUS
<1>3. isSequence(w) /\ \A i \in DOMAIN w : w[i] = t \/ (i \in DOMAIN waiting /\ w[i] = waiting[i])
  <2>1. isSequence(waiting)
    BY DEF TasksFit
  <2> QED
    BY <1>2, <2>1, AppendIsSequence
<1>4. \A i \in DOMAIN w : TaskFits(w[i], epoch, seen, pasteSeen)
  BY <1>3 DEF TasksFit
<1>5. seen' = seen /\ pasteSeen' = pasteSeen
  BY SeenStands
<1> QED
  BY <1>1, <1>2, <1>3, <1>4, <1>5 DEF TasksFit

\* The record of a task.
LEMMA NewTaskFits ==
  ASSUME epoch \in Nat, NEW kind \in TaskKinds, NEW commands, NEW cell, NEW aimed,
         covers(commands, aimed),
         kind \in {"clear", "fillDown", "fillSeries"} => aimed = seen,
         kind = "paste" => aimed = pasteSeen
  PROVE  TaskFits(task(kind, commands, cell, aimed), epoch, seen, pasteSeen)
<1>1. PICK t : t = task(kind, commands, cell, aimed)
  OBVIOUS
<1>2. /\ t.kind = kind /\ t.epoch = epoch /\ t.commands = commands /\ t.aimed = aimed
      /\ t.relaid = FALSE
  BY <1>1 DEF task
<1>3. isTask(t)
  <2>1. DOMAIN t = {"kind", "stage", "version", "epoch", "commands", "cell", "id", "aimed", "relaid"}
    BY <1>1 DEF task
  <2> QED
    BY <2>1 DEF TaskFields, isTask
<1>4. TaskFits(t, epoch, seen, pasteSeen)
  <2>0. epoch <= epoch
    OBVIOUS
  <2>1. t.kind \in TaskKinds /\ t.relaid \in BOOLEAN /\ t.epoch \in Nat /\ t.epoch <= epoch
    BY <1>2, <2>0, Zenon
  <2>2. onSelection(t) => t.aimed = seen
    BY <1>2 DEF onSelection
  <2> QED
    BY <1>2, <1>3, <2>1, <2>2 DEF TaskFits
<1> QED
  BY <1>1, <1>4

LEMMA UserLeavesQueue ==
  ASSUME TasksFit,
         \/ \E sel \in UserSelections : Choose(sel)
         \/ \E c \in (1 .. GridRows) \X ToSet(FirstColumns) : RequestEdit(c)
         \/ \E d \in {5, Unparsable} : DraftInput(d)
         \/ Composition \/ CancelEdit \/ Blur
  PROVE  TasksFit'
<1>1. epoch \in Nat
  BY DEF TasksFit
<1>2. CASE \E sel \in UserSelections : Choose(sel)
  <2>1. TargetMoves /\ UNCHANGED waiting
    BY <1>1, <1>2, ReplacingMoves DEF Choose
  <2> QED
    BY <2>1, QueueStands
<1>3. CASE \E c \in (1 .. GridRows) \X ToSet(FirstColumns) : RequestEdit(c)
  <2>1. TargetMoves /\ UNCHANGED waiting
    BY <1>3 DEF RequestEdit, TargetMoves
  <2> QED
    BY <2>1, QueueStands
<1>4. CASE (\E d \in {5, Unparsable} : DraftInput(d)) \/ Composition \/ CancelEdit \/ Blur
  <2>1. TargetMoves /\ UNCHANGED waiting
    BY <1>4 DEF DraftInput, Composition, CancelEdit, Blur, TargetMoves
  <2> QED
    BY <2>1, QueueStands
<1> QED
  BY <1>2, <1>3, <1>4

LEMMA CommitEditFits ==
  ASSUME TasksFit, EditFits, NEW fill \in BOOLEAN, CommitEdit(fill)
  PROVE  TasksFit'
<1>1. epoch \in Nat /\ UNCHANGED <<chosen, layout, epoch>>
  BY DEF TasksFit, CommitEdit
<1>2. PICK p : /\ \/ p = Refused
                  \/ fill /\ p = prepareFillSelectionCommands(edit.cell, edit.draft)
                  \/ ~fill /\ p = prepares({<<edit.cell[1], edit.cell[2], edit.draft>>})
               /\ IF p.ok
                  THEN Queue(task(IF fill THEN "fillSelection" ELSE "edit", p.commands, edit.cell,
                                  IF fill THEN seen ELSE {edit.cell}))
                  ELSE UNCHANGED waiting
  BY DEF CommitEdit, seen
<1>3. CASE ~p.ok
  <2>1. UNCHANGED waiting
    BY <1>2, <1>3
  <2> QED
    BY <1>1, <2>1, QueueStands DEF TargetMoves
<1>4. CASE p.ok
  <2>0. p # Refused
    BY <1>4 DEF Refused
  <2>1. CASE fill
    <3>1. covers(p.commands, seen)
      BY <1>2, <1>4, <2>0, <2>1, FillSelectionCovers
    <3>2. TaskFits(task("fillSelection", p.commands, edit.cell, seen), epoch, seen, pasteSeen)
      BY <1>1, <3>1, NewTaskFits DEF TaskKinds
    <3>3. Queue(task("fillSelection", p.commands, edit.cell, seen))
      BY <1>2, <1>4, <2>1
    <3> QED
      BY <1>1, <3>2, <3>3, TaskEnters
  <2>2. CASE ~fill
    <3>1. p = prepares({<<edit.cell[1], edit.cell[2], edit.draft>>})
      BY <1>2, <2>0, <2>2
    <3>2. edit.cell = <<edit.cell[1], edit.cell[2]>>
      BY DEF EditFits, CommitEdit
    <3>3. covers({<<edit.cell[1], edit.cell[2], edit.draft>>}, {edit.cell})
      BY <3>2 DEF covers
    <3>4. covers(p.commands, {edit.cell})
      BY <1>4, <3>1, <3>3, PreparedCovers
    <3>5. TaskFits(task("edit", p.commands, edit.cell, {edit.cell}), epoch, seen, pasteSeen)
      BY <1>1, <3>4, NewTaskFits DEF TaskKinds
    <3>6. Queue(task("edit", p.commands, edit.cell, {edit.cell}))
      BY <1>2, <1>4, <2>2
    <3> QED
      BY <1>1, <3>5, <3>6, TaskEnters
  <2> QED
    BY <2>1, <2>2
<1> QED
  BY <1>3, <1>4

LEMMA CommandsFit ==
  ASSUME TasksFit,
         \/ \E kind \in {"clear", "fillDown", "fillSeries"} : SelectionCommand(kind)
         \/ Paste
         \/ \E kind \in {"host", "replace"} : HostTask(kind)
  PROVE  TasksFit'
<1>1. epoch \in Nat /\ UNCHANGED <<chosen, layout, epoch>>
  BY DEF TasksFit, SelectionCommand, Paste, HostTask
<1>2. \A A : covers({}, A)
  BY DEF covers
<1>3. ASSUME NEW kind \in {"clear", "fillDown", "fillSeries"}, SelectionCommand(kind)
      PROVE  TasksFit'
  <2>1. Queue(task(kind, {}, NoCell, seen))
    BY <1>3 DEF SelectionCommand, seen
  <2>2. TaskFits(task(kind, {}, NoCell, seen), epoch, seen, pasteSeen)
    BY <1>1, <1>2, NewTaskFits DEF TaskKinds
  <2> QED
    BY <1>1, <2>1, <2>2, TaskEnters
<1>4. CASE Paste
  <2>1. Queue(task("paste", {}, NoCell, pasteSeen))
    BY <1>4 DEF Paste, pasteSeen
  <2>2. TaskFits(task("paste", {}, NoCell, pasteSeen), epoch, seen, pasteSeen)
    BY <1>1, <1>2, NewTaskFits DEF TaskKinds
  <2> QED
    BY <1>1, <2>1, <2>2, TaskEnters
<1>5. ASSUME NEW kind \in {"host", "replace"}, HostTask(kind) PROVE TasksFit'
  <2>1. PICK C : /\ C = IF kind = "host" THEN {<<1, FirstColumns[1], 9>>} ELSE {}
                 /\ Queue(task(kind, C, NoCell, {<<1, FirstColumns[1]>>}))
    BY <1>5 DEF HostTask
  <2>2. covers(C, {<<1, FirstColumns[1]>>})
    BY <2>1 DEF covers
  <2>3. TaskFits(task(kind, C, NoCell, {<<1, FirstColumns[1]>>}), epoch, seen, pasteSeen)
    BY <1>1, <2>2, NewTaskFits DEF TaskKinds
  <2> QED
    BY <1>1, <2>1, <2>3, TaskEnters
<1> QED
  BY <1>3, <1>4, <1>5

LEMMA RelayFits ==
  ASSUME TasksFit, NEW cols, Relay(cols)
  PROVE  /\ TasksFit' /\ isSequence(waiting') /\ DOMAIN waiting' = DOMAIN waiting
         /\ \A i \in DOMAIN waiting : waiting'[i].kind = waiting[i].kind
                                      /\ waiting'[i].id = waiting[i].id
<1>1. epoch \in Nat /\ epoch' \in Nat /\ epoch <= epoch'
  <2>1. PICK sel : replaceChosen(sel)
    BY DEF Relay
  <2> QED
    BY <2>1 DEF replaceChosen, TasksFit
<1>2. waiting' = [i \in DOMAIN waiting |->
                    [waiting[i] EXCEPT !.relaid = @ \/ waiting[i].stage # "prepared"]]
  BY DEF Relay
<1>3. isSequence(waiting') /\ DOMAIN waiting' = DOMAIN waiting
  <2>1. PICK w : w = waiting'
    OBVIOUS
  <2>2. w = [i \in DOMAIN waiting |-> w[i]]
    BY <1>2, <2>1
  <2>3. isSequence(waiting)
    BY DEF TasksFit
  <2>4. isSequence(w) /\ DOMAIN w = DOMAIN waiting
    BY <2>2, <2>3, SameShapeIsSequence
  <2> QED
    BY <2>1, <2>4
<1>4. ASSUME NEW i \in DOMAIN waiting
      PROVE  /\ TaskFits(waiting'[i], epoch', seen', pasteSeen')
             /\ waiting'[i].kind = waiting[i].kind /\ waiting'[i].id = waiting[i].id
  <2>1. PICK t : t = waiting[i]
    OBVIOUS
  <2>2. PICK u : u = [t EXCEPT !.relaid = @ \/ t.stage # "prepared"]
    OBVIOUS
  <2>3. u = waiting'[i]
    BY <1>2, <2>1, <2>2
  <2>4. TaskFits(t, epoch, seen, pasteSeen)
    BY <2>1 DEF TasksFit
  <2>5. /\ isTask(u) /\ u.kind = t.kind /\ u.id = t.id /\ u.epoch = t.epoch /\ u.stage = t.stage
        /\ u.commands = t.commands /\ u.aimed = t.aimed
        /\ u.relaid = (t.relaid \/ t.stage # "prepared")
    BY <2>2, <2>4 DEF TaskFits, isTask, TaskFields
  <2>6. t.epoch \in Nat /\ t.epoch <= epoch'
    BY <1>1, <2>4 DEF TaskFits
  <2>7. u.relaid \in BOOLEAN /\ (~u.relaid => ~t.relaid /\ t.stage = "prepared")
    BY <2>5
  <2>8. TaskFits(u, epoch', seen', pasteSeen')
    BY <2>4, <2>5, <2>6, <2>7 DEF TaskFits
  <2> QED
    BY <2>1, <2>3, <2>5, <2>8
<1> QED
  BY <1>1, <1>3, <1>4 DEF TasksFit

LEMMA HeadChanges ==
  ASSUME TasksFit, waiting # <<>>, UNCHANGED <<chosen, layout, epoch>>,
         NEW y, waiting' = [waiting EXCEPT ![1] = y], TaskFits(y, epoch, seen, pasteSeen)
  PROVE  /\ TasksFit' /\ isSequence(waiting') /\ DOMAIN waiting' = DOMAIN waiting
         /\ 1 \in DOMAIN waiting /\ waiting'[1] = y
         /\ \A i \in DOMAIN waiting : i # 1 => waiting'[i] = waiting[i]
<1>1. isSequence(waiting) /\ 1 \in DOMAIN waiting
  BY TailIsSequence DEF TasksFit
<1>2. PICK w : w = waiting'
  OBVIOUS
<1>3. w = [i \in DOMAIN waiting |-> w[i]] /\ w[1] = y
      /\ \A i \in DOMAIN waiting : i # 1 => w[i] = waiting[i]
  BY <1>1, <1>2
<1>4. isSequence(w) /\ DOMAIN w = DOMAIN waiting
  BY <1>1, <1>3, SameShapeIsSequence
<1>5. seen' = seen /\ pasteSeen' = pasteSeen
  BY SeenStands
<1>6. \A i \in DOMAIN w : TaskFits(w[i], epoch, seen, pasteSeen)
  BY <1>3, <1>4 DEF TasksFit
<1> QED
  BY <1>1, <1>2, <1>3, <1>4, <1>5, <1>6 DEF TasksFit

LEMMA HeadTaskFits ==
  ASSUME TasksFit, waiting # <<>>
  PROVE  1 \in DOMAIN waiting /\ TaskFits(waiting[1], epoch, seen, pasteSeen)
<1>1. 1 \in DOMAIN waiting
  BY TailIsSequence DEF TasksFit
<1> QED
  BY <1>1 DEF TasksFit

LEMMA StartPasteFits ==
  ASSUME TasksFit, StartPaste
  PROVE  /\ TasksFit' /\ DOMAIN waiting' = DOMAIN waiting
         /\ \A i \in DOMAIN waiting : waiting'[i].kind = waiting[i].kind
                                      /\ waiting'[i].id = waiting[i].id
<1>1. /\ waiting # <<>> /\ UNCHANGED <<chosen, layout, epoch>>
      /\ waiting' = [waiting EXCEPT ![1].stage = "parsing", ![1].version = version]
      /\ waiting[1].stage = "waiting"
  BY DEF StartPaste
<1>2. 1 \in DOMAIN waiting /\ TaskFits(waiting[1], epoch, seen, pasteSeen)
  BY <1>1, HeadTaskFits
<1>3. PICK t : t = waiting[1]
  OBVIOUS
<1>4. PICK y : y = [t EXCEPT !.stage = "parsing", !.version = version]
  OBVIOUS
<1>5. waiting' = [waiting EXCEPT ![1] = y]
  BY <1>1, <1>2, <1>3, <1>4
<1>6. /\ isTask(y) /\ y.kind = t.kind /\ y.id = t.id /\ y.epoch = t.epoch /\ y.stage = "parsing"
      /\ y.commands = t.commands /\ y.aimed = t.aimed /\ y.relaid = t.relaid
  BY <1>2, <1>3, <1>4 DEF TaskFits, isTask, TaskFields
<1>7. t.stage # "prepared"
  BY <1>1, <1>3
<1>8. TaskFits(y, epoch, seen, pasteSeen)
  BY <1>2, <1>3, <1>6, <1>7 DEF TaskFits, onSelection
<1> QED
  BY <1>1, <1>3, <1>5, <1>6, <1>8, HeadChanges

LEMMA PreparationCovers ==
  ASSUME NEW t, TaskFits(t, epoch, seen, pasteSeen), readyToPrepare(t), ~refusedNow(t),
         preparation(t).ok, ~t.relaid
  PROVE  covers(preparation(t).commands, t.aimed)
<1>1. PICK p : p = preparation(t)
  OBVIOUS
<1>2. p.ok /\ covers(t.commands, t.aimed) /\ t.kind \in TaskKinds /\ t.kind # "replace"
  BY <1>1 DEF TaskFits, readyToPrepare
<1>3. \A A : covers({}, A)
  BY DEF covers
<1>4. t.stage # "prepared"
  BY DEF readyToPrepare
<1>5. CASE t.kind \in {"edit", "fillSelection", "host"}
  <2>1. p = prepares(t.commands)
    BY <1>1, <1>5 DEF preparation
  <2> QED
    BY <1>1, <1>2, <2>1, PreparedCovers
<1>6. CASE onSelection(t)
  <2>1. t.epoch = epoch
    BY <1>6 DEF refusedNow, guarded, pasteStaleness, onSelection
  <2>2. t.aimed = seen /\ seen = cellsOf(blocks(chosen, layout))
    BY <1>4, <1>6, <2>1 DEF TaskFits, seen
  <2>3. CASE t.kind = "clear"
    <3>1. p = prepareClearCommands(blocks(chosen, layout))
      BY <1>1, <2>3 DEF preparation
    <3> QED
      BY <1>1, <1>2, <2>2, <3>1, ClearCovers
  <2>4. CASE t.kind = "fillDown"
    <3>1. \/ p = Refused \/ p = prepares({})
          \/ p = prepareFillDownCommands(blocks(chosen, layout))
      BY <1>1, <2>4 DEF preparation
    <3>2. p # Refused
      BY <1>2 DEF Refused
    <3>3. CASE p = prepares({})
      BY <1>1, <1>2, <1>3, <3>3, PreparedCovers
    <3>4. CASE p = prepareFillDownCommands(blocks(chosen, layout))
      BY <1>1, <1>2, <2>2, <3>4, FillDownCovers
    <3> QED
      BY <3>1, <3>2, <3>3, <3>4
  <2>5. CASE t.kind = "fillSeries"
    <3>1. \/ p = prepares({})
          \/ p = prepareFillSeriesCommands(blocks(chosen, layout))
      BY <1>1, <2>5 DEF preparation
    <3>3. CASE p = prepares({})
      BY <1>1, <1>2, <1>3, <3>3, PreparedCovers
    <3>4. CASE p = prepareFillSeriesCommands(blocks(chosen, layout))
      BY <1>1, <1>2, <2>2, <3>4, FillSeriesCovers
    <3> QED
      BY <3>1, <3>3, <3>4
  <2> QED
    BY <1>6, <2>3, <2>4, <2>5 DEF onSelection
<1>7. CASE t.kind = "paste"
  <2>1. t.epoch = epoch
    BY <1>7 DEF refusedNow, pasteStaleness, readyToPrepare
  <2>2. t.aimed = pasteSeen
    BY <1>4, <1>7, <2>1 DEF TaskFits
  <2>3. p = preparePaste
    BY <1>1, <1>7 DEF preparation
  <2> QED
    BY <1>1, <1>2, <2>2, <2>3, PasteCovers
<1> QED
  BY <1>2, <1>5, <1>6, <1>7 DEF TaskKinds, onSelection

LEMMA PreparedFits ==
  ASSUME TasksFit, Prepared
  PROVE  /\ TasksFit' /\ DOMAIN waiting' = DOMAIN waiting
         /\ \A i \in DOMAIN waiting : waiting'[i].kind = waiting[i].kind
                                      /\ waiting'[i].id = waiting[i].id
<1>1. PICK p : /\ p = preparation(waiting[1]) /\ p.ok
               /\ waiting' = [waiting EXCEPT ![1].stage = "prepared", ![1].commands = p.commands]
  BY DEF Prepared
<1>2. /\ waiting # <<>> /\ UNCHANGED <<chosen, layout, epoch>>
      /\ readyToPrepare(waiting[1]) /\ ~refusedNow(waiting[1])
  BY DEF Prepared
<1>3. 1 \in DOMAIN waiting /\ TaskFits(waiting[1], epoch, seen, pasteSeen)
  BY <1>2, HeadTaskFits
<1>4. ~waiting[1].relaid => covers(p.commands, waiting[1].aimed)
  BY <1>1, <1>2, <1>3, PreparationCovers
<1>5. PICK t : t = waiting[1]
  OBVIOUS
<1>6. PICK y : y = [t EXCEPT !.stage = "prepared", !.commands = p.commands]
  OBVIOUS
<1>7. waiting' = [waiting EXCEPT ![1] = y]
  BY <1>1, <1>3, <1>5, <1>6
<1>8. /\ isTask(y) /\ y.kind = t.kind /\ y.id = t.id /\ y.epoch = t.epoch /\ y.stage = "prepared"
      /\ y.commands = p.commands /\ y.aimed = t.aimed /\ y.relaid = t.relaid
  BY <1>3, <1>5, <1>6 DEF TaskFits, isTask, TaskFields
<1>9. TaskFits(y, epoch, seen, pasteSeen)
  BY <1>3, <1>4, <1>5, <1>8 DEF TaskFits
<1> QED
  BY <1>2, <1>5, <1>7, <1>8, <1>9, HeadChanges

LEMMA LeavingFits ==
  ASSUME TasksFit, Refuse \/ NothingToDo \/ PreventCommand \/ Commit \/ ReplaceGrid
  PROVE  /\ TasksFit' /\ waiting # <<>> /\ waiting' = Tail(waiting)
<1>1. waiting # <<>> /\ waiting' = Tail(waiting)
  BY DEF Refuse, NothingToDo, PreventCommand, Drop, Commit, ReplaceGrid
<1>2. epoch \in Nat
  BY DEF TasksFit
<1>3. TargetMoves
  <2>1. CASE Refuse \/ NothingToDo \/ PreventCommand
    BY <2>1 DEF Refuse, NothingToDo, PreventCommand, Drop, TargetMoves
  <2>2. CASE Commit
    <3>1. layout' = layout
          /\ (UNCHANGED <<chosen, epoch>> \/ \E sel \in {chosen'} : replaceChosen(sel))
      BY <2>2 DEF Commit, replaceChosen
    <3> QED
      BY <1>2, <3>1, ReplacingMoves DEF TargetMoves
  <2>3. CASE ReplaceGrid
    BY <1>2, <2>3, ReplacingMoves DEF ReplaceGrid
  <2> QED
    BY <2>1, <2>2, <2>3
<1> QED
  BY <1>1, <1>3, QueueShrinks

-----------------------------------------------------------------------------
(* Edits and their outcomes.                                               *)

LEMMA SettleFits ==
  ASSUME TasksFit, EditFits, NEW t, NEW ok \in BOOLEAN, Settle(t, ok)
  PROVE  /\ EditFits'
         /\ \/ /\ isEdit(t) /\ edit.status = "committing" /\ reported' = <<edit.id, t.id>>
            \/ /\ ~(isEdit(t) /\ edit.status = "committing") /\ UNCHANGED <<edit, reported>>
<1>1. CASE isEdit(t) /\ edit.status = "committing"
  <2>1. /\ edit' = IF ok THEN Focused ELSE [edit EXCEPT !.status = "rejected"]
        /\ reported' = <<edit.id, t.id>>
    BY <1>1 DEF Settle, isEdit
  <2>2. CASE ok
    <3>1. DOMAIN Focused = EditFields /\ Focused.status = "focused"
      BY DEF Focused, Idle, EditFields
    <3> QED
      BY <1>1, <2>1, <2>2, <3>1 DEF EditFits
  <2>3. CASE ~ok
    <3>1. edit' = [edit EXCEPT !.status = "rejected"]
      BY <2>1, <2>3
    <3>2. DOMAIN edit' = EditFields /\ edit'.cell = edit.cell
      BY <3>1 DEF EditFits, EditFields
    <3>3. edit.cell = <<edit.cell[1], edit.cell[2]>>
      BY <1>1 DEF EditFits
    <3> QED
      BY <1>1, <2>1, <3>2, <3>3 DEF EditFits
  <2> QED
    BY <2>2, <2>3
<1>2. CASE ~(isEdit(t) /\ edit.status = "committing")
  <2>1. UNCHANGED <<edit, reported>>
    BY <1>2 DEF Settle, isEdit
  <2> QED
    BY <1>2, <2>1 DEF EditFits
<1> QED
  BY <1>1, <1>2

\* A task that leaves takes the one edit with it, or leaves it alone.
LEMMA HeadLeaves ==
  ASSUME NEW w, isSequence(w), w # <<>>, NEW e, OneEditWaits(w, e)
  PROVE  /\ OneEditWaits(Tail(w), e)
         /\ isEdit(w[1]) => /\ e.status = "committing" /\ w[1].id = e.id
                            /\ \A f : OneEditWaits(Tail(w), f)
<1>1. /\ 1 \in DOMAIN w
      /\ \A i \in DOMAIN Tail(w) : i + 1 \in DOMAIN w /\ Tail(w)[i] = w[i + 1] /\ i + 1 # 1
      /\ \A i, j \in DOMAIN Tail(w) : i + 1 = j + 1 => i = j
  BY TailIsSequence
<1>2. OneEditWaits(Tail(w), e)
  BY <1>1 DEF OneEditWaits
<1>3. ASSUME isEdit(w[1]) PROVE \A i \in DOMAIN Tail(w) : ~isEdit(Tail(w)[i])
  BY <1>1, <1>3 DEF OneEditWaits
<1> QED
  BY <1>1, <1>2, <1>3 DEF OneEditWaits

LEMMA SettlingKeepsOutcomes ==
  ASSUME CellInv, waiting # <<>>, waiting' = Tail(waiting), unsettled' = unsettled,
         NEW ok \in BOOLEAN, Settle(waiting[1], ok)
  PROVE  EditFits' /\ OutcomesFit'
<1>1. /\ EditFits'
      /\ \/ /\ isEdit(waiting[1]) /\ edit.status = "committing"
            /\ reported' = <<edit.id, waiting[1].id>>
         \/ /\ ~(isEdit(waiting[1]) /\ edit.status = "committing") /\ UNCHANGED <<edit, reported>>
  BY SettleFits DEF CellInv
<1>2. isSequence(waiting) /\ unsettled \in BOOLEAN
  BY DEF CellInv, TasksFit, OutcomesFit
<1>3. ASSUME ~unsettled
      PROVE  OneEditWaits(waiting', edit') /\ (reported' # <<>> => reported'[1] = reported'[2])
  <2>1. OneEditWaits(waiting, edit) /\ (reported # <<>> => reported[1] = reported[2])
    BY <1>3 DEF CellInv, OutcomesFit
  <2>2. /\ OneEditWaits(Tail(waiting), edit)
        /\ isEdit(waiting[1]) => /\ edit.status = "committing" /\ waiting[1].id = edit.id
                                 /\ \A f : OneEditWaits(Tail(waiting), f)
    BY <1>2, <2>1, HeadLeaves
  <2>3. CASE isEdit(waiting[1])
    <3>1. reported' = <<edit.id, edit.id>>
      BY <1>1, <2>2, <2>3
    <3> QED
      BY <2>2, <2>3, <3>1
  <2>4. CASE ~isEdit(waiting[1])
    BY <1>1, <2>1, <2>2, <2>4
  <2> QED
    BY <2>3, <2>4
<1> QED
  BY <1>1, <1>2, <1>3 DEF OutcomesFit

LEMMA SameEditsWait ==
  ASSUME NEW w, NEW v, NEW e, OneEditWaits(w, e), DOMAIN v = DOMAIN w,
         \A i \in DOMAIN w : v[i].kind = w[i].kind /\ v[i].id = w[i].id
  PROVE  OneEditWaits(v, e)
BY DEF OneEditWaits, isEdit

\* Who ends an edit that is committing says so.
LEMMA EndingKeepsOutcomes ==
  ASSUME OutcomesFit, EndActiveEdit, reported' = reported, ~unsettled'
  PROVE  EditFits' /\ edit.status # "committing" /\ ~unsettled
         /\ (reported' # <<>> => reported'[1] = reported'[2])
<1>1. edit' = Idle /\ unsettled' = (unsettled \/ edit.status = "committing")
  BY DEF EndActiveEdit
<1>2. DOMAIN Idle = EditFields /\ Idle.status = "idle"
  BY DEF Idle, EditFields
<1>3. EditFits'
  BY <1>1, <1>2 DEF EditFits
<1>4. unsettled \in BOOLEAN
  BY DEF OutcomesFit
<1>5. ~unsettled /\ edit.status # "committing"
  BY <1>1, <1>4
<1> QED
  BY <1>3, <1>5 DEF OutcomesFit

LEMMA NoEditWaits ==
  ASSUME NEW w, NEW e, OneEditWaits(w, e), e.status # "committing"
  PROVE  \A i \in DOMAIN w : ~isEdit(w[i])
BY DEF OneEditWaits

\* A step of the user that leaves the queue, or queues no edit.
LEMMA EditStepKeepsOutcomes ==
  ASSUME CellInv, UNCHANGED <<waiting, reported, unsettled>>, EditFits',
         \/ UNCHANGED edit
         \/ edit.status # "committing"
  PROVE  EditFits' /\ OutcomesFit'
<1>1. ASSUME ~unsettled PROVE OneEditWaits(waiting, edit')
  <2>1. OneEditWaits(waiting, edit)
    BY <1>1 DEF CellInv, OutcomesFit
  <2>2. CASE UNCHANGED edit
    BY <2>1, <2>2
  <2>3. CASE edit.status # "committing"
    <3>1. \A i \in DOMAIN waiting : ~isEdit(waiting[i])
      BY <2>1, <2>3, NoEditWaits
    <3> QED
      BY <3>1 DEF OneEditWaits
  <2> QED
    BY <2>2, <2>3
<1> QED
  BY <1>1 DEF CellInv, OutcomesFit

LEMMA UserKeepsOutcomes ==
  ASSUME CellInv,
         \/ \E sel \in UserSelections : Choose(sel)
         \/ \E c \in (1 .. GridRows) \X ToSet(FirstColumns) : RequestEdit(c)
         \/ \E d \in {5, Unparsable} : DraftInput(d)
         \/ Composition \/ CancelEdit \/ Blur
  PROVE  EditFits' /\ OutcomesFit'
<1>1. EditFits
  BY DEF CellInv
<1>2. DOMAIN Focused = EditFields /\ Focused.status = "focused"
      /\ DOMAIN Idle = EditFields /\ Idle.status = "idle"
  BY DEF Focused, Idle, EditFields
<1>3. CASE \E sel \in UserSelections : Choose(sel)
  <2>1. UNCHANGED <<edit, waiting, reported, unsettled>>
    BY <1>3 DEF Choose
  <2>2. EditFits'
    BY <1>1, <2>1 DEF EditFits
  <2> QED
    BY <2>1, <2>2, EditStepKeepsOutcomes
<1>4. ASSUME NEW c \in (1 .. GridRows) \X ToSet(FirstColumns), RequestEdit(c)
      PROVE  EditFits' /\ OutcomesFit'
  <2>1. UNCHANGED <<waiting, reported, unsettled>>
        /\ edit.status \in {"idle", "focused", "rejected"}
    BY <1>4 DEF RequestEdit
  <2>2. \/ edit' = [status |-> "editing", cell |-> c, draft |-> values[c[1]][c[2]],
                    id |-> cellSteps']
        \/ edit' = Focused
    BY <1>4 DEF RequestEdit
  <2>3. c = <<c[1], c[2]>>
    OBVIOUS
  <2>4. EditFits'
    BY <1>2, <2>2, <2>3 DEF EditFits, EditFields
  <2> QED
    BY <2>1, <2>4, EditStepKeepsOutcomes
<1>5. ASSUME NEW d, DraftInput(d) PROVE EditFits' /\ OutcomesFit'
  <2>1. /\ UNCHANGED <<waiting, reported, unsettled>>
        /\ edit.status \in {"editing", "composing", "rejected"}
        /\ edit' = [edit EXCEPT !.draft = d,
                      !.status = IF edit.status = "composing" THEN "composing" ELSE "editing"]
    BY <1>5 DEF DraftInput
  <2>2. DOMAIN edit' = EditFields /\ edit'.cell = edit.cell
    BY <1>1, <2>1 DEF EditFits, EditFields
  <2>3. EditFits'
    BY <1>1, <2>1, <2>2 DEF EditFits
  <2> QED
    BY <2>1, <2>3, EditStepKeepsOutcomes
<1>6. CASE Composition
  <2>1. /\ UNCHANGED <<waiting, reported, unsettled>>
        /\ edit.status \in {"editing", "composing"}
        /\ edit' = [edit EXCEPT !.status = IF @ = "editing" THEN "composing" ELSE "editing"]
    BY <1>6 DEF Composition
  <2>2. DOMAIN edit' = EditFields /\ edit'.cell = edit.cell
    BY <1>1, <2>1 DEF EditFits, EditFields
  <2>3. EditFits'
    BY <1>1, <2>1, <2>2 DEF EditFits
  <2> QED
    BY <2>1, <2>3, EditStepKeepsOutcomes
<1>7. CASE CancelEdit \/ Blur
  <2>1. UNCHANGED <<waiting, reported, unsettled>> /\ (edit' = Focused \/ edit' = Idle)
        /\ edit.status # "committing"
    BY <1>7 DEF CancelEdit, Blur
  <2>2. EditFits'
    BY <1>2, <2>1 DEF EditFits
  <2> QED
    BY <2>1, <2>2, EditStepKeepsOutcomes
<1> QED
  BY <1>3, <1>4, <1>5, <1>6, <1>7

\* A task is queued: no edit's, or the only one of the edit that commits.
LEMMA QueuedOutcomes ==
  ASSUME CellInv, NEW t, Queue(t), UNCHANGED <<reported, unsettled>>, EditFits',
         \/ ~isEdit(t) /\ (UNCHANGED edit \/ edit.status # "committing")
         \/ edit.status # "committing" /\ edit'.status = "committing" /\ t.id = edit'.id
  PROVE  OutcomesFit'
<1>1. PICK w : w = waiting'
  OBVIOUS
<1>2. /\ \A i \in DOMAIN w : w[i] = t \/ (i \in DOMAIN waiting /\ w[i] = waiting[i])
      /\ \A i, j \in DOMAIN w : i \notin DOMAIN waiting /\ j \notin DOMAIN waiting => i = j
  <2>1. isSequence(waiting) /\ w = Append(waiting, t)
    BY <1>1 DEF CellInv, TasksFit, Queue
  <2>2. PICK u : u = Append(waiting, t)
    OBVIOUS
  <2>3. /\ \A i \in DOMAIN u : u[i] = t \/ (i \in DOMAIN waiting /\ u[i] = waiting[i])
        /\ \A i, j \in DOMAIN u : i \notin DOMAIN waiting /\ j \notin DOMAIN waiting => i = j
    BY <2>1, <2>2, AppendIsSequence
  <2> QED
    BY <2>1, <2>2, <2>3
<1>3. ASSUME ~unsettled PROVE OneEditWaits(w, edit')
  <2>1. OneEditWaits(waiting, edit)
    BY <1>3 DEF CellInv, OutcomesFit
  <2>2. CASE edit.status # "committing"
    <3>1. \A i \in DOMAIN waiting : ~isEdit(waiting[i])
      BY <2>1, <2>2, NoEditWaits
    <3>2. \A i \in DOMAIN w : isEdit(w[i]) => w[i] = t /\ i \notin DOMAIN waiting
      <4>1. SUFFICES ASSUME NEW i \in DOMAIN w, isEdit(w[i])
                     PROVE  w[i] = t /\ i \notin DOMAIN waiting
        OBVIOUS
      <4>2. w[i] = t \/ (i \in DOMAIN waiting /\ w[i] = waiting[i])
        BY <1>2
      <4>3. w[i] = t
        BY <3>1, <4>1, <4>2
      <4>4. CASE i \in DOMAIN waiting
        <5>1. w[i] = waiting[i]
          <6>1. isSequence(waiting) /\ w = Append(waiting, t)
            BY <1>1 DEF CellInv, TasksFit, Queue
          <6> QED
            BY <4>4, <6>1, AppendKeeps
        <5> QED
          BY <3>1, <4>1, <4>4, <5>1
      <4> QED
        BY <4>3, <4>4
    <3>3. CASE ~isEdit(t)
      BY <3>2, <3>3 DEF OneEditWaits
    <3>4. CASE isEdit(t)
      <4>1. edit'.status = "committing" /\ t.id = edit'.id
        BY <2>2, <3>4
      <4> QED
        BY <1>2, <3>2, <4>1 DEF OneEditWaits
    <3> QED
      BY <3>3, <3>4
  <2>3. CASE edit.status = "committing"
    <3>1. ~isEdit(t) /\ UNCHANGED edit
      BY <2>3
    <3>2. \A i \in DOMAIN w : isEdit(w[i]) => i \in DOMAIN waiting /\ w[i] = waiting[i]
      BY <1>2, <3>1
    <3> QED
      BY <2>1, <3>1, <3>2 DEF OneEditWaits
  <2> QED
    BY <2>2, <2>3
<1> QED
  BY <1>1, <1>3 DEF CellInv, OutcomesFit

LEMMA TaskKind ==
  ASSUME NEW kind, NEW commands, NEW cell, NEW aimed
  PROVE  /\ task(kind, commands, cell, aimed).kind = kind
         /\ task(kind, commands, cell, aimed).id = edit.id
BY DEF task

LEMMA CommitEditKeepsOutcomes ==
  ASSUME CellInv, NEW fill \in BOOLEAN, CommitEdit(fill)
  PROVE  EditFits' /\ OutcomesFit'
<1>1. /\ EditFits /\ edit.status \in {"editing", "rejected"}
      /\ UNCHANGED <<reported, unsettled>>
  BY DEF CellInv, CommitEdit
<1>2. PICK st, t :
        /\ st \in {"committing", "rejected"} /\ edit' = [edit EXCEPT !.status = st]
        /\ st = "committing" => Queue(t) /\ t.id = edit.id
        /\ st = "rejected" => UNCHANGED waiting
  <2>1. PICK p :
          IF p.ok
          THEN /\ edit' = [edit EXCEPT !.status = "committing"]
               /\ Queue(task(IF fill THEN "fillSelection" ELSE "edit", p.commands, edit.cell,
                             IF fill THEN seen ELSE {edit.cell}))
          ELSE /\ edit' = [edit EXCEPT !.status = "rejected"]
               /\ UNCHANGED waiting
    BY DEF CommitEdit, seen
  <2>2. CASE p.ok
    <3>1. PICK t : t = task(IF fill THEN "fillSelection" ELSE "edit", p.commands, edit.cell,
                            IF fill THEN seen ELSE {edit.cell})
      OBVIOUS
    <3>2. t.id = edit.id
      BY <3>1, TaskKind
    <3>3. Queue(t) /\ edit' = [edit EXCEPT !.status = "committing"]
      BY <2>1, <2>2, <3>1
    <3> QED
      BY <3>2, <3>3
  <2>3. CASE ~p.ok
    BY <2>1, <2>3
  <2> QED
    BY <2>2, <2>3
<1>3. /\ DOMAIN edit' = EditFields /\ edit'.cell = edit.cell /\ edit'.id = edit.id
      /\ edit'.status = st
  BY <1>1, <1>2 DEF EditFits, EditFields
<1>4. EditFits'
  BY <1>1, <1>3 DEF EditFits
<1>5. edit.status # "committing"
  BY <1>1
<1>6. CASE st = "committing"
  BY <1>1, <1>2, <1>3, <1>4, <1>5, <1>6, QueuedOutcomes
<1>7. CASE st = "rejected"
  BY <1>1, <1>2, <1>4, <1>5, <1>7, EditStepKeepsOutcomes
<1> QED
  BY <1>2, <1>4, <1>6, <1>7

LEMMA CommandsKeepOutcomes ==
  ASSUME CellInv,
         \/ \E kind \in {"clear", "fillDown", "fillSeries"} : SelectionCommand(kind)
         \/ Paste
         \/ \E kind \in {"host", "replace"} : HostTask(kind)
  PROVE  EditFits' /\ OutcomesFit'
<1>1. EditFits /\ UNCHANGED <<reported, unsettled>>
  BY DEF CellInv, SelectionCommand, Paste, HostTask
<1>2. ASSUME NEW kind \in {"clear", "fillDown", "fillSeries"}, SelectionCommand(kind)
      PROVE  EditFits' /\ OutcomesFit'
  <2>1. PICK t : t = task(kind, {}, NoCell, seen)
    OBVIOUS
  <2>2. Queue(t) /\ edit' = Focused /\ edit.status # "committing"
    BY <1>2, <2>1 DEF SelectionCommand, seen
  <2>3. ~isEdit(t)
    BY <2>1, TaskKind DEF isEdit
  <2>4. DOMAIN Focused = EditFields /\ Focused.status = "focused"
    BY DEF Focused, Idle, EditFields
  <2>5. EditFits'
    BY <2>2, <2>4 DEF EditFits
  <2> QED
    BY <1>1, <2>2, <2>3, <2>5, QueuedOutcomes
<1>3. CASE Paste
  <2>1. PICK t : t = task("paste", {}, NoCell, pasteSeen)
    OBVIOUS
  <2>2. Queue(t) /\ edit' = edit
    BY <1>3, <2>1 DEF Paste, pasteSeen
  <2>3. ~isEdit(t)
    BY <2>1, TaskKind DEF isEdit
  <2>4. EditFits'
    BY <1>1, <2>2 DEF EditFits
  <2> QED
    BY <1>1, <2>2, <2>3, <2>4, QueuedOutcomes
<1>4. ASSUME NEW kind \in {"host", "replace"}, HostTask(kind)
      PROVE  EditFits' /\ OutcomesFit'
  <2>1. PICK C, A : Queue(task(kind, C, NoCell, A))
    BY <1>4 DEF HostTask
  <2>2. PICK t : t = task(kind, C, NoCell, A)
    OBVIOUS
  <2>3. ~isEdit(t)
    BY <2>2, TaskKind DEF isEdit
  <2>4. edit' = edit
    BY <1>4 DEF HostTask
  <2>5. EditFits'
    BY <1>1, <2>4 DEF EditFits
  <2> QED
    BY <1>1, <2>1, <2>2, <2>3, <2>4, <2>5, QueuedOutcomes
<1> QED
  BY <1>2, <1>3, <1>4

\* The queue keeps its edits, and the edit is left alone.
LEMMA RewritingKeepsOutcomes ==
  ASSUME CellInv, UNCHANGED <<edit, reported, unsettled>>,
         DOMAIN waiting' = DOMAIN waiting,
         \A i \in DOMAIN waiting : /\ waiting'[i].kind = waiting[i].kind
                                   /\ waiting'[i].id = waiting[i].id
  PROVE  EditFits' /\ OutcomesFit'
<1>1. EditFits'
  BY DEF CellInv, EditFits
<1>2. ASSUME ~unsettled PROVE OneEditWaits(waiting', edit)
  <2>1. OneEditWaits(waiting, edit)
    BY <1>2 DEF CellInv, OutcomesFit
  <2>2. PICK w : w = waiting'
    OBVIOUS
  <2>3. OneEditWaits(w, edit)
    BY <2>1, <2>2, SameEditsWait
  <2> QED
    BY <2>2, <2>3
<1> QED
  BY <1>1, <1>2 DEF CellInv, OutcomesFit

LEMMA SetLayoutKeepsOutcomes ==
  ASSUME CellInv, SetLayout
  PROVE  EditFits' /\ OutcomesFit'
<1>1. /\ DOMAIN waiting' = DOMAIN waiting
      /\ \A i \in DOMAIN waiting : /\ waiting'[i].kind = waiting[i].kind
                                   /\ waiting'[i].id = waiting[i].id
  BY RelayFits DEF SetLayout, CellInv
<1>2. EndActiveEdit /\ reported' = reported /\ OutcomesFit /\ unsettled \in BOOLEAN
  BY DEF SetLayout, CellInv, OutcomesFit
<1>3. EditFits' /\ edit' = Idle
  <2>1. DOMAIN Idle = EditFields /\ Idle.status = "idle"
    BY DEF Idle, EditFields
  <2> QED
    BY <1>2, <2>1 DEF EditFits, EndActiveEdit
<1>4. ASSUME ~unsettled'
      PROVE  OneEditWaits(waiting', edit') /\ (reported' # <<>> => reported'[1] = reported'[2])
  <2>1. edit.status # "committing" /\ ~unsettled
        /\ (reported' # <<>> => reported'[1] = reported'[2])
    BY <1>2, <1>4, EndingKeepsOutcomes
  <2>2. OneEditWaits(waiting, edit)
    BY <2>1 DEF CellInv, OutcomesFit
  <2>3. \A i \in DOMAIN waiting : ~isEdit(waiting[i])
    BY <2>1, <2>2, NoEditWaits
  <2>4. \A i \in DOMAIN waiting' : ~isEdit(waiting'[i])
    BY <1>1, <2>3 DEF isEdit
  <2> QED
    BY <2>1, <2>4 DEF OneEditWaits
<1>5. unsettled' \in BOOLEAN
  BY <1>2 DEF EndActiveEdit
<1> QED
  BY <1>3, <1>4, <1>5 DEF OutcomesFit

LEMMA ReplaceGridKeepsOutcomes ==
  ASSUME CellInv, ReplaceGrid
  PROVE  EditFits' /\ OutcomesFit'
<1>1. waiting # <<>> /\ waiting' = Tail(waiting) /\ isSequence(waiting)
  BY DEF ReplaceGrid, CellInv, TasksFit
<1>2. EndActiveEdit /\ reported' = reported /\ OutcomesFit /\ unsettled \in BOOLEAN
  BY DEF ReplaceGrid, CellInv, OutcomesFit
<1>3. EditFits' /\ edit' = Idle
  <2>1. DOMAIN Idle = EditFields /\ Idle.status = "idle"
    BY DEF Idle, EditFields
  <2> QED
    BY <1>2, <2>1 DEF EditFits, EndActiveEdit
<1>4. ASSUME ~unsettled'
      PROVE  OneEditWaits(waiting', edit') /\ (reported' # <<>> => reported'[1] = reported'[2])
  <2>1. edit.status # "committing" /\ ~unsettled
        /\ (reported' # <<>> => reported'[1] = reported'[2])
    BY <1>2, <1>4, EndingKeepsOutcomes
  <2>2. OneEditWaits(waiting, edit)
    BY <2>1 DEF CellInv, OutcomesFit
  <2>3. OneEditWaits(Tail(waiting), edit)
    BY <1>1, <2>2, HeadLeaves
  <2>4. \A i \in DOMAIN Tail(waiting) : ~isEdit(Tail(waiting)[i])
    BY <2>1, <2>3 DEF OneEditWaits
  <2> QED
    BY <1>1, <2>1, <2>4 DEF OneEditWaits
<1>5. unsettled' \in BOOLEAN
  BY <1>2 DEF EndActiveEdit
<1> QED
  BY <1>3, <1>4, <1>5 DEF OutcomesFit

-----------------------------------------------------------------------------
LEMMA CellStarts == CellInit => CellInv
<1> SUFFICES ASSUME CellInit PROVE CellInv
  OBVIOUS
<1>1. waiting = <<>> /\ epoch = 0 /\ edit = Idle /\ reported = <<>> /\ unsettled = FALSE
  BY DEF CellInit
<1>2. DOMAIN waiting = {} /\ isSequence(waiting)
  <2>1. DOMAIN <<>> = {} /\ Len(<<>>) = 0
    OBVIOUS
  <2>2. <<>> \in Seq({})
    OBVIOUS
  <2>3. isSequence(<<>>)
    BY <2>2, IsSequenceOf
  <2> QED
    BY <1>1, <2>1, <2>3
<1>3. DOMAIN Idle = EditFields /\ Idle.status = "idle"
  BY DEF Idle, EditFields
<1>4. TasksFit
  BY <1>1, <1>2 DEF TasksFit
<1>5. EditFits
  BY <1>1, <1>3 DEF EditFits
<1>6. OutcomesFit
  BY <1>1, <1>2 DEF OutcomesFit, OneEditWaits
<1> QED
  BY <1>4, <1>5, <1>6 DEF CellInv

LEMMA UserStepKeeps ==
  ASSUME CellInv,
         \/ \E sel \in UserSelections : Choose(sel)
         \/ \E c \in (1 .. GridRows) \X ToSet(FirstColumns) : RequestEdit(c)
         \/ \E d \in {5, Unparsable} : DraftInput(d)
         \/ Composition \/ CancelEdit \/ Blur
  PROVE  CellInv'
<1>1. TasksFit
  BY DEF CellInv
<1>2. TasksFit'
  BY <1>1, UserLeavesQueue
<1>3. EditFits' /\ OutcomesFit'
  BY UserKeepsOutcomes
<1> QED
  BY <1>2, <1>3 DEF CellInv

LEMMA CommandStepKeeps ==
  ASSUME CellInv,
         \/ \E fill \in BOOLEAN : CommitEdit(fill)
         \/ \E kind \in {"clear", "fillDown", "fillSeries"} : SelectionCommand(kind)
         \/ Paste
         \/ \E kind \in {"host", "replace"} : HostTask(kind)
  PROVE  CellInv'
<1>1. TasksFit /\ EditFits
  BY DEF CellInv
<1>2. ASSUME NEW fill \in BOOLEAN, CommitEdit(fill) PROVE CellInv'
  BY <1>1, <1>2, CommitEditFits, CommitEditKeepsOutcomes DEF CellInv
<1>3. CASE \/ \E kind \in {"clear", "fillDown", "fillSeries"} : SelectionCommand(kind)
           \/ Paste
           \/ \E kind \in {"host", "replace"} : HostTask(kind)
  <2>1. TasksFit'
    BY <1>1, <1>3, CommandsFit
  <2>2. EditFits' /\ OutcomesFit'
    BY <1>3, CommandsKeepOutcomes
  <2> QED
    BY <2>1, <2>2 DEF CellInv
<1> QED
  BY <1>2, <1>3

LEMMA LayoutStepKeeps ==
  ASSUME CellInv,
         \/ \E i, j \in DOMAIN FirstColumns : ReorderLayout(i, j)
         \/ \E c \in ToSet(FirstColumns) : HideColumn(c)
         \/ SetLayout
  PROVE  CellInv'
<1>1. TasksFit
  BY DEF CellInv
<1>2. CASE \/ \E i, j \in DOMAIN FirstColumns : ReorderLayout(i, j)
           \/ \E c \in ToSet(FirstColumns) : HideColumn(c)
  <2>1. (\E cols : Relay(cols)) /\ UNCHANGED <<edit, reported, unsettled>>
    BY <1>2 DEF ReorderLayout, HideColumn
  <2>2. PICK cols : Relay(cols)
    BY <2>1
  <2>3. /\ TasksFit' /\ DOMAIN waiting' = DOMAIN waiting
        /\ \A i \in DOMAIN waiting : /\ waiting'[i].kind = waiting[i].kind
                                     /\ waiting'[i].id = waiting[i].id
    BY <1>1, <2>2, RelayFits
  <2>4. EditFits' /\ OutcomesFit'
    BY <2>1, <2>3, RewritingKeepsOutcomes
  <2> QED
    BY <2>3, <2>4 DEF CellInv
<1>3. CASE SetLayout
  <2>1. TasksFit'
    BY <1>1, <1>3, RelayFits DEF SetLayout
  <2> QED
    BY <1>3, <2>1, SetLayoutKeepsOutcomes DEF CellInv
<1> QED
  BY <1>2, <1>3

LEMMA RunStepKeeps ==
  ASSUME CellInv,
         StartPaste \/ Prepared \/ Refuse \/ NothingToDo \/ PreventCommand \/ Commit \/ ReplaceGrid
  PROVE  CellInv'
<1>1. TasksFit
  BY DEF CellInv
<1>2. CASE StartPaste \/ Prepared
  <2>1. /\ TasksFit' /\ DOMAIN waiting' = DOMAIN waiting
        /\ \A i \in DOMAIN waiting : /\ waiting'[i].kind = waiting[i].kind
                                     /\ waiting'[i].id = waiting[i].id
    BY <1>1, <1>2, StartPasteFits, PreparedFits
  <2>2. UNCHANGED <<edit, reported, unsettled>>
    BY <1>2 DEF StartPaste, Prepared
  <2>3. EditFits' /\ OutcomesFit'
    BY <2>1, <2>2, RewritingKeepsOutcomes
  <2> QED
    BY <2>1, <2>3 DEF CellInv
<1>3. CASE Refuse \/ NothingToDo \/ PreventCommand \/ Commit
  <2>1. TasksFit' /\ waiting # <<>> /\ waiting' = Tail(waiting)
    BY <1>1, <1>3, LeavingFits
  <2>2. unsettled' = unsettled /\ \E ok \in BOOLEAN : Settle(waiting[1], ok)
    BY <1>3 DEF Refuse, NothingToDo, PreventCommand, Drop, Commit
  <2>3. EditFits' /\ OutcomesFit'
    BY <2>1, <2>2, SettlingKeepsOutcomes
  <2> QED
    BY <2>1, <2>3 DEF CellInv
<1>4. CASE ReplaceGrid
  <2>1. TasksFit'
    BY <1>1, <1>4, LeavingFits
  <2> QED
    BY <1>4, <2>1, ReplaceGridKeepsOutcomes DEF CellInv
<1> QED
  BY <1>2, <1>3, <1>4

LEMMA CellStepKeeps == CellInv /\ [CellNext]_cellVars => CellInv'
<1> SUFFICES ASSUME CellInv, [CellNext]_cellVars PROVE CellInv'
  OBVIOUS
<1>1. CASE UNCHANGED cellVars
  <2>1. UNCHANGED <<chosen, layout, epoch, waiting, edit, reported, unsettled>>
    BY <1>1 DEF cellVars
  <2>2. TasksFit'
    BY <2>1, QueueStands DEF CellInv, TargetMoves
  <2>3. EditFits' /\ OutcomesFit'
    BY <2>1, RewritingKeepsOutcomes
  <2> QED
    BY <2>2, <2>3 DEF CellInv
<1>2. CASE \/ \E sel \in UserSelections : Choose(sel)
           \/ \E c \in (1 .. GridRows) \X ToSet(FirstColumns) : RequestEdit(c)
           \/ \E d \in {5, Unparsable} : DraftInput(d)
           \/ Composition \/ CancelEdit \/ Blur
  BY <1>2, UserStepKeeps
<1>3. CASE \/ \E fill \in BOOLEAN : CommitEdit(fill)
           \/ \E kind \in {"clear", "fillDown", "fillSeries"} : SelectionCommand(kind)
           \/ Paste
           \/ \E kind \in {"host", "replace"} : HostTask(kind)
  BY <1>3, CommandStepKeeps
<1>4. CASE \/ \E i, j \in DOMAIN FirstColumns : ReorderLayout(i, j)
           \/ \E c \in ToSet(FirstColumns) : HideColumn(c)
           \/ SetLayout
  BY <1>4, LayoutStepKeeps
<1>5. CASE StartPaste \/ Prepared \/ Refuse \/ NothingToDo \/ PreventCommand \/ Commit
           \/ ReplaceGrid
  BY <1>5, RunStepKeeps
<1> QED
  BY <1>1, <1>2, <1>3, <1>4, <1>5, Zenon DEF CellNext

(* Whatever the user edits while commands and other edits wait, and however *)
(* the host's tasks come in between, the edit that is told it was committed *)
(* or rejected is the one whose transaction that was (editor.ts:13603).     *)
THEOREM OutcomesAreTheEditsOwn ==
  CellInit /\ [][CellNext]_cellVars => []EditOutcomeIsItsOwn
<1>1. CellInv /\ [CellNext]_cellVars => CellInv'
  BY CellStepKeeps
<1>2. CellInv => EditOutcomeIsItsOwn
  BY DEF CellInv, OutcomesFit, EditOutcomeIsItsOwn
<1> QED
  BY <1>1, <1>2, CellStarts, PTL

(* A command prepared long after its key was pressed touches no cell that  *)
(* was not under it then: the epoch it remembers and its two comparisons,  *)
(* before the preparation and before the commit, are enough for that, as   *)
(* long as no column moves (editor.ts:11425).                              *)
THEOREM CommandsHitWhatWasSeen ==
  CellInit /\ [][CellNext]_cellVars => []QueuedCommandHitsItsCells
<1>1. CellInv /\ [CellNext]_cellVars => CellInv'
  BY CellStepKeeps
<1>2. CellInv => QueuedCommandHitsItsCells
  BY DEF CellInv, TasksFit, TaskFits, QueuedCommandHitsItsCells, covers
<1> QED
  BY <1>1, <1>2, CellStarts, PTL

-----------------------------------------------------------------------------
(* Clipboard: branches.                                                    *)

\* The recursion of branchOf, up to n.
Descends(roots, f, n, g) ==
  g = [i \in 0 .. n |->
        IF i = 0 THEN roots
        ELSE g[i - 1] \cup {r \in DOMAIN f : f[r].under \in g[i - 1]}]

LEMMA DescendsExists ==
  ASSUME NEW roots, NEW f, NEW n \in Nat
  PROVE  \E g : Descends(roots, f, n, g)
<1> DEFINE B == {k \in Nat : ~ \E g : Descends(roots, f, k, g)}
<1>1. ASSUME B # {} PROVE FALSE
  <2>1. PICK k \in B : \A m \in B : k <= m
    BY <1>1, LeastNatural
  <2>2. CASE k = 0
    <3> DEFINE g == [i \in 0 .. 0 |-> roots]
    <3>1. g = [i \in 0 .. 0 |->
                IF i = 0 THEN roots
                ELSE g[i - 1] \cup {r \in DOMAIN f : f[r].under \in g[i - 1]}]
      OBVIOUS
    <3>2. Descends(roots, f, 0, g)
      BY <3>1 DEF Descends
    <3> QED
      BY <2>1, <2>2, <3>2
  <2>3. CASE k # 0
    <3>1. k - 1 \in Nat /\ k - 1 \notin B
      BY <2>1, <2>3
    <3>2. PICK g : Descends(roots, f, k - 1, g)
      BY <3>1
    <3> DEFINE below(X) == X \cup {r \in DOMAIN f : f[r].under \in X}
               h == [i \in 0 .. k |-> IF i = k THEN below(g[k - 1]) ELSE g[i]]
    <3>3. \A i \in 0 .. k - 1 : g[i] = IF i = 0 THEN roots ELSE below(g[i - 1])
      BY <3>2 DEF Descends
    <3> HIDE DEF below
    <3>4. \A i \in 0 .. k : h[i] = IF i = 0 THEN roots ELSE below(h[i - 1])
      <4>1. TAKE i \in 0 .. k
      <4>2. CASE i = 0
        BY <2>3, <3>1, <3>3, <4>2
      <4>3. CASE i # 0 /\ i # k
        <5>1. i \in 0 .. k - 1 /\ i - 1 \in 0 .. k - 1 /\ i - 1 \in 0 .. k /\ i - 1 # k
          BY <3>1, <4>3
        <5>2. h[i] = g[i] /\ h[i - 1] = g[i - 1]
          BY <4>3, <5>1
        <5> QED
          BY <3>3, <4>3, <5>1, <5>2
      <4>4. CASE i = k
        <5>1. k - 1 \in 0 .. k /\ k - 1 # k /\ k \in 0 .. k
          BY <3>1
        <5>2. h[k] = below(g[k - 1]) /\ h[k - 1] = g[k - 1]
          BY <5>1
        <5> QED
          BY <2>3, <4>4, <5>2
      <4> QED
        BY <4>2, <4>3, <4>4
    <3>5. h = [i \in 0 .. k |-> h[i]]
      OBVIOUS
    <3> HIDE DEF h
    <3>6. h = [i \in 0 .. k |-> IF i = 0 THEN roots ELSE below(h[i - 1])]
      BY <3>4, <3>5
    <3>7. Descends(roots, f, k, h)
      BY <3>6 DEF Descends, below
    <3> QED
      BY <2>1, <3>7
  <2> QED
    BY <2>2, <2>3
<1> QED
  BY <1>1

\* Whoever is in a branch and is no root of it lies below one who is.
LEMMA BranchHangsTogether ==
  ASSUME NEW f, IsFiniteSet(DOMAIN f), NEW roots \in SUBSET DOMAIN f
  PROVE  /\ roots \subseteq branchOf(roots, f) /\ branchOf(roots, f) \subseteq DOMAIN f
         /\ \A r \in branchOf(roots, f) \ roots : f[r].under \in branchOf(roots, f)
<1>1. PICK n : n = Cardinality(DOMAIN f)
  OBVIOUS
<1>2. n \in Nat
  BY <1>1, FS_CardinalityType
<1> DEFINE g == CHOOSE h : h = [i \in 0 .. n |->
                  IF i = 0 THEN roots
                  ELSE h[i - 1] \cup {r \in DOMAIN f : f[r].under \in h[i - 1]}]
<1>3. branchOf(roots, f) = g[n]
  BY <1>1 DEF branchOf
<1>4. PICK h : Descends(roots, f, n, h)
  BY <1>2, DescendsExists
<1>5. g = [i \in 0 .. n |->
            IF i = 0 THEN roots
            ELSE g[i - 1] \cup {r \in DOMAIN f : f[r].under \in g[i - 1]}]
  BY <1>4 DEF Descends
<1> HIDE DEF g
<1> DEFINE good(k) == /\ roots \subseteq g[k] /\ g[k] \subseteq DOMAIN f
                      /\ \A r \in g[k] \ roots : f[r].under \in g[k]
           B == {k \in 0 .. n : ~good(k)}
<1>6. good(0)
  <2>1. g[0] = roots
    BY <1>2, <1>5
  <2> QED
    BY <2>1
<1>7. ASSUME NEW k \in 1 .. n, good(k - 1) PROVE good(k)
  <2>1. g[k] = g[k - 1] \cup {r \in DOMAIN f : f[r].under \in g[k - 1]}
    BY <1>2, <1>5
  <2> QED
    BY <1>7, <2>1
<1>8. ASSUME B # {} PROVE FALSE
  <2> HIDE DEF good
  <2>1. B \in SUBSET Nat
    BY <1>2
  <2>2. PICK k \in B : \A m \in B : k <= m
    BY <1>8, <2>1, LeastNatural
  <2>3. k \in 1 .. n /\ k - 1 \in 0 .. n /\ ~(k <= k - 1)
    BY <1>2, <1>6, <2>2
  <2>4. good(k - 1)
    BY <2>2, <2>3
  <2> QED
    BY <1>7, <2>2, <2>3, <2>4
<1>9. good(n)
  BY <1>2, <1>8
<1> QED
  BY <1>3, <1>9

\* The rows of a branch of which no parent belongs to it.
rootsOf(content) == {r \in DOMAIN content : content[r].under \notin DOMAIN content}

LEMMA RootsAreRoots ==
  ASSUME NEW f, IsFiniteSet(DOMAIN f), Top \notin DOMAIN f, NEW roots \in SUBSET DOMAIN f,
         ~nested(roots, f),
         NEW content, content = [r \in branchOf(roots, f) |-> f[r]]
  PROVE  rootsOf(content) = roots
<1>1. /\ roots \subseteq branchOf(roots, f) /\ branchOf(roots, f) \subseteq DOMAIN f
      /\ \A r \in branchOf(roots, f) \ roots : f[r].under \in branchOf(roots, f)
  BY BranchHangsTogether
<1>2. PICK B : B = branchOf(roots, f)
  OBVIOUS
<1>3. \A r \in roots : f[r].under = Top \/ f[r].under \notin B
  BY <1>2 DEF nested
<1>4. DOMAIN content = B /\ \A r \in B : content[r] = f[r]
  BY <1>2
<1> QED
  BY <1>1, <1>2, <1>3, <1>4 DEF rootsOf

-----------------------------------------------------------------------------
(* The invariant.                                                          *)

ClockFields == {"revision", "generation", "published", "target", "mount"}
ClipTaskFields == {"kind", "stage", "base", "aborted", "formats", "payload", "row"}

RowsFit ==
    /\ IsFiniteSet(DOMAIN forest) /\ DOMAIN forest \subseteq Nat \ {Top}
    /\ chosenRows \subseteq DOMAIN forest

ClockFits ==
    /\ DOMAIN clock = ClockFields
    /\ clock.revision \in Nat /\ clock.generation \in Nat /\ clipSteps \in Nat

isCut(p) == p.op \in {"cut", "cut-branch"}

ofNow(p) == p.base.generation = clock.generation /\ p.base.revision = clock.revision

\* The rows a cut would take away are the ones it has, as they are.
AsItIs(p, f) ==
    /\ p.content = [r \in DOMAIN p.content |-> f[r]]
    /\ p.op # "cut" => DOMAIN p.content = branchOf(rootsOf(p.content) \cap DOMAIN f, f)

\* A revision says what the document was: as long as it is the payload's, the
\* rows are those of the payload.
PayloadFits(p) ==
    /\ IsFiniteSet(DOMAIN p.content)
    /\ p.id \in Nat /\ p.id <= clipSteps
    /\ p.base.generation \in Nat /\ p.base.generation <= clock.generation
    /\ p.base.generation = clock.generation =>
          p.base.revision \in Nat /\ p.base.revision <= clock.revision
    /\ isCut(p) /\ ofNow(p) => AsItIs(p, forest)

WriteFits(w) == DOMAIN w = {"payload", "landed"} /\ PayloadFits(w.payload)

WritesFit == (\A w \in writes : WriteFits(w)) /\ (board # NoPayload => PayloadFits(board))

\* A cut that was found to be of this document commits before it changes.
ClipTaskFits(t, i) ==
    /\ DOMAIN t = ClipTaskFields
    /\ t.kind \in {"cut", "paste"} => PayloadFits(t.payload)
    /\ t.kind = "cut" => isCut(t.payload)
    /\ t.kind = "cut" /\ t.stage = "committing" => i = 1 /\ ofNow(t.payload)

ClipTasksFit ==
    /\ isSequence(clipTasks)
    /\ \A i \in DOMAIN clipTasks : ClipTaskFits(clipTasks[i], i)

MovedFit ==
    /\ isSequence(moved)
    /\ \A i \in DOMAIN moved :
          /\ moved[i].removed = moved[i].payload.content
          /\ moved[i].generation = moved[i].payload.base.generation
          /\ moved[i].payload.id \in Nat /\ moved[i].payload.id <= clipSteps

LedgerFits ==
    /\ \A p \in ledger : p.base.mount = clock.mount /\ \E w \in writes : w.payload = p
    /\ phase # "mounted" => ledger = {}

\* A payload is being written, waits as a cut, or was cut: one of the three.
isTheCut(t, id) == t.kind = "cut" /\ t.payload.id = id

OnePlace(W, T, M) ==
    /\ \A v, w \in W : v.payload.id = w.payload.id => v = w
    /\ \A w \in W : /\ \A i \in DOMAIN T : ~isTheCut(T[i], w.payload.id)
                    /\ \A i \in DOMAIN M : M[i].payload.id # w.payload.id
    /\ \A i \in DOMAIN M :
          /\ \A j \in DOMAIN T : ~isTheCut(T[j], M[i].payload.id)
          /\ \A j \in DOMAIN M : M[i].payload.id = M[j].payload.id => i = j
    /\ \A i, j \in DOMAIN T : T[j].kind = "cut" /\ isTheCut(T[i], T[j].payload.id) => i = j

ClipInv ==
    RowsFit /\ ClockFits /\ WritesFit /\ ClipTasksFit /\ MovedFit /\ LedgerFits
    /\ OnePlace(writes, clipTasks, moved)

-----------------------------------------------------------------------------
(* Payloads, writes and tasks while the document stands or moves.          *)

SameDoc == UNCHANGED forest /\ clock'.revision = clock.revision
           /\ clock'.generation = clock.generation

DocMoves ==
    \/ SameDoc
    \/ clock'.revision = clock.revision + 1 /\ clock'.generation = clock.generation
    \/ clock'.generation = clock.generation + 1

StepsGrow == clipSteps' = clipSteps \/ clipSteps' = clipSteps + 1

LEMMA PayloadStillFits ==
  ASSUME ClockFits, DocMoves, StepsGrow, NEW p, PayloadFits(p)
  PROVE  PayloadFits(p)'
<1>1. /\ clock.revision \in Nat /\ clock.generation \in Nat /\ clipSteps \in Nat
  BY DEF ClockFits
<1>2. /\ IsFiniteSet(DOMAIN p.content) /\ p.id \in Nat /\ p.id <= clipSteps'
  BY <1>1 DEF PayloadFits, StepsGrow
<1>3. /\ p.base.generation \in Nat /\ p.base.generation <= clock.generation
      /\ p.base.generation = clock.generation =>
            p.base.revision \in Nat /\ p.base.revision <= clock.revision
  BY DEF PayloadFits
<1>4. CASE SameDoc
  BY <1>2, <1>3, <1>4 DEF PayloadFits, SameDoc, ofNow
<1>5. CASE clock'.revision = clock.revision + 1 /\ clock'.generation = clock.generation
  <2>1. ~(ofNow(p)')
    BY <1>1, <1>3, <1>5 DEF ofNow
  <2> QED
    BY <1>1, <1>2, <1>3, <1>5, <2>1 DEF PayloadFits
<1>6. CASE clock'.generation = clock.generation + 1
  <2>1. p.base.generation <= clock'.generation /\ p.base.generation # clock'.generation
    BY <1>1, <1>3, <1>6
  <2> QED
    BY <1>2, <1>3, <2>1 DEF PayloadFits, ofNow
<1> QED
  BY <1>4, <1>5, <1>6 DEF DocMoves

LEMMA WritesStand ==
  ASSUME WritesFit, ClockFits, DocMoves, StepsGrow, UNCHANGED <<writes, board>>
  PROVE  WritesFit'
<1>1. ASSUME NEW w \in writes PROVE WriteFits(w)'
  <2>1. DOMAIN w = {"payload", "landed"} /\ PayloadFits(w.payload)
    BY <1>1 DEF WritesFit, WriteFits
  <2>2. PICK p : p = w.payload
    OBVIOUS
  <2>3. PayloadFits(p)'
    BY <2>1, <2>2, PayloadStillFits
  <2> QED
    BY <2>1, <2>2, <2>3 DEF WriteFits
<1>2. ASSUME board # NoPayload PROVE PayloadFits(board)'
  <2>1. PICK p : p = board
    OBVIOUS
  <2>2. PayloadFits(p)
    BY <1>2, <2>1 DEF WritesFit
  <2>3. PayloadFits(p)' /\ p = board'
    BY <2>1, <2>2, PayloadStillFits
  <2> QED
    BY <2>3
<1> QED
  BY <1>1, <1>2 DEF WritesFit

\* The document stands, or the task is not a cut that commits.
LEMMA ClipTaskStillFits ==
  ASSUME ClockFits, DocMoves, StepsGrow, NEW t, NEW i, NEW j, ClipTaskFits(t, i),
         (SameDoc /\ i = j) \/ i # 1
  PROVE  ClipTaskFits(t, j)'
<1>1. ASSUME t.kind \in {"cut", "paste"} PROVE PayloadFits(t.payload)'
  <2>1. PICK p : p = t.payload
    OBVIOUS
  <2>2. PayloadFits(p)
    BY <1>1, <2>1 DEF ClipTaskFits
  <2>3. PayloadFits(p)'
    BY <2>2, PayloadStillFits
  <2> QED
    BY <2>1, <2>3
<1>2. ASSUME t.kind = "cut", t.stage = "committing" PROVE j = 1 /\ ofNow(t.payload)'
  <2>1. i = 1 /\ ofNow(t.payload)
    BY <1>2 DEF ClipTaskFits
  <2> QED
    BY <2>1 DEF ofNow, SameDoc
<1> QED
  BY <1>1, <1>2 DEF ClipTaskFits

LEMMA ClipTasksStand ==
  ASSUME ClipTasksFit, ClockFits, SameDoc, StepsGrow, UNCHANGED clipTasks
  PROVE  ClipTasksFit'
<1>1. ASSUME NEW i \in DOMAIN clipTasks PROVE ClipTaskFits(clipTasks[i], i)'
  <2>1. PICK t : t = clipTasks[i]
    OBVIOUS
  <2>2. ClipTaskFits(t, i)
    BY <2>1 DEF ClipTasksFit
  <2>3. ClipTaskFits(t, i)'
    BY <2>2, ClipTaskStillFits DEF DocMoves
  <2> QED
    BY <2>1, <2>3
<1> QED
  BY <1>1 DEF ClipTasksFit

LEMMA ClipTaskEnters ==
  ASSUME ClipTasksFit, ClockFits, SameDoc, StepsGrow, NEW t, queues(t),
         DOMAIN t = ClipTaskFields, t.stage = "waiting",
         t.kind \in {"cut", "paste"} => PayloadFits(t.payload),
         t.kind = "cut" => isCut(t.payload)
  PROVE  /\ ClipTasksFit'
         /\ \A i \in DOMAIN clipTasks' :
               \/ i \in DOMAIN clipTasks /\ clipTasks'[i] = clipTasks[i]
               \/ i \notin DOMAIN clipTasks /\ clipTasks'[i] = t
         /\ \A i, j \in DOMAIN clipTasks' :
               i \notin DOMAIN clipTasks /\ j \notin DOMAIN clipTasks => i = j
<1>1. isSequence(clipTasks) /\ clipTasks' = Append(clipTasks, t)
  BY DEF ClipTasksFit, queues
<1>2. PICK w : w = Append(clipTasks, t)
  OBVIOUS
<1>3. /\ isSequence(w)
      /\ \A i \in DOMAIN w : w[i] = t \/ (i \in DOMAIN clipTasks /\ w[i] = clipTasks[i])
      /\ \A i, j \in DOMAIN w : i \notin DOMAIN clipTasks /\ j \notin DOMAIN clipTasks => i = j
  BY <1>1, <1>2, AppendIsSequence
<1>4. \A i \in DOMAIN clipTasks : w[i] = clipTasks[i]
  BY <1>1, <1>2, AppendKeeps
<1>5. \A i \in DOMAIN w : \/ i \in DOMAIN clipTasks /\ w[i] = clipTasks[i]
                          \/ i \notin DOMAIN clipTasks /\ w[i] = t
  BY <1>3, <1>4
<1>6. ASSUME NEW i \in DOMAIN w PROVE ClipTaskFits(w[i], i)'
  <2>1. PICK s : s = w[i]
    OBVIOUS
  <2>2. ClipTaskFits(s, i)
    BY <1>3, <2>1 DEF ClipTasksFit, ClipTaskFits
  <2>3. ClipTaskFits(s, i)'
    BY <2>2, ClipTaskStillFits DEF DocMoves
  <2> QED
    BY <2>1, <2>3
<1>7. ClipTasksFit'
  BY <1>1, <1>2, <1>3, <1>6 DEF ClipTasksFit
<1> QED
  BY <1>1, <1>2, <1>3, <1>5, <1>7

LEMMA ClipTaskLeaves ==
  ASSUME ClipTasksFit, ClockFits, DocMoves, StepsGrow, clipTasks # <<>>, TaskEnds
  PROVE  /\ ClipTasksFit' /\ 1 \in DOMAIN clipTasks
         /\ \A i \in DOMAIN clipTasks' : /\ i + 1 \in DOMAIN clipTasks /\ i + 1 # 1
                                         /\ clipTasks'[i] = clipTasks[i + 1]
         /\ \A i, j \in DOMAIN clipTasks' : i + 1 = j + 1 => i = j
<1>1. isSequence(clipTasks) /\ clipTasks' = Tail(clipTasks)
  BY DEF ClipTasksFit, TaskEnds
<1>2. PICK w : w = Tail(clipTasks)
  OBVIOUS
<1>3. /\ isSequence(w) /\ 1 \in DOMAIN clipTasks
      /\ \A i \in DOMAIN w : i + 1 \in DOMAIN clipTasks /\ w[i] = clipTasks[i + 1] /\ i + 1 # 1
      /\ \A i, j \in DOMAIN w : i + 1 = j + 1 => i = j
  BY <1>1, <1>2, TailIsSequence
<1>4. ASSUME NEW i \in DOMAIN w PROVE ClipTaskFits(w[i], i)'
  <2>1. PICK t : t = w[i]
    OBVIOUS
  <2>2. ClipTaskFits(t, i + 1) /\ i + 1 # 1
    BY <1>3, <2>1 DEF ClipTasksFit
  <2>3. ClipTaskFits(t, i)'
    BY <2>2, ClipTaskStillFits
  <2> QED
    BY <2>1, <2>3
<1>5. ClipTasksFit'
  BY <1>1, <1>2, <1>3, <1>4 DEF ClipTasksFit
<1> QED
  BY <1>1, <1>2, <1>3, <1>5

\* One task is rewritten: it keeps its kind and its payload.
LEMMA ClipTaskChanges ==
  ASSUME ClipTasksFit, ClockFits, SameDoc, StepsGrow, NEW k \in DOMAIN clipTasks, NEW y,
         clipTasks' = [clipTasks EXCEPT ![k] = y],
         DOMAIN y = ClipTaskFields, y.kind = clipTasks[k].kind,
         y.payload = clipTasks[k].payload,
         y.kind = "cut" /\ y.stage = "committing" => k = 1 /\ ofNow(y.payload)
  PROVE  /\ ClipTasksFit' /\ DOMAIN clipTasks' = DOMAIN clipTasks
         /\ \A i \in DOMAIN clipTasks : /\ clipTasks'[i].kind = clipTasks[i].kind
                                        /\ clipTasks'[i].payload = clipTasks[i].payload
<1>1. isSequence(clipTasks) /\ ClipTaskFits(clipTasks[k], k)
  BY DEF ClipTasksFit
<1>2. PICK w : w = clipTasks'
  OBVIOUS
<1>3. w = [i \in DOMAIN clipTasks |-> w[i]] /\ w[k] = y
      /\ \A i \in DOMAIN clipTasks : i # k => w[i] = clipTasks[i]
  BY <1>2
<1>4. isSequence(w) /\ DOMAIN w = DOMAIN clipTasks
  BY <1>1, <1>3, SameShapeIsSequence
<1>5. ClipTaskFits(y, k)
  BY <1>1 DEF ClipTaskFits
<1>6. ASSUME NEW i \in DOMAIN w PROVE ClipTaskFits(w[i], i)'
  <2>1. PICK t : t = w[i]
    OBVIOUS
  <2>2. ClipTaskFits(t, i)
    BY <1>3, <1>4, <1>5, <2>1 DEF ClipTasksFit
  <2>3. ClipTaskFits(t, i)'
    BY <2>2, ClipTaskStillFits DEF DocMoves
  <2> QED
    BY <2>1, <2>3
<1>7. ClipTasksFit'
  BY <1>2, <1>4, <1>6 DEF ClipTasksFit
<1> QED
  BY <1>2, <1>3, <1>4, <1>7

LEMMA MovedStands ==
  ASSUME MovedFit, ClockFits, StepsGrow, UNCHANGED moved
  PROVE  MovedFit'
<1>1. clipSteps \in Nat
  BY DEF ClockFits
<1>2. \A n \in Nat : n <= clipSteps => n <= clipSteps'
  BY <1>1 DEF StepsGrow
<1> QED
  BY <1>2 DEF MovedFit

-----------------------------------------------------------------------------
(* A payload in one place.                                                 *)

LEMMA SamePlaces ==
  ASSUME NEW W, NEW T, NEW M, OnePlace(W, T, M), NEW U, DOMAIN U = DOMAIN T,
         \A i \in DOMAIN T : U[i].kind = T[i].kind /\ U[i].payload = T[i].payload
  PROVE  OnePlace(W, U, M)
BY DEF OnePlace, isTheCut

LEMMA FewerPlaces ==
  ASSUME NEW W, NEW T, NEW M, OnePlace(W, T, M), NEW U,
         \A i \in DOMAIN U : i + 1 \in DOMAIN T /\ U[i] = T[i + 1],
         \A i, j \in DOMAIN U : i + 1 = j + 1 => i = j
  PROVE  OnePlace(W, U, M)
<1>1. \A i \in DOMAIN U : \A id : isTheCut(U[i], id) => isTheCut(T[i + 1], id)
  OBVIOUS
<1>2. \A w \in W : \A i \in DOMAIN U : ~isTheCut(U[i], w.payload.id)
  BY <1>1 DEF OnePlace
<1>3. \A i \in DOMAIN M : \A j \in DOMAIN U : ~isTheCut(U[j], M[i].payload.id)
  BY <1>1 DEF OnePlace
<1>4. ASSUME NEW i \in DOMAIN U, NEW j \in DOMAIN U, U[j].kind = "cut",
             isTheCut(U[i], U[j].payload.id)
      PROVE  i = j
  <2>1. T[j + 1].kind = "cut" /\ isTheCut(T[i + 1], T[j + 1].payload.id)
        /\ i + 1 \in DOMAIN T /\ j + 1 \in DOMAIN T
    BY <1>4
  <2>2. i + 1 = j + 1
    BY <2>1 DEF OnePlace
  <2> QED
    BY <2>2
<1> QED
  BY <1>2, <1>3, <1>4 DEF OnePlace

\* A task that is no cut, or the cut of a payload that is nowhere else.
LEMMA OneMorePlace ==
  ASSUME NEW W, NEW T, NEW M, OnePlace(W, T, M), NEW U, NEW t,
         \A i \in DOMAIN U : \/ i \in DOMAIN T /\ U[i] = T[i]
                             \/ i \notin DOMAIN T /\ U[i] = t,
         \A i, j \in DOMAIN U : i \notin DOMAIN T /\ j \notin DOMAIN T => i = j,
         t.kind = "cut" =>
            /\ \A w \in W : w.payload.id # t.payload.id
            /\ \A i \in DOMAIN T : ~isTheCut(T[i], t.payload.id)
            /\ \A i \in DOMAIN M : M[i].payload.id # t.payload.id
  PROVE  OnePlace(W, U, M)
<1>1. \A w \in W : \A i \in DOMAIN U : ~isTheCut(U[i], w.payload.id)
  BY DEF OnePlace, isTheCut
<1>2. \A i \in DOMAIN M : \A j \in DOMAIN U : ~isTheCut(U[j], M[i].payload.id)
  BY DEF OnePlace, isTheCut
<1>3. ASSUME NEW i \in DOMAIN U, NEW j \in DOMAIN U, U[j].kind = "cut",
             isTheCut(U[i], U[j].payload.id)
      PROVE  i = j
  BY <1>3 DEF OnePlace, isTheCut
<1> QED
  BY <1>1, <1>2, <1>3 DEF OnePlace

LEMMA FewerWrites ==
  ASSUME NEW W, NEW T, NEW M, OnePlace(W, T, M), NEW V,
         \A v \in V : \E w \in W : v.payload = w.payload,
         \A v, w \in V : v.payload = w.payload => v = w
  PROVE  OnePlace(V, T, M)
<1>1. \A v, w \in V : v.payload.id = w.payload.id => v = w
  BY DEF OnePlace
<1> QED
  BY <1>1 DEF OnePlace

-----------------------------------------------------------------------------
(* Steps that leave the queue alone.                                       *)

LEMMA FirstRowFits ==
  ASSUME NEW f, DOMAIN f \subseteq Nat
  PROVE  firstRow(f) \subseteq DOMAIN f
<1>1. CASE DOMAIN f = {}
  BY <1>1 DEF firstRow
<1>2. CASE DOMAIN f # {}
  <2>1. least(DOMAIN f) \in DOMAIN f
    BY <1>2, LeastNatural DEF least
  <2> QED
    BY <1>2, <2>1 DEF firstRow
<1> QED
  BY <1>1, <1>2

LEMMA PublishingFits ==
  ASSUME ClockFits, StepsGrow, NEW f, NEW keeps \in BOOLEAN, PublishesForest(f, keeps),
         IsFiniteSet(DOMAIN f), DOMAIN f \subseteq Nat \ {Top}
  PROVE  /\ RowsFit' /\ ClockFits' /\ forest' = f
         /\ clock'.mount = clock.mount /\ clock'.generation = clock.generation
         /\ clock'.revision = IF keeps THEN clock.revision ELSE clock.revision + 1
<1>1. PICK n, m : clock' = [clock EXCEPT !.published = n,
                              !.revision = IF keeps THEN @ ELSE @ + 1, !.target = m]
  BY DEF PublishesForest
<1>2. /\ DOMAIN clock' = ClockFields /\ clock'.mount = clock.mount
      /\ clock'.generation = clock.generation
      /\ clock'.revision = IF keeps THEN clock.revision ELSE clock.revision + 1
  BY <1>1 DEF ClockFits, ClockFields
<1>3. ClockFits'
  BY <1>2 DEF ClockFits, StepsGrow
<1>4. forest' = f /\ chosenRows' \subseteq DOMAIN f
  <2>1. firstRow(f) \subseteq DOMAIN f
    BY FirstRowFits
  <2> QED
    BY <2>1 DEF PublishesForest
<1> QED
  BY <1>2, <1>3, <1>4 DEF RowsFit

LEMMA LedgerStands ==
  ASSUME LedgerFits, UNCHANGED <<ledger, writes, phase>>, clock'.mount = clock.mount
  PROVE  LedgerFits'
BY DEF LedgerFits

LEMMA QuietKeeps ==
  ASSUME ClipInv, RowsFit', ClockFits', LedgerFits', SameDoc, StepsGrow,
         UNCHANGED <<writes, board, clipTasks, moved>>
  PROVE  ClipInv'
<1>1. WritesFit'
  BY WritesStand DEF ClipInv, DocMoves
<1>2. ClipTasksFit'
  BY ClipTasksStand DEF ClipInv
<1>3. MovedFit'
  BY MovedStands DEF ClipInv
<1> QED
  BY <1>1, <1>2, <1>3 DEF ClipInv

LEMMA ViewKeeps == ClipInv /\ (SelectRows \/ ViewMoves) => ClipInv'
<1>1. ASSUME ClipInv, SelectRows PROVE ClipInv'
  <2>1. /\ StepsGrow /\ UNCHANGED <<forest, phase, ledger, writes, board, clipTasks, moved>>
        /\ clock' = [clock EXCEPT !.target = @ + 1]
        /\ chosenRows' \in {{r} : r \in DOMAIN forest} \cup {{r, s} : r, s \in DOMAIN forest}
    BY <1>1 DEF SelectRows, ClipStep, StepsGrow
  <2>2. /\ DOMAIN clock' = ClockFields /\ clock'.mount = clock.mount
        /\ clock'.revision = clock.revision /\ clock'.generation = clock.generation
    BY <1>1, <2>1 DEF ClipInv, ClockFits, ClockFields
  <2>3. ClockFits' /\ SameDoc
    BY <1>1, <2>1, <2>2 DEF ClipInv, ClockFits, StepsGrow, SameDoc
  <2>4. RowsFit'
    BY <1>1, <2>1 DEF ClipInv, RowsFit
  <2>5. LedgerFits'
    BY <1>1, <2>1, <2>2, LedgerStands DEF ClipInv
  <2> QED
    BY <1>1, <2>1, <2>3, <2>4, <2>5, QuietKeeps
<1>2. ASSUME ClipInv, ViewMoves PROVE ClipInv'
  <2>1. /\ StepsGrow /\ UNCHANGED <<phase, ledger, writes, board, clipTasks, moved>>
        /\ PublishesForest(forest, TRUE)
    BY <1>2 DEF ViewMoves, ClipStep, StepsGrow
  <2>2. RowsFit' /\ ClockFits' /\ SameDoc /\ clock'.mount = clock.mount
    <3>1. ClockFits /\ IsFiniteSet(DOMAIN forest) /\ DOMAIN forest \subseteq Nat \ {Top}
      BY <1>2 DEF ClipInv, RowsFit
    <3> QED
      BY <2>1, <3>1, PublishingFits DEF SameDoc
  <2>3. LedgerFits'
    BY <1>2, <2>1, <2>2, LedgerStands DEF ClipInv
  <2> QED
    BY <1>2, <2>1, <2>2, <2>3, QuietKeeps
<1> QED
  BY <1>1, <1>2

LEMMA LifeKeeps == ClipInv /\ (Unmount \/ Mount \/ DestroyEditor) => ClipInv'
<1> SUFFICES ASSUME ClipInv, Unmount \/ Mount \/ DestroyEditor PROVE ClipInv'
  OBVIOUS
<1>1. /\ StepsGrow /\ UNCHANGED <<forest, chosenRows, writes, board, clipTasks, moved>>
      /\ UNCHANGED clock \/ clock' = [clock EXCEPT !.mount = @ + 1]
  BY DEF Unmount, Mount, DestroyEditor, ClipStep, StepsGrow
<1>2. /\ DOMAIN clock' = ClockFields
      /\ clock'.revision = clock.revision /\ clock'.generation = clock.generation
  BY <1>1 DEF ClipInv, ClockFits, ClockFields
<1>3. ClockFits' /\ SameDoc
  BY <1>1, <1>2 DEF ClipInv, ClockFits, StepsGrow, SameDoc
<1>4. RowsFit'
  BY <1>1 DEF ClipInv, RowsFit
<1>5. ledger' = {}
  BY DEF ClipInv, LedgerFits, Unmount, Mount, DestroyEditor
<1>6. LedgerFits'
  BY <1>5 DEF LedgerFits
<1> QED
  BY <1>1, <1>3, <1>4, <1>6, QuietKeeps

-----------------------------------------------------------------------------
(* Copying and cutting, up to the task of a cut.                           *)

\* Every payload so far has a number of its own.
LEMMA NumbersAreTaken ==
  ASSUME ClipInv, NEW n, n = clipSteps + 1
  PROVE  /\ \A w \in writes : w.payload.id # n
         /\ \A i \in DOMAIN clipTasks : ~isTheCut(clipTasks[i], n)
         /\ \A i \in DOMAIN moved : moved[i].payload.id # n
<1>1. clipSteps \in Nat /\ \A m \in Nat : m <= clipSteps => m # n
  BY DEF ClipInv, ClockFits
<1>2. \A w \in writes : w.payload.id # n
  BY <1>1 DEF ClipInv, WritesFit, WriteFits, PayloadFits
<1>3. \A i \in DOMAIN clipTasks : ~isTheCut(clipTasks[i], n)
  BY <1>1 DEF ClipInv, ClipTasksFit, ClipTaskFits, PayloadFits, isTheCut
<1>4. \A i \in DOMAIN moved : moved[i].payload.id # n
  BY <1>1 DEF ClipInv, MovedFit
<1> QED
  BY <1>2, <1>3, <1>4

LEMMA RequestKeeps ==
  ASSUME ClipInv, NEW p, Requests(p), p.id = clipSteps', p.base = clock,
         IsFiniteSet(DOMAIN p.content), isCut(p) => AsItIs(p, forest)
  PROVE  ClipInv'
<1>1. /\ clipSteps' = clipSteps + 1 /\ phase = "mounted"
      /\ ledger' = ledger \cup {p}
      /\ writes' = writes \cup {[payload |-> p, landed |-> FALSE]}
      /\ UNCHANGED <<forest, chosenRows, clock, phase, board, clipTasks, moved>>
  BY DEF Requests, ClipStep
<1>2. /\ StepsGrow /\ SameDoc /\ RowsFit' /\ ClockFits'
  BY <1>1 DEF ClipInv, RowsFit, ClockFits, StepsGrow, SameDoc
<1>3. ClipTasksFit' /\ MovedFit'
  BY <1>1, <1>2, ClipTasksStand, MovedStands DEF ClipInv
<1>4. PICK v : v = [payload |-> p, landed |-> FALSE]
  OBVIOUS
<1>5. DOMAIN v = {"payload", "landed"} /\ v.payload = p
  BY <1>4
<1>6. PayloadFits(p)'
  <2>1. p.id \in Nat /\ p.id <= clipSteps'
    BY <1>1 DEF ClipInv, ClockFits
  <2>2. /\ clock.generation \in Nat /\ clock.generation <= clock.generation
        /\ clock.revision \in Nat /\ clock.revision <= clock.revision
    BY DEF ClipInv, ClockFits
  <2> QED
    BY <1>1, <2>1, <2>2 DEF PayloadFits
<1>7. WritesFit'
  <2>1. ASSUME NEW w \in writes PROVE WriteFits(w)'
    <3>1. PICK q : q = w.payload
      OBVIOUS
    <3>2. DOMAIN w = {"payload", "landed"} /\ PayloadFits(q) /\ ClockFits /\ DocMoves
      BY <1>2, <3>1 DEF ClipInv, WritesFit, WriteFits, DocMoves
    <3>3. PayloadFits(q)'
      BY <1>2, <3>2, PayloadStillFits
    <3> QED
      BY <3>1, <3>2, <3>3 DEF WriteFits
  <2>2. WriteFits(v)'
    BY <1>5, <1>6 DEF WriteFits
  <2>3. ASSUME board' # NoPayload PROVE PayloadFits(board)'
    <3>1. PICK q : q = board
      OBVIOUS
    <3>2. PayloadFits(q) /\ ClockFits /\ DocMoves
      BY <1>1, <1>2, <2>3, <3>1 DEF ClipInv, WritesFit, DocMoves
    <3>3. PayloadFits(q)' /\ q = board'
      BY <1>1, <1>2, <3>1, <3>2, PayloadStillFits
    <3> QED
      BY <3>3
  <2> QED
    BY <1>1, <1>4, <2>1, <2>2, <2>3 DEF WritesFit
<1>8. OnePlace(writes', clipTasks, moved)
  <2>1. /\ \A w \in writes : w.payload.id # p.id
        /\ \A i \in DOMAIN clipTasks : ~isTheCut(clipTasks[i], p.id)
        /\ \A i \in DOMAIN moved : moved[i].payload.id # p.id
    BY <1>1, NumbersAreTaken
  <2>2. OnePlace(writes, clipTasks, moved) /\ writes' = writes \cup {v}
    BY <1>1, <1>4 DEF ClipInv
  <2> QED
    BY <1>5, <2>1, <2>2 DEF OnePlace
<1>9. LedgerFits'
  BY <1>1, <1>4, <1>5 DEF ClipInv, LedgerFits
<1> QED
  BY <1>1, <1>2, <1>3, <1>7, <1>8, <1>9 DEF ClipInv

LEMMA CopyingKeeps ==
  ASSUME ClipInv,
         \/ \E masks \in BOOLEAN : CopyCells(masks)
         \/ CutCells
         \/ \E op \in {"copy-branch", "cut-branch"} : WriteBranch(op)
  PROVE  ClipInv'
<1>1. /\ IsFiniteSet(DOMAIN forest) /\ Top \notin DOMAIN forest /\ chosenRows \subseteq DOMAIN forest
  BY DEF ClipInv, RowsFit
<1>2. IsFiniteSet(chosenRows)
  BY <1>1, FS_Subset
<1>3. \A op, rows, masks : /\ payloadOf(op, rows, masks).id = clipSteps'
                           /\ payloadOf(op, rows, masks).base = clock
                           /\ payloadOf(op, rows, masks).op = op
                           /\ payloadOf(op, rows, masks).content = serialized(rows, masks)
  BY DEF payloadOf
<1>4. \A rows, masks : DOMAIN serialized(rows, masks) = rows
  BY DEF serialized
<1>5. \A rows : serialized(rows, FALSE) = [r \in rows |-> forest[r]]
  BY DEF serialized
<1>6. ASSUME NEW masks \in BOOLEAN, CopyCells(masks) PROVE ClipInv'
  <2>1. PICK p : p = payloadOf("copy", chosenRows, masks)
    OBVIOUS
  <2>2. /\ Requests(p) /\ p.id = clipSteps' /\ p.base = clock /\ IsFiniteSet(DOMAIN p.content)
        /\ p.op = "copy"
    BY <1>2, <1>3, <1>4, <1>6, <2>1 DEF CopyCells
  <2>3. ~isCut(p)
    BY <2>2 DEF isCut
  <2> QED
    BY <2>2, <2>3, RequestKeeps
<1>7. CASE CutCells
  <2>1. PICK p : p = payloadOf("cut", chosenRows, FALSE)
    OBVIOUS
  <2>2. Requests(p)
    BY <1>7, <2>1 DEF CutCells
  <2>3. /\ p.id = clipSteps' /\ p.base = clock /\ p.op = "cut"
        /\ p.content = serialized(chosenRows, FALSE)
    BY <1>3, <2>1
  <2>4. p.content = [r \in chosenRows |-> forest[r]] /\ IsFiniteSet(DOMAIN p.content)
    BY <1>2, <1>5, <2>3
  <2>5. AsItIs(p, forest)
    BY <2>3, <2>4 DEF AsItIs
  <2> QED
    BY <2>2, <2>3, <2>4, <2>5, RequestKeeps
<1>8. ASSUME NEW op \in {"copy-branch", "cut-branch"}, WriteBranch(op) PROVE ClipInv'
  <2>1. PICK B : B = branchOf(chosenRows, forest)
    OBVIOUS
  <2>2. PICK p : p = payloadOf(op, B, FALSE)
    OBVIOUS
  <2>3. B \subseteq DOMAIN forest
    BY <1>1, <2>1, BranchHangsTogether
  <2>4. IsFiniteSet(B)
    BY <1>1, <2>3, FS_Subset
  <2>5. Requests(p) /\ ~nested(chosenRows, forest)
    BY <1>8, <2>1, <2>2 DEF WriteBranch
  <2>6. p.id = clipSteps' /\ p.base = clock /\ p.content = serialized(B, FALSE)
    BY <1>3, <2>2
  <2>7. p.content = [r \in B |-> forest[r]] /\ IsFiniteSet(DOMAIN p.content)
    BY <1>5, <2>4, <2>6
  <2>8. /\ Requests(p) /\ p.id = clipSteps' /\ p.base = clock /\ IsFiniteSet(DOMAIN p.content)
        /\ p.content = [r \in B |-> forest[r]] /\ ~nested(chosenRows, forest)
    BY <2>5, <2>6, <2>7
  <2>9. rootsOf(p.content) = chosenRows
    BY <1>1, <2>1, <2>8, RootsAreRoots
  <2>10. DOMAIN p.content = B /\ rootsOf(p.content) \cap DOMAIN forest = chosenRows
    BY <1>1, <2>8, <2>9
  <2>11. AsItIs(p, forest)
    BY <2>1, <2>8, <2>10 DEF AsItIs
  <2> QED
    BY <2>8, <2>11, RequestKeeps
<1> QED
  BY <1>6, <1>7, <1>8

LEMMA WriteLandsKeeps ==
  ASSUME ClipInv, NEW w \in writes, WriteLands(w)
  PROVE  ClipInv'
<1>1. PICK v : v = [w EXCEPT !.landed = TRUE]
  OBVIOUS
<1>2. /\ board' = w.payload /\ writes' = (writes \ {w}) \cup {v}
      /\ UNCHANGED <<forest, chosenRows, clock, phase, ledger, clipTasks, moved, clipSteps>>
  BY <1>1 DEF WriteLands
<1>3. /\ WriteFits(w) /\ DOMAIN w = {"payload", "landed"} /\ PayloadFits(w.payload)
  BY DEF ClipInv, WritesFit, WriteFits
<1>4. DOMAIN v = {"payload", "landed"} /\ v.payload = w.payload
  BY <1>1, <1>3
<1>5. /\ StepsGrow /\ SameDoc /\ RowsFit' /\ ClockFits'
  BY <1>2 DEF ClipInv, RowsFit, ClockFits, StepsGrow, SameDoc
<1>6. ClipTasksFit' /\ MovedFit'
  BY <1>2, <1>5, ClipTasksStand, MovedStands DEF ClipInv
<1>7. \A p : PayloadFits(p) => PayloadFits(p)'
  <2>1. ClockFits /\ DocMoves
    BY <1>5 DEF ClipInv, DocMoves
  <2> QED
    BY <1>5, <2>1, PayloadStillFits
<1>8. WritesFit'
  <2>1. ASSUME NEW u \in writes' PROVE WriteFits(u)'
    <3>1. WriteFits(u)
      BY <1>2, <1>3, <1>4, <2>1 DEF ClipInv, WritesFit, WriteFits
    <3>2. PICK q : q = u.payload
      OBVIOUS
    <3>3. PayloadFits(q)'
      BY <1>7, <3>1, <3>2 DEF WriteFits
    <3> QED
      BY <3>1, <3>2, <3>3 DEF WriteFits
  <2>2. PICK q : q = w.payload
    OBVIOUS
  <2>3. PayloadFits(q)' /\ q = board'
    BY <1>2, <1>3, <1>7, <2>2
  <2>4. PayloadFits(board)'
    BY <2>3
  <2> QED
    BY <2>1, <2>4 DEF WritesFit
<1>9. OnePlace(writes', clipTasks, moved)
  <2>1. OnePlace(writes, clipTasks, moved)
    BY DEF ClipInv
  <2>2. \A u \in writes' : \E x \in writes : u.payload = x.payload
    BY <1>2, <1>4
  <2>3. \A u, x \in writes : u.payload = x.payload => u = x
    BY <2>1 DEF OnePlace
  <2>4. \A u, x \in writes' : u.payload = x.payload => u = x
    BY <1>2, <1>4, <2>3
  <2>5. PICK V : V = writes'
    OBVIOUS
  <2>6. OnePlace(V, clipTasks, moved)
    BY <2>1, <2>2, <2>4, <2>5, FewerWrites
  <2> QED
    BY <2>5, <2>6
<1>10. LedgerFits'
  BY <1>2, <1>4 DEF ClipInv, LedgerFits
<1> QED
  BY <1>2, <1>5, <1>6, <1>8, <1>9, <1>10 DEF ClipInv

LEMMA NewTask ==
  ASSUME NEW kind, NEW payload, NEW formats, NEW row
  PROVE  \A t \in {[clipTask(kind) EXCEPT !.payload = payload],
                   [clipTask(kind) EXCEPT !.payload = payload, !.formats = formats],
                   [clipTask(kind) EXCEPT !.row = row]} :
            DOMAIN t = ClipTaskFields /\ t.kind = kind /\ t.stage = "waiting"
<1>1. PICK c : c = clipTask(kind)
  OBVIOUS
<1>2. /\ c.kind = kind /\ c.stage = "waiting"
      /\ DOMAIN c = {"kind", "stage", "base", "aborted", "formats", "payload", "row"}
  BY <1>1 DEF clipTask
<1> QED
  BY <1>1, <1>2 DEF ClipTaskFields

LEMMA WriteReportedKeeps ==
  ASSUME ClipInv, NEW w \in writes, WriteReported(w)
  PROVE  ClipInv'
<1>1. /\ writes' = writes \ {w}
      /\ UNCHANGED <<forest, chosenRows, clock, phase, board, moved, clipSteps>>
  BY DEF WriteReported
<1>2. PICK p : p = w.payload
  OBVIOUS
<1>3. /\ DOMAIN w = {"payload", "landed"} /\ PayloadFits(p)
  BY <1>2 DEF ClipInv, WritesFit, WriteFits
<1>4. /\ StepsGrow /\ SameDoc /\ RowsFit' /\ ClockFits'
  BY <1>1 DEF ClipInv, RowsFit, ClockFits, StepsGrow, SameDoc
<1>5. MovedFit'
  BY <1>1, <1>4, MovedStands DEF ClipInv
<1>6. WritesFit'
  <2>1. WritesFit /\ ClockFits /\ DocMoves
    BY <1>4 DEF ClipInv, DocMoves
  <2>2. ASSUME NEW u \in writes' PROVE WriteFits(u)'
    <3>1. WriteFits(u)
      BY <1>1, <2>1, <2>2 DEF WritesFit
    <3>2. PICK q : q = u.payload
      OBVIOUS
    <3>3. PayloadFits(q)'
      BY <1>4, <2>1, <3>1, <3>2, PayloadStillFits DEF WriteFits
    <3> QED
      BY <3>1, <3>2, <3>3 DEF WriteFits
  <2>3. ASSUME board' # NoPayload PROVE PayloadFits(board)'
    <3>1. PICK q : q = board
      OBVIOUS
    <3>2. PayloadFits(q)
      BY <1>1, <2>1, <2>3, <3>1 DEF WritesFit
    <3>3. PayloadFits(q)' /\ q = board'
      BY <1>1, <1>4, <2>1, <3>1, <3>2, PayloadStillFits
    <3> QED
      BY <3>3
  <2> QED
    BY <2>2, <2>3 DEF WritesFit
<1>7. OnePlace(writes', clipTasks, moved)
  <2>1. OnePlace(writes, clipTasks, moved)
    BY DEF ClipInv
  <2> QED
    BY <1>1, <2>1 DEF OnePlace
<1>8. LedgerFits'
  <2>1. \A u \in writes : u.payload = p => u = w
    BY <1>2 DEF ClipInv, OnePlace
  <2>2. /\ ledger' \subseteq ledger
        /\ p \in ledger => p \notin ledger'
    BY <1>2 DEF WriteReported, ClipInv, LedgerFits
  <2> QED
    BY <1>1, <1>2, <2>1, <2>2 DEF ClipInv, LedgerFits
<1>9. ClipTasksFit' /\ OnePlace(writes', clipTasks', moved)
  <2>1. PICK t : t = [clipTask("cut") EXCEPT !.payload = p]
    OBVIOUS
  <2>2. UNCHANGED clipTasks \/ (isCut(p) /\ queues(t))
    BY <1>2, <2>1 DEF WriteReported, cutsNow, isCut
  <2>3. CASE UNCHANGED clipTasks
    BY <1>4, <1>7, <2>3, ClipTasksStand DEF ClipInv
  <2>4. CASE isCut(p) /\ queues(t)
    <3>1. DOMAIN t = ClipTaskFields /\ t.kind = "cut" /\ t.stage = "waiting"
      BY <2>1, NewTask
    <3>2. t.payload = p
      <4>1. DOMAIN clipTask("cut") = {"kind", "stage", "base", "aborted", "formats", "payload", "row"}
        BY DEF clipTask
      <4> QED
        BY <2>1, <4>1
    <3>3. ClipTasksFit /\ ClockFits
      BY DEF ClipInv
    <3>4. /\ ClipTasksFit'
          /\ \A i \in DOMAIN clipTasks' :
                \/ i \in DOMAIN clipTasks /\ clipTasks'[i] = clipTasks[i]
                \/ i \notin DOMAIN clipTasks /\ clipTasks'[i] = t
          /\ \A i, j \in DOMAIN clipTasks' :
                i \notin DOMAIN clipTasks /\ j \notin DOMAIN clipTasks => i = j
      BY <1>3, <1>4, <2>4, <3>1, <3>2, <3>3, ClipTaskEnters
    <3>5. /\ \A u \in writes' : u.payload.id # p.id
          /\ \A i \in DOMAIN clipTasks : ~isTheCut(clipTasks[i], p.id)
          /\ \A i \in DOMAIN moved : moved[i].payload.id # p.id
      BY <1>1, <1>2 DEF ClipInv, OnePlace
    <3>6. PICK V, U : V = writes' /\ U = clipTasks'
      OBVIOUS
    <3>7. OnePlace(V, U, moved)
      BY <1>7, <3>2, <3>4, <3>5, <3>6, OneMorePlace
    <3> QED
      BY <3>4, <3>6, <3>7
  <2> QED
    BY <2>2, <2>3, <2>4
<1> QED
  BY <1>1, <1>4, <1>5, <1>6, <1>8, <1>9 DEF ClipInv

-----------------------------------------------------------------------------
(* The queue.                                                              *)

LEMMA QueueingKeeps ==
  ASSUME ClipInv,
         \/ \E formats \in {{}, {"text"}, {"internal", "text"}} : PasteBoard(formats)
         \/ \E kind \in {"edit", "insert"}, r \in chosenRows : HostMutation(kind, r)
         \/ HostMutation("document", Top)
  PROVE  ClipInv'
<1>1. PICK t :
        /\ queues(t) /\ DOMAIN t = ClipTaskFields /\ t.stage = "waiting" /\ t.kind # "cut"
        /\ t.kind = "paste" => PayloadFits(t.payload)
  <2>1. ASSUME NEW formats, PasteBoard(formats)
        PROVE  \E t : /\ queues(t) /\ DOMAIN t = ClipTaskFields /\ t.stage = "waiting"
                      /\ t.kind # "cut" /\ (t.kind = "paste" => PayloadFits(t.payload))
    <3>1. PICK t : t = [clipTask("paste") EXCEPT !.payload = board, !.formats = formats]
      OBVIOUS
    <3>2. DOMAIN t = ClipTaskFields /\ t.kind = "paste" /\ t.stage = "waiting"
      BY <3>1, NewTask
    <3>3. t.payload = board
      <4>1. DOMAIN clipTask("paste") = {"kind", "stage", "base", "aborted", "formats", "payload", "row"}
        BY DEF clipTask
      <4> QED
        BY <3>1, <4>1
    <3>4. queues(t) /\ board # NoPayload
      BY <2>1, <3>1 DEF PasteBoard
    <3>5. PayloadFits(t.payload)
      BY <3>3, <3>4 DEF ClipInv, WritesFit
    <3> QED
      BY <3>2, <3>4, <3>5
  <2>2. ASSUME NEW kind \in {"edit", "insert", "document"}, NEW r, HostMutation(kind, r)
        PROVE  \E t : /\ queues(t) /\ DOMAIN t = ClipTaskFields /\ t.stage = "waiting"
                      /\ t.kind # "cut" /\ (t.kind = "paste" => PayloadFits(t.payload))
    <3>1. PICK t : t = [clipTask(kind) EXCEPT !.row = r]
      OBVIOUS
    <3>2. DOMAIN t = ClipTaskFields /\ t.kind = kind /\ t.stage = "waiting"
      BY <3>1, NewTask
    <3>3. queues(t)
      BY <2>2, <3>1 DEF HostMutation
    <3> QED
      BY <3>2, <3>3
  <2> QED
    BY <2>1, <2>2
<1>2. /\ clipSteps' = clipSteps + 1
      /\ UNCHANGED <<forest, chosenRows, clock, phase, ledger, writes, board, moved>>
  BY DEF PasteBoard, HostMutation, ClipStep
<1>3. /\ StepsGrow /\ SameDoc /\ RowsFit' /\ ClockFits'
  BY <1>2 DEF ClipInv, RowsFit, ClockFits, StepsGrow, SameDoc
<1>4. WritesFit' /\ MovedFit' /\ LedgerFits'
  BY <1>2, <1>3, WritesStand, MovedStands, LedgerStands DEF ClipInv, DocMoves
<1>5. ClipTasksFit /\ ClockFits /\ OnePlace(writes, clipTasks, moved)
  BY DEF ClipInv
<1>6. /\ ClipTasksFit'
      /\ \A i \in DOMAIN clipTasks' :
            \/ i \in DOMAIN clipTasks /\ clipTasks'[i] = clipTasks[i]
            \/ i \notin DOMAIN clipTasks /\ clipTasks'[i] = t
      /\ \A i, j \in DOMAIN clipTasks' :
            i \notin DOMAIN clipTasks /\ j \notin DOMAIN clipTasks => i = j
  BY <1>1, <1>3, <1>5, ClipTaskEnters
<1>7. PICK U : U = clipTasks'
  OBVIOUS
<1>8. OnePlace(writes, U, moved)
  BY <1>1, <1>5, <1>6, <1>7, OneMorePlace
<1> QED
  BY <1>2, <1>3, <1>4, <1>6, <1>7, <1>8 DEF ClipInv

\* A task goes on: it keeps its kind and its payload, and a cut is compared
\* with the document before it may commit.
LEMMA GoingOnKeeps ==
  ASSUME ClipInv, NEW k \in DOMAIN clipTasks, NEW y,
         clipTasks' = [clipTasks EXCEPT ![k] = y],
         DOMAIN y = ClipTaskFields, y.kind = clipTasks[k].kind,
         y.payload = clipTasks[k].payload,
         y.kind = "cut" /\ y.stage = "committing" => k = 1 /\ ofNow(y.payload),
         UNCHANGED <<forest, chosenRows, clock, phase, ledger, writes, board, moved, clipSteps>>
  PROVE  ClipInv'
<1>1. /\ StepsGrow /\ SameDoc /\ RowsFit' /\ ClockFits'
  BY DEF ClipInv, RowsFit, ClockFits, StepsGrow, SameDoc
<1>2. WritesFit' /\ MovedFit' /\ LedgerFits'
  BY <1>1, WritesStand, MovedStands, LedgerStands DEF ClipInv, DocMoves
<1>3. ClipTasksFit /\ ClockFits /\ OnePlace(writes, clipTasks, moved)
  BY DEF ClipInv
<1>4. /\ ClipTasksFit' /\ DOMAIN clipTasks' = DOMAIN clipTasks
      /\ \A i \in DOMAIN clipTasks : /\ clipTasks'[i].kind = clipTasks[i].kind
                                     /\ clipTasks'[i].payload = clipTasks[i].payload
  BY <1>1, <1>3, ClipTaskChanges
<1>5. PICK U : U = clipTasks'
  OBVIOUS
<1>6. OnePlace(writes, U, moved)
  BY <1>3, <1>4, <1>5, SamePlaces
<1> QED
  BY <1>1, <1>2, <1>4, <1>5, <1>6 DEF ClipInv

LEMMA TasksGoOn ==
  ASSUME ClipInv,
         \/ \E i \in DOMAIN clipTasks : AbortPaste(i)
         \/ StartCut \/ StartClipPaste \/ Parsed \/ PreparePaste
  PROVE  ClipInv'
<1>1. UNCHANGED <<forest, chosenRows, clock, phase, ledger, writes, board, moved, clipSteps>>
  BY DEF AbortPaste, StartCut, StartClipPaste, Parsed, PreparePaste
<1>2. \A i \in DOMAIN clipTasks : ClipTaskFits(clipTasks[i], i)
  BY DEF ClipInv, ClipTasksFit
<1>3. clipTasks # <<>> => 1 \in DOMAIN clipTasks
  BY TailIsSequence DEF ClipInv, ClipTasksFit
<1>4. ASSUME NEW i \in DOMAIN clipTasks, AbortPaste(i) PROVE ClipInv'
  <2>1. PICK t : t = clipTasks[i]
    OBVIOUS
  <2>2. PICK y : y = [t EXCEPT !.aborted = TRUE]
    OBVIOUS
  <2>3. clipTasks' = [clipTasks EXCEPT ![i] = y] /\ t.kind = "paste"
    BY <1>4, <2>1, <2>2 DEF AbortPaste
  <2>4. DOMAIN t = ClipTaskFields
    BY <1>2, <2>1 DEF ClipTaskFits
  <2>5. DOMAIN y = ClipTaskFields /\ y.kind = t.kind /\ y.payload = t.payload
    BY <2>2, <2>4 DEF ClipTaskFields
  <2> QED
    BY <1>1, <2>1, <2>3, <2>5, GoingOnKeeps
<1>5. ASSUME NEW stage, advanced(stage), clipTasks # <<>>,
             clipTasks[1].kind = "cut" => stage # "committing" \/ ofNow(clipTasks[1].payload)
      PROVE  ClipInv'
  <2>1. PICK t : t = clipTasks[1]
    OBVIOUS
  <2>2. PICK y : y = [t EXCEPT !.stage = stage]
    OBVIOUS
  <2>3. clipTasks' = [clipTasks EXCEPT ![1] = y] /\ 1 \in DOMAIN clipTasks
    BY <1>3, <1>5, <2>1, <2>2 DEF advanced
  <2>4. DOMAIN t = ClipTaskFields
    BY <1>2, <2>1, <2>3 DEF ClipTaskFits
  <2>5. DOMAIN y = ClipTaskFields /\ y.kind = t.kind /\ y.payload = t.payload /\ y.stage = stage
    BY <2>2, <2>4 DEF ClipTaskFields
  <2>6. y.kind = "cut" /\ y.stage = "committing" => 1 = 1 /\ ofNow(y.payload)
    BY <1>5, <2>1, <2>5
  <2> QED
    BY <1>1, <2>1, <2>3, <2>5, <2>6, GoingOnKeeps
<1>6. CASE StartCut
  <2>1. /\ advanced("committing") /\ clipTasks # <<>> /\ clipTasks[1].kind = "cut"
        /\ ofNow(clipTasks[1].payload)
    BY <1>6 DEF StartCut, headed, stillCurrent, ofNow
  <2> QED
    BY <1>5, <2>1
<1>7. CASE Parsed \/ PreparePaste
  <2>1. /\ (\E stage : advanced(stage)) /\ clipTasks # <<>> /\ clipTasks[1].kind = "paste"
    BY <1>7 DEF Parsed, PreparePaste, headed
  <2> QED
    BY <1>5, <2>1
<1>8. CASE StartClipPaste
  <2>1. PICK t : t = clipTasks[1]
    OBVIOUS
  <2>2. PICK b, y : y = [t EXCEPT !.base = b, !.stage = "parsing"]
                    /\ b = [t.base EXCEPT !.published = clock.published]
    OBVIOUS
  <2>3. /\ clipTasks' = [clipTasks EXCEPT ![1].base.published = clock.published,
                                          ![1].stage = "parsing"]
        /\ clipTasks # <<>> /\ t.kind = "paste"
    BY <1>8, <2>1 DEF StartClipPaste, headed
  <2>4. clipTasks' = [clipTasks EXCEPT ![1] = y] /\ 1 \in DOMAIN clipTasks
    BY <1>3, <2>1, <2>2, <2>3
  <2>5. DOMAIN t = ClipTaskFields
    BY <1>2, <2>1, <2>4 DEF ClipTaskFits
  <2>6. DOMAIN y = ClipTaskFields /\ y.kind = t.kind /\ y.payload = t.payload
    BY <2>2, <2>5 DEF ClipTaskFields
  <2> QED
    BY <1>1, <2>1, <2>3, <2>4, <2>6, GoingOnKeeps
<1> QED
  BY <1>4, <1>6, <1>7, <1>8

-----------------------------------------------------------------------------
(* Tasks that end, and what they make of the document.                     *)

LEMMA LeavingKeeps ==
  ASSUME ClipInv, RowsFit', ClockFits', DocMoves, clipTasks # <<>>, TaskEnds,
         clock'.mount = clock.mount,
         UNCHANGED <<phase, ledger, writes, board, moved, clipSteps>>
  PROVE  ClipInv'
<1>1. StepsGrow
  BY DEF StepsGrow
<1>2. WritesFit' /\ MovedFit' /\ LedgerFits'
  BY <1>1, WritesStand, MovedStands, LedgerStands DEF ClipInv
<1>3. ClipTasksFit /\ ClockFits /\ OnePlace(writes, clipTasks, moved)
  BY DEF ClipInv
<1>4. /\ ClipTasksFit'
      /\ \A i \in DOMAIN clipTasks' : i + 1 \in DOMAIN clipTasks /\ clipTasks'[i] = clipTasks[i + 1]
      /\ \A i, j \in DOMAIN clipTasks' : i + 1 = j + 1 => i = j
  BY <1>1, <1>3, ClipTaskLeaves
<1>5. PICK U : U = clipTasks'
  OBVIOUS
<1>6. OnePlace(writes, U, moved)
  BY <1>3, <1>4, <1>5, FewerPlaces
<1> QED
  BY <1>2, <1>4, <1>5, <1>6 DEF ClipInv

LEMMA PublishingMoves ==
  ASSUME ClipInv, StepsGrow, NEW f, PublishesForest(f, FALSE),
         IsFiniteSet(DOMAIN f), DOMAIN f \subseteq Nat \ {Top}
  PROVE  RowsFit' /\ ClockFits' /\ DocMoves /\ clock'.mount = clock.mount
<1>1. ClockFits
  BY DEF ClipInv
<1>2. /\ RowsFit' /\ ClockFits' /\ clock'.mount = clock.mount
      /\ clock'.generation = clock.generation
      /\ clock'.revision = IF FALSE THEN clock.revision ELSE clock.revision + 1
  BY <1>1, PublishingFits
<1> QED
  BY <1>2 DEF DocMoves

LEMMA FreshRowsFit ==
  /\ unused \subseteq FreshRows /\ FreshRows \subseteq Nat \ {Top} /\ IsFiniteSet(FreshRows)
  /\ unused # {} => least(unused) \in unused
<1>1. unused \subseteq FreshRows /\ FreshRows \subseteq Nat \ {Top} /\ IsFiniteSet(FreshRows)
  BY ClipboardAssumption DEF unused
<1>2. ASSUME unused # {} PROVE least(unused) \in unused
  <2>1. unused \subseteq Nat
    BY <1>1
  <2> QED
    BY <1>2, <2>1, LeastNatural DEF least
<1> QED
  BY <1>1, <1>2

LEMMA HostChangesKeeps ==
  ASSUME ClipInv, HostChanges
  PROVE  ClipInv'
<1>1. /\ clipTasks # <<>> /\ TaskEnds
      /\ UNCHANGED <<phase, ledger, writes, board, moved, clipSteps>>
  BY DEF HostChanges
<1>2. StepsGrow
  BY <1>1 DEF StepsGrow
<1>3. IsFiniteSet(DOMAIN forest) /\ DOMAIN forest \subseteq Nat \ {Top}
  BY DEF ClipInv, RowsFit
<1>4. PICK f : /\ PublishesForest(f, FALSE)
               /\ \/ DOMAIN f = DOMAIN forest
                  \/ unused # {} /\ DOMAIN f = {least(unused)} \cup DOMAIN forest
  <2>1. PICK t : \/ PublishesForest([forest EXCEPT ![t.row].value = clock.revision + 1], FALSE)
                 \/ /\ unused # {}
                    /\ \E row \in {[under |-> t.row, value |-> clock.revision + 1, group |-> FALSE]} :
                         PublishesForest(planted([n \in {least(unused)} |-> row], forest), FALSE)
    BY DEF HostChanges
  <2>2. DOMAIN [forest EXCEPT ![t.row].value = clock.revision + 1] = DOMAIN forest
    OBVIOUS
  <2>3. \A n, row : DOMAIN planted([m \in {n} |-> row], forest) = {n} \cup DOMAIN forest
    BY DEF planted
  <2>4. CASE PublishesForest([forest EXCEPT ![t.row].value = clock.revision + 1], FALSE)
    BY <2>2, <2>4
  <2>5. ASSUME unused # {},
               NEW row,
               PublishesForest(planted([n \in {least(unused)} |-> row], forest), FALSE)
        PROVE  \E f : /\ PublishesForest(f, FALSE)
                      /\ unused # {} /\ DOMAIN f = {least(unused)} \cup DOMAIN forest
    BY <2>3, <2>5
  <2> QED
    BY <2>1, <2>4, <2>5
<1>5. IsFiniteSet(DOMAIN f) /\ DOMAIN f \subseteq Nat \ {Top}
  <2>1. CASE DOMAIN f = DOMAIN forest
    BY <1>3, <2>1
  <2>2. CASE unused # {} /\ DOMAIN f = {least(unused)} \cup DOMAIN forest
    <3>1. least(unused) \in Nat \ {Top}
      BY <2>2, FreshRowsFit
    <3> QED
      BY <1>3, <2>2, <3>1, FS_AddElement
  <2> QED
    BY <1>4, <2>1, <2>2
<1>6. RowsFit' /\ ClockFits' /\ DocMoves /\ clock'.mount = clock.mount
  BY <1>2, <1>4, <1>5, PublishingMoves
<1> QED
  BY <1>1, <1>6, LeavingKeeps

LEMMA DocumentReplacedKeeps ==
  ASSUME ClipInv, DocumentReplaced
  PROVE  ClipInv'
<1>1. /\ clipTasks # <<>> /\ TaskEnds /\ forest' = FirstForest
      /\ chosenRows' = firstRow(FirstForest)
      /\ UNCHANGED <<phase, ledger, writes, board, moved, clipSteps>>
  BY DEF DocumentReplaced, headed
<1>2. RowsFit'
  <2>1. IsFiniteSet(DOMAIN FirstForest) /\ DOMAIN FirstForest \subseteq Nat \ {Top}
    BY ClipboardAssumption
  <2>2. firstRow(FirstForest) \subseteq DOMAIN FirstForest
    BY <2>1, FirstRowFits
  <2> QED
    BY <1>1, <2>1, <2>2 DEF RowsFit
<1>3. PICK n : clock' = [clock EXCEPT !.generation = @ + 1, !.published = @ + 1, !.revision = 0,
                                      !.target = n]
  BY DEF DocumentReplaced
<1>4. /\ DOMAIN clock' = ClockFields /\ clock'.mount = clock.mount
      /\ clock'.generation = clock.generation + 1 /\ clock'.revision = 0
  BY <1>3 DEF ClipInv, ClockFits, ClockFields
<1>5. ClockFits' /\ DocMoves
  BY <1>1, <1>4 DEF ClipInv, ClockFits, DocMoves
<1> QED
  BY <1>1, <1>2, <1>4, <1>5, LeavingKeeps

LEMMA CommitPasteKeeps ==
  ASSUME ClipInv, CommitPaste
  PROVE  ClipInv'
<1>1. /\ clipTasks # <<>> /\ TaskEnds
      /\ UNCHANGED <<phase, ledger, writes, board, moved, clipSteps>>
  BY DEF CommitPaste, headed
<1>2. StepsGrow
  BY <1>1 DEF StepsGrow
<1>3. IsFiniteSet(DOMAIN forest) /\ DOMAIN forest \subseteq Nat \ {Top}
  BY DEF ClipInv, RowsFit
<1>4. PICK f, new : /\ PublishesForest(f, FALSE)
                    /\ DOMAIN f = new \cup DOMAIN forest /\ new \subseteq unused
  <2>1. PICK content :
           \/ \E names \in renamed(content) : PublishesForest(branchPasted(content, names), FALSE)
           \/ PublishesForest(cellsPasted(content), FALSE)
    BY DEF CommitPaste
  <2>2. DOMAIN cellsPasted(content) = {} \cup DOMAIN forest
    BY DEF cellsPasted
  <2>3. ASSUME NEW names \in renamed(content)
        PROVE  /\ DOMAIN branchPasted(content, names)
                    = {names[r] : r \in DOMAIN content} \cup DOMAIN forest
               /\ {names[r] : r \in DOMAIN content} \subseteq unused
    <3>1. {names[r] : r \in DOMAIN content} \subseteq unused
      BY <2>3 DEF renamed
    <3>2. \A g : DOMAIN planted(g, forest) = DOMAIN g \cup DOMAIN forest
      BY DEF planted
    <3> QED
      BY <3>1, <3>2 DEF branchPasted
  <2>4. CASE PublishesForest(cellsPasted(content), FALSE)
    <3> DEFINE f == cellsPasted(content)
               new == {}
    <3>1. DOMAIN f = new \cup DOMAIN forest /\ new \subseteq unused
      BY <2>2
    <3>2. PublishesForest(f, FALSE)
      BY <2>4
    <3> HIDE DEF f, new
    <3> QED
      BY <3>1, <3>2
  <2>5. ASSUME NEW names \in renamed(content),
               PublishesForest(branchPasted(content, names), FALSE)
        PROVE  \E f, new : /\ PublishesForest(f, FALSE)
                           /\ DOMAIN f = new \cup DOMAIN forest /\ new \subseteq unused
    BY <2>3, <2>5
  <2> QED
    BY <2>1, <2>4, <2>5
<1>5. IsFiniteSet(DOMAIN f) /\ DOMAIN f \subseteq Nat \ {Top}
  <2>1. IsFiniteSet(new) /\ new \subseteq Nat \ {Top}
    BY <1>4, FreshRowsFit, FS_Subset
  <2> QED
    BY <1>3, <1>4, <2>1, FS_Union
<1>6. RowsFit' /\ ClockFits' /\ DocMoves /\ clock'.mount = clock.mount
  BY <1>2, <1>4, <1>5, PublishingMoves
<1> QED
  BY <1>1, <1>6, LeavingKeeps

LEMMA CommitCutKeeps ==
  ASSUME ClipInv, CommitCut
  PROVE  ClipInv'
<1>1. PICK p, rows, g, m :
        /\ p = clipTasks[1].payload
        /\ rows = IF p.op = "cut" THEN DOMAIN p.content
                  ELSE branchOf(rootsOf(p.content) \cap DOMAIN forest, forest)
        /\ g = IF p.op = "cut"
               THEN [r \in DOMAIN forest |-> IF r \in rows THEN [forest[r] EXCEPT !.value = Blank]
                                             ELSE forest[r]]
               ELSE [r \in DOMAIN forest \ rows |-> forest[r]]
        /\ PublishesForest(g, FALSE)
        /\ m = [payload |-> p, removed |-> [r \in rows |-> forest[r]],
                generation |-> clock.generation]
        /\ moved' = Append(moved, m)
  BY DEF CommitCut, rootsOf
<1>2. /\ clipTasks # <<>> /\ clipTasks[1].kind = "cut" /\ clipTasks[1].stage = "committing"
      /\ TaskEnds /\ UNCHANGED <<phase, ledger, writes, board, clipSteps>>
  BY DEF CommitCut, headed
<1>3. /\ ClipTasksFit /\ ClockFits /\ WritesFit /\ LedgerFits /\ MovedFit
      /\ OnePlace(writes, clipTasks, moved)
      /\ IsFiniteSet(DOMAIN forest) /\ DOMAIN forest \subseteq Nat \ {Top}
  BY DEF ClipInv, RowsFit
<1>4. 1 \in DOMAIN clipTasks
  BY <1>2, <1>3, TailIsSequence DEF ClipTasksFit
<1>5. /\ PayloadFits(p) /\ isCut(p) /\ ofNow(p)
  <2>1. ClipTaskFits(clipTasks[1], 1)
    BY <1>3, <1>4 DEF ClipTasksFit
  <2> QED
    BY <1>1, <1>2, <2>1 DEF ClipTaskFits
<1>6. AsItIs(p, forest)
  BY <1>5 DEF PayloadFits
<1>7. rows = DOMAIN p.content
  BY <1>1, <1>6 DEF AsItIs
<1>8. /\ m.payload = p /\ m.removed = p.content /\ m.generation = p.base.generation
      /\ p.id \in Nat /\ p.id <= clipSteps
  <2>1. m.payload = p /\ m.removed = [r \in rows |-> forest[r]] /\ m.generation = clock.generation
    BY <1>1
  <2>2. p.content = [r \in DOMAIN p.content |-> forest[r]]
    BY <1>6 DEF AsItIs
  <2> QED
    BY <1>5, <1>7, <2>1, <2>2 DEF ofNow, PayloadFits
<1>9. /\ RowsFit' /\ ClockFits' /\ DocMoves /\ clock'.mount = clock.mount
  <2>1. DOMAIN g \subseteq DOMAIN forest
    BY <1>1
  <2>2. IsFiniteSet(DOMAIN g) /\ DOMAIN g \subseteq Nat \ {Top}
    BY <1>3, <2>1, FS_Subset
  <2>3. StepsGrow
    BY <1>2 DEF StepsGrow
  <2> QED
    BY <1>1, <2>2, <2>3, PublishingMoves
<1>10. StepsGrow
  BY <1>2 DEF StepsGrow
<1>11. WritesFit' /\ LedgerFits'
  BY <1>2, <1>3, <1>9, <1>10, WritesStand, LedgerStands
<1>12. /\ ClipTasksFit'
       /\ \A i \in DOMAIN clipTasks' : /\ i + 1 \in DOMAIN clipTasks /\ i + 1 # 1
                                       /\ clipTasks'[i] = clipTasks[i + 1]
       /\ \A i, j \in DOMAIN clipTasks' : i + 1 = j + 1 => i = j
  BY <1>2, <1>3, <1>9, <1>10, ClipTaskLeaves
<1>13. PICK M, U : M = moved' /\ U = clipTasks'
  OBVIOUS
<1>14. /\ isSequence(M)
       /\ \A i \in DOMAIN M : M[i] = m \/ (i \in DOMAIN moved /\ M[i] = moved[i])
       /\ \A i, j \in DOMAIN M : i \notin DOMAIN moved /\ j \notin DOMAIN moved => i = j
       /\ \A i \in DOMAIN moved : M[i] = moved[i]
  <2>1. isSequence(moved) /\ M = Append(moved, m)
    BY <1>1, <1>3, <1>13 DEF MovedFit
  <2>2. \A i \in DOMAIN moved : M[i] = moved[i]
    BY <2>1, AppendKeeps
  <2>3. PICK V : V = Append(moved, m)
    OBVIOUS
  <2>4. /\ isSequence(V)
        /\ \A i \in DOMAIN V : V[i] = m \/ (i \in DOMAIN moved /\ V[i] = moved[i])
        /\ \A i, j \in DOMAIN V : i \notin DOMAIN moved /\ j \notin DOMAIN moved => i = j
    BY <2>1, <2>3, AppendIsSequence
  <2> QED
    BY <2>1, <2>2, <2>3, <2>4
<1>15. MovedFit'
  BY <1>2, <1>3, <1>8, <1>13, <1>14 DEF MovedFit
<1>16. OnePlace(writes, U, moved)
  BY <1>3, <1>12, <1>13, FewerPlaces
<1>17. /\ \A w \in writes : w.payload.id # p.id
       /\ \A i \in DOMAIN U : ~isTheCut(U[i], p.id)
       /\ \A i \in DOMAIN moved : moved[i].payload.id # p.id
  <2>1. isTheCut(clipTasks[1], p.id) /\ clipTasks[1].kind = "cut" /\ p.id = clipTasks[1].payload.id
    BY <1>1, <1>2 DEF isTheCut
  <2>2. \A i \in DOMAIN clipTasks : isTheCut(clipTasks[i], p.id) => i = 1
    BY <1>3, <1>4, <2>1 DEF OnePlace
  <2>3. \A i \in DOMAIN U : ~isTheCut(U[i], p.id)
    BY <1>12, <1>13, <2>2
  <2> QED
    BY <1>3, <1>4, <2>1, <2>3 DEF OnePlace
<1>18. OnePlace(writes, U, M)
  <2>1. \A i \in DOMAIN M : \/ i \notin DOMAIN moved /\ M[i].payload.id = p.id
                            \/ i \in DOMAIN moved /\ M[i] = moved[i]
    BY <1>8, <1>14
  <2>2. /\ \A w \in writes : \A i \in DOMAIN M : M[i].payload.id # w.payload.id
        /\ \A i \in DOMAIN M : \A j \in DOMAIN U : ~isTheCut(U[j], M[i].payload.id)
    BY <1>16, <1>17, <2>1 DEF OnePlace
  <2>3. \A i, j \in DOMAIN M : M[i].payload.id = M[j].payload.id => i = j
    BY <1>14, <1>16, <1>17, <2>1 DEF OnePlace
  <2> QED
    BY <1>16, <2>2, <2>3 DEF OnePlace
<1> QED
  BY <1>2, <1>9, <1>11, <1>12, <1>13, <1>15, <1>18 DEF ClipInv

-----------------------------------------------------------------------------
LEMMA ClipboardStarts == ClipboardInit => ClipInv
<1> SUFFICES ASSUME ClipboardInit PROVE ClipInv
  OBVIOUS
<1>1. /\ forest = FirstForest /\ chosenRows = firstRow(FirstForest) /\ ledger = {}
      /\ writes = {} /\ board = NoPayload /\ clipTasks = <<>> /\ moved = <<>> /\ clipSteps = 0
      /\ clock = [revision |-> 0, generation |-> 0, published |-> 0, target |-> 0, mount |-> 0]
  BY DEF ClipboardInit
<1>2. RowsFit
  <2>1. IsFiniteSet(DOMAIN FirstForest) /\ DOMAIN FirstForest \subseteq Nat \ {Top}
    BY ClipboardAssumption
  <2>2. firstRow(FirstForest) \subseteq DOMAIN FirstForest
    BY <2>1, FirstRowFits
  <2> QED
    BY <1>1, <2>1, <2>2 DEF RowsFit
<1>3. ClockFits
  BY <1>1 DEF ClockFits, ClockFields
<1>4. isSequence(<<>>) /\ DOMAIN <<>> = {}
  <2>1. DOMAIN <<>> = {} /\ Len(<<>>) = 0
    OBVIOUS
  <2>2. <<>> \in Seq({})
    OBVIOUS
  <2>3. isSequence(<<>>)
    BY <2>2, IsSequenceOf
  <2> QED
    BY <2>1, <2>3
<1>5. ClipTasksFit /\ MovedFit
  BY <1>1, <1>4 DEF ClipTasksFit, MovedFit
<1>6. WritesFit /\ LedgerFits
  BY <1>1 DEF WritesFit, LedgerFits
<1>7. OnePlace(writes, clipTasks, moved)
  BY <1>1, <1>4 DEF OnePlace
<1> QED
  BY <1>2, <1>3, <1>5, <1>6, <1>7 DEF ClipInv

LEMMA ClipboardStepKeeps == ClipInv /\ [ClipboardNext]_clipVars => ClipInv'
<1> SUFFICES ASSUME ClipInv, [ClipboardNext]_clipVars PROVE ClipInv'
  OBVIOUS
<1>1. CASE UNCHANGED clipVars
  <2>1. /\ UNCHANGED <<forest, chosenRows, clock, phase, ledger, writes, board, clipTasks, moved,
                       clipSteps>>
    BY <1>1 DEF clipVars
  <2>2. StepsGrow /\ SameDoc /\ RowsFit' /\ ClockFits' /\ LedgerFits'
    BY <2>1 DEF ClipInv, RowsFit, ClockFits, LedgerFits, StepsGrow, SameDoc
  <2> QED
    BY <2>1, <2>2, QuietKeeps
<1>2. CASE SelectRows \/ ViewMoves
  BY <1>2, ViewKeeps
<1>3. CASE \/ \E masks \in BOOLEAN : CopyCells(masks)
           \/ CutCells
           \/ \E op \in {"copy-branch", "cut-branch"} : WriteBranch(op)
  BY <1>3, CopyingKeeps
<1>4. CASE \E w \in writes : WriteLands(w) \/ WriteReported(w)
  BY <1>4, WriteLandsKeeps, WriteReportedKeeps
<1>5. CASE \/ \E formats \in {{}, {"text"}, {"internal", "text"}} : PasteBoard(formats)
           \/ \E kind \in {"edit", "insert"}, r \in chosenRows : HostMutation(kind, r)
           \/ HostMutation("document", Top)
  BY <1>5, QueueingKeeps
<1>6. CASE \/ \E i \in DOMAIN clipTasks : AbortPaste(i)
           \/ StartCut \/ StartClipPaste \/ Parsed \/ PreparePaste
  BY <1>6, TasksGoOn
<1>7. CASE TaskDropped
  <2>1. /\ clipTasks # <<>> /\ TaskEnds
        /\ UNCHANGED <<forest, chosenRows, clock, phase, ledger, writes, board, moved, clipSteps>>
    BY <1>7 DEF TaskDropped
  <2>2. RowsFit' /\ ClockFits' /\ DocMoves
    BY <2>1 DEF ClipInv, RowsFit, ClockFits, DocMoves, SameDoc
  <2> QED
    BY <2>1, <2>2, LeavingKeeps
<1>8. CASE HostChanges \/ DocumentReplaced \/ CommitCut \/ CommitPaste
  BY <1>8, HostChangesKeeps, DocumentReplacedKeeps, CommitCutKeeps, CommitPasteKeeps
<1>9. CASE Unmount \/ Mount \/ DestroyEditor
  BY <1>9, LifeKeeps
<1> QED
  BY <1>1, <1>2, <1>3, <1>4, <1>5, <1>6, <1>7, <1>8, <1>9, Zenon DEF ClipboardNext

LEMMA CutsAreWhole == ClipInv => CutTakesWhatWasWritten
<1> SUFFICES ASSUME ClipInv PROVE CutTakesWhatWasWritten
  OBVIOUS
<1>1. ASSUME NEW i \in DOMAIN moved
      PROVE  /\ moved[i].removed = moved[i].payload.content
             /\ moved[i].generation = moved[i].payload.base.generation
             /\ \A w \in writes : w.payload # moved[i].payload
             /\ \A j \in DOMAIN moved : moved[i].payload.id = moved[j].payload.id => i = j
  BY DEF ClipInv, MovedFit, OnePlace
<1>2. \A p \in ledger : p.base.mount = clock.mount /\ \E w \in writes : w.payload = p
  BY DEF ClipInv, LedgerFits
<1>3. phase = "destroyed" => ledger = {}
  BY DEF ClipInv, LedgerFits
<1> QED
  BY <1>1, <1>2, <1>3 DEF CutTakesWhatWasWritten

(* Whatever the user, the host and the clipboard of the system do between  *)
(* a cut and its removal, a cut that was committed took away exactly what  *)
(* had been handed over, from the document it came from, and took it once; *)
(* a write that is still awaited is of this mount, and none is once the    *)
(* editor is destroyed (editor.ts:8759 and 10638).                         *)
THEOREM CutsTakeWhatWasWritten ==
  ClipboardInit /\ [][ClipboardNext]_clipVars => []CutTakesWhatWasWritten
<1>1. ClipInv /\ [ClipboardNext]_clipVars => ClipInv'
  BY ClipboardStepKeeps
<1> QED
  BY <1>1, ClipboardStarts, CutsAreWhole, PTL

=============================================================================
