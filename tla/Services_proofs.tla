-------------------------- MODULE Services_proofs ---------------------------
(***************************************************************************)
(* Proofs about services of the editor: a registry cleans up each resource *)
(* once and counts them right, for every number of resources and every set *)
(* of kinds; the pages of a document that are read lazily are those of the *)
(* revision it is at, for every source and every number of steps; the      *)
(* validators, the reports and the cleanups of the plugin host agree with  *)
(* the plugins that are installed, for every set of plugins; an event is   *)
(* heard once and in turn, for every set of listeners and of types; an     *)
(* export is of one document, for every document, request and policy; and  *)
(* the transaction engine's document is indexed, and its history within    *)
(* its budget, for every set of nodes, of commands and of values.          *)
(***************************************************************************)
EXTENDS TransactionEngine, ResourceRegistry, SourceReads, PluginHost, EventHub, DataExchange,
        SequenceLemmas, FiniteSetTheorems, TLAPS

-----------------------------------------------------------------------------
(* ResourceRegistry.                                                       *)

ofKind(k) == {n \in linked : kindOf[n] = k}

RegistryTypes ==
    /\ registered \subseteq Resources
    /\ kindOf \in [registered -> Kinds]
    /\ linked \subseteq registered
    /\ disposed \in BOOLEAN
    /\ running \in Seq(Nat)
    /\ attempts \in [Resources -> Nat]
    /\ ledger \in [Kinds -> [active : Int, attempts : Int, failures : Int]]

\* Between two calls the entries that are active are those of the list, and the
\* others have been cleaned up.
EntriesAgree ==
    /\ active = linked
    /\ \A n \in Resources : attempts[n] = IF n \in registered \ linked THEN 1 ELSE 0

\* As long as a registry that was disposed of has entries, its loop is at work.
LoopIsAtWork ==
    disposed /\ linked # {} => \E i \in DOMAIN running : running[i] = DisposeLoop

CountsAgree == \A k \in Kinds : ledger[k].active = Cardinality(ofKind(k))

RegistryInv == RegistryTypes /\ EntriesAgree /\ LoopIsAtWork /\ CountsAgree

-----------------------------------------------------------------------------
LEMMA RegistryStarts == RegistryInit => RegistryInv
<1> SUFFICES ASSUME RegistryInit PROVE RegistryInv
  OBVIOUS
<1>1. registered = {} /\ linked = {}
  BY DEF RegistryInit, registered
<1>2. RegistryTypes
  <2>1. kindOf \in [registered -> Kinds]
    BY <1>1 DEF RegistryInit, registered
  <2>2. running \in Seq(Nat) /\ attempts \in [Resources -> Nat]
    BY DEF RegistryInit
  <2>3. ledger \in [Kinds -> [active : Int, attempts : Int, failures : Int]]
    BY DEF RegistryInit
  <2> QED
    BY <1>1, <2>1, <2>2, <2>3 DEF RegistryInit, RegistryTypes
<1>3. EntriesAgree
  BY <1>1 DEF RegistryInit, EntriesAgree
<1>4. CountsAgree
  <2> SUFFICES ASSUME NEW k \in Kinds PROVE ledger[k].active = Cardinality(ofKind(k))
    BY DEF CountsAgree
  <2>1. ofKind(k) = {}
    BY <1>1 DEF ofKind
  <2> QED
    BY <2>1, FS_EmptySet DEF RegistryInit
<1> QED
  BY <1>1, <1>2, <1>3, <1>4 DEF RegistryInv, LoopIsAtWork

LEMMA FewAreLinked == ASSUME RegistryInv, NEW k PROVE IsFiniteSet(ofKind(k))
<1>1. IsFiniteSet(Resources)
  BY FS_Interval, RegistryAssumption DEF Resources
<1>2. ofKind(k) \in SUBSET Resources
  BY DEF RegistryInv, RegistryTypes, ofKind
<1> QED
  BY <1>1, <1>2, FS_Subset

(* What all ways of disposing of an entry have in common.                  *)
LEMMA DisposingKeepsInv ==
    ASSUME RegistryInv, NEW n \in registered,
           disposeEntry(n, active, kindOf, ledger), UNCHANGED <<kindOf, disposed>>
    PROVE  RegistryInv'
<1> USE DEF RegistryInv
<1>0. registered' = registered /\ n \in Resources /\ kindOf[n] \in Kinds
  BY DEF registered, RegistryTypes
<1>1. CASE n \notin active
  BY <1>0, <1>1 DEF disposeEntry, RegistryTypes, EntriesAgree, LoopIsAtWork, CountsAgree, ofKind,
     registered
<1>2. CASE n \in active
  <2>1. /\ active' = active \ {n}
        /\ linked' = linked \ {n}
        /\ ledger' = [ledger EXCEPT ![kindOf[n]].active = @ - 1, ![kindOf[n]].attempts = @ + 1]
        /\ attempts' = [attempts EXCEPT ![n] = @ + 1]
        /\ running' = Append(running, n)
    BY <1>2 DEF disposeEntry
  <2>2. n \in linked /\ n \in Nat
    BY <1>0, <1>2, RegistryAssumption DEF EntriesAgree, Resources
  <2>3. RegistryTypes'
    <3>1. running' \in Seq(Nat)
      BY <2>1, <2>2 DEF RegistryTypes
    <3>2. attempts' \in [Resources -> Nat]
      BY <2>1, <1>0 DEF RegistryTypes
    <3>3. ledger' \in [Kinds -> [active : Int, attempts : Int, failures : Int]]
      BY <2>1, <1>0 DEF RegistryTypes
    <3> QED
      BY <1>0, <2>1, <3>1, <3>2, <3>3 DEF RegistryTypes
  <2>4. EntriesAgree'
    BY <1>0, <2>1, <2>2 DEF EntriesAgree, RegistryTypes
  <2>5. LoopIsAtWork'
    <3> SUFFICES ASSUME disposed', linked' # {}
                 PROVE  \E i \in DOMAIN running' : running'[i] = DisposeLoop
      BY DEF LoopIsAtWork
    <3>1. PICK i \in DOMAIN running : running[i] = DisposeLoop
      BY <2>1 DEF LoopIsAtWork
    <3>2. running \in Seq(Nat) /\ running' = Append(running, n) /\ n \in Nat
      BY <2>1, <2>2 DEF RegistryTypes
    <3>3. i \in DOMAIN running' /\ running'[i] = running[i]
      BY <3>1, <3>2
    <3> QED
      BY <3>1, <3>3
  <2>6. CountsAgree'
    <3> SUFFICES ASSUME NEW k \in Kinds PROVE ledger'[k].active = Cardinality(ofKind(k)')
      BY DEF CountsAgree
    <3>1. ledger[k].active = Cardinality(ofKind(k)) /\ IsFiniteSet(ofKind(k))
      BY FewAreLinked DEF CountsAgree
    <3>2. CASE k = kindOf[n]
      <4>1. ofKind(k)' = ofKind(k) \ {n} /\ n \in ofKind(k)
        BY <2>1, <2>2, <3>2 DEF ofKind
      <4>2. Cardinality(ofKind(k) \ {n}) = Cardinality(ofKind(k)) - 1
        BY <3>1, <4>1, FS_RemoveElement
      <4> QED
        BY <2>1, <3>1, <3>2, <4>1, <4>2 DEF RegistryTypes
    <3>3. CASE k # kindOf[n]
      <4>1. ofKind(k)' = ofKind(k)
        BY <2>1, <3>3 DEF ofKind
      <4> QED
        BY <1>0, <2>1, <3>1, <3>3, <4>1 DEF RegistryTypes
    <3> QED
      BY <3>2, <3>3
  <2> QED
    BY <2>3, <2>4, <2>5, <2>6
<1> QED
  BY <1>1, <1>2

LEMMA RegisteringKeepsInv ==
    ASSUME RegistryInv, NEW n \in Resources, NEW kind \in Kinds, Register(n, kind)
    PROVE  RegistryInv'
<1> USE DEF RegistryInv
<1> DEFINE counts == [ledger EXCEPT ![kind].active = @ + 1]
<1>1. /\ n \notin registered /\ n \notin linked /\ n \notin active /\ n \in Nat
      /\ registered' = registered \cup {n}
      /\ kindOf' = [m \in registered \cup {n} |-> IF m = n THEN kind ELSE kindOf[m]]
      /\ disposed' = disposed
      /\ kindOf'[n] = kind
      /\ \A m \in linked : kindOf'[m] = kindOf[m]
  BY RegistryAssumption DEF Register, registered, RegistryTypes, EntriesAgree, Resources
<1>2. counts \in [Kinds -> [active : Int, attempts : Int, failures : Int]]
  <2>1. ledger \in [Kinds -> [active : Int, attempts : Int, failures : Int]]
    BY DEF RegistryTypes
  <2>2. [ledger[kind] EXCEPT !.active = @ + 1] \in [active : Int, attempts : Int, failures : Int]
    BY <2>1
  <2> QED
    BY <2>1, <2>2
<1>3. kindOf' \in [registered' -> Kinds] /\ registered' \subseteq Resources
  BY <1>1 DEF RegistryTypes
<1>4. CASE disposed
  <2>1. /\ active' = (active \cup {n}) \ {n}
        /\ linked' = linked \ {n}
        /\ ledger' = [counts EXCEPT ![kindOf'[n]].active = @ - 1, ![kindOf'[n]].attempts = @ + 1]
        /\ attempts' = [attempts EXCEPT ![n] = @ + 1]
        /\ running' = Append(running, n)
    BY <1>4 DEF Register, disposeEntry
  <2>2. active' = active /\ linked' = linked
    BY <1>1, <2>1
  <2>3. RegistryTypes'
    <3>1. running' \in Seq(Nat) /\ attempts' \in [Resources -> Nat]
      BY <1>1, <2>1 DEF RegistryTypes
    <3>2. ledger' \in [Kinds -> [active : Int, attempts : Int, failures : Int]]
      BY <1>1, <1>2, <2>1
    <3> QED
      BY <1>1, <1>3, <2>2, <3>1, <3>2 DEF RegistryTypes
  <2>4. EntriesAgree'
    BY <1>1, <2>1, <2>2 DEF EntriesAgree, RegistryTypes
  <2>5. LoopIsAtWork'
    <3> SUFFICES ASSUME disposed', linked' # {}
                 PROVE  \E i \in DOMAIN running' : running'[i] = DisposeLoop
      BY DEF LoopIsAtWork
    <3>1. PICK i \in DOMAIN running : running[i] = DisposeLoop
      BY <1>1, <2>2 DEF LoopIsAtWork
    <3> QED
      BY <1>1, <2>1, <3>1 DEF RegistryTypes
  <2>6. CountsAgree'
    <3> SUFFICES ASSUME NEW k \in Kinds PROVE ledger'[k].active = Cardinality(ofKind(k)')
      BY DEF CountsAgree
    <3>1. ofKind(k)' = ofKind(k)
      BY <1>1, <2>2 DEF ofKind
    <3>2. ledger'[k].active = ledger[k].active
      BY <1>1, <1>2, <2>1 DEF RegistryTypes
    <3> QED
      BY <3>1, <3>2 DEF CountsAgree
  <2> QED
    BY <2>3, <2>4, <2>5, <2>6
<1>5. CASE ~disposed
  <2>1. /\ active' = active \cup {n}
        /\ linked' = linked \cup {n}
        /\ ledger' = counts
        /\ UNCHANGED <<attempts, running>>
    BY <1>5 DEF Register
  <2>2. RegistryTypes'
    BY <1>1, <1>2, <1>3, <2>1 DEF RegistryTypes
  <2>3. EntriesAgree'
    BY <1>1, <2>1 DEF EntriesAgree, RegistryTypes
  <2>4. LoopIsAtWork'
    BY <1>1, <1>5 DEF LoopIsAtWork
  <2>5. CountsAgree'
    <3> SUFFICES ASSUME NEW k \in Kinds PROVE ledger'[k].active = Cardinality(ofKind(k)')
      BY DEF CountsAgree
    <3>1. ledger[k].active = Cardinality(ofKind(k)) /\ IsFiniteSet(ofKind(k))
      BY FewAreLinked DEF CountsAgree
    <3>2. CASE k = kind
      <4>1. ofKind(k)' = ofKind(k) \cup {n} /\ n \notin ofKind(k)
        BY <1>1, <2>1, <3>2 DEF ofKind
      <4>2. Cardinality(ofKind(k) \cup {n}) = Cardinality(ofKind(k)) + 1
        BY <3>1, <4>1, FS_AddElement
      <4> QED
        BY <2>1, <3>1, <3>2, <4>1, <4>2 DEF RegistryTypes
    <3>3. CASE k # kind
      <4>1. ofKind(k)' = ofKind(k)
        BY <1>1, <2>1, <3>3 DEF ofKind
      <4> QED
        BY <2>1, <3>1, <3>3, <4>1 DEF RegistryTypes
    <3> QED
      BY <3>2, <3>3
  <2> QED
    BY <2>2, <2>3, <2>4, <2>5
<1> QED
  BY <1>4, <1>5 DEF RegistryTypes

(* What is popped from the stack: a cleanup, or the loop when it is done.  *)
LEMMA PoppingKeepsInv ==
    ASSUME RegistryInv, running # <<>>,
           running' = SubSeq(running, 1, Len(running) - 1),
           UNCHANGED <<kindOf, active, linked, disposed, attempts>>,
           \/ linked = {}
           \/ running[Len(running)] # DisposeLoop,
           ledger' \in [Kinds -> [active : Int, attempts : Int, failures : Int]],
           \A k \in Kinds : ledger'[k].active = ledger[k].active
    PROVE  RegistryInv'
<1> USE DEF RegistryInv
<1>1. running' \in Seq(Nat) /\ Len(running') = Len(running) - 1
      /\ \A i \in 1 .. Len(running) - 1 : running'[i] = running[i]
  <2>1. running \in Seq(Nat)
    BY DEF RegistryTypes
  <2>2. Len(running) - 1 \in 0 .. Len(running)
    BY <2>1, EmptySeq
  <2> QED
    BY <2>1, <2>2, PrefixProperties
<1>2. RegistryTypes'
  BY <1>1 DEF RegistryTypes, registered
<1>3. EntriesAgree'
  BY DEF EntriesAgree, registered
<1>4. LoopIsAtWork'
  <2> SUFFICES ASSUME disposed, linked # {}
               PROVE  \E i \in DOMAIN running' : running'[i] = DisposeLoop
    BY DEF LoopIsAtWork
  <2>1. PICK i \in DOMAIN running : running[i] = DisposeLoop
    BY DEF LoopIsAtWork
  <2>2. i \in 1 .. Len(running) - 1
    BY <2>1 DEF RegistryTypes
  <2> QED
    BY <1>1, <2>1, <2>2 DEF RegistryTypes
<1>5. CountsAgree'
  BY DEF CountsAgree, ofKind
<1> QED
  BY <1>2, <1>3, <1>4, <1>5

LEMMA RegistrySteps == RegistryInv /\ [RegistryNext]_registryVars => RegistryInv'
<1> SUFFICES ASSUME RegistryInv, [RegistryNext]_registryVars PROVE RegistryInv'
  OBVIOUS
<1>1. ASSUME NEW n \in Resources, NEW kind \in Kinds, Register(n, kind) PROVE RegistryInv'
  BY <1>1, RegisteringKeepsInv
<1>2. ASSUME NEW n \in Resources, DisposeOne(n) PROVE RegistryInv'
  BY <1>2, DisposingKeepsInv DEF DisposeOne
<1>3. CASE Dispose
  <2>1. running' \in Seq(Nat) /\ running' = Append(running, DisposeLoop)
    BY <1>3 DEF Dispose, RegistryInv, RegistryTypes, DisposeLoop
  <2>2. Len(running') \in DOMAIN running' /\ running'[Len(running')] = DisposeLoop
    BY <2>1 DEF RegistryInv, RegistryTypes
  <2> QED
    BY <1>3, <2>1, <2>2 DEF Dispose, RegistryInv, RegistryTypes, EntriesAgree, LoopIsAtWork,
       CountsAgree, ofKind, registered
<1>4. CASE DisposeTail
  <2>1. CASE linked = {}
    <3>1. running # <<>>
      BY <1>4 DEF DisposeTail, mayCall
    <3> QED
      BY <1>4, <2>1, <3>1, PoppingKeepsInv DEF DisposeTail, RegistryInv, RegistryTypes
  <2>2. CASE linked # {}
    <3>1. PICK n \in linked : disposeEntry(n, active, kindOf, ledger)
      BY <1>4, <2>2 DEF DisposeTail
    <3>2. n \in registered
      BY DEF RegistryInv, RegistryTypes
    <3> QED
      BY <1>4, <3>1, <3>2, DisposingKeepsInv DEF DisposeTail
  <2> QED
    BY <2>1, <2>2
<1>5. ASSUME NEW throws \in BOOLEAN, CleanupReturns(throws) PROVE RegistryInv'
  <2>1. PICK kind : ledger' = IF throws THEN [ledger EXCEPT ![kind].failures = @ + 1] ELSE ledger
    BY <1>5 DEF CleanupReturns
  <2>2. ledger' \in [Kinds -> [active : Int, attempts : Int, failures : Int]]
    <3>1. ledger \in [Kinds -> [active : Int, attempts : Int, failures : Int]]
      BY DEF RegistryInv, RegistryTypes
    <3>2. \A k \in Kinds : [ledger[k] EXCEPT !.failures = @ + 1]
                              \in [active : Int, attempts : Int, failures : Int]
      BY <3>1
    <3>3. CASE throws /\ kind \in Kinds
      BY <2>1, <3>1, <3>2, <3>3
    <3>4. CASE ~throws \/ kind \notin Kinds
      BY <2>1, <3>1, <3>4
    <3> QED
      BY <3>3, <3>4
  <2>3. \A k \in Kinds : ledger'[k].active = ledger[k].active
    BY <2>1 DEF RegistryInv, RegistryTypes
  <2>4. running # <<>> /\ running[Len(running)] # DisposeLoop
    BY <1>5 DEF CleanupReturns, mayCall
  <2> QED
    BY <1>5, <2>2, <2>3, <2>4, PoppingKeepsInv DEF CleanupReturns
<1>6. CASE UNCHANGED registryVars
  BY <1>6 DEF registryVars, RegistryInv, RegistryTypes, EntriesAgree, LoopIsAtWork, CountsAgree,
     ofKind, registered
<1> QED
  BY <1>1, <1>2, <1>3, <1>4, <1>5, <1>6 DEF RegistryNext

(* However many resources there are and whoever disposes of what from      *)
(* which cleanup, each is cleaned up once, none is left when dispose is    *)
(* over, and the diagnostics count what is there.                          *)
THEOREM ResourcesAreCleanedOnce == RegistrySpec => []EachResourceIsCleanedOnce
<1>1. RegistryInv => EachResourceIsCleanedOnce
  <2> SUFFICES ASSUME RegistryInv PROVE EachResourceIsCleanedOnce
    OBVIOUS
  <2>1. \A n \in Resources : attempts[n] <= 1
    BY DEF RegistryInv, EntriesAgree
  <2>2. \A n \in registered : n \in linked <=> attempts[n] = 0
    BY DEF RegistryInv, EntriesAgree, RegistryTypes
  <2>3. disposed /\ running = <<>> => linked = {}
    BY DEF RegistryInv, LoopIsAtWork
  <2>4. \A k \in Kinds : ledger[k].active = Cardinality({n \in linked : kindOf[n] = k})
    BY DEF RegistryInv, CountsAgree, ofKind
  <2> QED
    BY <2>1, <2>2, <2>3, <2>4 DEF EachResourceIsCleanedOnce
<1> QED
  BY <1>1, RegistryStarts, RegistrySteps, PTL DEF RegistrySpec

-----------------------------------------------------------------------------
(* SourceReads.                                                            *)

Envelopes == [base : Nat, own : BOOLEAN]
Rows == [under : LazyParents, page : Nat, revision : Nat]
Reads == [kind : {"query", "children"}, under : LazyParents \cup {NoParent}, page : Nat,
          expected : Nat, generation : Nat, local : Int,
          stage : {"asked", "answered", "malformed", "failed", "queued"}, revision : Nat]
EnvelopeTasks == [task : {"envelope"}, generation : Nat, envelope : Envelopes]
MergeTasks == [task : {"merge"}, read : Reads]
ReloadTasks == [task : {"reload"}, generation : Nat, revision : Nat]
Intake == EnvelopeTasks \cup MergeTasks \cup ReloadTasks

Sources == [revision : Nat, wire : Seq(Envelopes)]
Documents == [generation : Nat, local : Int, revision : Nat, pending : BOOLEAN,
              rows : SUBSET Rows, whole : SUBSET LazyParents]
Links == [revision : Nat, stopped : BOOLEAN, reloading : BOOLEAN, own : SUBSET Nat]

SourceTypes ==
    /\ remote \in Sources /\ held \in Documents /\ link \in Links
    /\ intake \in Seq(Intake)
    /\ reads \subseteq Reads

(* Revisions: the session is not ahead of the document, the document not   *)
(* of the source; own commits are behind the document, and are between it  *)
(* and the session as long as that runs.                                   *)
RevisionsInOrder ==
    /\ link.revision <= held.revision /\ held.revision <= remote.revision
    /\ \A r \in link.own : r < held.revision
    /\ ~link.stopped => \A r \in link.revision .. (held.revision - 1) : r \in link.own

pagesOf(rows, p) == {row.page : row \in {c \in rows : c.under = p}}

RowsFit(doc) ==
    /\ \A row \in doc.rows : row.revision = doc.revision
    /\ \A p \in LazyParents : \E n \in 0 .. PageCount[p] :
          /\ pagesOf(doc.rows, p) = 1 .. n
          /\ p \in doc.whole <=> n = PageCount[p]

(* An envelope tells of a commit that was made, and by whom.               *)
EnvelopeFits(e) == e.base < remote.revision /\ (e.base \in link.own => e.own)

(* The changes of the document that will not be undone.                    *)
settledLocal == held.local - (IF held.pending THEN 1 ELSE 0)

(* A read of the present session: its page follows those that are there,   *)
(* and if nothing was changed since it was asked for, an answer of the     *)
(* revision it asked for is of the revision the document is at.            *)
ReadFits(read) ==
    /\ read.generation <= held.generation
    /\ read.kind = "children" /\ read.generation = held.generation =>
        /\ read.under \in LazyParents
        /\ read.page \in 1 .. PageCount[read.under]
        /\ read.page = 1 \/ read.page - 1 \in pagesOf(held.rows, read.under)
        /\ read.expected <= held.revision
        /\ read.local <= settledLocal
        /\ read.stage # "asked" /\ read.revision = read.expected /\ read.local = settledLocal =>
              read.revision = held.revision

TaskFits(t) ==
    /\ t.task = "envelope" => EnvelopeFits(t.envelope)
    /\ t.task = "reload" => t.revision <= remote.revision
    /\ t.task = "merge" =>
        /\ ReadFits(t.read)
        /\ t.read.kind = "children" /\ t.read.stage = "answered"
        /\ t.read.revision = t.read.expected

SourceInv ==
    /\ SourceTypes /\ RevisionsInOrder /\ RowsFit(held)
    /\ \A e \in ToSet(remote.wire) : EnvelopeFits(e)
    /\ \A read \in reads : ReadFits(read)
    /\ \A t \in ToSet(intake) : TaskFits(t)

-----------------------------------------------------------------------------
LEMMA SourceStarts == SourceInit => SourceInv
<1>. SUFFICES ASSUME SourceInit PROVE SourceInv
  OBVIOUS
<1>1. ToSet(<<>>) = {}
  BY DEF ToSet
<1>2. SourceTypes
  <2>1. remote \in Sources
    BY DEF SourceInit, Sources
  <2>2. held \in Documents
    BY DEF SourceInit, Documents
  <2>3. link \in Links
    BY DEF SourceInit, Links, newLink
  <2>. QED
    BY <2>1, <2>2, <2>3 DEF SourceInit, SourceTypes
<1>3. RevisionsInOrder
  BY DEF SourceInit, RevisionsInOrder, newLink
<1>4. RowsFit(held)
  <2>1. ASSUME NEW p \in LazyParents
        PROVE  pagesOf({}, p) = 1 .. 0 /\ 0 \in 0 .. PageCount[p] /\ 0 # PageCount[p]
    BY SourceReadsAssumption DEF pagesOf
  <2>. QED
    BY <2>1 DEF SourceInit, RowsFit
<1>. QED
  BY <1>1, <1>2, <1>3, <1>4 DEF SourceInit, SourceInv

(* The fields of the records.                                              *)
LEMMA SourceFields ==
    ASSUME NEW x \in Sources
    PROVE  /\ x.revision \in Nat /\ x.wire \in Seq(Envelopes)
           /\ ToSet(x.wire) \subseteq Envelopes
<1>1. x.wire \in Seq(Envelopes) /\ x.revision \in Nat
  BY DEF Sources
<1>. QED
  BY <1>1, ToSetFacts, ElementOfSeq

LEMMA DocumentFields ==
    ASSUME NEW d \in Documents
    PROVE  /\ d.generation \in Nat /\ d.local \in Int /\ d.revision \in Nat
           /\ d.pending \in BOOLEAN /\ d.rows \in SUBSET Rows
           /\ d.whole \in SUBSET LazyParents
BY DEF Documents

LEMMA LinkFields ==
    ASSUME NEW x \in Links
    PROVE  /\ x.revision \in Nat /\ x.stopped \in BOOLEAN
           /\ x.own \in SUBSET Nat
BY DEF Links

LEMMA FieldTypes ==
    ASSUME SourceTypes
    PROVE  /\ remote.revision \in Nat /\ remote.wire \in Seq(Envelopes)
           /\ ToSet(remote.wire) \subseteq Envelopes /\ ToSet(intake) \subseteq Intake
           /\ held.generation \in Nat /\ held.local \in Int /\ held.revision \in Nat
           /\ held.pending \in BOOLEAN /\ held.rows \in SUBSET Rows
           /\ held.whole \in SUBSET LazyParents
           /\ link.revision \in Nat /\ link.stopped \in BOOLEAN /\ link.own \in SUBSET Nat
<1>1. ToSet(intake) \subseteq Intake
  BY ToSetFacts, ElementOfSeq DEF SourceTypes
<1>. QED
  BY <1>1, SourceFields, DocumentFields, LinkFields DEF SourceTypes

LEMMA TasksKeepFitting ==
    ASSUME SourceTypes, SourceTypes', remote'.revision >= remote.revision,
           \A e \in Envelopes : EnvelopeFits(e) => EnvelopeFits(e)',
           \A read \in Reads : ReadFits(read) => ReadFits(read)'
    PROVE  \A t \in Intake : TaskFits(t) => TaskFits(t)'
<1>. SUFFICES ASSUME NEW t \in Intake, TaskFits(t) PROVE TaskFits(t)'
  OBVIOUS
<1>1. t.task = "envelope" => t.envelope \in Envelopes
  BY DEF Intake, EnvelopeTasks, MergeTasks, ReloadTasks
<1>2. t.task = "reload" => t.revision \in Nat
  BY DEF Intake, EnvelopeTasks, MergeTasks, ReloadTasks
<1>3. t.task = "merge" => t.read \in Reads
  BY DEF Intake, EnvelopeTasks, MergeTasks, ReloadTasks
<1>. QED
  BY <1>1, <1>2, <1>3, SourceFields DEF TaskFits, SourceTypes

(* What holds of what waits goes on to hold while the document stands.     *)
Stands ==
    /\ held' = held /\ link'.revision = link.revision /\ link'.own = link.own
    /\ link'.stopped \/ ~link.stopped
    /\ remote'.revision >= remote.revision

LEMMA StandingKeeps ==
    ASSUME SourceInv, SourceTypes', Stands
    PROVE  /\ RevisionsInOrder' /\ RowsFit(held)'
           /\ \A e \in Envelopes : EnvelopeFits(e) => EnvelopeFits(e)'
           /\ \A read \in Reads : ReadFits(read) => ReadFits(read)'
           /\ \A t \in Intake : TaskFits(t) => TaskFits(t)'
<1>1. RevisionsInOrder' /\ RowsFit(held)'
  BY FieldTypes, SourceFields DEF SourceInv, SourceTypes, Stands, RevisionsInOrder, RowsFit
<1>2. \A e \in Envelopes : EnvelopeFits(e) => EnvelopeFits(e)'
  BY FieldTypes DEF SourceInv, SourceTypes, Stands, EnvelopeFits, Envelopes, Sources
<1>3. \A read \in Reads : ReadFits(read) => ReadFits(read)'
  BY DEF Stands, ReadFits, settledLocal
<1>4. \A t \in Intake : TaskFits(t) => TaskFits(t)'
  BY <1>2, <1>3, TasksKeepFitting DEF Stands, SourceInv
<1>. QED
  BY <1>1, <1>2, <1>3, <1>4

(* The document moves on, in the same session.                             *)
Moves ==
    /\ held'.generation = held.generation
    /\ \A p \in LazyParents : pagesOf(held.rows, p)' = pagesOf(held.rows, p)
    /\ \/ settledLocal' = settledLocal /\ held'.revision = held.revision
       \/ settledLocal' > settledLocal /\ held'.revision >= held.revision

LEMMA MovingKeeps ==
    ASSUME SourceTypes, SourceTypes', Moves
    PROVE  \A read \in Reads : ReadFits(read) => ReadFits(read)'
<1>. SUFFICES ASSUME NEW read \in Reads, ReadFits(read) PROVE ReadFits(read)'
  OBVIOUS
<1>1. /\ settledLocal \in Int /\ settledLocal' \in Int /\ held.revision \in Nat /\ held'.revision \in Nat
      /\ read.local \in Int /\ read.expected \in Nat /\ read.revision \in Nat
  BY DocumentFields DEF SourceTypes, settledLocal, Reads
<1>. QED
  BY <1>1 DEF ReadFits, Moves

LEMMA WaitingKeeps ==
    ASSUME SourceInv, SourceTypes', remote'.revision >= remote.revision, Moves,
           \A e \in Envelopes : EnvelopeFits(e) => EnvelopeFits(e)'
    PROVE  /\ \A e \in ToSet(remote.wire) : EnvelopeFits(e)'
           /\ \A read \in reads : ReadFits(read)'
           /\ \A t \in ToSet(intake) : TaskFits(t)'
<1>1. ToSet(remote.wire) \subseteq Envelopes /\ ToSet(intake) \subseteq Intake /\ reads \subseteq Reads
  BY FieldTypes DEF SourceInv, SourceTypes
<1>. QED
  BY <1>1, MovingKeeps, TasksKeepFitting DEF SourceInv

LEMMA BroughtPages ==
    ASSUME NEW rows \in SUBSET Rows, NEW r \in Nat
    PROVE  /\ brought(rows, r) \in SUBSET Rows
           /\ \A row \in brought(rows, r) : row.revision = r
           /\ \A p \in LazyParents : pagesOf(brought(rows, r), p) = pagesOf(rows, p)
<1>1. \A row \in rows : /\ [row EXCEPT !.revision = r] \in Rows
                        /\ [row EXCEPT !.revision = r].revision = r
                        /\ [row EXCEPT !.revision = r].under = row.under
                        /\ [row EXCEPT !.revision = r].page = row.page
  BY DEF Rows
<1>2. brought(rows, r) \in SUBSET Rows /\ \A row \in brought(rows, r) : row.revision = r
  BY <1>1 DEF brought
<1>3. ASSUME NEW p \in LazyParents
      PROVE  pagesOf(brought(rows, r), p) = pagesOf(rows, p)
  <2>1. pagesOf(brought(rows, r), p) \subseteq pagesOf(rows, p)
    <3>. SUFFICES ASSUME NEW row \in rows, [row EXCEPT !.revision = r].under = p
                  PROVE  [row EXCEPT !.revision = r].page \in pagesOf(rows, p)
      BY DEF brought, pagesOf
    <3>. QED
      BY <1>1 DEF pagesOf
  <2>2. pagesOf(rows, p) \subseteq pagesOf(brought(rows, r), p)
    <3>. SUFFICES ASSUME NEW row \in rows, row.under = p
                  PROVE  row.page \in pagesOf(brought(rows, r), p)
      BY DEF pagesOf
    <3>1. PICK u \in brought(rows, r) : u.under = p /\ u.page = row.page
      BY <1>1 DEF brought
    <3>. QED
      BY <3>1 DEF pagesOf
  <2>. QED
    BY <2>1, <2>2
<1>. QED
  BY <1>2, <1>3

-----------------------------------------------------------------------------
(* Commits and envelopes.                                                  *)

LEMMA OtherCommitsKeeps == ASSUME SourceInv, OtherCommits PROVE SourceInv'
<1>0. PICK e : e = [base |-> remote.revision, own |-> FALSE]
  OBVIOUS
<1>1. /\ remote' = [revision |-> remote.revision + 1, wire |-> Append(remote.wire, e)]
      /\ UNCHANGED <<held, link, intake, reads>>
  BY <1>0 DEF OtherCommits, moves
<1>2. SourceTypes /\ remote.revision \in Nat /\ remote.wire \in Seq(Envelopes)
  BY FieldTypes DEF SourceInv
<1>3. e \in Envelopes
  BY <1>0, <1>2 DEF Envelopes
<1>4. remote'.wire \in Seq(Envelopes) /\ ToSet(remote'.wire) = ToSet(remote.wire) \cup {e}
  BY <1>1, <1>2, <1>3, AppendSet
<1>5. SourceTypes'
  BY <1>1, <1>2, <1>4 DEF SourceTypes, Sources
<1>6. Stands
  BY <1>1, <1>2, FieldTypes DEF Stands
<1>7. EnvelopeFits(e)'
  BY <1>0, <1>1, <1>2, FieldTypes DEF EnvelopeFits, SourceInv, RevisionsInOrder
<1>. QED
  BY <1>1, <1>2, <1>4, <1>5, <1>6, <1>7, StandingKeeps, FieldTypes DEF SourceInv, SourceTypes

LEMMA LocalCommitsKeeps == ASSUME SourceInv, LocalCommits PROVE SourceInv'
<1>1. /\ held' = [held EXCEPT !.pending = TRUE, !.local = held.local + 1] /\ ~held.pending
      /\ UNCHANGED <<remote, link, intake, reads>>
  BY DEF LocalCommits
<1>2. SourceTypes'
  <2>1. held \in Documents /\ held.local + 1 \in Int
    BY FieldTypes DEF SourceInv, SourceTypes
  <2>2. held' \in Documents
    BY <1>1, <2>1 DEF Documents
  <2>. QED
    BY <1>1, <2>2 DEF SourceInv, SourceTypes
<1>3. Moves
  BY <1>1, FieldTypes DEF SourceInv, SourceTypes, Documents, Moves, settledLocal
<1>4. RevisionsInOrder' /\ RowsFit(held)'
  BY <1>1 DEF SourceInv, SourceTypes, Documents, RevisionsInOrder, RowsFit
<1>5. /\ \A e \in Envelopes : EnvelopeFits(e) => EnvelopeFits(e)'
      /\ remote'.revision >= remote.revision
  BY <1>1, FieldTypes DEF EnvelopeFits, SourceInv
<1>. QED
  BY <1>1, <1>2, <1>3, <1>4, <1>5, WaitingKeeps DEF SourceInv

LEMMA AcknowledgedKeeps == ASSUME SourceInv, Acknowledged PROVE SourceInv'
<1>0. PICK e : e = [base |-> remote.revision, own |-> TRUE]
  OBVIOUS
<1>1. /\ held.pending /\ remote.revision = held.revision
      /\ remote' = [revision |-> remote.revision + 1, wire |-> Append(remote.wire, e)]
      /\ held' = [held EXCEPT !.pending = FALSE, !.revision = remote.revision + 1,
                              !.rows = brought(held.rows, remote.revision + 1)]
      /\ link' = [link EXCEPT !.own = link.own \cup {held.revision}]
      /\ UNCHANGED <<intake, reads>>
  BY <1>0 DEF Acknowledged, moves
<1>2. SourceTypes /\ RevisionsInOrder /\ RowsFit(held)
  BY DEF SourceInv
<1>3. e \in Envelopes
  BY <1>0, <1>2, FieldTypes DEF Envelopes
<1>4. remote'.wire \in Seq(Envelopes) /\ ToSet(remote'.wire) = ToSet(remote.wire) \cup {e}
  BY <1>1, <1>2, <1>3, FieldTypes, AppendSet
<1>5. /\ brought(held.rows, remote.revision + 1) \in SUBSET Rows
      /\ \A row \in held'.rows : row.revision = held'.revision
      /\ \A p \in LazyParents : pagesOf(held'.rows, p) = pagesOf(held.rows, p)
  <2>1. held.rows \in SUBSET Rows /\ remote.revision + 1 \in Nat /\ held \in Documents
    BY <1>2, FieldTypes DEF SourceTypes
  <2>2. held'.rows = brought(held.rows, remote.revision + 1) /\ held'.revision = remote.revision + 1
    BY <1>1, <2>1 DEF Documents
  <2>. QED
    BY <2>1, <2>2, BroughtPages
<1>6. SourceTypes'
  <2>1. held \in Documents /\ link \in Links /\ remote.revision + 1 \in Nat /\ held.revision \in Nat
    BY <1>2, FieldTypes DEF SourceTypes
  <2>2. held' \in Documents
    BY <1>1, <1>5, <2>1 DEF Documents
  <2>3. link' \in Links
    BY <1>1, <2>1 DEF Links
  <2>4. remote' \in Sources
    BY <1>1, <1>4, <2>1 DEF Sources
  <2>. QED
    BY <1>1, <1>2, <2>2, <2>3, <2>4 DEF SourceTypes
<1>7. /\ held'.revision = held.revision + 1 /\ held'.generation = held.generation
      /\ held'.local = held.local /\ ~held'.pending /\ held'.whole = held.whole
      /\ link'.revision = link.revision /\ link'.stopped = link.stopped
      /\ link'.own = link.own \cup {held.revision}
      /\ remote'.revision = remote.revision + 1
  BY <1>1, <1>2 DEF SourceTypes, Documents, Links
<1>8. Moves
  BY <1>1, <1>2, <1>5, <1>7, FieldTypes DEF Moves, settledLocal
<1>9. RevisionsInOrder'
  <2>1. \A r \in link'.own : r < held'.revision
    BY <1>2, <1>7, FieldTypes DEF RevisionsInOrder
  <2>2. ~link'.stopped => \A r \in link'.revision .. (held'.revision - 1) : r \in link'.own
    BY <1>2, <1>7, FieldTypes DEF RevisionsInOrder
  <2>. QED
    BY <1>1, <1>2, <1>7, <2>1, <2>2, FieldTypes DEF RevisionsInOrder
<1>10. RowsFit(held)'
  BY <1>2, <1>5, <1>7 DEF RowsFit
<1>11. /\ \A x \in Envelopes : EnvelopeFits(x) => EnvelopeFits(x)'
       /\ EnvelopeFits(e)'
  <2>1. ASSUME NEW x \in Envelopes, EnvelopeFits(x) PROVE EnvelopeFits(x)'
    <3>1. x.base \in Nat /\ x.base < held.revision
      BY <1>1, <2>1 DEF EnvelopeFits, Envelopes
    <3>. QED
      BY <1>1, <1>2, <1>7, <2>1, <3>1, FieldTypes DEF EnvelopeFits
  <2>2. EnvelopeFits(e)'
    BY <1>0, <1>2, <1>7, FieldTypes DEF EnvelopeFits
  <2>. QED
    BY <2>1, <2>2
<1>12. remote'.revision >= remote.revision
  BY <1>2, <1>7, FieldTypes
<1>. QED
  BY <1>1, <1>4, <1>6, <1>8, <1>9, <1>10, <1>11, <1>12, WaitingKeeps DEF SourceInv

LEMMA ConflictsKeeps == ASSUME SourceInv, Conflicts PROVE SourceInv'
<1>1. /\ held.pending
      /\ held' = [held EXCEPT !.pending = FALSE, !.local = held.local - 1]
      /\ link' = [link EXCEPT !.stopped = TRUE, !.reloading = TRUE]
      /\ UNCHANGED <<remote, intake, reads>>
  BY DEF Conflicts, reloadRequested
<1>2. SourceTypes /\ RevisionsInOrder /\ RowsFit(held)
  BY DEF SourceInv
<1>3. SourceTypes'
  <2>1. held \in Documents /\ link \in Links /\ held.local - 1 \in Int
    BY <1>2, FieldTypes DEF SourceTypes
  <2>2. held' \in Documents
    BY <1>1, <2>1 DEF Documents
  <2>3. link' \in Links
    BY <1>1, <2>1 DEF Links
  <2>. QED
    BY <1>1, <1>2, <2>2, <2>3 DEF SourceTypes
<1>4. /\ held'.revision = held.revision /\ held'.generation = held.generation
      /\ held'.local = held.local - 1 /\ ~held'.pending
      /\ held'.rows = held.rows /\ held'.whole = held.whole
      /\ link'.revision = link.revision /\ link'.stopped /\ link'.own = link.own
  BY <1>1, <1>2 DEF SourceTypes, Documents, Links
<1>5. Moves
  BY <1>1, <1>2, <1>4, FieldTypes DEF Moves, settledLocal
<1>6. RevisionsInOrder' /\ RowsFit(held)'
  BY <1>1, <1>2, <1>4 DEF RevisionsInOrder, RowsFit
<1>7. /\ \A e \in Envelopes : EnvelopeFits(e) => EnvelopeFits(e)'
      /\ remote'.revision >= remote.revision
  BY <1>1, <1>2, <1>4, FieldTypes DEF EnvelopeFits
<1>. QED
  BY <1>1, <1>3, <1>5, <1>6, <1>7, WaitingKeeps DEF SourceInv

LEMMA EnvelopeArrivesKeeps == ASSUME SourceInv, EnvelopeArrives PROVE SourceInv'
<1>0. PICK t : t = [task |-> "envelope", generation |-> held.generation, envelope |-> Head(remote.wire)]
  OBVIOUS
<1>1. /\ remote.wire # <<>> /\ remote' = [remote EXCEPT !.wire = Tail(remote.wire)]
      /\ intake' = intake \/ intake' = Append(intake, t)
      /\ UNCHANGED <<held, link, reads>>
  BY <1>0 DEF EnvelopeArrives
<1>2. SourceTypes /\ remote.wire \in Seq(Envelopes) /\ intake \in Seq(Intake)
  BY FieldTypes DEF SourceInv, SourceTypes
<1>3. /\ Tail(remote.wire) \in Seq(Envelopes) /\ ToSet(Tail(remote.wire)) \subseteq ToSet(remote.wire)
      /\ Head(remote.wire) \in Envelopes /\ Head(remote.wire) \in ToSet(remote.wire)
  BY <1>1, <1>2, TailSet, HeadIsFirst
<1>4. t \in Intake
  <2>1. held.generation \in Nat
    BY <1>2, FieldTypes
  <2>2. t \in EnvelopeTasks
    BY <1>0, <1>3, <2>1 DEF EnvelopeTasks
  <2>. QED
    BY <2>2 DEF Intake
<1>5. intake' \in Seq(Intake) /\ ToSet(intake') \subseteq ToSet(intake) \cup {t}
  <2>1. Append(intake, t) \in Seq(Intake) /\ ToSet(Append(intake, t)) = ToSet(intake) \cup {t}
    BY <1>2, <1>4, AppendSet
  <2>. QED
    BY <1>1, <1>2, <2>1
<1>6. remote'.revision = remote.revision /\ remote'.wire = Tail(remote.wire)
  BY <1>1, <1>2 DEF SourceTypes, Sources
<1>7. SourceTypes'
  <2>1. remote' \in Sources
    BY <1>1, <1>2, <1>3 DEF SourceTypes, Sources
  <2>. QED
    BY <1>1, <1>2, <1>5, <2>1 DEF SourceTypes
<1>8. Stands
  BY <1>1, <1>2, <1>6, FieldTypes DEF Stands
<1>9. TaskFits(t)'
  <2>1. EnvelopeFits(Head(remote.wire))
    BY <1>3 DEF SourceInv
  <2>2. t.task = "envelope" /\ t.envelope = Head(remote.wire)
    BY <1>0
  <2>3. EnvelopeFits(t.envelope)'
    BY <1>1, <1>6, <2>1, <2>2 DEF EnvelopeFits
  <2>. QED
    BY <2>2, <2>3 DEF TaskFits
<1>. QED
  BY <1>1, <1>2, <1>3, <1>5, <1>6, <1>7, <1>8, <1>9, StandingKeeps, FieldTypes DEF SourceInv, SourceTypes

(* The document and the session after an envelope that follows on.         *)
LEMMA EnvelopeAppliesKeeps ==
    ASSUME SourceInv, RunEnvelope, NEW e, e = intake[1].envelope, ~link.stopped, ~held.pending,
           e.base = link.revision, ~(e.own /\ e.base \in link.own),
           link' = [link EXCEPT !.revision = e.base + 1],
           held' = [held EXCEPT !.local = held.local + 1, !.revision = e.base + 1,
                                !.rows = brought(held.rows, e.base + 1)]
    PROVE  SourceInv'
<1>1. /\ intake # <<>> /\ intake[1].task = "envelope" /\ intake' = Tail(intake)
      /\ UNCHANGED <<remote, reads>>
  BY DEF RunEnvelope, atIntake
<1>2. /\ SourceTypes /\ RevisionsInOrder /\ RowsFit(held)
      /\ held \in Documents /\ link \in Links /\ intake \in Seq(Intake)
  BY DEF SourceInv, SourceTypes
<1>3. /\ Tail(intake) \in Seq(Intake) /\ ToSet(Tail(intake)) \subseteq ToSet(intake)
      /\ intake[1] \in Intake /\ intake[1] \in ToSet(intake)
  BY <1>1, <1>2, TailSet
<1>4. EnvelopeFits(e)
  BY <1>1, <1>3 DEF SourceInv, TaskFits
<1>5. link.revision = held.revision /\ e.base = held.revision
  <2>1. link.revision \notin link.own
    BY <1>4 DEF EnvelopeFits
  <2>. QED
    BY <1>2, <2>1, FieldTypes DEF RevisionsInOrder
<1>6. e.base + 1 = held.revision + 1 /\ held.revision + 1 \in Nat /\ held.local + 1 \in Int
  BY <1>2, <1>5, FieldTypes
<1>7. /\ held'.revision = held.revision + 1 /\ held'.generation = held.generation
      /\ held'.local = held.local + 1 /\ held'.pending = held.pending /\ held'.whole = held.whole
      /\ held'.rows = brought(held.rows, held.revision + 1)
      /\ link'.revision = link.revision + 1 /\ link'.stopped = link.stopped
      /\ link'.own = link.own
  BY <1>2, <1>5, <1>6 DEF Documents, Links
<1>8. /\ held'.rows \in SUBSET Rows
      /\ \A row \in held'.rows : row.revision = held'.revision
      /\ \A p \in LazyParents : pagesOf(held'.rows, p) = pagesOf(held.rows, p)
  <2>1. held.rows \in SUBSET Rows
    BY <1>2, FieldTypes
  <2>. QED
    BY <1>6, <1>7, <2>1, BroughtPages
<1>9. SourceTypes'
  <2>1. held' \in Documents
    BY <1>2, <1>6, <1>7, <1>8 DEF Documents
  <2>2. link' \in Links
    BY <1>2, <1>6 DEF Links
  <2>. QED
    BY <1>1, <1>2, <1>3, <2>1, <2>2 DEF SourceTypes
<1>10. Moves
  BY <1>2, <1>7, <1>8, FieldTypes DEF Moves, settledLocal
<1>11. RevisionsInOrder'
  BY <1>1, <1>2, <1>4, <1>5, <1>7, FieldTypes DEF RevisionsInOrder, EnvelopeFits
<1>12. RowsFit(held)'
  BY <1>2, <1>7, <1>8 DEF RowsFit
<1>13. /\ \A x \in Envelopes : EnvelopeFits(x) => EnvelopeFits(x)'
       /\ remote'.revision >= remote.revision
  BY <1>1, <1>2, <1>7, FieldTypes DEF EnvelopeFits
<1>. QED
  BY <1>1, <1>3, <1>9, <1>10, <1>11, <1>12, <1>13, WaitingKeeps DEF SourceInv

LEMMA RunEnvelopeKeeps == ASSUME SourceInv, RunEnvelope PROVE SourceInv'
<1>1. /\ intake # <<>> /\ intake[1].task = "envelope" /\ intake' = Tail(intake)
      /\ UNCHANGED <<remote, reads>>
  BY DEF RunEnvelope, atIntake
<1>2. /\ SourceTypes /\ RevisionsInOrder /\ RowsFit(held)
      /\ held \in Documents /\ link \in Links /\ intake \in Seq(Intake)
  BY DEF SourceInv, SourceTypes
<1>3. /\ Tail(intake) \in Seq(Intake) /\ ToSet(Tail(intake)) \subseteq ToSet(intake)
      /\ intake[1] \in Intake /\ intake[1] \in ToSet(intake)
  BY <1>1, <1>2, TailSet
<1>4. PICK e : e = intake[1].envelope
  OBVIOUS
<1>5. ASSUME UNCHANGED held, link' \in Links, RevisionsInOrder', link'.own = link.own
      PROVE  SourceInv'
  <2>1. SourceTypes'
    BY <1>1, <1>2, <1>3, <1>5 DEF SourceTypes
  <2>2. Moves /\ remote'.revision >= remote.revision
    BY <1>1, <1>2, <1>5, FieldTypes DEF Moves, settledLocal
  <2>3. \A x \in Envelopes : EnvelopeFits(x) => EnvelopeFits(x)'
    BY <1>1, <1>5 DEF EnvelopeFits
  <2>4. RowsFit(held)'
    BY <1>2, <1>5 DEF RowsFit
  <2>. QED
    BY <1>1, <1>3, <1>5, <2>1, <2>2, <2>3, <2>4, WaitingKeeps DEF SourceInv
<1>6. CASE UNCHANGED <<held, link>>
  BY <1>1, <1>2, <1>5, <1>6 DEF RevisionsInOrder
<1>7. CASE link' = reloadRequested /\ UNCHANGED held
  <2>1. link' \in Links /\ link'.own = link.own /\ link'.revision = link.revision /\ link'.stopped
    BY <1>2, <1>7 DEF reloadRequested, Links
  <2>2. RevisionsInOrder'
    BY <1>1, <1>2, <1>7, <2>1 DEF RevisionsInOrder
  <2>. QED
    BY <1>5, <1>7, <2>1, <2>2
<1>8. CASE /\ e.base = link.revision /\ e.base \in link.own /\ ~link.stopped
           /\ link' = [link EXCEPT !.revision = e.base + 1] /\ UNCHANGED held
  <2>1. /\ e.base + 1 \in Nat /\ link'.revision = link.revision + 1
        /\ link'.own = link.own /\ link'.stopped = link.stopped
    BY <1>2, <1>8, FieldTypes DEF Links
  <2>2. link' \in Links
    BY <1>2, <1>8, <2>1 DEF Links
  <2>3. RevisionsInOrder'
    BY <1>1, <1>2, <1>8, <2>1, FieldTypes DEF RevisionsInOrder
  <2>. QED
    BY <1>5, <1>8, <2>1, <2>2, <2>3
<1>9. CASE /\ ~link.stopped /\ ~held.pending /\ e.base = link.revision
           /\ ~(e.own /\ e.base \in link.own)
           /\ link' = [link EXCEPT !.revision = e.base + 1]
           /\ held' = [held EXCEPT !.local = held.local + 1, !.revision = e.base + 1,
                                   !.rows = brought(held.rows, e.base + 1)]
  BY <1>4, <1>9, EnvelopeAppliesKeeps
<1>. QED
  BY <1>4, <1>6, <1>7, <1>8, <1>9 DEF RunEnvelope

-----------------------------------------------------------------------------
(* Reads.                                                                  *)

LEMMA NewReadFits ==
    ASSUME SourceInv, NEW read \in Reads, read.generation = held.generation,
           read.stage = "asked", read.local = held.local, read.expected = link.revision,
           read.kind = "children" =>
               /\ read.under \in LazyParents /\ ~held.pending
               /\ read.page \in 1 .. PageCount[read.under]
               /\ read.page = 1 \/ read.page - 1 \in pagesOf(held.rows, read.under)
    PROVE  ReadFits(read)
<1>1. /\ held.generation \in Nat /\ held.local \in Int /\ link.revision \in Nat /\ held.revision \in Nat
      /\ link.revision <= held.revision
  BY FieldTypes DEF SourceInv, RevisionsInOrder
<1>. QED
  BY <1>1 DEF ReadFits, settledLocal

LEMMA BeginningKeeps ==
    ASSUME SourceInv, NEW read \in Reads, ReadFits(read), begins(read)
    PROVE  SourceInv'
<1>1. reads' = reads \cup {read} /\ UNCHANGED <<remote, held, link, intake>>
  BY DEF begins
<1>2. SourceTypes'
  BY <1>1 DEF SourceInv, SourceTypes
<1>3. Stands
  BY <1>1, FieldTypes DEF SourceInv, Stands
<1>. QED
  BY <1>1, <1>2, <1>3, StandingKeeps, FieldTypes DEF SourceInv, SourceTypes

LEMMA AskingKeeps ==
    ASSUME SourceInv, QueryDataSource \/ \E p \in LazyParents : LoadDataSourceChildren(p)
    PROVE  SourceInv'
<1>1. SourceTypes /\ link.revision \in Nat /\ held.generation \in Nat /\ held.local \in Int
      /\ held.rows \in SUBSET Rows
  BY FieldTypes DEF SourceInv
<1>2. ASSUME NEW kind \in {"query", "children"}, NEW p \in LazyParents \cup {NoParent}, NEW page \in Nat
      PROVE  /\ asks(kind, p, page) \in Reads
             /\ asks(kind, p, page).kind = kind /\ asks(kind, p, page).under = p
             /\ asks(kind, p, page).page = page /\ asks(kind, p, page).stage = "asked"
             /\ asks(kind, p, page).generation = held.generation
             /\ asks(kind, p, page).local = held.local
             /\ asks(kind, p, page).expected = link.revision
  BY <1>1 DEF asks, Reads
<1>3. CASE QueryDataSource
  <2>1. ReadFits(asks("query", NoParent, 0)) /\ asks("query", NoParent, 0) \in Reads
    BY <1>2, NewReadFits
  <2>. QED
    BY <1>3, <2>1, BeginningKeeps DEF QueryDataSource
<1>4. ASSUME NEW p \in LazyParents, LoadDataSourceChildren(p)
      PROVE  SourceInv'
  <2>1. PICK page \in {1} \cup {row.page + 1 : row \in {c \in held.rows : c.under = p}} :
          page <= PageCount[p] /\ begins(asks("children", p, page))
    BY <1>4 DEF LoadDataSourceChildren
  <2>2. \A row \in held.rows : row.page \in Nat
    BY <1>1 DEF Rows
  <2>3. page = 1 \/ \E row \in held.rows : row.under = p /\ row.page \in Nat /\ page = row.page + 1
    BY <2>1, <2>2
  <2>4. page \in Nat /\ page >= 1 /\ (page = 1 \/ page - 1 \in pagesOf(held.rows, p))
    BY <2>3 DEF pagesOf
  <2>5. ~held.pending /\ page \in 1 .. PageCount[p]
    BY <1>4, <2>1, <2>4, SourceReadsAssumption DEF LoadDataSourceChildren
  <2>6. asks("children", p, page) \in Reads /\ ReadFits(asks("children", p, page))
    BY <1>2, <2>4, <2>5, NewReadFits
  <2>. QED
    BY <2>1, <2>6, BeginningKeeps
<1>. QED
  BY <1>3, <1>4

LEMMA SourceAnswersKeeps ==
    ASSUME SourceInv, NEW read \in reads, SourceAnswers(read)
    PROVE  SourceInv'
<1>1. PICK stage \in {"answered", "malformed", "failed"} :
        /\ reads' = (reads \ {read}) \cup {[read EXCEPT !.stage = stage, !.revision = remote.revision]}
        /\ read.stage = "asked" /\ UNCHANGED <<remote, held, link, intake>>
  BY DEF SourceAnswers
<1>2. /\ SourceTypes /\ RevisionsInOrder /\ read \in Reads /\ remote.revision \in Nat
      /\ held.revision \in Nat /\ held.revision <= remote.revision /\ ReadFits(read)
  BY FieldTypes DEF SourceInv, SourceTypes, RevisionsInOrder
<1>3. PICK answer : answer = [read EXCEPT !.stage = stage, !.revision = remote.revision]
  OBVIOUS
<1>4. /\ answer \in Reads /\ answer.revision = remote.revision /\ answer.kind = read.kind
      /\ answer.generation = read.generation /\ answer.under = read.under /\ answer.page = read.page
      /\ answer.expected = read.expected /\ answer.local = read.local
  BY <1>2, <1>3 DEF Reads
<1>5. read.expected \in Nat
  BY <1>2 DEF Reads
<1>6. ReadFits(answer)
  BY <1>2, <1>4, <1>5 DEF ReadFits
<1>7. SourceTypes'
  BY <1>1, <1>2, <1>3, <1>4 DEF SourceTypes
<1>8. Stands
  BY <1>1, <1>2 DEF Stands
<1>. QED
  BY <1>1, <1>2, <1>3, <1>4, <1>6, <1>7, <1>8, StandingKeeps, FieldTypes DEF SourceInv, SourceTypes

LEMMA ReadAbortedKeeps ==
    ASSUME SourceInv, reads' \subseteq reads, UNCHANGED <<remote, held, link, intake>>
    PROVE  SourceInv'
<1>1. SourceTypes'
  BY DEF SourceInv, SourceTypes
<1>2. Stands
  BY FieldTypes DEF SourceInv, Stands
<1>. QED
  BY <1>1, <1>2, StandingKeeps, FieldTypes DEF SourceInv, SourceTypes

LEMMA ReadContinuesKeeps ==
    ASSUME SourceInv, NEW read \in reads, ReadContinues(read)
    PROVE  SourceInv'
<1>1. PICK queued : queued = [read EXCEPT !.stage = "queued"]
  OBVIOUS
<1>2. PICK t : t = [task |-> "merge", read |-> read]
  OBVIOUS
<1>3. PICK merges \in BOOLEAN :
        /\ merges => /\ read.kind = "children" /\ read.stage = "answered"
                     /\ read.revision = read.expected
        /\ read.stage # "asked"
        /\ link' = reloadRequested \/ link' = link
        /\ reads' = (reads \ {read}) \cup (IF merges THEN {queued} ELSE {})
        /\ intake' = IF merges THEN Append(intake, t) ELSE intake
        /\ UNCHANGED <<remote, held>>
  BY <1>1, <1>2 DEF ReadContinues
<1>4. /\ SourceTypes /\ read \in Reads /\ ReadFits(read)
      /\ link \in Links /\ intake \in Seq(Intake)
  BY DEF SourceInv, SourceTypes
<1>5. /\ queued \in Reads /\ queued.stage = "queued" /\ queued.kind = read.kind
      /\ queued.generation = read.generation /\ queued.under = read.under
      /\ queued.page = read.page /\ queued.expected = read.expected
      /\ queued.local = read.local /\ queued.revision = read.revision
  BY <1>1, <1>4 DEF Reads
<1>6. ReadFits(queued)
  BY <1>3, <1>4, <1>5 DEF ReadFits
<1>7. t \in MergeTasks /\ t.task = "merge" /\ t.read = read
  BY <1>2, <1>4 DEF MergeTasks
<1>8. merges => TaskFits(t)
  BY <1>3, <1>4, <1>7 DEF TaskFits
<1>9. t \in Intake
  BY <1>7 DEF Intake
<1>10. /\ intake' \in Seq(Intake)
       /\ ToSet(intake') \subseteq ToSet(intake) \cup (IF merges THEN {t} ELSE {})
  BY <1>3, <1>4, <1>9, AppendSet
<1>11. /\ link' \in Links /\ link'.revision = link.revision /\ link'.own = link.own
       /\ link'.stopped \/ ~link.stopped
  BY <1>3, <1>4 DEF reloadRequested, Links
<1>12. SourceTypes'
  BY <1>3, <1>4, <1>5, <1>10, <1>11 DEF SourceTypes
<1>13. Stands
  BY <1>3, <1>4, <1>11, FieldTypes DEF Stands
<1>14. /\ RevisionsInOrder' /\ RowsFit(held)'
       /\ \A e \in Envelopes : EnvelopeFits(e) => EnvelopeFits(e)'
       /\ \A x \in Reads : ReadFits(x) => ReadFits(x)'
       /\ \A x \in Intake : TaskFits(x) => TaskFits(x)'
  BY <1>12, <1>13, StandingKeeps
<1>15. \A x \in reads' : ReadFits(x)'
  BY <1>3, <1>4, <1>5, <1>6, <1>14 DEF SourceInv, SourceTypes
<1>16. \A x \in ToSet(intake') : TaskFits(x)'
  BY <1>4, <1>8, <1>9, <1>10, <1>14, FieldTypes DEF SourceInv
<1>17. \A e \in ToSet(remote'.wire) : EnvelopeFits(e)'
  BY <1>3, <1>4, <1>14, FieldTypes DEF SourceInv
<1>. QED
  BY <1>12, <1>14, <1>15, <1>16, <1>17 DEF SourceInv

-----------------------------------------------------------------------------
(* A document under a new session: no read or envelope of before is of it. *)
LEMMA InstallingKeeps ==
    ASSUME SourceInv, NEW d \in Documents, NEW r \in Nat, r <= remote.revision, installed(d, r),
           RowsFit(held'), intake' \in Seq(Intake), ToSet(intake') \subseteq ToSet(intake),
           reads' \subseteq reads, UNCHANGED remote
    PROVE  SourceInv'
<1>1. SourceTypes /\ held.generation \in Nat
  BY FieldTypes DEF SourceInv
<1>2. /\ held' = [d EXCEPT !.generation = held.generation + 1, !.revision = r]
      /\ link' = [revision |-> r, stopped |-> FALSE, reloading |-> FALSE, own |-> {}]
  BY DEF installed, newLink
<1>3. /\ held' \in Documents /\ held'.generation = held.generation + 1 /\ held'.revision = r
  <2>1. held.generation + 1 \in Nat
    BY <1>1
  <2>. QED
    BY <1>2, <2>1 DEF Documents
<1>4. link' \in Links /\ link'.revision = r /\ link'.own = {}
  BY <1>2 DEF Links
<1>5. SourceTypes'
  BY <1>1, <1>3, <1>4 DEF SourceTypes
<1>6. RevisionsInOrder'
  BY <1>1, <1>3, <1>4, FieldTypes DEF RevisionsInOrder
<1>7. ASSUME NEW e \in Envelopes, EnvelopeFits(e) PROVE EnvelopeFits(e)'
  BY <1>4, <1>7 DEF EnvelopeFits
<1>8. ASSUME NEW read \in Reads, ReadFits(read) PROVE ReadFits(read)'
  <2>1. read.generation \in Nat /\ read.generation < held'.generation
    BY <1>1, <1>3, <1>8 DEF ReadFits, Reads
  <2>. QED
    BY <1>1, <1>3, <2>1 DEF ReadFits
<1>9. \A t \in Intake : TaskFits(t) => TaskFits(t)'
  BY <1>1, <1>5, <1>7, <1>8, TasksKeepFitting, FieldTypes
<1>. QED
  BY <1>1, <1>5, <1>6, <1>7, <1>8, <1>9, FieldTypes DEF SourceInv, SourceTypes

LEMMA MergedPages ==
    ASSUME NEW rows \in SUBSET Rows, NEW p \in LazyParents, NEW q \in LazyParents,
           NEW page \in Nat, NEW r \in Nat
    PROVE  /\ childrenOn(q, page, r) \subseteq Rows
           /\ pagesOf(rows \cup childrenOn(q, page, r), p) =
                 pagesOf(rows, p) \cup (IF p = q THEN {page} ELSE {})
<1>1. PICK row : row = [under |-> q, page |-> page, revision |-> r]
  OBVIOUS
<1>2. row \in Rows /\ row.under = q /\ row.page = page /\ childrenOn(q, page, r) = {row}
  BY <1>1 DEF Rows, childrenOn
<1>3. rows \cup childrenOn(q, page, r) = rows \cup {row}
  BY <1>2
<1>4. pagesOf(rows \cup {row}, p) = pagesOf(rows, p) \cup (IF p = q THEN {page} ELSE {})
  BY <1>2 DEF pagesOf
<1>. QED
  BY <1>2, <1>3, <1>4

(* The page that is merged follows the last, or is there already.          *)
LEMMA MergeFits ==
    ASSUME SourceTypes, RowsFit(held), NEW q \in LazyParents, NEW page \in 1 .. PageCount[q],
           page = 1 \/ page - 1 \in pagesOf(held.rows, q),
           NEW d \in Documents, d.revision = held.revision,
           d.rows = held.rows \cup childrenOn(q, page, held.revision),
           d.whole = IF page = PageCount[q] THEN held.whole \cup {q} ELSE held.whole
    PROVE  RowsFit(d)
<1>1. held.rows \in SUBSET Rows /\ held.revision \in Nat /\ page \in Nat
  BY FieldTypes
<1>2. \A row \in d.rows : row.revision = d.revision
  BY DEF RowsFit, childrenOn
<1>3. ASSUME NEW p \in LazyParents
      PROVE  \E n \in 0 .. PageCount[p] :
                pagesOf(d.rows, p) = 1 .. n /\ (p \in d.whole <=> n = PageCount[p])
  <2>1. PICK n \in 0 .. PageCount[p] :
          pagesOf(held.rows, p) = 1 .. n /\ (p \in held.whole <=> n = PageCount[p])
    BY DEF RowsFit
  <2>2. pagesOf(d.rows, p) = pagesOf(held.rows, p) \cup (IF p = q THEN {page} ELSE {})
    BY <1>1, MergedPages
  <2>3. PageCount[p] \in Nat \ {0}
    BY SourceReadsAssumption
  <2>4. CASE p # q
    BY <2>1, <2>2, <2>4
  <2>5. CASE p = q /\ page \in 1 .. n
    <3>1. pagesOf(d.rows, p) = 1 .. n
      BY <2>1, <2>2, <2>5
    <3>2. p \in d.whole <=> n = PageCount[p]
      BY <2>1, <2>3, <2>5
    <3>. QED
      BY <3>1, <3>2
  <2>6. CASE p = q /\ page \notin 1 .. n
    <3>1. page = n + 1
      BY <1>1, <2>1, <2>3, <2>6
    <3>2. pagesOf(d.rows, p) = 1 .. page
      <4>1. n \in Nat
        BY <2>1, <2>3
      <4>2. 1 .. (n + 1) = (1 .. n) \cup {n + 1}
        BY <4>1
      <4>. QED
        BY <2>1, <2>2, <2>6, <3>1, <4>2
    <3>3. page \in 0 .. PageCount[p] /\ (p \in d.whole <=> page = PageCount[p])
      BY <1>1, <2>1, <2>3, <2>6, <3>1
    <3>. QED
      BY <3>2, <3>3
  <2>. QED
    BY <2>4, <2>5, <2>6
<1>. QED
  BY <1>2, <1>3 DEF RowsFit

LEMMA RunMergeKeeps == ASSUME SourceInv, RunMerge PROVE SourceInv'
<1>1. PICK read : read = intake[1].read
  OBVIOUS
<1>2. /\ intake # <<>> /\ intake[1].task = "merge" /\ intake' = Tail(intake)
      /\ reads' \subseteq reads /\ UNCHANGED remote
  BY DEF RunMerge, atIntake
<1>3. /\ SourceTypes /\ RevisionsInOrder /\ RowsFit(held)
      /\ held \in Documents /\ link \in Links /\ intake \in Seq(Intake)
  BY DEF SourceInv, SourceTypes
<1>4. /\ Tail(intake) \in Seq(Intake) /\ ToSet(Tail(intake)) \subseteq ToSet(intake)
      /\ intake[1] \in Intake /\ intake[1] \in ToSet(intake)
  BY <1>2, <1>3, TailSet
<1>5. CASE UNCHANGED <<held, link>> \/ (link' = reloadRequested /\ UNCHANGED held)
  <2>1. /\ link' \in Links /\ link'.revision = link.revision /\ link'.own = link.own
        /\ link'.stopped \/ ~link.stopped
    BY <1>3, <1>5 DEF reloadRequested, Links
  <2>2. SourceTypes'
    BY <1>2, <1>3, <1>4, <1>5, <2>1 DEF SourceTypes
  <2>3. Stands
    BY <1>2, <1>3, <1>5, <2>1, FieldTypes DEF Stands
  <2>. QED
    BY <1>2, <1>3, <1>4, <2>2, <2>3, StandingKeeps, FieldTypes DEF SourceInv, SourceTypes
<1>6. CASE /\ stillCurrentRead(read)
           /\ installed([held EXCEPT
                  !.rows = held.rows \cup childrenOn(read.under, read.page, read.revision),
                  !.whole = IF read.page = PageCount[read.under]
                            THEN held.whole \cup {read.under} ELSE held.whole], held.revision)
  <2>1. /\ ReadFits(read) /\ read.kind = "children" /\ read.stage = "answered"
        /\ read.revision = read.expected
    BY <1>1, <1>2, <1>4 DEF SourceInv, TaskFits
  <2>2. read.generation = held.generation /\ held.local = read.local /\ ~held.pending
    BY <1>6, <2>1 DEF stillCurrentRead, isSessionCurrent
  <2>3. read.local = settledLocal
    BY <1>3, <2>2, FieldTypes DEF settledLocal
  <2>4. /\ read.revision = held.revision
        /\ read.under \in LazyParents /\ read.page \in 1 .. PageCount[read.under]
        /\ read.page = 1 \/ read.page - 1 \in pagesOf(held.rows, read.under)
    BY <2>1, <2>2, <2>3 DEF ReadFits
  <2>5. PICK rows : rows = held.rows \cup childrenOn(read.under, read.page, held.revision)
    OBVIOUS
  <2>6. PICK whole : whole = IF read.page = PageCount[read.under]
                             THEN held.whole \cup {read.under} ELSE held.whole
    OBVIOUS
  <2>7. rows \in SUBSET Rows
    <3>1. held.rows \in SUBSET Rows /\ held.revision \in Nat /\ PageCount[read.under] \in Nat
      BY <1>3, <2>4, FieldTypes, SourceReadsAssumption
    <3>2. read.page \in Nat
      BY <2>4, <3>1
    <3>3. PICK p \in LazyParents, page \in Nat : p = read.under /\ page = read.page
      BY <2>4, <3>2
    <3>4. childrenOn(p, page, held.revision) \subseteq Rows
      BY <3>1, MergedPages
    <3>. QED
      BY <2>5, <3>1, <3>3, <3>4
  <2>8. whole \in SUBSET LazyParents
    BY <1>3, <2>4, <2>6, FieldTypes
  <2>9. PICK d : d = [held EXCEPT !.rows = rows, !.whole = whole]
    OBVIOUS
  <2>10. d \in Documents
    BY <1>3, <2>7, <2>8, <2>9 DEF Documents
  <2>11. installed(d, held.revision)
    BY <1>6, <2>4, <2>5, <2>6, <2>9
  <2>12. /\ held' \in Documents /\ held'.revision = held.revision
         /\ held'.rows = rows /\ held'.whole = whole
    <3>1. held.generation + 1 \in Nat /\ held.revision \in Nat
      BY <1>3, FieldTypes
    <3>2. held' = [d EXCEPT !.generation = held.generation + 1, !.revision = held.revision]
      BY <2>11 DEF installed
    <3>. QED
      BY <1>3, <2>7, <2>8, <2>9, <3>1, <3>2 DEF Documents
  <2>13. RowsFit(held')
    BY <1>3, <2>4, <2>5, <2>6, <2>12, MergeFits
  <2>. QED
    BY <1>2, <1>3, <1>4, <2>10, <2>11, <2>13, InstallingKeeps, FieldTypes DEF RevisionsInOrder
<1>. QED
  BY <1>1, <1>5, <1>6 DEF RunMerge

-----------------------------------------------------------------------------
(* Reloads, another source, the end.                                       *)

LEMMA BareInstallingKeeps ==
    ASSUME SourceInv, NEW r \in Nat, r <= remote.revision, installed(bare, r),
           intake' \in Seq(Intake), ToSet(intake') \subseteq ToSet(intake), reads' \subseteq reads,
           UNCHANGED remote
    PROVE  SourceInv'
<1>1. held \in Documents /\ held.generation + 1 \in Nat
  BY FieldTypes DEF SourceInv, SourceTypes
<1>2. PICK d : d = bare
  OBVIOUS
<1>3. d \in Documents /\ d.rows = {} /\ d.whole = {}
  <2>1. {} \in SUBSET Rows /\ {} \in SUBSET LazyParents /\ 0 \in Int
    OBVIOUS
  <2>2. d = [held EXCEPT !.rows = {}, !.whole = {}, !.pending = FALSE, !.local = 0]
    BY <1>2 DEF bare
  <2>. QED
    BY <1>1, <2>1, <2>2 DEF Documents
<1>4. held' = [d EXCEPT !.generation = held.generation + 1, !.revision = r]
  BY <1>2 DEF installed
<1>5. held'.rows = {} /\ held'.whole = {}
  BY <1>1, <1>3, <1>4 DEF Documents
<1>6. ASSUME NEW p \in LazyParents
      PROVE  pagesOf({}, p) = 1 .. 0 /\ 0 \in 0 .. PageCount[p] /\ 0 # PageCount[p]
  BY SourceReadsAssumption DEF pagesOf
<1>7. RowsFit(held')
  BY <1>5, <1>6 DEF RowsFit
<1>. QED
  BY <1>2, <1>3, <1>7, InstallingKeeps

LEMMA ReloadLoadedKeeps == ASSUME SourceInv, ReloadLoaded PROVE SourceInv'
<1>1. PICK t : t = [task |-> "reload", generation |-> held.generation, revision |-> remote.revision]
  OBVIOUS
<1>2. intake' = Append(intake, t) /\ UNCHANGED <<remote, held, link, reads>>
  BY <1>1 DEF ReloadLoaded
<1>3. /\ SourceTypes /\ intake \in Seq(Intake)
      /\ held.generation \in Nat /\ remote.revision \in Nat
  BY FieldTypes DEF SourceInv, SourceTypes
<1>4. t \in ReloadTasks /\ t.task = "reload" /\ t.revision = remote.revision
  BY <1>1, <1>3 DEF ReloadTasks
<1>5. t \in Intake /\ TaskFits(t)
  BY <1>3, <1>4 DEF Intake, TaskFits
<1>6. intake' \in Seq(Intake) /\ ToSet(intake') = ToSet(intake) \cup {t}
  BY <1>2, <1>3, <1>5, AppendSet
<1>7. SourceTypes'
  BY <1>2, <1>3, <1>6 DEF SourceTypes
<1>8. Stands
  BY <1>2, <1>3, FieldTypes DEF Stands
<1>. QED
  BY <1>2, <1>3, <1>5, <1>6, <1>7, <1>8, StandingKeeps, FieldTypes DEF SourceInv, SourceTypes

LEMMA StoppingKeeps ==
    ASSUME SourceInv, intake' \in Seq(Intake), ToSet(intake') \subseteq ToSet(intake),
           reads' \subseteq reads, UNCHANGED <<remote, held, link>>
    PROVE  SourceInv'
<1>1. SourceTypes'
  BY DEF SourceInv, SourceTypes
<1>2. Stands
  BY FieldTypes DEF SourceInv, Stands
<1>. QED
  BY <1>1, <1>2, StandingKeeps, FieldTypes DEF SourceInv, SourceTypes

LEMMA RunReloadKeeps == ASSUME SourceInv, RunReload PROVE SourceInv'
<1>1. /\ intake # <<>> /\ intake[1].task = "reload" /\ intake' = Tail(intake)
      /\ UNCHANGED <<remote, reads>>
  BY DEF RunReload, atIntake
<1>2. intake \in Seq(Intake)
  BY DEF SourceInv, SourceTypes
<1>3. /\ Tail(intake) \in Seq(Intake) /\ ToSet(Tail(intake)) \subseteq ToSet(intake)
      /\ intake[1] \in Intake /\ intake[1] \in ToSet(intake)
  BY <1>1, <1>2, TailSet
<1>4. intake[1].revision \in Nat /\ intake[1].revision <= remote.revision
  BY <1>1, <1>3 DEF SourceInv, TaskFits, Intake, EnvelopeTasks, MergeTasks, ReloadTasks
<1>5. CASE UNCHANGED <<held, link>>
  BY <1>1, <1>3, <1>5, StoppingKeeps
<1>6. CASE installed(bare, intake[1].revision)
  BY <1>1, <1>3, <1>4, <1>6, BareInstallingKeeps
<1>. QED
  BY <1>5, <1>6 DEF RunReload

LEMMA ReplacingKeeps ==
    ASSUME SourceInv, ReplaceSource \/ SourceReplaced \/ EditorDestroyed
    PROVE  SourceInv'
<1>1. SourceTypes /\ intake \in Seq(Intake) /\ remote.revision \in Nat
  BY FieldTypes DEF SourceInv, SourceTypes
<1>2. CASE ReplaceSource
  BY <1>1, <1>2, StoppingKeeps DEF ReplaceSource
<1>3. CASE SourceReplaced
  <2>1. UNCHANGED <<remote, intake, reads>>
    BY <1>3 DEF SourceReplaced
  <2>2. CASE UNCHANGED <<held, link>>
    BY <1>1, <2>1, <2>2, StoppingKeeps
  <2>3. CASE installed(bare, remote.revision)
    BY <1>1, <2>1, <2>3, BareInstallingKeeps
  <2>. QED
    BY <1>3, <2>2, <2>3 DEF SourceReplaced
<1>4. CASE EditorDestroyed
  <2>1. intake' = <<>> /\ reads' = {} /\ UNCHANGED <<remote, held, link>>
    BY <1>4 DEF EditorDestroyed
  <2>2. <<>> \in Seq(Intake) /\ ToSet(<<>>) = {}
    BY DEF ToSet
  <2>. QED
    BY <2>1, <2>2, StoppingKeeps
<1>. QED
  BY <1>2, <1>3, <1>4

LEMMA SourceStepKeeps == ASSUME SourceInv, [SourceNext]_sourceVars PROVE SourceInv'
<1>1. CASE UNCHANGED sourceVars
  <2>1. UNCHANGED <<remote, held, link, intake, reads>>
    BY <1>1 DEF sourceVars
  <2>. QED
    BY <2>1, ReadAbortedKeeps
<1>2. ASSUME NEW read \in reads, ReadAborted(read) PROVE SourceInv'
  BY <1>2, ReadAbortedKeeps DEF ReadAborted
<1>. QED
  BY <1>1, <1>2, OtherCommitsKeeps, LocalCommitsKeeps, AcknowledgedKeeps, ConflictsKeeps,
     EnvelopeArrivesKeeps, RunEnvelopeKeeps, AskingKeeps, SourceAnswersKeeps, ReadContinuesKeeps,
     RunMergeKeeps, ReloadLoadedKeeps, RunReloadKeeps, ReplacingKeeps DEF SourceNext

(* Rows that are read page by page never make a document out of two        *)
(* revisions of the source: whatever commits, echoes, lost pages, reloads  *)
(* and replaced sources come between a read and its merge, the children    *)
(* in the document are of its own revision and without a gap, and a        *)
(* session that runs is at that revision, but for its own commits whose    *)
(* echo is still to come (editor.ts:1934, the merge that waited its turn). *)
THEOREM PagesAreOfOneDocument ==
    SourceInit /\ [][SourceNext]_sourceVars => []PagesFitTheirDocument
<1>1. SourceInv => PagesFitTheirDocument
  <2>. SUFFICES ASSUME SourceInv PROVE PagesFitTheirDocument
    OBVIOUS
  <2>1. ASSUME NEW p \in LazyParents, NEW pages, pages = pagesOf(held.rows, p)
        PROVE  /\ pages = 1 .. Cardinality(pages)
               /\ p \in held.whole <=> Cardinality(pages) = PageCount[p]
    <3>1. PICK n \in 0 .. PageCount[p] : pages = 1 .. n /\ (p \in held.whole <=> n = PageCount[p])
      BY <2>1 DEF SourceInv, RowsFit
    <3>2. n \in Nat
      BY <3>1, SourceReadsAssumption
    <3>3. Cardinality(1 .. n) = n
      BY <3>2, FS_Interval
    <3>. QED
      BY <3>1, <3>3
  <2>2. \A row \in held.rows : row.revision = held.revision
    BY DEF SourceInv, RowsFit
  <2>. QED
    BY <2>1, <2>2 DEF PagesFitTheirDocument, pagesOf, SourceInv, RevisionsInOrder
<1>2. SourceInv /\ [SourceNext]_sourceVars => SourceInv'
  BY SourceStepKeeps
<1>. QED
  BY <1>1, <1>2, SourceStarts, PTL

-----------------------------------------------------------------------------
(* PluginHost.                                                             *)

AllRules == UNION {o.rules : o \in Offers}

Entries == [no : Nat, offer : Offers, accepting : BOOLEAN, rules : SUBSET AllRules]

Rules == [no : Nat, id : {o.id : o \in Offers}, rule : AllRules]

HostJobs ==
    {NoJob} \cup [op : {"install", "reload", "uninstall", "command"},
                  stage : {"setup", "cleanup", "hook"}, offer : Offers, no : Nat]

Checks == [revision : Nat, generation : Nat, stage : {"scan", "next", "hook"},
           left : SUBSET Rules, asked : SUBSET Rules]

Reports == [revision : Nat, asked : SUBSET Rules]

PluginTypes ==
    /\ plugins \subseteq Entries
    /\ contributions \subseteq Rules
    /\ generation \in Nat /\ hostRevision \in Nat /\ calls \in Nat
    /\ report = <<>> \/ \E r \in Reports : report = <<r>>
    /\ job \in HostJobs
    /\ check = <<>> \/ \E c \in Checks : check = <<c>>
    /\ alive \in BOOLEAN /\ exempt \in BOOLEAN

preparing == job.op = "reload" /\ job.stage = "setup"

\* What a reload sets up a replacement for stays installed until it is ready.
ReplacedIsInstalled == preparing /\ alive => isInstalled(job.offer.id)

\* Instances are numbered in the order in which they are created.
lastNo == Cardinality(InitialOffers) + calls

rulesOf(entries) == UNION {added(e) : e \in entries}

servingOf(entries) == numbers({e \in entries : e.accepting})

oneEntryEach(entries) ==
    \A e, f \in entries : e.offer.id = f.offer.id \/ e.no = f.no => e = f

allNumbers == numbers(plugins) \cup setUp \cup attempted \cup cleaned

replacing == job.op = "reload" /\ job.stage = "cleanup"

JobFits ==
    /\ job.op \in {"install", "reload"} => job.no <= lastNo
    /\ job.op = "install" => ~isInstalled(job.offer.id)
    /\ job.op \in {"install", "reload"} /\ job.stage = "setup" => job.no \notin allNumbers
    /\ replacing => job.no \notin numbers(plugins) \cup cleaned
    /\ job.op = "uninstall" \/ replacing =>
          \A e \in plugins : e.offer.id = job.offer.id => ~e.accepting
    /\ ~alive => ~replacing

\* What is left to ask names the plugin its entry is of.
leftAreNamed(left, entries) ==
    \A c \in left : \A e \in entries : c.no = e.no => c.id = e.offer.id

CheckFits ==
    check # <<>> =>
      /\ check[1].revision <= hostRevision /\ check[1].generation <= generation
      /\ check[1].stage = "scan" => check[1].asked = {}
      /\ check[1].generation = generation =>
          /\ check[1].asked \subseteq contributions
          /\ check[1].stage # "scan" => contributions \subseteq check[1].left \cup check[1].asked
          /\ \A c \in check[1].asked : c.no \in servingOf(plugins)
          /\ leftAreNamed(check[1].left, plugins)

ReportFits ==
    report # <<>> =>
      /\ report[1].revision <= hostRevision
      /\ report[1].revision = hostRevision =>
          /\ report[1].asked = contributions
          /\ \A c \in contributions : c.no \in servingOf(plugins)

NumbersFit ==
    /\ \A n \in allNumbers : n \in Nat /\ n <= lastNo
    /\ cleaned \cap numbers(plugins) = {}
    /\ setUp \subseteq numbers(plugins) \cup attempted \cup
                       (IF job.op = "reload" THEN {job.no} ELSE {})

HostIsSound ==
    /\ oneEntryEach(plugins)
    /\ JobFits
    /\ CheckFits
    /\ ReportFits
    /\ NumbersFit
    /\ contributions = rulesOf(plugins)
    /\ alive \/ plugins = {}

PluginInv == PluginTypes /\ ReplacedIsInstalled /\ (~exempt => HostIsSound)

-----------------------------------------------------------------------------
LEMMA AddedFacts ==
  ASSUME NEW e, NEW c
  PROVE  c \in added(e) => c.no = e.no /\ c.id = e.offer.id /\ c.rule \in e.rules
BY DEF added

LEMMA RulesAreTyped ==
  ASSUME NEW E \in SUBSET Entries
  PROVE  rulesOf(E) \subseteq Rules
<1>1. \A e \in Entries : e.no \in Nat /\ e.offer \in Offers /\ e.rules \subseteq AllRules
  BY DEF Entries
<1>2. \A e \in Entries : added(e) \subseteq Rules
  BY <1>1 DEF added, Rules
<1> QED
  BY <1>2 DEF rulesOf

LEMMA EntryIsIt ==
  ASSUME NEW id, isInstalled(id)
  PROVE  /\ entryOf(id) \in plugins
         /\ entryOf(id).offer.id = id
         /\ oneEntryEach(plugins) => \A e \in plugins : e.offer.id = id => e = entryOf(id)
<1>1. \E e \in plugins : e.offer.id = id
  BY DEF isInstalled
<1>2. entryOf(id) \in plugins /\ entryOf(id).offer.id = id
  BY <1>1 DEF entryOf
<1> HIDE DEF entryOf
<1> QED
  BY <1>2 DEF oneEntryEach

taking(e, b) == [e EXCEPT !.accepting = b]

(* An entry is replaced by one that only differs in taking calls.          *)
LEMMA SwapEntry ==
  ASSUME NEW P \in SUBSET Entries, NEW x \in P, NEW b \in BOOLEAN
  PROVE  /\ taking(x, b) \in Entries /\ taking(x, b).no = x.no
         /\ taking(x, b).offer = x.offer /\ taking(x, b).accepting = b
         /\ (P \ {x}) \cup {taking(x, b)} \in SUBSET Entries
         /\ numbers((P \ {x}) \cup {taking(x, b)}) = numbers(P)
         /\ rulesOf((P \ {x}) \cup {taking(x, b)}) = rulesOf(P)
         /\ oneEntryEach(P) => oneEntryEach((P \ {x}) \cup {taking(x, b)})
<1>0. PICK y : y = taking(x, b)
  OBVIOUS
<1>1. y \in Entries /\ y.no = x.no /\ y.offer = x.offer /\ y.rules = x.rules /\ y.accepting = b
  BY <1>0 DEF Entries, taking
<1>2. added(y) = added(x)
  BY <1>1 DEF added
<1>3. numbers((P \ {x}) \cup {y}) = numbers(P)
  BY <1>1 DEF numbers
<1>4. rulesOf((P \ {x}) \cup {y}) = rulesOf(P)
  BY <1>2 DEF rulesOf
<1>5. ASSUME oneEntryEach(P) PROVE oneEntryEach((P \ {x}) \cup {y})
  <2> SUFFICES ASSUME NEW e \in (P \ {x}) \cup {y}, NEW f \in (P \ {x}) \cup {y},
                      e.offer.id = f.offer.id \/ e.no = f.no
               PROVE  e = f
    BY DEF oneEntryEach
  <2>1. \A g \in P : g.offer.id = y.offer.id \/ g.no = y.no => g = x
    BY <1>1, <1>5 DEF oneEntryEach
  <2>2. CASE e = y
    BY <2>1, <2>2
  <2>3. CASE f = y
    BY <2>1, <2>3
  <2>4. CASE e \in P /\ f \in P
    BY <1>5, <2>4 DEF oneEntryEach
  <2> QED
    BY <2>2, <2>3, <2>4
<1>6. (P \ {x}) \cup {y} \in SUBSET Entries
  BY <1>1
<1> QED
  BY <1>0, <1>1, <1>3, <1>4, <1>5, <1>6

-----------------------------------------------------------------------------
(* Types.                                                                  *)

LEMMA JobTypes ==
  ASSUME PluginTypes, job.op \in {"install", "reload", "uninstall", "command"}
  PROVE  /\ job.offer \in Offers /\ job.no \in Nat
         /\ job \in [op : {"install", "reload", "uninstall", "command"},
                  stage : {"setup", "cleanup", "hook"}, offer : Offers, no : Nat]
<1>1. job # NoJob
  BY DEF NoJob
<1> QED
  BY <1>1 DEF PluginTypes, HostJobs

LEMMA StagedIsTyped ==
  ASSUME PluginTypes, job.op \in {"install", "reload"}
  PROVE  /\ stagedEntry \in Entries
         /\ stagedEntry.no = job.no /\ stagedEntry.offer = job.offer
         /\ stagedEntry.accepting = TRUE
<1>1. job.offer \in Offers /\ job.no \in Nat
  BY JobTypes
<1>2. job.offer.rules \subseteq AllRules
  BY <1>1 DEF AllRules
<1> QED
  BY <1>1, <1>2 DEF stagedEntry, Entries

LEMMA CheckIsTyped ==
  ASSUME PluginTypes, check # <<>>
  PROVE  check = <<check[1]>> /\ check[1] \in Checks
BY DEF PluginTypes

LEMMA NumberTypes ==
  ASSUME PluginTypes
  PROVE  lastNo \in Nat /\ newNo = lastNo + 1 /\ Cardinality(InitialOffers) \in Nat
<1>1. Cardinality(InitialOffers) \in Nat
  BY PluginAssumption, FS_CardinalityType
<1> QED
  BY <1>1 DEF lastNo, newNo, PluginTypes

LEMMA PausesTypes ==
  ASSUME PluginTypes, NEW id, isInstalled(id), Pauses(id)
  PROVE  plugins' \subseteq Entries /\ generation' \in Nat /\ report' = <<>>
<1>1. entryOf(id) \in plugins
  BY EntryIsIt
<1>2. PICK x \in plugins : x = entryOf(id)
  BY <1>1
<1>3. plugins' = (plugins \ {x}) \cup {[x EXCEPT !.accepting = FALSE]}
  BY <1>2 DEF Pauses, paused
<1>4. plugins' \subseteq Entries
  BY <1>3, SwapEntry DEF PluginTypes, taking
<1> QED
  BY <1>4 DEF Pauses, NewGeneration, PluginTypes

LEMMA RemovingFacts ==
  /\ removing \subseteq plugins
  /\ removing # {} => \E x \in plugins : removing = {x} /\ x.offer.id = job.offer.id
  /\ removing = {} => ~isInstalled(job.offer.id)
<1>1. CASE isInstalled(job.offer.id)
  BY <1>1, EntryIsIt DEF removing
<1>2. CASE ~isInstalled(job.offer.id)
  BY <1>2 DEF removing
<1> QED
  BY <1>1, <1>2

LEMMA QueueKeepsTypes ==
  ASSUME PluginTypes,
         \/ \E offer \in Offers : InstallPlugin(offer) \/ ReloadPlugin(offer)
         \/ \E id \in {o.id : o \in Offers} : UninstallPlugin(id) \/ ExecutePluginCommand(id)
  PROVE  PluginTypes'
<1>1. newNo \in Nat
  BY NumberTypes
<1>2. ASSUME NEW offer \in Offers, InstallPlugin(offer) \/ ReloadPlugin(offer) PROVE PluginTypes'
  <2>1. job' \in HostJobs
    BY <1>1, <1>2 DEF InstallPlugin, ReloadPlugin, HostJobs
  <2> QED
    BY <1>2, <2>1 DEF InstallPlugin, ReloadPlugin, PluginTypes, PluginCall, ghosts
<1>3. ASSUME NEW id, UninstallPlugin(id) \/ ExecutePluginCommand(id) PROVE PluginTypes'
  <2>1. entryOf(id) \in plugins
    BY <1>3, EntryIsIt DEF UninstallPlugin, ExecutePluginCommand
  <2>2. entryOf(id).offer \in Offers /\ entryOf(id).no \in Nat
    BY <2>1 DEF PluginTypes, Entries
  <2>3. job' \in HostJobs
    BY <1>3, <2>2 DEF UninstallPlugin, ExecutePluginCommand, HostJobs
  <2>4. CASE UninstallPlugin(id)
    <3>1. plugins' \subseteq Entries /\ generation' \in Nat /\ report' = <<>>
      BY <2>4, PausesTypes DEF UninstallPlugin
    <3> QED
      BY <2>3, <2>4, <3>1 DEF UninstallPlugin, PluginTypes, PluginCall, ghosts
  <2>5. CASE ExecutePluginCommand(id)
    BY <2>3, <2>5 DEF ExecutePluginCommand, PluginTypes, PluginCall, ghosts
  <2> QED
    BY <1>3, <2>4, <2>5
<1> QED
  BY <1>2, <1>3

LEMMA HooksKeepTypes ==
  ASSUME PluginTypes, ReplacedIsInstalled,
         \/ SetupFails \/ SetupReturns \/ ReplacementReady
         \/ \E succeeds \in BOOLEAN :
              UninstallCleanup(succeeds) \/ ReloadCleanup(succeeds) \/ CommandReturns(succeeds)
  PROVE  PluginTypes'
<1>1. NoJob \in HostJobs
  BY DEF HostJobs
<1>2. CASE SetupFails
  BY <1>1, <1>2 DEF SetupFails, Ends, PluginTypes, ghosts
<1>3. CASE SetupReturns
  <2>1. stagedEntry \in Entries
    BY <1>3, StagedIsTyped DEF SetupReturns
  <2>2. rulesOf({stagedEntry}) \subseteq Rules
    BY <2>1, RulesAreTyped
  <2>3. added(stagedEntry) \subseteq Rules
    BY <2>2 DEF rulesOf
  <2>4. plugins' \subseteq Entries /\ contributions' \subseteq Rules
    BY <1>3, <2>1, <2>3 DEF SetupReturns, PluginTypes
  <2>5. generation' \in Nat /\ (report' = <<>> \/ report' = report)
    BY <1>3 DEF SetupReturns, NewGeneration, PluginTypes
  <2> QED
    BY <1>1, <1>3, <2>4, <2>5 DEF SetupReturns, Ends, PluginTypes
<1>4. CASE ReplacementReady
  <2>1. job' \in HostJobs
    <3>1. job' = [job EXCEPT !.stage = "cleanup"] /\ job.op = "reload"
      BY <1>4 DEF ReplacementReady
    <3> QED
      BY <3>1, JobTypes DEF HostJobs
  <2>2. plugins' \subseteq Entries /\ generation' \in Nat /\ report' = <<>>
    <3>1. isInstalled(job.offer.id)
      BY <1>4 DEF ReplacementReady, ReplacedIsInstalled, preparing
    <3> QED
      BY <1>4, <3>1, PausesTypes DEF ReplacementReady
  <2> QED
    BY <1>4, <2>1, <2>2 DEF ReplacementReady, PluginTypes
<1>5. ASSUME NEW succeeds \in BOOLEAN, UninstallCleanup(succeeds) PROVE PluginTypes'
  BY <1>1, <1>5 DEF UninstallCleanup, Ends, PluginTypes
<1>6. ASSUME NEW succeeds \in BOOLEAN, CommandReturns(succeeds) PROVE PluginTypes'
  BY <1>1, <1>6 DEF CommandReturns, Ends, PluginTypes, ghosts
<1>7. ASSUME NEW succeeds \in BOOLEAN, ReloadCleanup(succeeds) PROVE PluginTypes'
  <2>1. stagedEntry \in Entries
    BY <1>7, StagedIsTyped DEF ReloadCleanup
  <2>2. rulesOf({stagedEntry}) \subseteq Rules
    BY <2>1, RulesAreTyped
  <2>3. added(stagedEntry) \subseteq Rules
    BY <2>2 DEF rulesOf
  <2>4. {[e EXCEPT !.accepting = TRUE] : e \in removing} \subseteq Entries
    <3>1. removing \subseteq Entries
      BY RemovingFacts DEF PluginTypes
    <3> QED
      BY <3>1 DEF Entries
  <2>5. plugins' \subseteq Entries /\ contributions' \subseteq Rules
    BY <1>7, <2>1, <2>3, <2>4 DEF ReloadCleanup, Replaces, Resumes, PluginTypes
  <2>6. generation' \in Nat /\ report' = <<>>
    BY <1>7 DEF ReloadCleanup, Replaces, Resumes, NewGeneration, PluginTypes
  <2> QED
    BY <1>1, <1>7, <2>5, <2>6 DEF ReloadCleanup, Ends, PluginTypes
<1> QED
  BY <1>2, <1>3, <1>4, <1>5, <1>6, <1>7

LEMMA ValidationKeepsTypes ==
  ASSUME PluginTypes,
         \/ StartValidation \/ ValidationEnds \/ ScanDone
         \/ \E c \in UNION {check[i].left : i \in DOMAIN check} : CallValidator(c)
         \/ ValidatorReturns \/ PublishValidationChanged
  PROVE  PluginTypes'
<1>1. CASE StartValidation
  <2>1. \E c \in Checks : check' = <<c>>
    BY <1>1 DEF StartValidation, Checks, PluginTypes
  <2> QED
    BY <1>1, <2>1 DEF StartValidation, PluginCall, PluginTypes, ghosts
<1>2. CASE ValidationEnds
  BY <1>2 DEF ValidationEnds, PluginTypes, ghosts
<1>3. CASE ScanDone
  <2>1. \E c \in Checks : check' = <<c>>
    BY <1>3, CheckIsTyped DEF ScanDone, Checks, PluginTypes
  <2> QED
    BY <1>3, <2>1 DEF ScanDone, PluginTypes, ghosts
<1>4. ASSUME NEW c \in UNION {check[i].left : i \in DOMAIN check}, CallValidator(c)
      PROVE  PluginTypes'
  <2>1. check[1] \in Checks /\ c \in check[1].left
    BY <1>4, CheckIsTyped DEF CallValidator
  <2>2. check' = <<[check[1] EXCEPT !.stage = "hook", !.left = @ \ {c}, !.asked = @ \cup {c}]>>
    BY <1>4 DEF CallValidator
  <2>3. PICK k \in Checks : k = check[1]
    BY <2>1
  <2>4. [k EXCEPT !.stage = "hook", !.left = @ \ {c}, !.asked = @ \cup {c}] \in Checks
    BY <2>1, <2>3 DEF Checks
  <2>5. \E d \in Checks : check' = <<d>>
    BY <2>2, <2>3, <2>4
  <2> QED
    BY <1>4, <2>5 DEF CallValidator, PluginTypes, ghosts
<1>5. CASE ValidatorReturns
  <2>1. \E c \in Checks : check' = <<c>>
    BY <1>5, CheckIsTyped DEF ValidatorReturns, Checks, PluginTypes
  <2> QED
    BY <1>5, <2>1 DEF ValidatorReturns, PluginTypes, ghosts
<1>6. CASE PublishValidationChanged
  <2>1. \E r \in Reports : report' = <<r>>
    BY <1>6, CheckIsTyped DEF PublishValidationChanged, Checks, Reports, PluginTypes
  <2> QED
    BY <1>6, <2>1 DEF PublishValidationChanged, PluginTypes, ghosts
<1> QED
  BY <1>1, <1>2, <1>3, <1>4, <1>5, <1>6

LEMMA RestKeepsTypes ==
  ASSUME PluginTypes,
         \/ \E e \in plugins : \E rule \in e.rules : Withdraw(e, rule)
         \/ Destroy
         \/ UNCHANGED pluginVars
  PROVE  PluginTypes'
<1>1. ASSUME NEW e \in plugins, NEW rule, Withdraw(e, rule) PROVE PluginTypes'
  <2>1. [e EXCEPT !.rules = @ \ {rule}] \in Entries
    BY DEF PluginTypes, Entries
  <2>2. plugins' \subseteq Entries
    BY <1>1, <2>1 DEF Withdraw, PluginTypes
  <2> QED
    BY <1>1, <2>2 DEF Withdraw, PluginCall, PluginTypes
<1>2. CASE Destroy
  <2>1. exempt' \in BOOLEAN
    BY <1>2 DEF Destroy, PluginTypes
  <2>2. generation' \in Nat /\ report' = <<>> /\ plugins' = {} /\ contributions' = {}
    BY <1>2 DEF Destroy, NewGeneration, PluginTypes
  <2> QED
    BY <1>2, <2>1, <2>2 DEF Destroy, PluginTypes
<1>3. CASE UNCHANGED pluginVars
  BY <1>3 DEF pluginVars, PluginTypes
<1> QED
  BY <1>1, <1>2, <1>3

LEMMA PluginStepKeepsTypes ==
  ASSUME PluginTypes, ReplacedIsInstalled, [PluginNext]_pluginVars
  PROVE  PluginTypes'
BY QueueKeepsTypes, HooksKeepTypes, ValidationKeepsTypes, RestKeepsTypes, Zenon DEF PluginNext

LEMMA PluginStepKeepsReplaced ==
  ASSUME PluginTypes, ReplacedIsInstalled, [PluginNext]_pluginVars
  PROVE  ReplacedIsInstalled'
<1> SUFFICES ASSUME preparing', alive' PROVE isInstalled(job.offer.id)'
  BY DEF ReplacedIsInstalled
<1>1. job'.op = "reload" /\ job'.stage = "setup"
  BY DEF preparing
<1>2. CASE \E offer \in Offers : InstallPlugin(offer) \/ ReloadPlugin(offer)
  <2>1. PICK offer : InstallPlugin(offer) \/ ReloadPlugin(offer)
    BY <1>2
  <2>2. ~InstallPlugin(offer)
    <3>1. InstallPlugin(offer) => job'.op = "install"
      BY DEF InstallPlugin
    <3> QED
      BY <1>1, <3>1
  <2>3. job' = [op |-> "reload", stage |-> "setup", offer |-> offer, no |-> newNo]
        /\ isInstalled(offer.id) /\ plugins' = plugins
    BY <2>1, <2>2 DEF ReloadPlugin
  <2>4. job'.offer = offer
    BY <2>3
  <2> QED
    BY <2>3, <2>4 DEF isInstalled
<1>3. CASE \E id \in {o.id : o \in Offers} : UninstallPlugin(id) \/ ExecutePluginCommand(id)
  <2>1. \A id : UninstallPlugin(id) => job'.op = "uninstall"
    BY DEF UninstallPlugin
  <2>2. \A id : ExecutePluginCommand(id) => job'.op = "command"
    BY DEF ExecutePluginCommand
  <2> QED
    BY <1>1, <1>3, <2>1, <2>2
<1>4. CASE \/ SetupFails \/ SetupReturns
           \/ \E succeeds \in BOOLEAN :
                UninstallCleanup(succeeds) \/ ReloadCleanup(succeeds) \/ CommandReturns(succeeds)
  <2>1. Ends
    BY <1>4 DEF SetupFails, SetupReturns, UninstallCleanup, ReloadCleanup, CommandReturns
  <2>2. job'.op = "none"
    BY <2>1 DEF Ends, NoJob
  <2> QED
    BY <1>1, <2>2
<1>5. CASE ReplacementReady
  <2>1. job' = [job EXCEPT !.stage = "cleanup"] /\ job.op = "reload"
    BY <1>5 DEF ReplacementReady
  <2>2. job'.stage = "cleanup"
    BY <2>1, JobTypes
  <2> QED
    BY <1>1, <2>2
<1>6. CASE \E e \in plugins : \E rule \in e.rules : Withdraw(e, rule)
  <2>0. PICK e \in plugins : \E rule \in e.rules : Withdraw(e, rule)
    BY <1>6
  <2>1. PICK rule : Withdraw(e, rule)
    BY <2>0
  <2>2. isInstalled(job.offer.id)
    BY <1>1, <2>1 DEF Withdraw, PluginCall, ReplacedIsInstalled, preparing
  <2>3. [e EXCEPT !.rules = @ \ {rule}].offer = e.offer
    BY DEF PluginTypes, Entries
  <2> QED
    BY <2>1, <2>2, <2>3 DEF Withdraw, isInstalled
<1>7. CASE \/ StartValidation \/ ValidationEnds \/ ScanDone
           \/ \E c \in UNION {check[i].left : i \in DOMAIN check} : CallValidator(c)
           \/ ValidatorReturns \/ PublishValidationChanged \/ UNCHANGED pluginVars
  <2>1. UNCHANGED <<job, plugins, alive>>
    BY <1>7 DEF StartValidation, ValidationEnds, ScanDone, CallValidator, ValidatorReturns,
                PublishValidationChanged, pluginVars
  <2> QED
    BY <1>1, <2>1 DEF ReplacedIsInstalled, preparing, isInstalled
<1>8. CASE Destroy
  BY <1>8 DEF Destroy
<1> QED
  BY <1>2, <1>3, <1>4, <1>5, <1>6, <1>7, <1>8, Zenon DEF PluginNext

-----------------------------------------------------------------------------
(* The invariant, action by action.                                        *)

LEMMA PluginStarts ==
  ASSUME PluginInit
  PROVE  PluginInv
<1>1. Cardinality(InitialOffers) \in Nat
  BY PluginAssumption, FS_CardinalityType
<1>2. PICK order \in orderPlugins(InitialOffers) :
        plugins = {[no |-> i, offer |-> order[i], accepting |-> TRUE,
                    rules |-> order[i].rules] : i \in DOMAIN order}
  BY DEF PluginInit
<1> DEFINE n == Cardinality(InitialOffers)
<1>3. order \in [1 .. n -> InitialOffers] /\ IsInjective(order)
  BY <1>2 DEF orderPlugins
<1>4. \A i \in 1 .. n : order[i] \in InitialOffers /\ order[i] \in Offers
                        /\ order[i].rules \subseteq AllRules
  BY <1>3, PluginAssumption DEF AllRules
<1>5. plugins \subseteq Entries
  <2>1. \A i \in 1 .. n : i \in Nat
    BY <1>1
  <2>2. \A i \in 1 .. n : [no |-> i, offer |-> order[i], accepting |-> TRUE,
                           rules |-> order[i].rules] \in Entries
    BY <1>4, <2>1 DEF Entries
  <2> QED
    BY <1>2, <1>3, <2>2
<1>6. \A e \in plugins : e.no \in 1 .. n /\ e.offer = order[e.no] /\ e.accepting = TRUE
                         /\ e.rules = order[e.no].rules
  BY <1>2, <1>3
<1>7. oneEntryEach(plugins)
  <2>1. \A i, j \in 1 .. n : order[i].id = order[j].id => i = j
    BY <1>3, <1>4, PluginAssumption DEF IsInjective
  <2>2. \A e, f \in plugins : e.offer.id = f.offer.id => e.no = f.no
    BY <1>6, <2>1
  <2>3. \A e, f \in plugins : e.no = f.no => e = f
    BY <1>6, <1>5 DEF Entries
  <2> QED
    BY <2>2, <2>3 DEF oneEntryEach
<1>8. generation \in Nat
  <2>1. IsFiniteSet(1 .. n)
    BY <1>1, FS_Interval
  <2>2. IsFiniteSet(plugins)
    <3>1. plugins = {[no |-> i, offer |-> order[i], accepting |-> TRUE,
                      rules |-> order[i].rules] : i \in 1 .. n}
      BY <1>2, <1>3
    <3> DEFINE f == [i \in 1 .. n |-> [no |-> i, offer |-> order[i], accepting |-> TRUE,
                                       rules |-> order[i].rules]]
    <3>2. f \in Surjection(1 .. n, plugins)
      BY <3>1 DEF Surjection
    <3> HIDE DEF f
    <3> QED
      BY <2>1, <3>2, FS_Surjection
  <2> QED
    BY <2>2, FS_CardinalityType DEF PluginInit
<1>9. contributions = rulesOf(plugins) /\ contributions \subseteq Rules
  BY <1>5, RulesAreTyped DEF PluginInit, rulesOf
<1>10. PluginTypes
  BY <1>5, <1>8, <1>9 DEF PluginInit, PluginTypes, HostJobs
<1>11. job.op = "none"
  BY DEF PluginInit, NoJob
<1>12. ReplacedIsInstalled /\ JobFits
  BY <1>11 DEF ReplacedIsInstalled, preparing, replacing, JobFits, PluginInit
<1>13. CheckFits /\ ReportFits
  BY DEF PluginInit, CheckFits, ReportFits
<1>14. NumbersFit
  <2>1. setUp = numbers(plugins) /\ attempted = {} /\ cleaned = {} /\ calls = 0
    BY DEF PluginInit, numbers
  <2>2. lastNo = n
    BY <1>1, <2>1 DEF lastNo
  <2>3. \A m \in numbers(plugins) : m \in Nat /\ m <= n
    BY <1>1, <1>6 DEF numbers
  <2> QED
    BY <2>1, <2>2, <2>3 DEF NumbersFit, allNumbers
<1> QED
  BY <1>7, <1>9, <1>10, <1>12, <1>13, <1>14 DEF PluginInv, HostIsSound, PluginInit

(* A host that only takes a task, and has not called its hook yet.         *)
LEMMA TakingATask ==
  ASSUME PluginTypes, HostIsSound, lastNo' = lastNo + 1, job.op = "none",
         UNCHANGED <<plugins, contributions, generation, report, check, hostRevision, alive,
                     setUp, attempted, cleaned>>,
         JobFits'
  PROVE  HostIsSound'
<1>1. oneEntryEach(plugins)' /\ CheckFits' /\ ReportFits'
  BY DEF HostIsSound, CheckFits, ReportFits, oneEntryEach, servingOf, numbers
<1>2. NumbersFit'
  <2>1. allNumbers' = allNumbers /\ numbers(plugins)' = numbers(plugins)
    BY DEF allNumbers, numbers
  <2>2. lastNo \in Nat
    BY NumberTypes
  <2>3. \A n \in allNumbers' : n \in Nat /\ n <= lastNo'
    BY <2>1, <2>2 DEF HostIsSound, NumbersFit
  <2> QED
    BY <2>1, <2>3 DEF HostIsSound, NumbersFit
<1>3. contributions' = rulesOf(plugins)' /\ (alive' \/ plugins' = {})
  BY DEF HostIsSound, rulesOf
<1> QED
  BY <1>1, <1>2, <1>3 DEF HostIsSound

LEMMA InstallIsSound ==
  ASSUME PluginTypes, HostIsSound, NEW offer \in Offers,
         InstallPlugin(offer) \/ ReloadPlugin(offer)
  PROVE  HostIsSound'
<1>1. /\ lastNo' = lastNo + 1 /\ newNo = lastNo + 1 /\ lastNo \in Nat
  <2>1. calls' = calls + 1 /\ calls \in Nat
    BY DEF InstallPlugin, ReloadPlugin, PluginCall, PluginTypes
  <2> QED
    BY <2>1, NumberTypes DEF lastNo
<1>2. /\ alive
      /\ UNCHANGED <<plugins, contributions, generation, report, check, hostRevision, alive,
                     setUp, attempted, cleaned>>
  BY DEF InstallPlugin, ReloadPlugin, PluginCall, ghosts
<1>3. job.op = "none"
  BY DEF InstallPlugin, ReloadPlugin, NoJob
<1>4. /\ job'.op \in {"install", "reload"} /\ job'.stage = "setup"
      /\ job'.offer = offer /\ job'.no = newNo
  <2>1. CASE InstallPlugin(offer)
    BY <2>1 DEF InstallPlugin
  <2>2. CASE ReloadPlugin(offer)
    BY <2>2 DEF ReloadPlugin
  <2> QED
    BY <2>1, <2>2
<1>5. newNo \notin allNumbers
  BY <1>1 DEF HostIsSound, NumbersFit
<1>6. job'.op = "install" => ~isInstalled(offer.id)
  <2>1. CASE InstallPlugin(offer)
    BY <2>1 DEF InstallPlugin
  <2>2. CASE ReloadPlugin(offer)
    <3>1. job'.op = "reload"
      BY <2>2 DEF ReloadPlugin
    <3> QED
      BY <3>1
  <2> QED
    BY <2>1, <2>2
<1>7. JobFits'
  <2>1. allNumbers' = allNumbers
    BY <1>2 DEF allNumbers, numbers
  <2>2. job'.no <= lastNo'
    BY <1>1, <1>4
  <2>3. job'.op = "install" => ~(\E e \in plugins' : e.offer.id = job'.offer.id)
    BY <1>2, <1>4, <1>6 DEF isInstalled
  <2>4. job'.no \notin allNumbers'
    BY <1>4, <1>5, <2>1
  <2> QED
    BY <1>4, <2>2, <2>3, <2>4 DEF JobFits, replacing, isInstalled
<1> QED
  BY <1>1, <1>2, <1>3, <1>7, TakingATask

LEMMA CommandIsSound ==
  ASSUME PluginTypes, HostIsSound, NEW id, ExecutePluginCommand(id)
  PROVE  HostIsSound'
<1>1. lastNo' = lastNo + 1
  <2>1. calls' = calls + 1 /\ calls \in Nat
    BY DEF ExecutePluginCommand, PluginCall, PluginTypes
  <2> QED
    BY <2>1, NumberTypes DEF lastNo
<1>2. /\ alive
      /\ UNCHANGED <<plugins, contributions, generation, report, check, hostRevision, alive,
                     setUp, attempted, cleaned>>
  BY DEF ExecutePluginCommand, PluginCall, ghosts
<1>3. job.op = "none"
  BY DEF ExecutePluginCommand, NoJob
<1>4. job'.op = "command"
  BY DEF ExecutePluginCommand
<1>5. JobFits'
  BY <1>4 DEF JobFits, replacing
<1> QED
  BY <1>1, <1>2, <1>3, <1>5, TakingATask

\* A validation that runs has not seen the new generation.
LEMMA NewGenerationFits ==
  ASSUME PluginTypes, CheckFits, NewGeneration, UNCHANGED <<check, hostRevision>>
  PROVE  CheckFits' /\ ReportFits'
<1>1. generation' = generation + 1 /\ generation \in Nat /\ report' = <<>>
  BY DEF NewGeneration, PluginTypes
<1>2. ReportFits'
  BY <1>1 DEF ReportFits
<1>3. CASE check = <<>>
  BY <1>2, <1>3 DEF CheckFits
<1>4. CASE check # <<>>
  <2>1. check[1].generation \in Nat
    BY <1>4, CheckIsTyped DEF Checks
  <2>2. check[1].generation <= generation
    BY <1>4 DEF CheckFits
  <2>3. check[1].generation <= generation' /\ check[1].generation # generation'
    BY <1>1, <2>1, <2>2
  <2> QED
    BY <1>2, <1>4, <2>3 DEF CheckFits
<1> QED
  BY <1>3, <1>4

LEMMA PauseFacts ==
  ASSUME PluginTypes, HostIsSound, NEW id, isInstalled(id), Pauses(id)
  PROVE  /\ numbers(plugins)' = numbers(plugins)
         /\ rulesOf(plugins)' = rulesOf(plugins)
         /\ oneEntryEach(plugins)'
         /\ \A e \in plugins' : e.offer.id = id => ~e.accepting
         /\ NewGeneration
<1>1. PICK x \in plugins : x = entryOf(id)
  BY EntryIsIt
<1>2. x.offer.id = id
  BY <1>1, EntryIsIt
<1>3. PICK y : y = taking(x, FALSE)
  OBVIOUS
<1>4. plugins' = (plugins \ {x}) \cup {y}
  BY <1>1, <1>3 DEF Pauses, paused, taking
<1>5. /\ y.offer = x.offer /\ y.accepting = FALSE
      /\ numbers((plugins \ {x}) \cup {y}) = numbers(plugins)
      /\ rulesOf((plugins \ {x}) \cup {y}) = rulesOf(plugins)
      /\ oneEntryEach(plugins) => oneEntryEach((plugins \ {x}) \cup {y})
  <2>1. plugins \in SUBSET Entries /\ FALSE \in BOOLEAN
    BY DEF PluginTypes
  <2> QED
    BY <1>3, <2>1, SwapEntry
<1>6. \A e \in plugins : e.offer.id = id => e = x
  BY <1>2 DEF HostIsSound, oneEntryEach
<1>7. oneEntryEach(plugins')
  BY <1>4, <1>5 DEF HostIsSound
<1>8. numbers(plugins') = numbers(plugins) /\ rulesOf(plugins') = rulesOf(plugins)
  BY <1>4, <1>5
<1>9. \A e \in plugins' : e.offer.id = id => ~e.accepting
  BY <1>4, <1>5, <1>6
<1>10. oneEntryEach(plugins)' /\ numbers(plugins)' = numbers(plugins)
       /\ rulesOf(plugins)' = rulesOf(plugins)
  BY <1>7, <1>8 DEF oneEntryEach, numbers, rulesOf
<1> QED
  BY <1>9, <1>10 DEF Pauses

LEMMA UninstallIsSound ==
  ASSUME PluginTypes, HostIsSound, NEW id, UninstallPlugin(id)
  PROVE  HostIsSound'
<1>1. isInstalled(id) /\ Pauses(id) /\ alive /\ alive' = alive
  BY DEF UninstallPlugin, PluginCall
<1>2. UNCHANGED <<contributions, check, hostRevision, setUp, attempted, cleaned>>
  BY DEF UninstallPlugin, ghosts
<1>3. /\ numbers(plugins)' = numbers(plugins)
      /\ rulesOf(plugins)' = rulesOf(plugins)
      /\ oneEntryEach(plugins)'
      /\ \A e \in plugins' : e.offer.id = id => ~e.accepting
      /\ NewGeneration
  BY <1>1, PauseFacts
<1>4. lastNo' = lastNo + 1 /\ lastNo \in Nat
  <2>1. calls' = calls + 1 /\ calls \in Nat
    BY DEF UninstallPlugin, PluginCall, PluginTypes
  <2> QED
    BY <2>1, NumberTypes DEF lastNo
<1>5. job.op = "none"
  BY DEF UninstallPlugin, NoJob
<1>6. job' = [op |-> "uninstall", stage |-> "cleanup", offer |-> entryOf(id).offer, no |-> 0]
  BY DEF UninstallPlugin
<1>7. job'.op = "uninstall" /\ job'.offer.id = id
  BY <1>1, <1>6, EntryIsIt
<1>8. JobFits'
  BY <1>3, <1>7 DEF JobFits, replacing
<1>9. CheckFits' /\ ReportFits'
  BY <1>2, <1>3, NewGenerationFits DEF HostIsSound
<1>10. NumbersFit'
  <2>1. allNumbers' = allNumbers
    BY <1>2, <1>3 DEF allNumbers
  <2>2. \A n \in allNumbers' : n \in Nat /\ n <= lastNo'
    BY <1>4, <2>1 DEF HostIsSound, NumbersFit
  <2> QED
    BY <1>2, <1>3, <1>5, <1>7, <2>2 DEF HostIsSound, NumbersFit
<1> QED
  BY <1>1, <1>2, <1>3, <1>8, <1>9, <1>10 DEF HostIsSound

LEMMA RemoveEntries ==
  ASSUME NEW P, NEW R \in SUBSET P, oneEntryEach(P)
  PROVE  /\ rulesOf(P \ R) = rulesOf(P) \ rulesOf(R)
         /\ numbers(P \ R) \cap numbers(R) = {}
         /\ numbers(P) = numbers(P \ R) \cup numbers(R)
         /\ oneEntryEach(P \ R)
<1>1. \A e, f \in P : e.no = f.no => e = f
  BY DEF oneEntryEach
<1>2. numbers(P \ R) \cap numbers(R) = {}
  BY <1>1 DEF numbers
<1>3. numbers(P) = numbers(P \ R) \cup numbers(R)
  BY DEF numbers
<1>4. rulesOf(P \ R) = rulesOf(P) \ rulesOf(R)
  <2>1. ASSUME NEW e \in P \ R, NEW f \in R PROVE added(e) \cap added(f) = {}
    <3>1. e.no # f.no
      BY <1>1, <2>1
    <3> QED
      BY <3>1, AddedFacts
  <2> QED
    BY <2>1 DEF rulesOf
<1> QED
  BY <1>2, <1>3, <1>4 DEF oneEntryEach

LEMMA AddEntry ==
  ASSUME NEW P, NEW e, oneEntryEach(P), e.no \notin numbers(P),
         \A f \in P : f.offer.id # e.offer.id
  PROVE  /\ oneEntryEach(P \cup {e})
         /\ numbers(P \cup {e}) = numbers(P) \cup {e.no}
         /\ rulesOf(P \cup {e}) = rulesOf(P) \cup added(e)
<1>1. \A f \in P : f.no # e.no
  BY DEF numbers
<1> QED
  BY <1>1 DEF oneEntryEach, numbers, rulesOf

LEMMA NoJobFits == ASSUME Ends PROVE JobFits' /\ job'.op = "none"
<1>1. job'.op = "none"
  BY DEF Ends, NoJob
<1> QED
  BY <1>1 DEF JobFits, replacing

LEMMA SetupFailureIsSound ==
  ASSUME PluginTypes, HostIsSound, SetupFails
  PROVE  HostIsSound'
<1>1. UNCHANGED <<plugins, contributions, generation, report, check, hostRevision, alive, setUp,
                  attempted, cleaned, calls>>
  BY DEF SetupFails, ghosts
<1>2. JobFits' /\ job'.op = "none"
  BY NoJobFits DEF SetupFails
<1>3. oneEntryEach(plugins)' /\ CheckFits' /\ ReportFits'
  BY <1>1 DEF HostIsSound, CheckFits, ReportFits, oneEntryEach, servingOf, numbers
<1>4. NumbersFit'
  <2>1. allNumbers' = allNumbers /\ numbers(plugins)' = numbers(plugins) /\ lastNo' = lastNo
    BY <1>1 DEF allNumbers, numbers, lastNo
  <2>2. job.no \notin setUp
    BY DEF SetupFails, HostIsSound, JobFits, allNumbers
  <2>3. setUp \subseteq numbers(plugins) \cup attempted
    BY <2>2 DEF HostIsSound, NumbersFit
  <2> QED
    BY <1>1, <1>2, <2>1, <2>3 DEF HostIsSound, NumbersFit
<1>5. contributions' = rulesOf(plugins)' /\ (alive' \/ plugins' = {})
  BY <1>1 DEF HostIsSound, rulesOf
<1> QED
  BY <1>2, <1>3, <1>4, <1>5 DEF HostIsSound

LEMMA SetupIsSound ==
  ASSUME PluginTypes, HostIsSound, SetupReturns
  PROVE  HostIsSound'
<1>1. /\ JobFits' /\ job'.op = "none"
      /\ alive /\ UNCHANGED <<check, hostRevision, alive, calls>>
      /\ setUp' = setUp \cup {job.no}
  BY NoJobFits DEF SetupReturns
<1>2. /\ job.no \notin allNumbers /\ job.no <= lastNo /\ ~isInstalled(job.offer.id)
  BY DEF SetupReturns, HostIsSound, JobFits
<1>3. job.no \in Nat /\ stagedEntry.no = job.no /\ stagedEntry.offer = job.offer
  BY JobTypes, StagedIsTyped DEF SetupReturns
<1>4. lastNo' = lastNo
  BY <1>1 DEF lastNo
<1>5. CASE collides
  <2>1. /\ UNCHANGED <<plugins, contributions, generation, report>>
        /\ attempted' = attempted \cup {job.no}
        /\ cleaned \subseteq cleaned' /\ cleaned' \subseteq cleaned \cup {job.no}
    BY <1>5 DEF SetupReturns, safePluginCleanup
  <2>2. oneEntryEach(plugins)' /\ CheckFits' /\ ReportFits'
    BY <1>1, <2>1 DEF HostIsSound, CheckFits, ReportFits, oneEntryEach, servingOf, numbers
  <2>3. NumbersFit'
    <3>1. numbers(plugins)' = numbers(plugins)
      BY <2>1 DEF numbers
    <3>2. allNumbers' = allNumbers \cup {job.no}
      BY <1>1, <2>1, <3>1 DEF allNumbers
    <3>3. \A n \in allNumbers' : n \in Nat /\ n <= lastNo'
      BY <1>2, <1>3, <1>4, <3>2 DEF HostIsSound, NumbersFit
    <3>4. cleaned' \cap numbers(plugins)' = {}
      BY <1>2, <2>1, <3>1 DEF HostIsSound, NumbersFit, allNumbers
    <3>5. setUp \subseteq numbers(plugins) \cup attempted
      BY DEF HostIsSound, NumbersFit, SetupReturns
    <3> QED
      BY <1>1, <2>1, <3>1, <3>3, <3>4, <3>5 DEF NumbersFit
  <2>4. contributions' = rulesOf(plugins)'
    BY <2>1 DEF HostIsSound, rulesOf
  <2> QED
    BY <1>1, <2>2, <2>3, <2>4 DEF HostIsSound
<1>6. CASE ~collides
  <2>1. /\ plugins' = plugins \cup {stagedEntry}
        /\ contributions' = contributions \cup added(stagedEntry)
        /\ NewGeneration /\ UNCHANGED <<attempted, cleaned>>
    BY <1>6 DEF SetupReturns
  <2>2. CheckFits' /\ ReportFits'
    BY <1>1, <2>1, NewGenerationFits DEF HostIsSound
  <2>3. /\ oneEntryEach(plugins \cup {stagedEntry})
        /\ numbers(plugins \cup {stagedEntry}) = numbers(plugins) \cup {job.no}
        /\ rulesOf(plugins \cup {stagedEntry}) = rulesOf(plugins) \cup added(stagedEntry)
    <3>1. oneEntryEach(plugins) /\ stagedEntry.no \notin numbers(plugins)
      BY <1>2, <1>3 DEF HostIsSound, allNumbers
    <3>2. \A f \in plugins : f.offer.id # stagedEntry.offer.id
      BY <1>2, <1>3 DEF isInstalled
    <3> HIDE DEF stagedEntry
    <3> QED
      BY <1>3, <3>1, <3>2, AddEntry
  <2>4. /\ oneEntryEach(plugins') /\ numbers(plugins') = numbers(plugins) \cup {job.no}
        /\ rulesOf(plugins') = contributions'
    BY <2>1, <2>3 DEF HostIsSound
  <2>5. /\ oneEntryEach(plugins)' /\ numbers(plugins)' = numbers(plugins) \cup {job.no}
        /\ rulesOf(plugins)' = contributions'
    BY <2>4 DEF oneEntryEach, numbers, rulesOf
  <2>6. NumbersFit'
    <3>1. allNumbers' = allNumbers \cup {job.no}
      BY <1>1, <2>1, <2>5 DEF allNumbers
    <3>2. \A n \in allNumbers' : n \in Nat /\ n <= lastNo'
      BY <1>2, <1>3, <1>4, <3>1 DEF HostIsSound, NumbersFit
    <3>3. cleaned' \cap numbers(plugins)' = {}
      BY <1>2, <2>1, <2>5 DEF HostIsSound, NumbersFit, allNumbers
    <3>4. setUp \subseteq numbers(plugins) \cup attempted
      BY DEF HostIsSound, NumbersFit, SetupReturns
    <3> QED
      BY <1>1, <2>1, <2>5, <3>2, <3>3, <3>4 DEF NumbersFit
  <2> QED
    BY <1>1, <2>2, <2>5, <2>6 DEF HostIsSound
<1> QED
  BY <1>5, <1>6

LEMMA ReplacementIsSound ==
  ASSUME PluginTypes, HostIsSound, ReplacedIsInstalled, ReplacementReady
  PROVE  HostIsSound'
<1>1. isInstalled(job.offer.id) /\ Pauses(job.offer.id)
  BY DEF ReplacementReady, ReplacedIsInstalled, preparing
<1>2. /\ alive /\ UNCHANGED <<contributions, check, hostRevision, alive, attempted, cleaned, calls>>
      /\ setUp' = setUp \cup {job.no}
      /\ job' = [job EXCEPT !.stage = "cleanup"]
      /\ job.op = "reload" /\ job.stage = "setup"
  BY DEF ReplacementReady
<1>3. job'.op = "reload" /\ job'.stage = "cleanup" /\ job'.no = job.no /\ job'.offer = job.offer
  BY <1>2, JobTypes
<1>4. /\ numbers(plugins)' = numbers(plugins)
      /\ rulesOf(plugins)' = rulesOf(plugins)
      /\ oneEntryEach(plugins)'
      /\ \A e \in plugins' : e.offer.id = job.offer.id => ~e.accepting
      /\ NewGeneration
  BY <1>1, PauseFacts
<1>5. CheckFits' /\ ReportFits'
  BY <1>2, <1>4, NewGenerationFits DEF HostIsSound
<1>6. lastNo' = lastNo /\ job.no \in Nat
  BY <1>2, JobTypes DEF lastNo
<1>7. job.no \notin allNumbers /\ job.no <= lastNo
  BY <1>2 DEF HostIsSound, JobFits
<1>8. JobFits'
  <2>1. job'.no \notin numbers(plugins)' \cup cleaned'
    BY <1>2, <1>3, <1>4, <1>7 DEF allNumbers
  <2>2. \A e \in plugins' : e.offer.id = job'.offer.id => ~e.accepting
    BY <1>3, <1>4
  <2>3. job'.no <= lastNo'
    BY <1>3, <1>6, <1>7
  <2> QED
    BY <1>2, <1>3, <2>1, <2>2, <2>3 DEF JobFits
<1>9. NumbersFit'
  <2>1. allNumbers' = allNumbers \cup {job.no}
    BY <1>2, <1>4 DEF allNumbers
  <2>2. \A n \in allNumbers' : n \in Nat /\ n <= lastNo'
    BY <1>6, <1>7, <2>1 DEF HostIsSound, NumbersFit
  <2>3. setUp \subseteq numbers(plugins) \cup attempted \cup {job.no}
    BY <1>2 DEF HostIsSound, NumbersFit
  <2>4. cleaned' \cap numbers(plugins)' = {}
    BY <1>2, <1>4 DEF HostIsSound, NumbersFit
  <2> QED
    BY <1>2, <1>3, <1>4, <2>2, <2>3, <2>4 DEF NumbersFit
<1> QED
  BY <1>2, <1>4, <1>5, <1>8, <1>9 DEF HostIsSound

LEMMA RemovingIsAll ==
  ASSUME HostIsSound
  PROVE  /\ removing \in SUBSET plugins
         /\ \A e \in plugins : e \in removing <=> e.offer.id = job.offer.id
<1>1. CASE isInstalled(job.offer.id)
  BY <1>1, EntryIsIt DEF removing, HostIsSound
<1>2. CASE ~isInstalled(job.offer.id)
  BY <1>2 DEF removing, isInstalled
<1> QED
  BY <1>1, <1>2

LEMMA RemovalIsSound ==
  ASSUME PluginTypes, HostIsSound, NEW succeeds \in BOOLEAN, UninstallCleanup(succeeds)
  PROVE  HostIsSound'
<1>1. PICK R : R = removing
  OBVIOUS
<1>2. R \in SUBSET plugins /\ \A e \in R : ~e.accepting
  BY <1>1, RemovingIsAll DEF HostIsSound, JobFits, UninstallCleanup
<1>3. /\ attempted' = attempted \cup numbers(R)
      /\ cleaned \subseteq cleaned' /\ cleaned' \subseteq cleaned \cup numbers(R)
      /\ contributions' = contributions \ rulesOf(R)
      /\ plugins' = plugins \ R
      /\ UNCHANGED <<generation, report, check, hostRevision, alive, setUp, calls>>
  BY <1>1 DEF UninstallCleanup, safePluginCleanup, rulesOf
<1>4. /\ JobFits' /\ job'.op = "none"
  BY NoJobFits DEF UninstallCleanup
<1>5. /\ rulesOf(plugins \ R) = rulesOf(plugins) \ rulesOf(R)
      /\ numbers(plugins \ R) \cap numbers(R) = {}
      /\ numbers(plugins) = numbers(plugins \ R) \cup numbers(R)
      /\ oneEntryEach(plugins \ R)
  BY <1>2, RemoveEntries DEF HostIsSound
<1>6. /\ oneEntryEach(plugins') /\ rulesOf(plugins') = contributions'
      /\ numbers(plugins') \cap numbers(R) = {}
      /\ numbers(plugins) = numbers(plugins') \cup numbers(R)
  BY <1>3, <1>5 DEF HostIsSound
<1>7. /\ oneEntryEach(plugins)' /\ rulesOf(plugins)' = contributions'
      /\ numbers(plugins)' \cap numbers(R) = {}
      /\ numbers(plugins) = numbers(plugins)' \cup numbers(R)
  BY <1>6 DEF oneEntryEach, numbers, rulesOf
<1>8. servingOf(plugins') = servingOf(plugins)
  BY <1>2, <1>3 DEF servingOf, numbers
<1>9. \A n \in servingOf(plugins) : n \notin numbers(R)
  BY <1>2 DEF servingOf, numbers, HostIsSound, oneEntryEach
<1>10. \A c : c.no \in servingOf(plugins) => c \notin rulesOf(R)
  BY <1>9, AddedFacts DEF rulesOf, numbers
<1>11. CheckFits'
  <2>1. CASE check = <<>>
    BY <1>3, <2>1 DEF CheckFits
  <2>2. CASE check # <<>>
    <3>1. check[1].generation = generation =>
            /\ check[1].asked \subseteq contributions'
            /\ check[1].stage # "scan" =>
                 contributions' \subseteq check[1].left \cup check[1].asked
            /\ \A c \in check[1].asked : c.no \in servingOf(plugins')
      BY <1>3, <1>8, <1>10, <2>2 DEF HostIsSound, CheckFits
    <3>3. leftAreNamed(check[1].left, plugins) => leftAreNamed(check[1].left, plugins')
      BY <1>3 DEF leftAreNamed
    <3>2. servingOf(plugins)' = servingOf(plugins')
      BY DEF servingOf, numbers
    <3> QED
      BY <1>3, <2>2, <3>1, <3>2, <3>3 DEF HostIsSound, CheckFits
  <2> QED
    BY <2>1, <2>2
<1>12. ReportFits'
  <2>1. servingOf(plugins)' = servingOf(plugins)
    BY <1>8 DEF servingOf, numbers
  <2>2. report # <<>> /\ report[1].revision = hostRevision => contributions' = contributions
    BY <1>3, <1>10 DEF HostIsSound, ReportFits
  <2> QED
    BY <1>3, <2>1, <2>2 DEF HostIsSound, ReportFits
<1>13. NumbersFit'
  <2>1. allNumbers' \subseteq allNumbers /\ lastNo' = lastNo
    BY <1>3, <1>7 DEF allNumbers, lastNo, HostIsSound, NumbersFit
  <2>2. \A n \in allNumbers' : n \in Nat /\ n <= lastNo'
    BY <2>1 DEF HostIsSound, NumbersFit
  <2>3. cleaned' \cap numbers(plugins)' = {}
    BY <1>3, <1>7 DEF HostIsSound, NumbersFit
  <2>4. setUp \subseteq numbers(plugins) \cup attempted
    BY DEF HostIsSound, NumbersFit, UninstallCleanup
  <2> QED
    BY <1>3, <1>4, <1>7, <2>2, <2>3, <2>4 DEF NumbersFit
<1>14. alive' \/ plugins' = {}
  BY <1>2, <1>3 DEF HostIsSound
<1> QED
  BY <1>4, <1>7, <1>11, <1>12, <1>13, <1>14 DEF HostIsSound

LEMMA ReloadIsSound ==
  ASSUME PluginTypes, HostIsSound, NEW succeeds \in BOOLEAN, ReloadCleanup(succeeds)
  PROVE  HostIsSound'
<1>1. /\ replacing /\ alive
      /\ UNCHANGED <<check, hostRevision, alive, setUp, calls>>
      /\ JobFits' /\ job'.op = "none"
  <2>1. replacing
    BY DEF ReloadCleanup, replacing
  <2> QED
    BY <2>1, NoJobFits DEF ReloadCleanup, HostIsSound, JobFits
<1>2. /\ job.no \in Nat /\ job.no <= lastNo
      /\ job.no \notin numbers(plugins) \cup cleaned
      /\ stagedEntry.no = job.no /\ stagedEntry.offer = job.offer
      /\ setUp \subseteq numbers(plugins) \cup attempted \cup {job.no}
  BY <1>1, JobTypes, StagedIsTyped DEF replacing, HostIsSound, JobFits, NumbersFit
<1>3. PICK R : R = removing
  OBVIOUS
<1>4. /\ R \in SUBSET plugins /\ oneEntryEach(plugins)
      /\ \A e \in plugins : e \in R <=> e.offer.id = job.offer.id
  BY <1>3, RemovingIsAll DEF HostIsSound
<1>5. lastNo' = lastNo
  BY <1>1 DEF lastNo
<1>6. CASE succeeds
  <2>1. /\ plugins' = (plugins \ R) \cup {stagedEntry}
        /\ attempted' = attempted \cup numbers(R) /\ cleaned' = cleaned \cup numbers(R)
        /\ contributions' = (contributions \ rulesOf(R)) \cup added(stagedEntry)
        /\ NewGeneration
    BY <1>3, <1>6 DEF ReloadCleanup, Replaces, safePluginCleanup, rulesOf
  <2>2. CheckFits' /\ ReportFits'
    BY <1>1, <2>1, NewGenerationFits DEF HostIsSound
  <2>3. /\ rulesOf(plugins \ R) = rulesOf(plugins) \ rulesOf(R)
        /\ numbers(plugins \ R) \cap numbers(R) = {}
        /\ numbers(plugins) = numbers(plugins \ R) \cup numbers(R)
        /\ oneEntryEach(plugins \ R)
    BY <1>4, RemoveEntries
  <2>4. /\ oneEntryEach((plugins \ R) \cup {stagedEntry})
        /\ numbers((plugins \ R) \cup {stagedEntry}) = numbers(plugins \ R) \cup {job.no}
        /\ rulesOf((plugins \ R) \cup {stagedEntry}) = rulesOf(plugins \ R) \cup added(stagedEntry)
    <3>1. stagedEntry.no \notin numbers(plugins \ R)
      BY <1>2, <2>3
    <3>2. \A f \in plugins \ R : f.offer.id # stagedEntry.offer.id
      BY <1>2, <1>4
    <3> HIDE DEF stagedEntry
    <3> QED
      BY <1>2, <2>3, <3>1, <3>2, AddEntry
  <2>5. /\ oneEntryEach(plugins') /\ numbers(plugins') = numbers(plugins \ R) \cup {job.no}
        /\ rulesOf(plugins') = contributions'
    BY <2>1, <2>3, <2>4 DEF HostIsSound
  <2>6. /\ oneEntryEach(plugins)' /\ numbers(plugins)' = numbers(plugins \ R) \cup {job.no}
        /\ rulesOf(plugins)' = contributions'
    BY <2>5 DEF oneEntryEach, numbers, rulesOf
  <2>7. NumbersFit'
    <3>1. allNumbers' \subseteq allNumbers \cup {job.no}
      BY <1>1, <2>1, <2>3, <2>6 DEF allNumbers
    <3>2. \A n \in allNumbers' : n \in Nat /\ n <= lastNo'
      BY <1>2, <1>5, <3>1 DEF HostIsSound, NumbersFit
    <3>3. cleaned' \cap numbers(plugins)' = {}
      BY <1>2, <2>1, <2>3, <2>6 DEF HostIsSound, NumbersFit
    <3>4. setUp' \subseteq numbers(plugins)' \cup attempted'
      BY <1>1, <1>2, <2>1, <2>3, <2>6
    <3> QED
      BY <3>2, <3>3, <3>4 DEF NumbersFit
  <2> QED
    BY <1>1, <2>2, <2>6, <2>7 DEF HostIsSound
<1>7. CASE ~succeeds
  <2>1. /\ plugins' = (plugins \ R) \cup {taking(e, TRUE) : e \in R}
        /\ attempted' = attempted \cup numbers(R) \cup {job.no}
        /\ cleaned \subseteq cleaned' /\ cleaned' \subseteq cleaned \cup {job.no}
        /\ contributions' = contributions
        /\ NewGeneration
    BY <1>3, <1>7 DEF ReloadCleanup, Resumes, safePluginCleanup, taking
  <2>2. CheckFits' /\ ReportFits'
    BY <1>1, <2>1, NewGenerationFits DEF HostIsSound
  <2>3. /\ oneEntryEach(plugins') /\ numbers(plugins') = numbers(plugins)
        /\ rulesOf(plugins') = rulesOf(plugins)
    <3>1. CASE R = {}
      BY <1>4, <2>1, <3>1
    <3>2. CASE R # {}
      <4>1. PICK x \in plugins : R = {x}
        BY <1>4, <3>2 DEF oneEntryEach
      <4>2. plugins' = (plugins \ {x}) \cup {taking(x, TRUE)}
        BY <2>1, <4>1
      <4>3. plugins \in SUBSET Entries /\ TRUE \in BOOLEAN
        BY DEF PluginTypes
      <4>4. /\ numbers((plugins \ {x}) \cup {taking(x, TRUE)}) = numbers(plugins)
            /\ rulesOf((plugins \ {x}) \cup {taking(x, TRUE)}) = rulesOf(plugins)
            /\ oneEntryEach(plugins) => oneEntryEach((plugins \ {x}) \cup {taking(x, TRUE)})
        BY <4>3, SwapEntry
      <4> QED
        BY <1>4, <4>2, <4>4
    <3> QED
      BY <3>1, <3>2
  <2>4. /\ oneEntryEach(plugins)' /\ numbers(plugins)' = numbers(plugins)
        /\ rulesOf(plugins)' = rulesOf(plugins)
    BY <2>3 DEF oneEntryEach, numbers, rulesOf
  <2>5. NumbersFit'
    <3>1. numbers(R) \subseteq numbers(plugins)
      BY <1>4 DEF numbers
    <3>2. allNumbers' \subseteq allNumbers \cup {job.no}
      BY <1>1, <2>1, <2>4, <3>1 DEF allNumbers
    <3>3. \A n \in allNumbers' : n \in Nat /\ n <= lastNo'
      BY <1>2, <1>5, <3>2 DEF HostIsSound, NumbersFit
    <3>4. cleaned' \cap numbers(plugins)' = {}
      BY <1>2, <2>1, <2>4 DEF HostIsSound, NumbersFit
    <3>5. setUp' \subseteq numbers(plugins)' \cup attempted'
      BY <1>1, <1>2, <2>1, <2>4
    <3> QED
      BY <3>3, <3>4, <3>5 DEF NumbersFit
  <2> QED
    BY <1>1, <2>1, <2>2, <2>4, <2>5 DEF HostIsSound
<1> QED
  BY <1>6, <1>7

LEMMA CommandReturnIsSound ==
  ASSUME PluginTypes, HostIsSound, NEW commits \in BOOLEAN, CommandReturns(commits)
  PROVE  HostIsSound'
<1>1. /\ UNCHANGED <<plugins, contributions, generation, report, check, alive, setUp, attempted,
                     cleaned, calls>>
      /\ JobFits' /\ job'.op = "none" /\ job.op = "command"
  BY NoJobFits DEF CommandReturns, ghosts
<1>2. hostRevision \in Nat /\ (hostRevision' = hostRevision \/ hostRevision' = hostRevision + 1)
  BY DEF CommandReturns, PluginTypes
<1>3. oneEntryEach(plugins)' /\ servingOf(plugins)' = servingOf(plugins)
      /\ numbers(plugins)' = numbers(plugins) /\ rulesOf(plugins)' = rulesOf(plugins)
  BY <1>1 DEF HostIsSound, oneEntryEach, servingOf, numbers, rulesOf
<1>4. CheckFits'
  <2>1. CASE check = <<>>
    BY <1>1, <2>1 DEF CheckFits
  <2>2. CASE check # <<>>
    <3>1. check[1].revision \in Nat
      BY <2>2, CheckIsTyped DEF Checks
    <3>2. check[1].revision <= hostRevision
      BY <2>2 DEF HostIsSound, CheckFits
    <3>3. check[1].revision <= hostRevision'
      BY <1>2, <3>1, <3>2
    <3>4. leftAreNamed(check[1].left, plugins) => leftAreNamed(check'[1].left, plugins')
      BY <1>1 DEF leftAreNamed
    <3> QED
      BY <1>1, <1>3, <2>2, <3>3, <3>4 DEF HostIsSound, CheckFits, leftAreNamed
  <2> QED
    BY <2>1, <2>2
<1>5. ReportFits'
  <2>1. CASE report = <<>>
    BY <1>1, <2>1 DEF ReportFits
  <2>2. CASE report # <<>>
    <3>1. report[1].revision \in Nat
      BY <2>2 DEF PluginTypes, Reports
    <3>2. report[1].revision <= hostRevision
      BY <2>2 DEF HostIsSound, ReportFits
    <3>3. report[1].revision <= hostRevision'
          /\ (report[1].revision = hostRevision' => hostRevision' = hostRevision)
      BY <1>2, <3>1, <3>2
    <3> QED
      BY <1>1, <1>3, <2>2, <3>3 DEF HostIsSound, ReportFits
  <2> QED
    BY <2>1, <2>2
<1>6. NumbersFit'
  <2>1. allNumbers' = allNumbers /\ lastNo' = lastNo
    BY <1>1, <1>3 DEF allNumbers, lastNo
  <2> QED
    BY <1>1, <1>3, <2>1 DEF HostIsSound, NumbersFit
<1> QED
  BY <1>1, <1>3, <1>4, <1>5, <1>6 DEF HostIsSound

(* A step of a validation leaves the host as it is.                        *)
LEMMA HostStands ==
  ASSUME PluginTypes, HostIsSound, CheckFits', ReportFits',
         UNCHANGED <<plugins, contributions, generation, job, hostRevision, alive, setUp,
                     attempted, cleaned>>,
         calls' = calls \/ calls' = calls + 1
  PROVE  HostIsSound'
<1>1. oneEntryEach(plugins)' /\ numbers(plugins)' = numbers(plugins)
      /\ rulesOf(plugins)' = rulesOf(plugins) /\ (replacing' <=> replacing)
      /\ (isInstalled(job.offer.id)' <=> isInstalled(job.offer.id))
  BY DEF HostIsSound, oneEntryEach, numbers, rulesOf, replacing, isInstalled
<1>2. allNumbers' = allNumbers
  BY <1>1 DEF allNumbers
<1>3. lastNo \in Nat /\ lastNo' \in {lastNo, lastNo + 1}
  BY NumberTypes DEF lastNo, PluginTypes
<1>4. job.op \in {"install", "reload"} => job.no \in Nat
  BY JobTypes
<1>5. job.op \in {"install", "reload"} => job'.no <= lastNo'
  BY <1>3, <1>4 DEF HostIsSound, JobFits
<1>6. JobFits'
  BY <1>1, <1>2, <1>5 DEF HostIsSound, JobFits
<1>7. NumbersFit'
  <2>1. \A n \in allNumbers' : n \in Nat /\ n <= lastNo'
    BY <1>2, <1>3 DEF HostIsSound, NumbersFit
  <2> QED
    BY <1>1, <2>1 DEF HostIsSound, NumbersFit
<1> QED
  BY <1>1, <1>6, <1>7 DEF HostIsSound

LEMMA ReportStands ==
  ASSUME ReportFits, UNCHANGED <<plugins, contributions, report, hostRevision>>
  PROVE  ReportFits'
BY DEF ReportFits, servingOf, numbers

LEMMA LeftNames ==
  ASSUME NEW P, oneEntryEach(P)
  PROVE  leftAreNamed(rulesOf(P), P)
<1> SUFFICES ASSUME NEW c \in rulesOf(P), NEW e \in P, c.no = e.no PROVE c.id = e.offer.id
  BY DEF leftAreNamed
<1>1. PICK f \in P : c \in added(f)
  BY DEF rulesOf
<1>2. c.no = f.no /\ c.id = f.offer.id
  BY <1>1, AddedFacts
<1> QED
  BY <1>2 DEF oneEntryEach

LEMMA CallFits ==
  ASSUME PluginTypes, HostIsSound, NEW c \in UNION {check[i].left : i \in DOMAIN check},
         CallValidator(c)
  PROVE  CheckFits'
<1>1. /\ check # <<>> /\ c \in check[1].left /\ check[1].stage = "next"
      /\ check[1].revision = hostRevision /\ check[1].generation = generation
      /\ UNCHANGED <<plugins, contributions, generation, hostRevision>>
  BY DEF CallValidator, isValidationCurrent
<1>2. PICK e \in plugins : e.no = c.no /\ c.rule \in e.rules /\ e.accepting
  BY DEF CallValidator
<1>3. PICK k \in Checks : k = check[1]
  BY <1>1, CheckIsTyped
<1>4. PICK d : d = [k EXCEPT !.stage = "hook", !.left = @ \ {c}, !.asked = @ \cup {c}]
  OBVIOUS
<1>5. check' = <<d>>
  BY <1>3, <1>4 DEF CallValidator
<1>6. /\ d.revision = k.revision /\ d.generation = k.generation /\ d.stage = "hook"
      /\ d.left = k.left \ {c} /\ d.asked = k.asked \cup {c}
  BY <1>4 DEF Checks
<1>7. /\ k.asked \subseteq contributions /\ contributions \subseteq k.left \cup k.asked
      /\ \A a \in k.asked : a.no \in servingOf(plugins)
      /\ leftAreNamed(k.left, plugins)
  BY <1>1, <1>3 DEF HostIsSound, CheckFits
<1>8. c \in contributions
  <2>1. c.id = e.offer.id
    BY <1>1, <1>2, <1>3, <1>7 DEF leftAreNamed
  <2>2. c \in Rules
    BY <1>1, <1>3 DEF Checks
  <2>3. c = [no |-> e.no, id |-> e.offer.id, rule |-> c.rule]
    BY <1>2, <2>1, <2>2 DEF Rules
  <2>4. c \in added(e)
    BY <1>2, <2>3 DEF added
  <2> QED
    BY <2>4 DEF HostIsSound, rulesOf
<1>9. c.no \in servingOf(plugins)
  BY <1>2 DEF servingOf, numbers
<1>10. d.asked \subseteq contributions /\ contributions \subseteq d.left \cup d.asked
       /\ (\A a \in d.asked : a.no \in servingOf(plugins)) /\ leftAreNamed(d.left, plugins)
  BY <1>6, <1>7, <1>8, <1>9 DEF leftAreNamed
<1>11. check'[1] = d /\ d.revision <= hostRevision /\ d.generation <= generation
  BY <1>1, <1>3, <1>5, <1>6 DEF PluginTypes
<1>12. servingOf(plugins)' = servingOf(plugins)
       /\ (leftAreNamed(d.left, plugins) => leftAreNamed(check'[1].left, plugins'))
  BY <1>1, <1>11 DEF servingOf, numbers
<1> QED
  BY <1>1, <1>6, <1>10, <1>11, <1>12 DEF CheckFits, leftAreNamed

LEMMA ScanFits ==
  ASSUME PluginTypes, HostIsSound, ScanDone \/ ValidatorReturns
  PROVE  CheckFits'
<1>1. /\ check # <<>>
      /\ check[1].revision = hostRevision /\ check[1].generation = generation
      /\ UNCHANGED <<plugins, contributions, generation, hostRevision>>
  BY DEF ScanDone, ValidatorReturns, isValidationCurrent
<1>2. PICK k \in Checks : k = check[1]
  BY <1>1, CheckIsTyped
<1>3. /\ k.asked \subseteq contributions /\ (k.stage = "scan" => k.asked = {})
      /\ k.stage # "scan" => contributions \subseteq k.left \cup k.asked
      /\ \A a \in k.asked : a.no \in servingOf(plugins)
      /\ leftAreNamed(k.left, plugins)
  BY <1>1, <1>2 DEF HostIsSound, CheckFits
<1>4. PICK d : /\ check' = <<d>> /\ d.revision = k.revision /\ d.generation = k.generation
               /\ d.stage = "next" /\ d.asked = k.asked
               /\ \/ d.left = contributions
                  \/ d.left = k.left /\ k.stage = "hook"
  <2>1. CASE ScanDone
    <3>1. PICK d : d = [k EXCEPT !.stage = "next", !.left = contributions]
      OBVIOUS
    <3>2. d.revision = k.revision /\ d.generation = k.generation
          /\ d.stage = "next" /\ d.asked = k.asked /\ d.left = contributions
      BY <3>1 DEF Checks
    <3>3. check' = <<d>>
      BY <1>2, <2>1, <3>1 DEF ScanDone
    <3> QED
      BY <3>2, <3>3
  <2>2. CASE ValidatorReturns
    <3>1. PICK d : d = [k EXCEPT !.stage = "next"]
      OBVIOUS
    <3>2. d.revision = k.revision /\ d.generation = k.generation
          /\ d.stage = "next" /\ d.asked = k.asked /\ d.left = k.left
      BY <3>1 DEF Checks
    <3>3. check' = <<d>> /\ k.stage = "hook"
      BY <1>2, <2>2, <3>1 DEF ValidatorReturns
    <3> QED
      BY <3>2, <3>3
  <2> QED
    BY <2>1, <2>2
<1>5. leftAreNamed(contributions, plugins)
  BY LeftNames DEF HostIsSound
<1>6. contributions \subseteq d.left \cup d.asked /\ leftAreNamed(d.left, plugins)
  BY <1>3, <1>4, <1>5
<1>7. check'[1] = d /\ d.revision <= hostRevision /\ d.generation <= generation
  BY <1>1, <1>2, <1>4 DEF PluginTypes
<1>8. servingOf(plugins)' = servingOf(plugins)
      /\ (leftAreNamed(d.left, plugins) => leftAreNamed(check'[1].left, plugins'))
  BY <1>1, <1>7 DEF servingOf, numbers
<1> QED
  BY <1>1, <1>3, <1>4, <1>6, <1>7, <1>8 DEF CheckFits, leftAreNamed

LEMMA ValidationIsSound ==
  ASSUME PluginTypes, HostIsSound,
         \/ StartValidation \/ ValidationEnds \/ ScanDone
         \/ \E c \in UNION {check[i].left : i \in DOMAIN check} : CallValidator(c)
         \/ ValidatorReturns \/ PublishValidationChanged
  PROVE  HostIsSound'
<1>1. CASE StartValidation
  <2>1. UNCHANGED <<plugins, contributions, generation, job, hostRevision, alive, setUp,
                    attempted, cleaned, report>> /\ calls' = calls + 1
    BY <1>1 DEF StartValidation, PluginCall, ghosts
  <2>2. check'[1] = [revision |-> hostRevision, generation |-> generation, stage |-> "scan",
                     left |-> {}, asked |-> {}]
    BY <1>1 DEF StartValidation
  <2>3. check'[1].revision = hostRevision /\ check'[1].generation = generation
        /\ check'[1].stage = "scan" /\ check'[1].left = {} /\ check'[1].asked = {}
    BY <2>2
  <2>4. CheckFits'
    BY <2>1, <2>3 DEF CheckFits, PluginTypes, leftAreNamed
  <2>5. ReportFits'
    BY <2>1, ReportStands DEF HostIsSound
  <2> QED
    BY <2>1, <2>4, <2>5, HostStands
<1>2. CASE ValidationEnds
  <2>1. UNCHANGED <<plugins, contributions, generation, job, hostRevision, alive, setUp,
                    attempted, cleaned, report, calls>> /\ check' = <<>>
    BY <1>2 DEF ValidationEnds, ghosts
  <2>2. ReportFits' /\ CheckFits'
    BY <2>1, ReportStands DEF HostIsSound, CheckFits
  <2> QED
    BY <2>1, <2>2, HostStands
<1>3. CASE ScanDone \/ ValidatorReturns
  <2>1. UNCHANGED <<plugins, contributions, generation, job, hostRevision, alive, setUp,
                    attempted, cleaned, report, calls>>
    BY <1>3 DEF ScanDone, ValidatorReturns, ghosts
  <2>2. ReportFits' /\ CheckFits'
    BY <1>3, <2>1, ReportStands, ScanFits DEF HostIsSound
  <2> QED
    BY <2>1, <2>2, HostStands
<1>4. ASSUME NEW c \in UNION {check[i].left : i \in DOMAIN check}, CallValidator(c)
      PROVE  HostIsSound'
  <2>1. UNCHANGED <<plugins, contributions, generation, job, hostRevision, alive, setUp,
                    attempted, cleaned, report, calls>>
    BY <1>4 DEF CallValidator, ghosts
  <2>2. ReportFits' /\ CheckFits'
    BY <1>4, <2>1, ReportStands, CallFits DEF HostIsSound
  <2> QED
    BY <2>1, <2>2, HostStands
<1>5. CASE PublishValidationChanged
  <2>1. UNCHANGED <<plugins, contributions, generation, job, hostRevision, alive, setUp,
                    attempted, cleaned, calls>> /\ check' = <<>>
    BY <1>5 DEF PublishValidationChanged, ghosts
  <2>2. check # <<>> /\ check[1].stage = "next" /\ check[1].left = {}
        /\ check[1].generation = generation
    BY <1>5 DEF PublishValidationChanged, isValidationCurrent
  <2>3. check[1].asked = contributions /\ \A c \in check[1].asked : c.no \in servingOf(plugins)
    BY <2>2 DEF HostIsSound, CheckFits
  <2>4. report'[1].revision = hostRevision /\ report'[1].asked = contributions
    BY <1>5, <2>3 DEF PublishValidationChanged
  <2>5. ReportFits'
    BY <2>1, <2>3, <2>4 DEF ReportFits, servingOf, numbers, PluginTypes
  <2>6. CheckFits'
    BY <2>1 DEF CheckFits
  <2> QED
    BY <2>1, <2>5, <2>6, HostStands
<1> QED
  BY <1>1, <1>2, <1>3, <1>4, <1>5

LEMMA DestroyIsSound ==
  ASSUME PluginTypes, HostIsSound, Destroy, ~replacing
  PROVE  HostIsSound'
<1>1. /\ alive' = FALSE /\ plugins' = {} /\ contributions' = {}
      /\ attempted' = attempted \cup numbers(plugins)
      /\ cleaned \subseteq cleaned' /\ cleaned' \subseteq cleaned \cup numbers(plugins)
      /\ NewGeneration
      /\ UNCHANGED <<job, check, hostRevision, setUp, calls>>
  BY DEF Destroy, safePluginCleanup
<1>2. numbers(plugins') = {} /\ rulesOf(plugins') = {}
  BY <1>1 DEF numbers, rulesOf
<1>3. numbers(plugins)' = {} /\ rulesOf(plugins)' = {} /\ oneEntryEach(plugins)'
      /\ (replacing' <=> replacing) /\ lastNo' = lastNo
  BY <1>1, <1>2 DEF numbers, rulesOf, oneEntryEach, replacing, lastNo
<1>4. CheckFits' /\ ReportFits'
  BY <1>1, NewGenerationFits DEF HostIsSound
<1>5. allNumbers' \subseteq allNumbers
  BY <1>1, <1>3 DEF allNumbers
<1>6. JobFits'
  BY <1>1, <1>3, <1>5 DEF HostIsSound, JobFits, isInstalled
<1>7. NumbersFit'
  BY <1>1, <1>3, <1>5 DEF HostIsSound, NumbersFit
<1> QED
  BY <1>1, <1>3, <1>4, <1>6, <1>7 DEF HostIsSound

(* The invariant of the host is inductive.                                 *)
LEMMA PluginInvIsInductive ==
  ASSUME PluginInv, [PluginNext]_pluginVars
  PROVE  PluginInv'
<1>1. PluginTypes' /\ ReplacedIsInstalled'
  BY PluginStepKeepsTypes, PluginStepKeepsReplaced DEF PluginInv
<1> SUFFICES ASSUME ~exempt' PROVE HostIsSound'
  BY <1>1 DEF PluginInv
<1>2. PluginTypes /\ ReplacedIsInstalled
  BY DEF PluginInv
<1>3. CASE \E offer \in Offers : InstallPlugin(offer) \/ ReloadPlugin(offer)
  <2>1. ~exempt
    BY <1>3 DEF InstallPlugin, ReloadPlugin, ghosts
  <2> QED
    BY <1>2, <1>3, <2>1, InstallIsSound DEF PluginInv
<1>4. ASSUME NEW id, UninstallPlugin(id) \/ ExecutePluginCommand(id) PROVE HostIsSound'
  <2>1. ~exempt
    BY <1>4 DEF UninstallPlugin, ExecutePluginCommand, ghosts
  <2> QED
    BY <1>2, <1>4, <2>1, UninstallIsSound, CommandIsSound DEF PluginInv
<1>5. CASE SetupFails \/ SetupReturns \/ ReplacementReady
  <2>1. ~exempt
    BY <1>5 DEF SetupFails, SetupReturns, ReplacementReady, ghosts
  <2> QED
    BY <1>2, <1>5, <2>1, SetupFailureIsSound, SetupIsSound, ReplacementIsSound DEF PluginInv
<1>6. ASSUME NEW succeeds \in BOOLEAN,
             UninstallCleanup(succeeds) \/ ReloadCleanup(succeeds) \/ CommandReturns(succeeds)
      PROVE  HostIsSound'
  <2>1. ~exempt
    BY <1>6 DEF UninstallCleanup, ReloadCleanup, CommandReturns, ghosts
  <2> QED
    BY <1>2, <1>6, <2>1, RemovalIsSound, ReloadIsSound, CommandReturnIsSound DEF PluginInv
<1>7. ~ \E e \in plugins : \E rule \in e.rules : Withdraw(e, rule)
  BY DEF Withdraw
<1>8. CASE \/ StartValidation \/ ValidationEnds \/ ScanDone
           \/ \E c \in UNION {check[i].left : i \in DOMAIN check} : CallValidator(c)
           \/ ValidatorReturns \/ PublishValidationChanged
  <2>1. ~exempt
    BY <1>8 DEF StartValidation, ValidationEnds, ScanDone, CallValidator, ValidatorReturns,
                PublishValidationChanged, ghosts
  <2> QED
    BY <1>2, <1>8, <2>1, ValidationIsSound DEF PluginInv
<1>9. CASE Destroy
  <2>1. ~exempt /\ ~replacing
    BY <1>9 DEF Destroy, replacing
  <2> QED
    BY <1>2, <1>9, <2>1, DestroyIsSound DEF PluginInv
<1>10. CASE UNCHANGED pluginVars
  <2>1. UNCHANGED <<plugins, contributions, generation, report, job, check, hostRevision, alive,
                    setUp, attempted, cleaned, exempt, calls>>
    BY <1>10 DEF pluginVars
  <2>2. HostIsSound
    BY <2>1 DEF PluginInv
  <2>3. CheckFits' /\ ReportFits'
    BY <2>1, <2>2, ReportStands DEF HostIsSound, CheckFits, leftAreNamed, servingOf, numbers
  <2> QED
    BY <1>2, <2>1, <2>2, <2>3, HostStands
<1> QED
  BY <1>3, <1>4, <1>5, <1>6, <1>7, <1>8, <1>9, <1>10, Zenon DEF PluginNext

LEMMA InvAgrees == PluginInv => PluginsAndReportsAgree
<1> SUFFICES ASSUME PluginInv, ~exempt PROVE PluginsAndReportsAgree
  BY DEF PluginsAndReportsAgree
<1>1. HostIsSound
  BY DEF PluginInv
<1>2. contributionsAreInstalled
  BY <1>1 DEF HostIsSound, contributionsAreInstalled, rulesOf
<1>3. reportIsComplete
  BY <1>1 DEF HostIsSound, ReportFits, reportIsComplete
<1>4. instancesAreCleanedUp
  <2>1. numbers({e \in plugins : e.accepting}) \subseteq numbers(plugins)
    BY DEF numbers
  <2> QED
    BY <1>1, <2>1 DEF HostIsSound, NumbersFit, instancesAreCleanedUp
<1> QED
  BY <1>1, <1>2, <1>3, <1>4 DEF HostIsSound, PluginsAndReportsAgree

(* For every set of plugins, every selection the editor starts with and    *)
(* every number of calls: as long as no plugin withdraws a rule and no     *)
(* destroy meets the cleanup of a reload, the validators are those of the  *)
(* installed plugins, a current report comes from all of them, and no      *)
(* plugin is lost without its cleanup (PluginHost; editor.ts:3445, 5602).  *)
THEOREM ReportsAreOfThePlugins ==
  PluginInit /\ [][PluginNext]_pluginVars => []PluginsAndReportsAgree
<1>1. PluginInit => PluginInv
  BY PluginStarts
<1>2. PluginInv /\ [PluginNext]_pluginVars => PluginInv'
  BY PluginInvIsInductive
<1>3. PluginInv => PluginsAndReportsAgree
  BY InvAgrees
<1> QED
  BY <1>1, <1>2, <1>3, PTL

-----------------------------------------------------------------------------
(* EventHub.                                                               *)

DispatchIs(d) ==
    d = [open |-> d.open, type |-> d.type, rest |-> d.rest, kept |-> d.kept,
         detached |-> d.detached, prevented |-> d.prevented,
         first |-> d.first, heard |-> d.heard, left |-> d.left]
CountersAre(c) ==
    c = [sequence |-> c.sequence, registered |-> c.registered, removed |-> c.removed,
         pendingAsync |-> c.pendingAsync]

HubTypes ==
    /\ listeners \in [EventTypes -> Seq(Listeners)]
    /\ \A t \in EventTypes : IsInjective(listeners[t])
    /\ DispatchIs(dispatching)
    /\ {dispatching.first, dispatching.rest, dispatching.heard} \subseteq Seq(Listeners)

\* How far the loop has come in its snapshot.
turnOf(d) == Len(d.first) - Len(d.rest)

\* The loop goes through the snapshot; those whose turn has come heard the event,
\* in order, or had left.
areInTurn(first, rest, heard, left, turn) ==
    /\ IsInjective(first) /\ IsInjective(heard)
    /\ Len(rest) <= Len(first)
    /\ \A i \in 1 .. Len(rest) : rest[i] = first[turn + i]
    /\ \A i \in 1 .. Len(heard) : \E m \in 1 .. turn : first[m] = heard[i]
    /\ \A i, j \in 1 .. Len(heard) : i < j =>
         \E m, n \in 1 .. turn : first[m] = heard[i] /\ first[n] = heard[j] /\ m < n
    /\ \A m \in 1 .. turn : first[m] \in left \/ Contains(heard, first[m])
    /\ \A i \in 1 .. Len(heard) : heard[i] \notin left

HeardInTurn(d) == areInTurn(d.first, d.rest, d.heard, d.left, turnOf(d))

\* Of those that are still to come, the ones that have left are those that the Set
\* of the dispatch does not have.
hears(d, of, l) == IF d.detached THEN l \in d.kept ELSE Contains(of[d.type], l)
LeftIsKnown(d, of) ==
    IF d.open
    THEN /\ d.type \in EventTypes
         /\ \A i \in 1 .. Len(d.rest) : d.rest[i] \in d.left <=> ~hears(d, of, d.rest[i])
         /\ ~d.detached => d.kept = {}
    ELSE d.rest = <<>>

CountsAreTrue ==
    /\ CountersAre(counters)
    /\ {counters.registered, counters.removed, counters.pendingAsync} \subseteq Int
    /\ IsFiniteSet(subscriptions)
    /\ counters.registered - counters.removed = Cardinality(subscriptions)
    /\ counters.pendingAsync = promises

HubInv == HubTypes /\ HeardInTurn(dispatching) /\ LeftIsKnown(dispatching, listeners)
            /\ CountsAreTrue

-----------------------------------------------------------------------------
(* What on and off do to the listeners of a type.                          *)

LEMMA ListenerAdded ==
  ASSUME NEW s \in Seq(Listeners), IsInjective(s), NEW l \in Listeners, ~Contains(s, l)
  PROVE  /\ Append(s, l) \in Seq(Listeners) /\ IsInjective(Append(s, l))
         /\ \A x : Contains(Append(s, l), x) <=> Contains(s, x) \/ x = l
<1>1. ToSet(s) = {s[i] : i \in 1 .. Len(s)}
  BY ToSetFacts
<1>2. l \notin ToSet(s)
  BY <1>1 DEF Contains
<1>3. PICK u : u = Append(s, l)
  OBVIOUS
<1>4. /\ u \in Seq(Listeners) /\ IsInjective(u) /\ ToSet(u) = ToSet(s) \cup {l}
  BY <1>2, <1>3, AppendFacts, AppendProperties
<1>5. ToSet(u) = {u[i] : i \in 1 .. Len(u)}
  BY <1>4, ToSetFacts
<1>6. \A x : Contains(u, x) <=> Contains(s, x) \/ x = l
  BY <1>1, <1>4, <1>5 DEF Contains
<1>. QED
  BY <1>3, <1>4, <1>6

LEMMA ListenerRemoved ==
  ASSUME NEW s \in Seq(Listeners), IsInjective(s), NEW i \in DOMAIN s
  PROVE  /\ RemoveAt(s, i) \in Seq(Listeners) /\ IsInjective(RemoveAt(s, i))
         /\ \A x : Contains(RemoveAt(s, i), x) <=> Contains(s, x) /\ x # s[i]
<1>1. Len(s) \in Nat /\ DOMAIN s = 1 .. Len(s) /\ i \in 1 .. Len(s)
  BY ToSetFacts
<1>2. PICK u : u = RemoveAt(s, i)
  OBVIOUS
<1>3. /\ u \in Seq(Listeners) /\ Len(u) = Len(s) - 1
      /\ \A j \in 1 .. Len(s) - 1 : u[j] = s[leavingOut(i, j)]
  BY ONLY s \in Seq(Listeners), i \in DOMAIN s, <1>1, <1>2, RemovedAt
<1>4. DOMAIN u = 1 .. Len(s) - 1
  BY <1>3, ToSetFacts
<1>5. \A j \in 1 .. Len(s) - 1 : leavingOut(i, j) \in 1 .. Len(s) /\ leavingOut(i, j) # i
  BY <1>1 DEF leavingOut
<1>6. \A j, k \in 1 .. Len(s) - 1 : leavingOut(i, j) = leavingOut(i, k) => j = k
  BY <1>1 DEF leavingOut
<1>7. IsInjective(u)
  BY <1>1, <1>3, <1>4, <1>5, <1>6 DEF IsInjective
<1>8. ASSUME NEW x, Contains(u, x)
      PROVE  Contains(s, x) /\ x # s[i]
  <2>1. PICK j \in 1 .. Len(s) - 1 : u[j] = x
    BY <1>3, <1>8 DEF Contains
  <2>. QED
    BY <1>1, <1>3, <1>5, <2>1 DEF Contains, IsInjective
<1>9. ASSUME NEW x, Contains(s, x), x # s[i]
      PROVE  Contains(u, x)
  <2>1. PICK m \in 1 .. Len(s) : s[m] = x
    BY <1>9 DEF Contains
  <2>2. PICK j : j = IF m < i THEN m ELSE m - 1
    OBVIOUS
  <2>3. j \in 1 .. Len(s) - 1 /\ leavingOut(i, j) = m
    BY <1>1, <1>9, <2>1, <2>2 DEF leavingOut
  <2>. QED
    BY <1>3, <2>1, <2>3 DEF Contains
<1>. QED
  BY <1>2, <1>3, <1>7, <1>8, <1>9

-----------------------------------------------------------------------------
(* The loop and those who come and go meanwhile.                           *)

LEMMA TurnFacts ==
  ASSUME HubTypes, HeardInTurn(dispatching)
  PROVE  /\ {Len(dispatching.first), Len(dispatching.rest), Len(dispatching.heard)} \subseteq Nat
         /\ DOMAIN dispatching.first = 1 .. Len(dispatching.first)
         /\ DOMAIN dispatching.heard = 1 .. Len(dispatching.heard)
         /\ turnOf(dispatching) \in 0 .. Len(dispatching.first)
<1>1. /\ dispatching.first \in Seq(Listeners) /\ dispatching.rest \in Seq(Listeners)
      /\ dispatching.heard \in Seq(Listeners)
  BY DEF HubTypes
<1>2. /\ Len(dispatching.first) \in Nat /\ Len(dispatching.rest) \in Nat
      /\ Len(dispatching.heard) \in Nat
      /\ DOMAIN dispatching.first = 1 .. Len(dispatching.first)
      /\ DOMAIN dispatching.heard = 1 .. Len(dispatching.heard)
  BY <1>1, ToSetFacts
<1>3. Len(dispatching.rest) <= Len(dispatching.first)
  BY DEF HeardInTurn, areInTurn
<1>4. PICK n, m : n = Len(dispatching.first) /\ m = Len(dispatching.rest)
  OBVIOUS
<1>5. n - m \in 0 .. n
  <2>1. n \in Nat /\ m \in Nat /\ m <= n
    BY <1>2, <1>3, <1>4
  <2>. QED
    BY <2>1
<1>6. turnOf(dispatching) = n - m
  BY <1>4 DEF turnOf
<1>. QED
  BY <1>2, <1>4, <1>5, <1>6

\* Nobody is in the rest twice, or has been heard.
LEMMA RestIsNew ==
  ASSUME HubTypes, HeardInTurn(dispatching), NEW i \in 1 .. Len(dispatching.rest)
  PROVE  /\ \A j \in 1 .. Len(dispatching.rest) :
              dispatching.rest[j] = dispatching.rest[i] => j = i
         /\ \A m \in 1 .. turnOf(dispatching) : dispatching.first[m] # dispatching.rest[i]
         /\ ~Contains(dispatching.heard, dispatching.rest[i])
<1>. DEFINE first == dispatching.first
            rest  == dispatching.rest
            heard == dispatching.heard
            k     == turnOf(dispatching)
<1>1. /\ Len(first) \in Nat /\ Len(rest) \in Nat /\ DOMAIN first = 1 .. Len(first)
      /\ k \in 0 .. Len(first) /\ k = Len(first) - Len(rest)
  BY TurnFacts DEF turnOf
<1>2. /\ IsInjective(first)
      /\ \A j \in 1 .. Len(rest) : rest[j] = first[k + j]
      /\ \A j \in 1 .. Len(heard) : \E m \in 1 .. k : first[m] = heard[j]
  BY DEF HeardInTurn, areInTurn
<1>. HIDE DEF first, rest, heard, k
<1>3. \A j \in 1 .. Len(rest) : k + j \in DOMAIN first /\ k + j \notin 1 .. k
  BY <1>1
<1>4. \A j \in 1 .. Len(rest) : rest[j] = rest[i] => j = i
  <2>1. ASSUME NEW j \in 1 .. Len(rest), rest[j] = rest[i]
        PROVE  j = i
    <3>1. i \in 1 .. Len(rest)
      BY DEF rest
    <3>2. first[k + j] = first[k + i]
      BY <1>2, <2>1, <3>1
    <3>3. k + j = k + i
      BY <1>2, <1>3, <3>1, <3>2 DEF IsInjective
    <3>. QED
      BY <1>1, <3>1, <3>3
  <2>. QED
    BY <2>1
<1>5. \A m \in 1 .. k : first[m] # rest[i]
  <2>1. i \in 1 .. Len(rest)
    BY DEF rest
  <2>2. \A m \in 1 .. k : m \in DOMAIN first /\ m # k + i
    BY <1>1, <1>3, <2>1
  <2>. QED
    BY <1>2, <1>3, <2>1, <2>2 DEF IsInjective
<1>6. ~Contains(heard, rest[i])
  BY <1>2, <1>5 DEF Contains
<1>. QED
  BY <1>4, <1>5, <1>6 DEF first, rest, heard, k

\* A dispatch whose snapshot, rest and calls are the same.
sameLoop(d, e) ==
    DispatchIs(e) /\ e.first = d.first /\ e.rest = d.rest /\ e.heard = d.heard

LEMMA LeavingKeeps ==
  ASSUME HubTypes, HeardInTurn(dispatching), NEW l, ~Contains(dispatching.heard, l),
         NEW e, sameLoop(dispatching, e), e.left = dispatching.left \cup {l}
  PROVE  HeardInTurn(e)
<1>1. \A i \in 1 .. Len(dispatching.heard) : dispatching.heard[i] # l
  BY DEF Contains
<1>2. /\ turnOf(e) = turnOf(dispatching)
      /\ e.first = dispatching.first /\ e.rest = dispatching.rest
      /\ e.heard = dispatching.heard /\ e.left = dispatching.left \cup {l}
  BY DEF turnOf, sameLoop
<1>3. areInTurn(dispatching.first, dispatching.rest, dispatching.heard,
                dispatching.left \cup {l}, turnOf(dispatching))
  BY ONLY <1>1, HeardInTurn(dispatching) DEF HeardInTurn, areInTurn
<1>. QED
  BY ONLY <1>2, <1>3 DEF HeardInTurn

LEMMA ReturningKeeps ==
  ASSUME HubTypes, HeardInTurn(dispatching), NEW l, Contains(dispatching.rest, l),
         NEW e, sameLoop(dispatching, e), e.left = dispatching.left \ {l}
  PROVE  HeardInTurn(e)
<1>1. \A m \in 1 .. turnOf(dispatching) : dispatching.first[m] # l
  BY RestIsNew DEF Contains
<1>2. /\ turnOf(e) = turnOf(dispatching)
      /\ e.first = dispatching.first /\ e.rest = dispatching.rest
      /\ e.heard = dispatching.heard /\ e.left = dispatching.left \ {l}
  BY DEF turnOf, sameLoop
<1>3. areInTurn(dispatching.first, dispatching.rest, dispatching.heard,
                dispatching.left \ {l}, turnOf(dispatching))
  BY ONLY <1>1, HeardInTurn(dispatching) DEF HeardInTurn, areInTurn
<1>. QED
  BY ONLY <1>2, <1>3 DEF HeardInTurn

LEMMA SameKeeps ==
  ASSUME HeardInTurn(dispatching), NEW e, sameLoop(dispatching, e), e.left = dispatching.left
  PROVE  HeardInTurn(e)
<1>1. turnOf(e) = turnOf(dispatching)
  BY DEF turnOf, sameLoop
<1>2. /\ e.first = dispatching.first /\ e.rest = dispatching.rest
      /\ e.heard = dispatching.heard /\ e.left = dispatching.left
  BY DEF sameLoop
<1>. QED
  BY ONLY <1>1, <1>2, HeardInTurn(dispatching) DEF HeardInTurn

-----------------------------------------------------------------------------
(* The calls.                                                              *)

LEMMA OnKeeps ==
  ASSUME HubInv, NEW t \in EventTypes, NEW l \in Listeners, On(t, l)
  PROVE  /\ HubTypes' /\ HeardInTurn(dispatching') /\ LeftIsKnown(dispatching', listeners')
<1>. DEFINE d == dispatching
            e == dispatching'
<1>1. /\ HubTypes /\ HeardInTurn(d) /\ LeftIsKnown(d, listeners)
      /\ listeners \in [EventTypes -> Seq(Listeners)] /\ listeners[t] \in Seq(Listeners)
      /\ IsInjective(listeners[t]) /\ DispatchIs(d)
  BY DEF HubInv, HubTypes
<1>2. /\ listeners' \in [EventTypes -> Seq(Listeners)]
      /\ \A u \in EventTypes : IsInjective(listeners'[u])
      /\ \A u \in EventTypes : \A x :
           Contains(listeners'[u], x) <=> Contains(listeners[u], x) \/ (u = t /\ x = l)
  <2>1. CASE Contains(listeners[t], l)
    <3>1. listeners' = listeners
      BY <2>1 DEF On
    <3>. QED
      BY <1>1, <2>1, <3>1 DEF HubTypes
  <2>2. CASE ~Contains(listeners[t], l)
    <3>1. listeners' = [listeners EXCEPT ![t] = Append(listeners[t], l)]
      BY <2>2 DEF On
    <3>2. PICK w : w = Append(listeners[t], l)
      OBVIOUS
    <3>3. /\ w \in Seq(Listeners) /\ IsInjective(w)
          /\ \A x : Contains(w, x) <=> Contains(listeners[t], x) \/ x = l
      BY <1>1, <2>2, <3>2, ListenerAdded
    <3>4. \A u \in EventTypes : listeners'[u] = IF u = t THEN w ELSE listeners[u]
      BY <1>1, <3>1, <3>2
    <3>5. listeners' \in [EventTypes -> Seq(Listeners)]
      BY <1>1, <3>1, <3>2, <3>3
    <3>. QED
      BY <1>1, <3>3, <3>4, <3>5 DEF HubTypes
  <2>. QED
    BY <2>1, <2>2
<1>3. CASE watched(t) /\ Contains(d.rest, l)
  <2>1. e = [d EXCEPT !.left = @ \ {l}]
    BY <1>3 DEF On
  <2>2. /\ sameLoop(d, e) /\ e.left = d.left \ {l} /\ e.open = d.open /\ e.type = d.type
        /\ e.detached = d.detached /\ e.kept = d.kept
    BY <1>1, <2>1 DEF DispatchIs, sameLoop
  <2>3. HeardInTurn(e)
    BY <1>1, <1>3, <2>2, ReturningKeeps
  <2>4. HubTypes'
    BY <1>1, <1>2, <2>2 DEF HubTypes, sameLoop
  <2>5. d.open /\ d.type = t /\ ~d.detached
    BY <1>3 DEF watched
  <2>6. LeftIsKnown(e, listeners')
    BY <1>1, <1>2, <2>2, <2>5 DEF LeftIsKnown, hears, sameLoop
  <2>. QED
    BY <2>3, <2>4, <2>6
<1>4. CASE ~(watched(t) /\ Contains(d.rest, l))
  <2>1. e = d
    BY <1>4 DEF On
  <2>2. HubTypes'
    BY <1>1, <1>2, <2>1 DEF HubTypes
  <2>3. ASSUME d.open, NEW i \in 1 .. Len(d.rest)
        PROVE  hears(d, listeners', d.rest[i]) <=> hears(d, listeners, d.rest[i])
    <3>1. d.type \in EventTypes
      BY <1>1, <2>3 DEF LeftIsKnown
    <3>2. CASE d.detached \/ d.type # t
      BY <1>2, <3>1, <3>2 DEF hears
    <3>3. CASE ~d.detached /\ d.type = t
      <4>1. d.rest[i] # l
        BY <1>4, <2>3, <3>3 DEF watched, Contains
      <4>. QED
        BY <1>2, <3>1, <4>1 DEF hears
    <3>. QED
      BY <3>2, <3>3
  <2>4. LeftIsKnown(e, listeners')
    BY <1>1, <2>1, <2>3 DEF LeftIsKnown
  <2>. QED
    BY <1>1, <2>1, <2>2, <2>4
<1>. QED
  BY <1>3, <1>4

LEMMA OffKeeps ==
  ASSUME HubInv, NEW t \in EventTypes, NEW l \in Listeners, Off(t, l)
  PROVE  /\ HubTypes' /\ HeardInTurn(dispatching') /\ LeftIsKnown(dispatching', listeners')
         /\ \A u \in EventTypes : \A x :
              Contains(listeners'[u], x) <=> Contains(listeners[u], x) /\ ~(u = t /\ x = l)
<1>. DEFINE d == dispatching
            e == dispatching'
<1>1. /\ HubTypes /\ HeardInTurn(d) /\ LeftIsKnown(d, listeners)
      /\ listeners \in [EventTypes -> Seq(Listeners)] /\ listeners[t] \in Seq(Listeners)
      /\ IsInjective(listeners[t]) /\ DispatchIs(d)
  BY DEF HubInv, HubTypes
<1>2. /\ listeners' \in [EventTypes -> Seq(Listeners)]
      /\ \A u \in EventTypes : IsInjective(listeners'[u])
      /\ \A u \in EventTypes : \A x :
           Contains(listeners'[u], x) <=> Contains(listeners[u], x) /\ ~(u = t /\ x = l)
  <2>1. PICK i \in DOMAIN listeners[t] :
          /\ listeners[t][i] = l
          /\ listeners' = [listeners EXCEPT ![t] = RemoveAt(listeners[t], i)]
    BY DEF Off
  <2>2. PICK w : w = RemoveAt(listeners[t], i)
    OBVIOUS
  <2>3. /\ w \in Seq(Listeners) /\ IsInjective(w)
        /\ \A x : Contains(w, x) <=> Contains(listeners[t], x) /\ x # l
    BY <1>1, <2>1, <2>2, ListenerRemoved
  <2>4. \A u \in EventTypes : listeners'[u] = IF u = t THEN w ELSE listeners[u]
    BY <1>1, <2>1, <2>2
  <2>5. listeners' \in [EventTypes -> Seq(Listeners)]
    BY <1>1, <2>1, <2>2, <2>3
  <2>. QED
    BY <1>1, <2>3, <2>4, <2>5 DEF HubTypes
<1>3. CASE watched(t)
  <2>0. PICK left : left = IF Contains(d.heard, l) THEN d.left ELSE d.left \cup {l}
    OBVIOUS
  <2>1. PICK wentAway : wentAway = (listeners'[t] = <<>>)
    OBVIOUS
  <2>2. e = [d EXCEPT !.detached = wentAway, !.left = left]
    BY <1>3, <2>0, <2>1 DEF Off
  <2>3. /\ sameLoop(d, e) /\ e.left = left /\ e.open = d.open /\ e.type = d.type
        /\ e.detached = wentAway /\ e.kept = d.kept
    BY <1>1, <2>2 DEF DispatchIs, sameLoop
  <2>4. HeardInTurn(e)
    BY <1>1, <2>0, <2>3, LeavingKeeps, SameKeeps
  <2>5. HubTypes'
    BY <1>1, <1>2, <2>3 DEF HubTypes, sameLoop
  <2>6. d.open /\ d.type = t /\ ~d.detached
    BY <1>3 DEF watched
  <2>7. ASSUME NEW i \in 1 .. Len(d.rest)
        PROVE  d.rest[i] \in left <=> ~hears(e, listeners', d.rest[i])
    <3>1. d.rest[i] \in d.left <=> ~Contains(listeners[t], d.rest[i])
      BY <1>1, <2>6 DEF LeftIsKnown, hears
    <3>2. d.rest[i] \in left <=> d.rest[i] \in d.left \/ d.rest[i] = l
      <4>1. ~Contains(d.heard, d.rest[i])
        BY <1>1, RestIsNew
      <4>. QED
        BY <2>0, <4>1
    <3>3. Contains(listeners'[t], d.rest[i])
            <=> Contains(listeners[t], d.rest[i]) /\ d.rest[i] # l
      BY <1>2
    <3>4. hears(e, listeners', d.rest[i]) <=> Contains(listeners'[t], d.rest[i])
      <4>1. CASE wentAway
        <5>1. listeners'[t] = <<>> /\ ~Contains(listeners'[t], d.rest[i])
          <6>1. Len(<<>>) = 0
            OBVIOUS
          <6>2. listeners'[t] = <<>>
            BY <2>1, <4>1
          <6>. QED
            BY <6>1, <6>2 DEF Contains
        <5>2. d.rest[i] \notin d.kept
          BY <1>1, <2>6 DEF LeftIsKnown
        <5>. QED
          BY <2>3, <4>1, <5>1, <5>2 DEF hears
      <4>2. CASE ~wentAway
        BY <2>3, <2>6, <4>2 DEF hears
      <4>. QED
        BY <4>1, <4>2
    <3>. QED
      BY <3>1, <3>2, <3>3, <3>4
  <2>8. LeftIsKnown(e, listeners')
    BY <1>1, <2>3, <2>6, <2>7 DEF LeftIsKnown, sameLoop
  <2>. QED
    BY <1>2, <2>4, <2>5, <2>8
<1>4. CASE ~watched(t)
  <2>1. e = d
    BY <1>4 DEF Off
  <2>2. HubTypes'
    BY <1>1, <1>2, <2>1 DEF HubTypes
  <2>3. ASSUME d.open, NEW i \in 1 .. Len(d.rest)
        PROVE  hears(d, listeners', d.rest[i]) <=> hears(d, listeners, d.rest[i])
    <3>1. d.type \in EventTypes
      BY <1>1, <2>3 DEF LeftIsKnown
    <3>2. d.detached \/ d.type # t
      BY <1>4, <2>3 DEF watched
    <3>. QED
      BY <1>2, <3>1, <3>2 DEF hears
  <2>4. LeftIsKnown(e, listeners')
    BY <1>1, <2>1, <2>3 DEF LeftIsKnown
  <2>. QED
    BY <1>1, <1>2, <2>1, <2>2, <2>4
<1>. QED
  BY <1>3, <1>4

LEMMA ClearKeeps ==
  ASSUME HubInv, Clear
  PROVE  /\ HubTypes' /\ HeardInTurn(dispatching') /\ LeftIsKnown(dispatching', listeners')
<1>. DEFINE d == dispatching
            e == dispatching'
<1>1. /\ HubTypes /\ HeardInTurn(d) /\ LeftIsKnown(d, listeners) /\ DispatchIs(d)
      /\ listeners \in [EventTypes -> Seq(Listeners)]
  BY DEF HubInv, HubTypes
<1>2. /\ listeners' = [t \in EventTypes |-> <<>>] /\ listeners' \in [EventTypes -> Seq(Listeners)]
      /\ \A t \in EventTypes : IsInjective(listeners'[t])
  <2>1. <<>> \in Seq(Listeners) /\ IsInjective(<<>>)
    BY EmptySeq DEF IsInjective
  <2>. QED
    BY <2>1 DEF Clear
<1>3. CASE d.open /\ ~d.detached
  <2>1. PICK kept : kept = ToSet(listeners[d.type])
    OBVIOUS
  <2>2. e = [d EXCEPT !.detached = TRUE, !.kept = kept]
    BY <1>3, <2>1 DEF Clear
  <2>3. /\ sameLoop(d, e) /\ e.left = d.left /\ e.open /\ e.type = d.type
        /\ e.detached /\ e.kept = kept
    BY <1>1, <1>3, <2>2 DEF DispatchIs, sameLoop
  <2>4. HeardInTurn(e)
    BY <1>1, <2>3, SameKeeps
  <2>5. HubTypes'
    BY <1>1, <1>2, <2>3 DEF HubTypes, sameLoop
  <2>6. \A x : x \in kept <=> Contains(listeners[d.type], x)
    <3>1. listeners[d.type] \in Seq(Listeners)
      BY <1>1, <1>3 DEF LeftIsKnown
    <3>2. ToSet(listeners[d.type])
            = {listeners[d.type][i] : i \in 1 .. Len(listeners[d.type])}
      BY <3>1, ToSetFacts
    <3>. QED
      BY <2>1, <3>2 DEF Contains
  <2>7. LeftIsKnown(e, listeners')
    BY <1>1, <1>3, <2>3, <2>6 DEF LeftIsKnown, hears, sameLoop
  <2>. QED
    BY <2>4, <2>5, <2>7
<1>4. CASE ~(d.open /\ ~d.detached)
  <2>1. e = d
    BY <1>4 DEF Clear
  <2>2. HubTypes'
    BY <1>1, <1>2, <2>1 DEF HubTypes
  <2>3. LeftIsKnown(e, listeners')
    BY <1>1, <1>4, <2>1 DEF LeftIsKnown, hears
  <2>. QED
    BY <1>1, <2>1, <2>2, <2>3
<1>. QED
  BY <1>3, <1>4

LEMMA DispatchKeeps ==
  ASSUME HubInv, NEW t \in EventTypes, Dispatch(t)
  PROVE  /\ HubTypes' /\ HeardInTurn(dispatching') /\ LeftIsKnown(dispatching', listeners')
<1>. DEFINE e == dispatching'
<1>1. /\ listeners \in [EventTypes -> Seq(Listeners)] /\ listeners[t] \in Seq(Listeners)
      /\ IsInjective(listeners[t]) /\ UNCHANGED listeners
  BY DEF HubInv, HubTypes, Dispatch
<1>2. PICK s : s = listeners[t]
  OBVIOUS
<1>3. PICK wentAway : wentAway = (s = <<>>)
  OBVIOUS
<1>4. e = [NoDispatch EXCEPT !.open = TRUE, !.type = t, !.rest = s, !.detached = wentAway, !.first = s]
  BY <1>2, <1>3 DEF Dispatch
<1>5. /\ DispatchIs(e) /\ e.open /\ e.type = t /\ e.rest = s /\ e.first = s
      /\ e.detached = wentAway /\ e.heard = <<>> /\ e.left = {} /\ e.kept = {}
  BY <1>4 DEF NoDispatch, DispatchIs
<1>6. HubTypes'
  <2>1. <<>> \in Seq(Listeners)
    BY EmptySeq
  <2>. QED
    BY <1>1, <1>2, <1>5, <2>1 DEF HubInv, HubTypes
<1>7. Len(s) \in Nat /\ Len(<<>>) = 0 /\ IsInjective(<<>>)
  BY <1>1, <1>2, LenProperties DEF IsInjective
<1>8. turnOf(e) = 0 /\ Len(e.heard) = 0
  BY <1>5, <1>7 DEF turnOf
<1>9. HeardInTurn(e)
  BY <1>1, <1>2, <1>5, <1>7, <1>8 DEF HeardInTurn, areInTurn
<1>10. LeftIsKnown(e, listeners')
  <2>1. ASSUME NEW i \in 1 .. Len(s)
        PROVE  hears(e, listeners', s[i])
    <3>1. s # <<>>
      BY <1>7
    <3>2. Contains(s, s[i])
      BY DEF Contains
    <3>. QED
      BY <1>1, <1>2, <1>3, <1>5, <3>1, <3>2 DEF hears
  <2>. QED
    BY <1>5, <2>1 DEF LeftIsKnown
<1>. QED
  BY <1>6, <1>9, <1>10

\* A turn: the head of the rest is called, or has left.
LEMMA CallListenerKeeps ==
  ASSUME HubInv, CallListener
  PROVE  /\ HubTypes' /\ HeardInTurn(dispatching') /\ LeftIsKnown(dispatching', listeners')
<1>. DEFINE d == dispatching
            e == dispatching'
            k == turnOf(d)
<1>1. /\ HubTypes /\ HeardInTurn(d) /\ LeftIsKnown(d, listeners) /\ DispatchIs(d)
      /\ d.first \in Seq(Listeners) /\ d.rest \in Seq(Listeners) /\ d.heard \in Seq(Listeners)
      /\ UNCHANGED listeners
  BY DEF HubInv, HubTypes, CallListener
<1>2. d.open /\ d.rest # <<>>
  BY DEF CallListener
<1>3. /\ Len(d.first) \in Nat /\ Len(d.rest) \in Nat \ {0} /\ Len(d.heard) \in Nat
      /\ k \in 0 .. Len(d.first) /\ k = Len(d.first) - Len(d.rest)
  BY <1>1, <1>2, TurnFacts, HeadIsFirst DEF turnOf
<1>4. PICK l \in Listeners : l = Head(d.rest)
  BY <1>1, <1>2, HeadTailProperties
<1>5. PICK r : r = Tail(d.rest)
  OBVIOUS
<1>6. /\ r \in Seq(Listeners) /\ Len(r) = Len(d.rest) - 1
      /\ \A i \in 1 .. Len(r) : r[i] = d.rest[i + 1]
  BY <1>1, <1>2, <1>5, HeadTailProperties
<1>7. /\ l = d.rest[1] /\ 1 \in 1 .. Len(d.rest) /\ d.first[k + 1] = l
      /\ ~Contains(d.heard, l) /\ (l \in d.left <=> ~hears(d, listeners, l))
  <2>1. l = d.rest[1] /\ 1 \in 1 .. Len(d.rest)
    BY <1>1, <1>2, <1>3, <1>4, HeadIsFirst
  <2>2. d.first[k + 1] = l
    BY <1>1, <2>1 DEF HeardInTurn, areInTurn
  <2>3. ~Contains(d.heard, l)
    BY <1>1, <2>1, RestIsNew
  <2>4. l \in d.left <=> ~hears(d, listeners, l)
    BY <1>1, <1>2, <2>1 DEF LeftIsKnown
  <2>. QED
    BY <2>1, <2>2, <2>3, <2>4
<1>8. stillListens(l) <=> hears(d, listeners, l)
  BY DEF stillListens, hears
<1>9. PICK h : h = IF stillListens(l) THEN Append(d.heard, l) ELSE d.heard
  OBVIOUS
<1>10. e = [d EXCEPT !.rest = r, !.heard = h]
  <2>1. CASE stillListens(l)
    BY <1>4, <1>5, <1>9, <2>1 DEF CallListener
  <2>2. CASE ~stillListens(l)
    <3>1. e = [d EXCEPT !.rest = r]
      BY <1>4, <1>5, <2>2 DEF CallListener
    <3>. QED
      BY <1>1, <1>9, <2>2, <3>1 DEF DispatchIs
  <2>. QED
    BY <2>1, <2>2
<1>11. /\ DispatchIs(e) /\ e.first = d.first /\ e.rest = r /\ e.heard = h /\ e.left = d.left
       /\ e.open /\ e.type = d.type /\ e.detached = d.detached /\ e.kept = d.kept
  BY <1>1, <1>2, <1>10 DEF DispatchIs
<1>12. LeftIsKnown(e, listeners')
  <2>1. \A i \in 1 .. Len(r) : i + 1 \in 1 .. Len(d.rest)
    BY <1>3, <1>6
  <2>2. \A x : hears(e, listeners', x) <=> hears(d, listeners, x)
    BY <1>1, <1>11 DEF hears
  <2>. QED
    BY <1>1, <1>2, <1>6, <1>11, <2>1, <2>2 DEF LeftIsKnown
<1>13. turnOf(e) = k + 1
  <2>1. PICK n, m : n = Len(d.first) /\ m = Len(d.rest)
    OBVIOUS
  <2>2. n \in Nat /\ m \in Nat /\ k = n - m /\ turnOf(e) = n - (m - 1)
    BY <1>3, <1>6, <1>11, <2>1 DEF turnOf
  <2>. QED
    BY <2>2
<1>14. k \in Nat /\ k + 1 \in Nat /\ \A i \in Nat : k + (i + 1) = k + 1 + i
  <2>1. PICK q : q = k
    OBVIOUS
  <2>2. q \in Nat
    BY <1>3, <2>1
  <2>. QED
    BY <2>1, <2>2
<1>15. \A i \in 1 .. Len(r) : i \in Nat /\ i + 1 \in 1 .. Len(d.rest)
  <2>1. PICK n : n = Len(d.rest)
    OBVIOUS
  <2>2. n \in Nat /\ Len(r) = n - 1
    BY <1>3, <1>6, <2>1
  <2>. QED
    BY <2>1, <2>2
<1>16. CASE stillListens(l)
  <2>1. /\ h \in Seq(Listeners) /\ Len(h) = Len(d.heard) + 1 /\ h[Len(d.heard) + 1] = l
        /\ \A i \in 1 .. Len(d.heard) : h[i] = d.heard[i]
    BY <1>1, <1>9, <1>16, AppendProperties
  <2>2. IsInjective(h)
    <3>1. IsInjective(d.heard)
      BY <1>1 DEF HeardInTurn, areInTurn
    <3>. QED
      BY <1>1, <1>7, <1>9, <1>16, <3>1, ListenerAdded
  <2>3. \A i \in 1 .. Len(h) : i \in 1 .. Len(d.heard) \/ i = Len(d.heard) + 1
    BY <1>3, <2>1
  <2>4. \A i \in 1 .. Len(r) : r[i] = d.first[k + 1 + i]
    <3>1. ASSUME NEW i \in 1 .. Len(r)
          PROVE  r[i] = d.first[k + 1 + i]
      <4>1. i + 1 \in 1 .. Len(d.rest) /\ k + (i + 1) = k + 1 + i
        BY <1>14, <1>15
      <4>2. d.rest[i + 1] = d.first[k + (i + 1)]
        BY <1>1, <4>1 DEF HeardInTurn, areInTurn
      <4>. QED
        BY <1>6, <4>1, <4>2
    <3>. QED
      BY <3>1
  <2>5. \A i \in 1 .. Len(h) : \E m \in 1 .. k + 1 : d.first[m] = h[i]
    <3>1. \A i \in 1 .. Len(d.heard) : \E m \in 1 .. k : d.first[m] = d.heard[i]
      BY <1>1 DEF HeardInTurn, areInTurn
    <3>2. \A m \in 1 .. k : m \in 1 .. k + 1
      BY <1>3
    <3>3. k + 1 \in 1 .. k + 1
      BY <1>3
    <3>. QED
      BY <1>7, <2>1, <2>3, <3>1, <3>2, <3>3
  <2>6. ASSUME NEW i \in 1 .. Len(h), NEW j \in 1 .. Len(h), i < j
        PROVE  \E m, n \in 1 .. k + 1 : d.first[m] = h[i] /\ d.first[n] = h[j] /\ m < n
    <3>1. i \in 1 .. Len(d.heard)
      BY <1>3, <2>1, <2>6
    <3>2. CASE j \in 1 .. Len(d.heard)
      <4>1. PICK m \in 1 .. k, n \in 1 .. k :
              d.first[m] = d.heard[i] /\ d.first[n] = d.heard[j] /\ m < n
        BY <1>1, <2>6, <3>1, <3>2 DEF HeardInTurn, areInTurn
      <4>2. m \in 1 .. k + 1 /\ n \in 1 .. k + 1
        BY <1>3, <4>1
      <4>. QED
        BY <2>1, <3>1, <3>2, <4>1, <4>2
    <3>3. CASE j = Len(d.heard) + 1
      <4>1. PICK m \in 1 .. k : d.first[m] = d.heard[i]
        BY <1>1, <3>1 DEF HeardInTurn, areInTurn
      <4>2. m \in 1 .. k + 1 /\ k + 1 \in 1 .. k + 1 /\ m < k + 1
        <5>1. PICK q : q = k
          OBVIOUS
        <5>2. q \in Nat /\ m \in 1 .. q
          BY <1>14, <4>1, <5>1
        <5>3. m \in 1 .. q + 1 /\ q + 1 \in 1 .. q + 1 /\ m < q + 1
          BY <5>2
        <5>. QED
          BY <5>1, <5>3
      <4>. QED
        BY <1>7, <2>1, <3>1, <3>3, <4>1, <4>2
    <3>. QED
      BY <2>3, <3>2, <3>3
  <2>7. ASSUME NEW m \in 1 .. k + 1
        PROVE  d.first[m] \in d.left \/ Contains(h, d.first[m])
    <3>1. Contains(h, l)
      BY <1>3, <2>1 DEF Contains
    <3>2. \A x : Contains(d.heard, x) => Contains(h, x)
      BY <1>3, <2>1 DEF Contains
    <3>3. m \in 1 .. k \/ m = k + 1
      BY <1>3
    <3>. QED
      BY <1>1, <1>7, <3>1, <3>2, <3>3 DEF HeardInTurn, areInTurn
  <2>8. \A i \in 1 .. Len(h) : h[i] \notin d.left
    <3>1. \A i \in 1 .. Len(d.heard) : d.heard[i] \notin d.left
      BY <1>1 DEF HeardInTurn, areInTurn
    <3>. QED
      BY <1>7, <1>8, <1>16, <2>1, <2>3, <3>1
  <2>9. IsInjective(d.first) /\ Len(r) <= Len(d.first)
    BY <1>1, <1>3, <1>6 DEF HeardInTurn, areInTurn
  <2>10. HeardInTurn(e)
    BY <1>11, <1>13, <2>2, <2>4, <2>5, <2>6, <2>7, <2>8, <2>9 DEF HeardInTurn, areInTurn
  <2>11. HubTypes'
    BY <1>1, <1>6, <1>11, <2>1 DEF HubTypes
  <2>. QED
    BY <1>12, <2>10, <2>11
<1>17. CASE ~stillListens(l)
  <2>1. h = d.heard /\ l \in d.left
    BY <1>7, <1>8, <1>9, <1>17
  <2>2. \A i \in 1 .. Len(r) : r[i] = d.first[k + 1 + i]
    <3>1. ASSUME NEW i \in 1 .. Len(r)
          PROVE  r[i] = d.first[k + 1 + i]
      <4>1. i + 1 \in 1 .. Len(d.rest) /\ k + (i + 1) = k + 1 + i
        BY <1>14, <1>15
      <4>2. d.rest[i + 1] = d.first[k + (i + 1)]
        BY <1>1, <4>1 DEF HeardInTurn, areInTurn
      <4>. QED
        BY <1>6, <4>1, <4>2
    <3>. QED
      BY <3>1
  <2>3. \A m \in 1 .. k : m \in 1 .. k + 1
    BY <1>3
  <2>4. \A m \in 1 .. k + 1 : m \in 1 .. k \/ m = k + 1
    BY <1>3
  <2>5. IsInjective(d.first) /\ IsInjective(d.heard) /\ Len(r) <= Len(d.first)
    BY <1>1, <1>3, <1>6 DEF HeardInTurn, areInTurn
  <2>6. \A i \in 1 .. Len(d.heard) : \E m \in 1 .. k + 1 : d.first[m] = d.heard[i]
    BY <1>1, <2>3 DEF HeardInTurn, areInTurn
  <2>7. ASSUME NEW i \in 1 .. Len(d.heard), NEW j \in 1 .. Len(d.heard), i < j
        PROVE  \E m, n \in 1 .. k + 1 : d.first[m] = d.heard[i] /\ d.first[n] = d.heard[j] /\ m < n
    <3>1. PICK m \in 1 .. k, n \in 1 .. k :
            d.first[m] = d.heard[i] /\ d.first[n] = d.heard[j] /\ m < n
      BY <1>1, <2>7 DEF HeardInTurn, areInTurn
    <3>. QED
      BY <2>3, <3>1
  <2>8. ASSUME NEW m \in 1 .. k + 1
        PROVE  d.first[m] \in d.left \/ Contains(d.heard, d.first[m])
    BY <1>1, <1>7, <2>1, <2>4 DEF HeardInTurn, areInTurn
  <2>9. \A i \in 1 .. Len(d.heard) : d.heard[i] \notin d.left
    BY <1>1 DEF HeardInTurn, areInTurn
  <2>10. HeardInTurn(e)
    BY <1>11, <1>13, <2>1, <2>2, <2>5, <2>6, <2>7, <2>8, <2>9 DEF HeardInTurn, areInTurn
  <2>11. HubTypes'
    BY <1>1, <1>6, <1>11, <2>1 DEF HubTypes
  <2>. QED
    BY <1>12, <2>10, <2>11
<1>. QED
  BY <1>16, <1>17

LEMMA OthersKeep ==
  ASSUME HubInv,
         \/ PreventDefault \/ PromiseSettles \/ DispatchEnds
         \/ \E async \in BOOLEAN : ListenerReturns(async)
  PROVE  /\ HubTypes' /\ HeardInTurn(dispatching') /\ LeftIsKnown(dispatching', listeners')
<1>. DEFINE d == dispatching
            e == dispatching'
<1>1. /\ HubTypes /\ HeardInTurn(d) /\ LeftIsKnown(d, listeners) /\ DispatchIs(d)
      /\ UNCHANGED listeners
  BY DEF HubInv, HubTypes, PreventDefault, PromiseSettles, DispatchEnds, ListenerReturns
<1>2. \/ e = d \/ e = [d EXCEPT !.prevented = TRUE]
      \/ d.rest = <<>> /\ e = [d EXCEPT !.open = FALSE]
  BY DEF PreventDefault, PromiseSettles, DispatchEnds, ListenerReturns
<1>3. sameLoop(d, e) /\ e.left = d.left
  BY <1>1, <1>2 DEF DispatchIs, sameLoop
<1>4. HeardInTurn(e)
  BY <1>1, <1>3, SameKeeps
<1>5. HubTypes'
  BY <1>1, <1>3 DEF HubTypes, sameLoop
<1>6. LeftIsKnown(e, listeners')
  <2>1. CASE e = d \/ e = [d EXCEPT !.prevented = TRUE]
    <3>1. e.open = d.open /\ e.type = d.type /\ e.detached = d.detached /\ e.kept = d.kept
      BY <1>1, <2>1 DEF DispatchIs
    <3>. QED
      BY <1>1, <1>3, <3>1 DEF LeftIsKnown, hears, sameLoop
  <2>2. CASE d.rest = <<>> /\ e = [d EXCEPT !.open = FALSE]
    <3>1. ~e.open
      BY <1>1, <2>2 DEF DispatchIs
    <3>. QED
      BY <1>3, <2>2, <3>1 DEF LeftIsKnown, sameLoop
  <2>. QED
    BY <1>2, <2>1, <2>2
<1>. QED
  BY <1>4, <1>5, <1>6

-----------------------------------------------------------------------------
(* The counters, and the theorem.                                          *)

LEMMA CountsKeep ==
  ASSUME HubInv, [HubNext]_hubVars
  PROVE  CountsAreTrue'
<1>1. /\ CountersAre(counters) /\ IsFiniteSet(subscriptions)
      /\ counters.registered \in Int /\ counters.removed \in Int /\ counters.pendingAsync \in Int
      /\ counters.registered - counters.removed = Cardinality(subscriptions)
      /\ counters.pendingAsync = promises /\ Cardinality(subscriptions) \in Nat
      /\ listeners \in [EventTypes -> Seq(Listeners)]
  BY FS_CardinalityType DEF HubInv, HubTypes, CountsAreTrue
<1>2. ASSUME UNCHANGED listeners, UNCHANGED promises,
             CountersAre(counters'), counters'.registered = counters.registered,
             counters'.removed = counters.removed, counters'.pendingAsync = counters.pendingAsync
      PROVE  CountsAreTrue'
  BY <1>1, <1>2 DEF CountsAreTrue, subscriptions
<1>3. ASSUME NEW t \in EventTypes, NEW l \in Listeners, On(t, l)
      PROVE  CountsAreTrue'
  <2>1. CASE Contains(listeners[t], l)
    BY <1>1, <1>2, <1>3, <2>1 DEF On
  <2>2. CASE ~Contains(listeners[t], l)
    <3>1. /\ listeners' = [listeners EXCEPT ![t] = Append(listeners[t], l)]
          /\ counters' = [counters EXCEPT !.registered = @ + 1] /\ UNCHANGED promises
      BY <1>3, <2>2 DEF On
    <3>2. listeners[t] \in Seq(Listeners) /\ IsInjective(listeners[t])
      BY <1>1 DEF HubInv, HubTypes
    <3>3. \A x : Contains(listeners'[t], x) <=> Contains(listeners[t], x) \/ x = l
      BY <1>1, <2>2, <3>1, <3>2, ListenerAdded
    <3>4. \A u \in EventTypes : u # t => listeners'[u] = listeners[u]
      BY <1>1, <3>1
    <3>5. subscriptions' = subscriptions \cup {<<t, l>>} /\ <<t, l>> \notin subscriptions
      BY <2>2, <3>3, <3>4 DEF subscriptions
    <3>6. /\ IsFiniteSet(subscriptions')
          /\ Cardinality(subscriptions') = Cardinality(subscriptions) + 1
      BY <1>1, <3>5, FS_AddElement
    <3>7. /\ CountersAre(counters') /\ counters'.registered = counters.registered + 1
          /\ counters'.removed = counters.removed /\ counters'.pendingAsync = counters.pendingAsync
      BY <1>1, <3>1 DEF CountersAre
    <3>. QED
      BY <1>1, <3>1, <3>6, <3>7 DEF CountsAreTrue
  <2>. QED
    BY <2>1, <2>2
<1>4. ASSUME NEW t \in EventTypes, NEW l \in Listeners, Off(t, l)
      PROVE  CountsAreTrue'
  <2>1. /\ counters' = [counters EXCEPT !.removed = @ + 1] /\ UNCHANGED promises
        /\ Contains(listeners[t], l)
    <3>1. listeners[t] \in Seq(Listeners)
      BY <1>1 DEF HubInv, HubTypes
    <3>2. DOMAIN listeners[t] = 1 .. Len(listeners[t])
      BY <3>1, ToSetFacts
    <3>3. PICK i \in DOMAIN listeners[t] : listeners[t][i] = l
      BY <1>4 DEF Off
    <3>4. Contains(listeners[t], l)
      BY <3>2, <3>3 DEF Contains
    <3>5. counters' = [counters EXCEPT !.removed = @ + 1] /\ UNCHANGED promises
      BY <1>4 DEF Off
    <3>. QED
      BY <3>4, <3>5
  <2>2. \A u \in EventTypes : \A x :
          Contains(listeners'[u], x) <=> Contains(listeners[u], x) /\ ~(u = t /\ x = l)
    BY <1>4, OffKeeps
  <2>3. subscriptions' = subscriptions \ {<<t, l>>} /\ <<t, l>> \in subscriptions
    BY <2>1, <2>2 DEF subscriptions
  <2>4. /\ IsFiniteSet(subscriptions')
        /\ Cardinality(subscriptions') = Cardinality(subscriptions) - 1
    BY <1>1, <2>3, FS_RemoveElement
  <2>5. /\ CountersAre(counters') /\ counters'.registered = counters.registered
        /\ counters'.removed = counters.removed + 1
        /\ counters'.pendingAsync = counters.pendingAsync
    BY <1>1, <2>1 DEF CountersAre
  <2>. QED
    BY <1>1, <2>1, <2>4, <2>5 DEF CountsAreTrue
<1>5. ASSUME Clear
      PROVE  CountsAreTrue'
  <2>1. /\ counters' = [counters EXCEPT !.removed = @ + Cardinality(subscriptions)]
        /\ listeners' = [t \in EventTypes |-> <<>>] /\ UNCHANGED promises
    BY <1>5 DEF Clear, listenerCount
  <2>2. subscriptions' = {}
    <3>1. Len(<<>>) = 0
      OBVIOUS
    <3>2. \A t \in EventTypes : \A x : ~Contains(listeners'[t], x)
      BY <2>1, <3>1 DEF Contains
    <3>. QED
      BY <3>2 DEF subscriptions
  <2>3. IsFiniteSet(subscriptions') /\ Cardinality(subscriptions') = 0
    BY <2>2, FS_EmptySet
  <2>4. /\ CountersAre(counters') /\ counters'.registered = counters.registered
        /\ counters'.removed = counters.removed + Cardinality(subscriptions)
        /\ counters'.pendingAsync = counters.pendingAsync
    BY <1>1, <2>1 DEF CountersAre
  <2>. QED
    BY <1>1, <2>1, <2>3, <2>4 DEF CountsAreTrue
<1>6. CASE \/ \E t \in EventTypes : Dispatch(t)
           \/ PreventDefault \/ CallListener \/ DispatchEnds \/ UNCHANGED hubVars
  <2>1. UNCHANGED listeners /\ UNCHANGED promises
    BY <1>6 DEF Dispatch, PreventDefault, CallListener, DispatchEnds, hubVars
  <2>2. counters' = counters \/ counters' = [counters EXCEPT !.sequence = @ + 1]
    BY <1>6 DEF Dispatch, PreventDefault, CallListener, DispatchEnds, hubVars
  <2>3. /\ CountersAre(counters') /\ counters'.registered = counters.registered
        /\ counters'.removed = counters.removed /\ counters'.pendingAsync = counters.pendingAsync
    BY <1>1, <2>2 DEF CountersAre
  <2>. QED
    BY <1>2, <2>1, <2>3
<1>7. CASE PromiseSettles \/ \E async \in BOOLEAN : ListenerReturns(async)
  <2>1. UNCHANGED listeners
    BY <1>7 DEF PromiseSettles, ListenerReturns
  <2>2. \E n \in {-1, 0, 1} : /\ counters' = [counters EXCEPT !.pendingAsync = @ + n]
                              /\ promises' = promises + n
    <3>1. counters = [counters EXCEPT !.pendingAsync = @ + 0] /\ promises = promises + 0
      BY <1>1 DEF CountersAre
    <3>2. counters.pendingAsync - 1 = counters.pendingAsync + (-1) /\ promises - 1 = promises + (-1)
      BY <1>1
    <3>3. CASE PromiseSettles
      BY <3>2, <3>3 DEF PromiseSettles
    <3>4. CASE \E async \in BOOLEAN : ListenerReturns(async)
      BY <3>1, <3>4 DEF ListenerReturns
    <3>. QED
      BY <1>7, <3>3, <3>4
  <2>3. PICK n \in {-1, 0, 1} : /\ counters' = [counters EXCEPT !.pendingAsync = @ + n]
                                /\ promises' = promises + n
    BY <2>2
  <2>4. /\ CountersAre(counters') /\ counters'.registered = counters.registered
        /\ counters'.removed = counters.removed
        /\ counters'.pendingAsync = counters.pendingAsync + n
    BY <1>1, <2>3 DEF CountersAre
  <2>5. subscriptions' = subscriptions
    BY <2>1 DEF subscriptions
  <2>. QED
    BY <1>1, <2>3, <2>4, <2>5 DEF CountsAreTrue
<1>. QED
  BY <1>3, <1>4, <1>5, <1>6, <1>7 DEF HubNext

LEMMA HubInvInit ==
  ASSUME HubInit
  PROVE  HubInv
<1>1. Len(<<>>) = 0 /\ <<>> \in Seq(Listeners) /\ IsInjective(<<>>)
  BY EmptySeq DEF IsInjective
<1>2. /\ DispatchIs(NoDispatch) /\ ~NoDispatch.open /\ NoDispatch.rest = <<>>
      /\ NoDispatch.first = <<>> /\ NoDispatch.heard = <<>>
  BY DEF NoDispatch, DispatchIs
<1>3. HubTypes
  BY <1>1, <1>2 DEF HubInit, HubTypes
<1>4. HeardInTurn(NoDispatch)
  <2>1. turnOf(NoDispatch) = 0
    BY <1>1, <1>2 DEF turnOf
  <2>. QED
    BY <1>1, <1>2, <2>1 DEF HeardInTurn, areInTurn
<1>5. LeftIsKnown(NoDispatch, listeners)
  BY <1>2 DEF LeftIsKnown
<1>6. subscriptions = {}
  <2>1. \A t \in EventTypes : \A x : ~Contains(listeners[t], x)
    BY <1>1 DEF HubInit, Contains
  <2>. QED
    BY <2>1 DEF subscriptions
<1>7. CountsAreTrue
  BY <1>6, FS_EmptySet DEF HubInit, CountsAreTrue, CountersAre
<1>. QED
  BY <1>3, <1>4, <1>5, <1>7 DEF HubInit, HubInv

LEMMA HubInvNext ==
  ASSUME HubInv, [HubNext]_hubVars
  PROVE  HubInv'
<1>1. CountsAreTrue'
  BY CountsKeep
<1>2. HubTypes' /\ HeardInTurn(dispatching') /\ LeftIsKnown(dispatching', listeners')
  <2>1. CASE UNCHANGED hubVars
    BY <2>1 DEF HubInv, HubTypes, hubVars
  <2>2. CASE HubNext
    BY <2>2, OnKeeps, OffKeeps, ClearKeeps, DispatchKeeps, CallListenerKeeps, OthersKeep
       DEF HubNext
  <2>. QED
    BY <2>1, <2>2
<1>. QED
  BY <1>1, <1>2 DEF HubInv

LEMMA PrefixOfInterval ==
  ASSUME NEW n \in Nat, NEW k \in 0 .. n
  PROVE  \A m \in 1 .. k : m \in 1 .. n
OBVIOUS

LEMMA HubInvSuffices ==
  ASSUME HubInv
  PROVE  EventIsHeardOnce
<1>. DEFINE d == dispatching
            k == turnOf(d)
<1>1. /\ HubTypes /\ HeardInTurn(d)
      /\ d.first \in Seq(Listeners) /\ d.heard \in Seq(Listeners)
  BY DEF HubInv, HubTypes
<1>2. /\ Len(d.first) \in Nat /\ k \in 0 .. Len(d.first)
      /\ DOMAIN d.first = 1 .. Len(d.first) /\ DOMAIN d.heard = 1 .. Len(d.heard)
      /\ k = Len(d.first) - Len(d.rest)
  BY <1>1, TurnFacts DEF turnOf
<1>3. /\ ToSet(d.first) = {d.first[i] : i \in 1 .. Len(d.first)}
      /\ ToSet(d.heard) = {d.heard[i] : i \in 1 .. Len(d.heard)}
  BY <1>1, ToSetFacts
<1>4. \A m \in 1 .. k : m \in 1 .. Len(d.first)
  BY ONLY <1>2, PrefixOfInterval
<1>5. IsInjective(d.heard)
  BY <1>1 DEF HeardInTurn, areInTurn
<1>6. ToSet(d.heard) \subseteq ToSet(d.first)
  <2>1. \A i \in 1 .. Len(d.heard) : \E m \in 1 .. k : d.first[m] = d.heard[i]
    BY <1>1 DEF HeardInTurn, areInTurn
  <2>. QED
    BY <1>3, <1>4, <2>1
<1>7. ASSUME NEW i \in DOMAIN d.heard, NEW j \in DOMAIN d.heard, i < j
      PROVE  \E m, n \in DOMAIN d.first :
               d.first[m] = d.heard[i] /\ d.first[n] = d.heard[j] /\ m < n
  <2>1. PICK m \in 1 .. k, n \in 1 .. k :
          d.first[m] = d.heard[i] /\ d.first[n] = d.heard[j] /\ m < n
    <3>1. i \in 1 .. Len(d.heard) /\ j \in 1 .. Len(d.heard)
      BY <1>2, <1>7
    <3>2. \A a, b \in 1 .. Len(d.heard) : a < b =>
            \E m, n \in 1 .. k : d.first[m] = d.heard[a] /\ d.first[n] = d.heard[b] /\ m < n
      BY <1>1 DEF HeardInTurn, areInTurn
    <3>. QED
      BY <1>7, <3>1, <3>2
  <2>2. m \in DOMAIN d.first /\ n \in DOMAIN d.first
    BY <1>2, <1>4, <2>1
  <2>. QED
    BY <2>1, <2>2
<1>8. ToSet(d.heard) \cap d.left = {}
  BY <1>1, <1>3 DEF HeardInTurn, areInTurn
<1>9. ASSUME ~d.open
      PROVE  ToSet(d.first) \subseteq ToSet(d.heard) \cup d.left
  <2>1. d.rest = <<>> /\ Len(<<>>) = 0
    BY <1>9 DEF HubInv, LeftIsKnown
  <2>2. k = Len(d.first)
    BY <1>2, <2>1
  <2>3. \A m \in 1 .. Len(d.first) : d.first[m] \in d.left \/ Contains(d.heard, d.first[m])
    BY <1>1, <2>2 DEF HeardInTurn, areInTurn
  <2>4. \A x : Contains(d.heard, x) => x \in ToSet(d.heard)
    BY <1>3 DEF Contains
  <2>. QED
    BY <1>3, <2>3, <2>4
<1>10. counters.registered - counters.removed = listenerCount /\ counters.pendingAsync = promises
  BY DEF HubInv, CountsAreTrue, listenerCount
<1>. QED
  BY <1>5, <1>6, <1>7, <1>8, <1>9, <1>10 DEF EventIsHeardOnce

(* An event is heard by a listener at most once, in the order of the        *)
(* subscriptions, by those alone that were subscribed when it was           *)
(* dispatched, and by all of these that did not leave before their turn,    *)
(* whatever the listeners do to the hub while the event is dispatched; and  *)
(* the counters of listeners and promises are right (event-hub.ts:217).     *)
THEOREM EventsAreHeardOnce == HubInit /\ [][HubNext]_hubVars => []EventIsHeardOnce
<1>1. HubInit => HubInv
  BY HubInvInit
<1>2. HubInv /\ [HubNext]_hubVars => HubInv'
  BY HubInvNext
<1>3. HubInv => EventIsHeardOnce
  BY HubInvSuffices
<1>. QED
  BY <1>1, <1>2, <1>3, PTL

-----------------------------------------------------------------------------
(* DataExchange.                                                           *)

ExportIs(e) ==
    e = [stage |-> e.stage, request |-> e.request, state |-> e.state, rows |-> e.rows,
         answer |-> e.answer, file |-> e.file, lossless |-> e.lossless]

ExportInv ==
    /\ export.stage # "none" => ExportIs(export)
    /\ ExportIsOneDocument

\* The steps that are none of an export.
LEMMA ExportIsLeftAlone ==
  ASSUME ExportInv, UNCHANGED export
  PROVE  ExportInv'
BY DEF ExportInv, ExportIs, ExportIsOneDocument

LEMMA ExportIsAsked ==
  ASSUME ExportInv, NEW e \in Exports, ExportData(e)
  PROVE  ExportInv'
<1>1. PICK rows : export' = [stage |-> "asking", request |-> e, state |-> book, rows |-> rows,
                             answer |-> NoAnswer, file |-> <<>>, lossless |-> FALSE]
  BY DEF ExportData
<1>2. ExportIs(export') /\ export'.stage = "asking"
  BY <1>1 DEF ExportIs
<1>. QED
  BY <1>2 DEF ExportInv, ExportIs, ExportIsOneDocument

LEMMA ExportIsAnswered ==
  ASSUME ExportInv, NEW answer \in Answers, PolicyAnswers(answer)
  PROVE  ExportInv'
<1>1. CASE export' = NoExport
  BY <1>1 DEF ExportInv, NoExport, ExportIs, ExportIsOneDocument
<1>2. CASE export' = [export EXCEPT !.stage = "writing", !.answer = answer]
  <2>1. ExportIs(export)
    BY DEF ExportInv, PolicyAnswers
  <2>2. ExportIs(export') /\ export'.stage = "writing"
    BY <1>2, <2>1 DEF ExportIs
  <2>. QED
    BY <2>2 DEF ExportInv, ExportIs, ExportIsOneDocument
<1>. QED
  BY <1>1, <1>2 DEF PolicyAnswers

\* What is written is read in the document the export was called on.
LEMMA ExportIsWritten ==
  ASSUME ExportInv, WriteExport
  PROVE  ExportInv'
<1>1. PICK lossless, file :
        /\ export' = [export EXCEPT !.stage = "exported", !.lossless = lossless, !.file = file]
        /\ file = [r \in export.rows |-> [f \in export.request.fields |-> exportedText(r, f)]]
  BY DEF WriteExport
<1>2. ExportIs(export)
  BY DEF ExportInv, WriteExport
<1>3. /\ ExportIs(export') /\ export'.request = export.request /\ export'.rows = export.rows
      /\ export'.answer = export.answer /\ export'.state = export.state /\ export'.file = file
  BY <1>1, <1>2 DEF ExportIs
<1>4. \A r \in export.rows, f \in export.request.fields : file[r][f] = exportedText(r, f)
  BY <1>1
<1>5. ASSUME NEW r \in export.rows, NEW f \in export.request.fields
      PROVE  IF f \in export.answer.fields \ DOMAIN export.answer.masks
             THEN file[r][f] = export.state.cells[r][f]
             ELSE file[r][f] \in {Blank} \cup
                    {export.answer.masks[g] : g \in DOMAIN export.answer.masks}
  BY <1>4, <1>5 DEF exportedText
<1>6. ExportIsOneDocument'
  BY <1>3, <1>5 DEF ExportIsOneDocument
<1>. QED
  BY <1>3, <1>6 DEF ExportInv, ExportIs

(* An export has the rows and the values of the one document it was called  *)
(* on, whatever is committed, imported or shown while the policy thinks,    *)
(* and no value that the policy keeps back (editor.ts:4651): for every      *)
(* document, every request and every answer of the policy.                  *)
THEOREM ExportsAreOneDocument == ExchangeInit /\ [][ExchangeNext]_exchangeVars => []ExportIsOneDocument
<1>1. ExchangeInit => ExportInv
  BY DEF ExchangeInit, ExportInv, NoExport, ExportIsOneDocument
<1>2. ExportInv /\ [ExchangeNext]_exchangeVars => ExportInv'
  <2> SUFFICES ASSUME ExportInv, [ExchangeNext]_exchangeVars PROVE ExportInv'
    OBVIOUS
  <2>1. CASE UNCHANGED export
    BY <2>1, ExportIsLeftAlone
  <2>2. CASE \E e \in Exports : ExportData(e)
    BY <2>2, ExportIsAsked
  <2>3. CASE \E answer \in Answers : PolicyAnswers(answer)
    BY <2>3, ExportIsAnswered
  <2>4. CASE WriteExport
    BY <2>4, ExportIsWritten
  <2>5. CASE ExportRejected
    BY <2>5 DEF ExportRejected, ExportInv, NoExport, ExportIs, ExportIsOneDocument
  <2>6. CASE SourceRead \/ ImportParsed \/ RunImport \/ ImportRefused \/ AbortImport
               \/ PreviewImport \/ CommitImport
    <3>1. UNCHANGED export
      BY <2>6 DEF SourceRead, ImportParsed, RunImport, ImportRefused, AbortImport, PreviewImport,
                  CommitImport
    <3>. QED
      BY <3>1, ExportIsLeftAlone
  <2>7. CASE \E i \in Imports : ImportData(i)
    BY <2>7, ExportIsLeftAlone DEF ImportData
  <2>8. CASE \E tree : OtherTransaction(tree)
    BY <2>8, ExportIsLeftAlone DEF OtherTransaction
  <2>9. CASE \E r, s, column : ToggleRow(r) \/ PickRows(r, s, column) \/ ShowColumns(column)
    BY <2>9, ExportIsLeftAlone DEF ToggleRow, PickRows, ShowColumns
  <2>10. CASE UNCHANGED exchangeVars
    BY <2>10, ExportIsLeftAlone DEF exchangeVars
  <2>. QED
    BY <2>2, <2>3, <2>4, <2>5, <2>6, <2>7, <2>8, <2>9, <2>10 DEF ExchangeNext
<1>3. ExportInv => ExportIsOneDocument
  BY DEF ExportInv
<1>. QED
  BY <1>1, <1>2, <1>3, PTL

-----------------------------------------------------------------------------
(* The transaction engine: what its drafts are made of.                    *)

isNode(n) == n = [parent |-> n.parent, key |-> n.key, fields |-> n.fields, code |-> n.code]

areNodes(nodes) ==
    /\ DOMAIN nodes \subseteq Ids /\ nodes = [i \in DOMAIN nodes |-> nodes[i]]
    /\ \A i \in DOMAIN nodes : isNode(nodes[i])

Families == [Parents -> Seq(Ids)]

isDraft(d) ==
    /\ d = [nodes |-> d.nodes, children |-> d.children, changed |-> d.changed]
    /\ areNodes(d.nodes) /\ d.children \in Families

\* A sibling is put among the others.
LEMMA SortedInIsSeq ==
  ASSUME NEW S, NEW nodes, NEW s \in Seq(S), NEW id \in S
  PROVE  sortedIn(nodes, s, id) \in Seq(S)
<1>1. DOMAIN s = 1 .. Len(s) /\ Len(s) \in Nat
  BY LenProperties
<1>2. PICK N \in Nat : N = Len(s)
  BY <1>1
<1>3. PICK left : left = {k \in DOMAIN s : ~precedes(nodes[id].key, nodes[s[k]].key)}
  OBVIOUS
<1>4. left \in SUBSET (1 .. N)
  BY <1>1, <1>2, <1>3
<1>5. IsFiniteSet(1 .. N) /\ Cardinality(1 .. N) = N
  <2>1. 1 \in Int /\ N \in Int
    OBVIOUS
  <2>2. IsFiniteSet(1 .. N) /\ Cardinality(1 .. N) = IF 1 > N THEN 0 ELSE N - 1 + 1
    BY <2>1, FS_Interval
  <2> QED
    BY <2>2
<1>6. IsFiniteSet(left) /\ Cardinality(left) <= N
  BY <1>4, <1>5, FS_Subset
<1>7. PICK c \in Nat : c = Cardinality(left)
  BY <1>6, FS_CardinalityType
<1>8. PICK i \in 1 .. Len(s) + 1 : i = c + 1
  BY <1>2, <1>6, <1>7
<1>9. sortedIn(nodes, s, id) = InsertAt(s, i, id)
  BY <1>3, <1>7, <1>8 DEF sortedIn
<1>10. PICK t : t = InsertAt(s, i, id)
  OBVIOUS
<1>11. t \in Seq(S)
  BY <1>10, InsertedAt
<1> QED
  BY <1>9, <1>10, <1>11

\* What is sorted stays a sequence of the same elements' set.
LEMMA SortIsSeq ==
  ASSUME NEW S, NEW nodes, NEW s \in Seq(S)
  PROVE  sortChildren(nodes, s) \in Seq(S)
<1> DEFINE defined(f) == f = [n \in 0 .. Len(s) |->
                IF n = 0 THEN <<>> ELSE sortedIn(nodes, f[n - 1], s[n])]
<1>1. PICK f : f = CHOOSE h : defined(h)
  OBVIOUS
<1>2. sortChildren(nodes, s) = f[Len(s)]
  BY <1>1 DEF sortChildren
<1>3. PICK N \in Nat : N = Len(s)
  BY LenProperties
<1>4. PICK A : A = Seq(S)
  OBVIOUS
<1>5. \A n \in 1 .. N : s[n] \in S
  BY <1>3, ElementOfSeq
<1>6. \A n \in 1 .. N : \A t \in A : sortedIn(nodes, t, s[n]) \in A
  BY <1>4, <1>5, SortedInIsSeq
<1>7. PICK next : next = [n \in 1 .. N |-> [t \in A |-> sortedIn(nodes, t, s[n])]]
  OBVIOUS
<1>8. next \in nextsOn(A, N)
  BY <1>6, <1>7 DEF nextsOn
<1>9. PICK none \in A : none = <<>>
  BY <1>4, EmptySeq
<1>10. PICK g : /\ g[0] = none
                /\ \A n \in 1 .. N : g[n - 1] \in A /\ g[n] = next[n][g[n - 1]]
  BY <1>3, <1>8, <1>9, RecursionExists
<1>11. PICK h : h = [n \in 0 .. N |-> g[n]]
  OBVIOUS
<1>12. ASSUME NEW n \in 0 .. N
       PROVE  h[n] = IF n = 0 THEN <<>> ELSE sortedIn(nodes, h[n - 1], s[n])
  <2>1. CASE n = 0
    BY <1>9, <1>10, <1>11, <2>1
  <2>2. CASE n # 0
    <3>1. n \in 1 .. N /\ h[n] = g[n] /\ h[n - 1] = g[n - 1]
      BY <1>3, <1>11, <2>2
    <3>2. PICK t \in A : t = g[n - 1]
      BY <1>10, <3>1
    <3>3. next[n][t] = sortedIn(nodes, t, s[n])
      BY <1>7, <3>1
    <3> QED
      BY <1>10, <2>2, <3>1, <3>2, <3>3
  <2> QED
    BY <2>1, <2>2
<1>13. defined(h)
  <2>1. h = [n \in 0 .. N |-> IF n = 0 THEN <<>> ELSE sortedIn(nodes, h[n - 1], s[n])]
    BY <1>11, <1>12
  <2> QED
    BY <1>3, <2>1
<1>14. defined(f)
  <2> HIDE DEF defined
  <2> QED
    BY <1>1, <1>13
<1>15. \A n \in 0 .. N : f[n] = IF n = 0 THEN <<>> ELSE sortedIn(nodes, f[n - 1], s[n])
  BY <1>3, <1>14
<1>16. f[0] \in A
  BY <1>3, <1>9, <1>15
<1>17. ASSUME NEW n \in 0 + 1 .. N, f[n - 1] \in A PROVE f[n] \in A
  <2>1. n \in 1 .. N /\ n \in 0 .. N /\ n # 0
    BY <1>3
  <2>2. f[n] = sortedIn(nodes, f[n - 1], s[n])
    BY <1>15, <2>1
  <2> QED
    BY <1>6, <1>17, <2>1, <2>2
<1>18. f[N] \in A
  <2> HIDE DEF defined
  <2>1. \A n \in 0 .. N : f[n] \in A
    BY <1>3, <1>16, <1>17, ValueByValue
  <2> QED
    BY <1>3, <2>1
<1> QED
  BY <1>2, <1>3, <1>4, <1>18

LEMMA ChildRemovedIsSeq ==
  ASSUME NEW S, NEW s \in Seq(S), NEW id
  PROVE  removeChild(s, id) \in Seq(S)
<1>1. DOMAIN s = 1 .. Len(s) /\ Len(s) \in Nat
  BY LenProperties
<1>2. PICK at : at = {k \in DOMAIN s : s[k] = id}
  OBVIOUS
<1>3. CASE at = {}
  BY <1>2, <1>3 DEF removeChild
<1>4. CASE at # {}
  <2>1. at \in SUBSET Nat /\ at \subseteq DOMAIN s
    BY <1>1, <1>2
  <2>2. \E k \in at : \A j \in at : k <= j
    BY <1>4, <2>1, LeastNatural
  <2>3. PICK k : k = CHOOSE n \in at : \A j \in at : n <= j
    OBVIOUS
  <2>4. k \in at
    BY <2>2, <2>3
  <2>5. removeChild(s, id) = RemoveAt(s, k)
    BY <1>2, <1>4, <2>3 DEF removeChild
  <2> QED
    BY <2>1, <2>4, <2>5, RemoveAtSet
<1> QED
  BY <1>3, <1>4

\* What is visited.
LEMMA FirstTimesIsSeq ==
  ASSUME NEW S, NEW s \in Seq(S)
  PROVE  firstTimes(s) \in Seq(S)
<1> DEFINE visit(t, x) == IF x \in ToSet(t) THEN t ELSE Append(t, x)
           defined(f) == f = [n \in 0 .. Len(s) |->
                IF n = 0 THEN <<>> ELSE IF s[n] \in ToSet(f[n - 1]) THEN f[n - 1]
                ELSE Append(f[n - 1], s[n])]
<1>1. PICK f : f = CHOOSE h : defined(h)
  OBVIOUS
<1>2. firstTimes(s) = f[Len(s)]
  BY <1>1 DEF firstTimes
<1>3. PICK N \in Nat : N = Len(s)
  BY LenProperties
<1>4. PICK A : A = Seq(S)
  OBVIOUS
<1>5. \A n \in 1 .. N : s[n] \in S
  BY <1>3, ElementOfSeq
<1>6. \A n \in 1 .. N : \A t \in A : visit(t, s[n]) \in A
  BY <1>4, <1>5, AppendProperties
<1>7. PICK next : next = [n \in 1 .. N |-> [t \in A |-> visit(t, s[n])]]
  OBVIOUS
<1>8. next \in nextsOn(A, N)
  <2> HIDE DEF visit
  <2> QED
    BY <1>6, <1>7 DEF nextsOn
<1>9. PICK none \in A : none = <<>>
  BY <1>4, EmptySeq
<1>10. PICK g : /\ g[0] = none
                /\ \A n \in 1 .. N : g[n - 1] \in A /\ g[n] = next[n][g[n - 1]]
  BY <1>3, <1>8, <1>9, RecursionExists
<1>11. PICK h : h = [n \in 0 .. N |-> g[n]]
  OBVIOUS
<1>12. ASSUME NEW n \in 0 .. N
       PROVE  h[n] = IF n = 0 THEN <<>> ELSE visit(h[n - 1], s[n])
  <2> HIDE DEF visit
  <2>1. CASE n = 0
    BY <1>9, <1>10, <1>11, <2>1
  <2>2. CASE n # 0
    <3>1. n \in 1 .. N /\ h[n] = g[n] /\ h[n - 1] = g[n - 1]
      BY <1>3, <1>11, <2>2
    <3>2. PICK t \in A : t = g[n - 1]
      BY <1>10, <3>1
    <3>3. next[n][t] = visit(t, s[n])
      BY <1>7, <3>1
    <3> QED
      BY <1>10, <2>2, <3>1, <3>2, <3>3
  <2> QED
    BY <2>1, <2>2
<1>13. defined(h)
  <2>1. h = [n \in 0 .. N |-> IF n = 0 THEN <<>> ELSE visit(h[n - 1], s[n])]
    <3> HIDE DEF visit
    <3> QED
      BY <1>11, <1>12
  <2> QED
    BY <1>3, <2>1
<1>14. defined(f)
  <2> HIDE DEF defined
  <2> QED
    BY <1>1, <1>13
<1>15. \A n \in 0 .. N : f[n] = IF n = 0 THEN <<>> ELSE visit(f[n - 1], s[n])
  BY <1>3, <1>14
<1>16. f[0] \in A
  <2> HIDE DEF visit
  <2> QED
    BY <1>3, <1>9, <1>15
<1>17. ASSUME NEW n \in 0 + 1 .. N, f[n - 1] \in A PROVE f[n] \in A
  <2> HIDE DEF visit
  <2>1. n \in 1 .. N /\ n \in 0 .. N /\ n # 0
    BY <1>3
  <2>2. f[n] = visit(f[n - 1], s[n])
    BY <1>15, <2>1
  <2> QED
    BY <1>6, <1>17, <2>1, <2>2
<1>18. f[N] \in A
  <2> HIDE DEF defined
  <2>1. \A n \in 0 .. N : f[n] \in A
    BY <1>3, <1>16, <1>17, ValueByValue
  <2> QED
    BY <1>3, <2>1
<1> QED
  BY <1>2, <1>3, <1>4, <1>18

\* One step of the walk down from each node.
stepDown(nodes, children, below) ==
    [i \in Ids |->
        IF i \notin DOMAIN nodes THEN <<>>
        ELSE <<i>> \o FlattenSeq([k \in DOMAIN children[i] |-> below[children[i][k]]])]

LEMMA StepDownIsWalk ==
  ASSUME NEW nodes, NEW children \in Families, NEW below \in [Ids -> Seq(DOMAIN nodes)]
  PROVE  stepDown(nodes, children, below) \in [Ids -> Seq(DOMAIN nodes)]
<1>1. PICK D : D = DOMAIN nodes
  OBVIOUS
<1>2. ASSUME NEW i \in Ids, i \in D
      PROVE  <<i>> \o FlattenSeq([k \in DOMAIN children[i] |-> below[children[i][k]]]) \in Seq(D)
  <2>1. PICK s \in Seq(Ids) : s = children[i]
    BY DEF Families, Parents
  <2>2. PICK N \in Nat : N = Len(s) /\ DOMAIN s = 1 .. N
    BY <2>1, LenProperties
  <2>3. PICK t : t = [k \in DOMAIN s |-> below[s[k]]]
    OBVIOUS
  <2>4. \A k \in 1 .. N : s[k] \in Ids
    BY <2>1, <2>2, ElementOfSeq
  <2>5. t \in [1 .. N -> Seq(D)]
    BY <1>1, <2>2, <2>3, <2>4
  <2>6. t \in Seq(Seq(D))
    BY <2>5, SeqDef
  <2>7. FlattenSeq(t) \in Seq(D)
    BY <2>6, FlattenIsSeq
  <2>8. <<i>> \in Seq(D)
    BY <1>2
  <2> QED
    BY <2>1, <2>3, <2>7, <2>8, ConcatProperties
<1>3. <<>> \in Seq(D)
  BY EmptySeq
<1> QED
  BY <1>1, <1>2, <1>3 DEF stepDown

LEMMA SubtreeIsSeq ==
  ASSUME NEW d, isDraft(d), NEW id \in Ids
  PROVE  subtree(d, id) \in Seq(DOMAIN d.nodes)
<1> DEFINE leaves == [i \in Ids |-> <<>>]
           defined(f) == f = [n \in 0 .. Cardinality(Ids) |->
                IF n = 0 THEN [i \in Ids |-> <<>>]
                ELSE [i \in Ids |->
                    IF i \notin DOMAIN d.nodes THEN <<>>
                    ELSE <<i>> \o FlattenSeq([k \in DOMAIN d.children[i] |->
                                                 f[n - 1][d.children[i][k]]])]]
<1>1. PICK f : f = CHOOSE h : defined(h)
  OBVIOUS
<1>2. subtree(d, id) = firstTimes(f[Cardinality(Ids)][id])
  BY <1>1 DEF subtree
<1>3. PICK N \in Nat : N = Cardinality(Ids)
  BY TreeAssumption, FS_CardinalityType
<1>20. PICK ns, D : ns = d.nodes /\ D = DOMAIN ns
  OBVIOUS
<1>4. PICK A : A = [Ids -> Seq(D)]
  OBVIOUS
<1>5. PICK c \in Families : c = d.children
  BY DEF isDraft
<1>6. \A t \in A : stepDown(ns, c, t) \in A
  BY <1>4, <1>5, <1>20, StepDownIsWalk
<1>7. PICK next : next = [n \in 1 .. N |-> [t \in A |-> stepDown(ns, c, t)]]
  OBVIOUS
<1>8. next \in nextsOn(A, N)
  BY <1>6, <1>7 DEF nextsOn
<1>9. PICK none \in A : none = leaves
  <2>1. \A i \in Ids : <<>> \in Seq(D)
    BY EmptySeq
  <2> QED
    BY <1>4, <2>1
<1>10. PICK g : /\ g[0] = none
                /\ \A n \in 1 .. N : g[n - 1] \in A /\ g[n] = next[n][g[n - 1]]
  <2>1. none \in A
    BY <1>9
  <2> HIDE DEF leaves
  <2> QED
    BY <1>3, <1>8, <2>1, RecursionExists
<1>11. PICK h : h = [n \in 0 .. N |-> g[n]]
  OBVIOUS
<1>12. ASSUME NEW n \in 0 .. N
       PROVE  h[n] = IF n = 0 THEN leaves ELSE stepDown(ns, c, h[n - 1])
  <2> HIDE DEF leaves
  <2>1. CASE n = 0
    BY <1>9, <1>10, <1>11, <2>1
  <2>2. CASE n # 0
    <3>1. n \in 1 .. N /\ h[n] = g[n] /\ h[n - 1] = g[n - 1]
      BY <1>3, <1>11, <2>2
    <3>2. PICK t \in A : t = g[n - 1]
      BY <1>10, <3>1
    <3>3. next[n][t] = stepDown(ns, c, t)
      BY <1>7, <3>1
    <3> QED
      BY <1>10, <2>2, <3>1, <3>2, <3>3
  <2> QED
    BY <2>1, <2>2
<1>13. defined(h)
  <2>1. h = [n \in 0 .. N |-> IF n = 0 THEN leaves ELSE stepDown(ns, c, h[n - 1])]
    <3> HIDE DEF leaves
    <3> QED
      BY <1>11, <1>12
  <2>2. h = [n \in 0 .. Cardinality(Ids) |->
                IF n = 0 THEN [i \in Ids |-> <<>>]
                ELSE [i \in Ids |->
                    IF i \notin DOMAIN ns THEN <<>>
                    ELSE <<i>> \o FlattenSeq([k \in DOMAIN c[i] |-> h[n - 1][c[i][k]]])]]
    BY <1>3, <2>1, Zenon DEF stepDown
  <2> QED
    BY <1>5, <1>20, <2>2, Zenon
<1>14. defined(f)
  <2> HIDE DEF defined
  <2> QED
    BY <1>1, <1>13
<1>15. \A n \in 0 .. N : f[n] = IF n = 0 THEN leaves ELSE stepDown(ns, c, f[n - 1])
  <2>1. f = [n \in 0 .. N |-> IF n = 0 THEN leaves ELSE stepDown(ns, c, f[n - 1])]
    BY <1>3, <1>5, <1>14, <1>20, Zenon DEF stepDown
  <2> QED
    BY <2>1, Zenon
<1>16. f[0] \in A
  <2> HIDE DEF leaves
  <2> QED
    BY <1>3, <1>9, <1>15
<1>17. ASSUME NEW n \in 0 + 1 .. N, f[n - 1] \in A PROVE f[n] \in A
  <2>1. n \in 1 .. N /\ n \in 0 .. N /\ n # 0
    BY <1>3
  <2>2. f[n] = stepDown(ns, c, f[n - 1])
    <3> HIDE DEF leaves
    <3> QED
      BY <1>15, <2>1
  <2> QED
    BY <1>6, <1>17, <2>2
<1>18. f[N] \in A
  <2> HIDE DEF defined
  <2>1. \A n \in 0 .. N : f[n] \in A
    BY <1>3, <1>16, <1>17, ValueByValue
  <2> QED
    BY <1>3, <2>1
<1>19. f[N][id] \in Seq(D)
  BY <1>4, <1>18
<1> QED
  BY <1>2, <1>3, <1>19, <1>20, FirstTimesIsSeq

-----------------------------------------------------------------------------
(* The draft's operations keep it a draft.                                 *)

\* Other siblings below one parent.
LEMMA FamilyChanged ==
  ASSUME NEW c \in Families, NEW p, NEW new, p \in Parents => new \in Seq(Ids)
  PROVE  [c EXCEPT ![p] = new] \in Families
BY DEF Families

\* Another set of nodes, and other siblings below one parent.
LEMMA DraftChanged ==
  ASSUME NEW d, isDraft(d), NEW nodes, areNodes(nodes), NEW p, NEW new,
         p \in Parents => new \in Seq(Ids)
  PROVE  isDraft([d EXCEPT !.nodes = nodes, !.children[p] = new])
<1>1. PICK n, c, g : d = [nodes |-> n, children |-> c, changed |-> g]
  BY DEF isDraft
<1>2. d.children = c /\ c \in Families
  BY <1>1 DEF isDraft
<1>3. PICK w : w = [d EXCEPT !.nodes = nodes]
  OBVIOUS
<1>4. w = [nodes |-> nodes, children |-> c, changed |-> g]
  BY <1>1, <1>3
<1>5. w.children = c
  BY <1>4
<1>6. PICK e : e = [c EXCEPT ![p] = new]
  OBVIOUS
<1>7. e \in Families
  BY <1>2, <1>6, FamilyChanged
<1>8. [d EXCEPT !.nodes = nodes, !.children[p] = new] = [w EXCEPT !.children[p] = new]
  BY <1>3, Zenon
<1>9. [w EXCEPT !.children[p] = new] = [w EXCEPT !.children = [w.children EXCEPT ![p] = new]]
  OBVIOUS
<1>10. [w EXCEPT !.children[p] = new] = [w EXCEPT !.children = e]
  BY <1>5, <1>6, <1>9, Zenon
<1>11. PICK r : r = [w EXCEPT !.children = e]
  OBVIOUS
<1>12. r = [nodes |-> nodes, children |-> e, changed |-> g]
  BY <1>4, <1>11
<1>13. isDraft(r)
  BY <1>7, <1>12 DEF isDraft
<1> QED
  BY <1>8, <1>10, <1>11, <1>13, Zenon

LEMMA NodeAdded ==
  ASSUME NEW nodes, areNodes(nodes), NEW id \in Ids, NEW node, isNode(node)
  PROVE  areNodes([i \in DOMAIN nodes \cup {id} |-> IF i = id THEN node ELSE nodes[i]])
<1>2. PICK D : D = DOMAIN nodes \cup {id}
  OBVIOUS
<1>1. PICK t : t = [i \in DOMAIN nodes \cup {id} |-> IF i = id THEN node ELSE nodes[i]]
  OBVIOUS
<1>3. t = [i \in D |-> IF i = id THEN node ELSE nodes[i]]
  BY <1>1, <1>2
<1>4. DOMAIN t \subseteq Ids /\ t = [i \in DOMAIN t |-> t[i]]
  BY <1>2, <1>3 DEF areNodes
<1>5. \A i \in DOMAIN t : isNode(t[i])
  <2>1. SUFFICES ASSUME NEW i \in DOMAIN t PROVE isNode(t[i])
    OBVIOUS
  <2>2. t[i] = node \/ (i \in DOMAIN nodes /\ t[i] = nodes[i])
    BY <1>2, <1>3
  <2>3. CASE t[i] = node
    BY <2>3
  <2>4. CASE i \in DOMAIN nodes /\ t[i] = nodes[i]
    <3>1. isNode(nodes[i])
      BY <2>4 DEF areNodes
    <3> QED
      BY <2>4, <3>1
  <2> QED
    BY <2>2, <2>3, <2>4
<1> QED
  BY <1>1, <1>4, <1>5 DEF areNodes

\* Nodes made of nodes, one by one.
LEMMA NodesMade ==
  ASSUME NEW D, D \subseteq Ids, NEW t, t = [i \in D |-> t[i]], \A i \in D : isNode(t[i])
  PROVE  areNodes(t)
BY DEF areNodes

LEMMA InsertIsDraft ==
  ASSUME NEW d, isDraft(d), NEW id \in Ids, NEW node, isNode(node), node.parent \in Parents
  PROVE  isDraft(insertNode(d, id, node))
<1>1. PICK nodes : nodes = [i \in DOMAIN d.nodes \cup {id} |-> IF i = id THEN node ELSE d.nodes[i]]
  OBVIOUS
<1>2. areNodes(nodes)
  BY <1>1, NodeAdded DEF isDraft
<1>3. PICK s \in Seq(Ids) : s = d.children[node.parent]
  BY DEF isDraft, Families
<1>4. PICK new : new = sortChildren(nodes, Append(s, id))
  OBVIOUS
<1>5. new \in Seq(Ids)
  <2>1. PICK t \in Seq(Ids) : t = Append(s, id)
    BY AppendProperties
  <2> QED
    BY <1>4, <2>1, SortIsSeq
<1>6. PICK p : p = node.parent
  OBVIOUS
<1>7. insertNode(d, id, node) = [d EXCEPT !.nodes = nodes, !.children[p] = new]
  <2>1. PICK w : w = [d EXCEPT !.nodes = nodes]
    OBVIOUS
  <2>2. w.children = d.children
    BY <2>1 DEF isDraft
  <2>3. insertNode(d, id, node) = [w EXCEPT !.children[p] = sortChildren(nodes, Append(w.children[p], id))]
    BY <1>1, <1>6, <2>1, Zenon DEF insertNode
  <2> QED
    BY <1>3, <1>4, <1>6, <2>1, <2>2, <2>3, Zenon
<1>8. isDraft([d EXCEPT !.nodes = nodes, !.children[p] = new])
  BY <1>2, <1>5, DraftChanged
<1> QED
  BY <1>7, <1>8, Zenon

LEMMA DeleteIsDraft ==
  ASSUME NEW d, isDraft(d), NEW id
  PROVE  isDraft(deleteSubtree(d, id))
<1>1. PICK taken : taken = ToSet(subtree(d, id))
  OBVIOUS
<1>2. PICK kept : kept = DOMAIN d.nodes \ taken
  OBVIOUS
<1>3. PICK nodes, parent : nodes = [i \in kept |-> d.nodes[i]] /\ parent = d.nodes[id].parent
  OBVIOUS
<1>4. PICK c : c = d.children /\ c \in Families
  BY DEF isDraft
<1>5. PICK e : e = [p \in Parents |->
                         IF p \in taken THEN <<>>
                         ELSE IF p = parent THEN removeChild(c[p], id)
                         ELSE c[p]]
  OBVIOUS
<1>6. e \in Families
  <2>1. ASSUME NEW p \in Parents PROVE e[p] \in Seq(Ids)
    <3>1. PICK s \in Seq(Ids) : s = c[p]
      BY <1>4 DEF Families
    <3>2. removeChild(s, id) \in Seq(Ids) /\ <<>> \in Seq(Ids)
      BY ChildRemovedIsSeq, EmptySeq
    <3>3. e[p] = IF p \in taken THEN <<>> ELSE IF p = parent THEN removeChild(s, id) ELSE s
      BY <1>5, <3>1
    <3> QED
      BY <3>2, <3>3
  <2> QED
    BY <1>5, <2>1 DEF Families
<1>7. areNodes(nodes)
  <2>1. kept \subseteq Ids /\ \A i \in kept : isNode(d.nodes[i])
    BY <1>2 DEF isDraft, areNodes
  <2>2. \A i \in kept : isNode(nodes[i])
    BY <1>3, <2>1
  <2>3. nodes = [i \in kept |-> nodes[i]]
    BY <1>3
  <2> QED
    BY <2>1, <2>2, <2>3, NodesMade
<1>8. PICK r : r = deleteSubtree(d, id)
  OBVIOUS
<1>9. r = [nodes |-> nodes, children |-> e, changed |-> d.changed \ taken]
  BY <1>1, <1>2, <1>3, <1>4, <1>5, <1>8, Zenon DEF deleteSubtree
<1>10. isDraft(r)
  BY <1>6, <1>7, <1>9 DEF isDraft
<1> QED
  BY <1>8, <1>10

\* A node at another place.
LEMMA NodePlaced ==
  ASSUME NEW n, isNode(n), NEW parent, NEW key
  PROVE  isNode([n EXCEPT !.parent = parent, !.key = key]) /\ isNode([n EXCEPT !.key = key])
<1>1. PICK w : w = [n EXCEPT !.parent = parent]
  OBVIOUS
<1>2. w = [parent |-> parent, key |-> n.key, fields |-> n.fields, code |-> n.code]
  BY <1>1 DEF isNode
<1>3. isNode(w)
  BY <1>2 DEF isNode
<1>4. ASSUME NEW m, isNode(m) PROVE isNode([m EXCEPT !.key = key])
  <2>1. PICK v : v = [m EXCEPT !.key = key]
    OBVIOUS
  <2>2. v = [parent |-> m.parent, key |-> key, fields |-> m.fields, code |-> m.code]
    BY <1>4, <2>1 DEF isNode
  <2>3. isNode(v)
    BY <2>2 DEF isNode
  <2> QED
    BY <2>1, <2>3
<1>5. [n EXCEPT !.parent = parent, !.key = key] = [w EXCEPT !.key = key]
  BY <1>1, Zenon
<1>6. isNode([w EXCEPT !.key = key]) /\ isNode([n EXCEPT !.key = key])
  BY <1>3, <1>4
<1> QED
  BY <1>5, <1>6, Zenon

\* One node is another one.
LEMMA NodeReplaced ==
  ASSUME NEW nodes, areNodes(nodes), NEW id, NEW node, isNode(node)
  PROVE  areNodes([nodes EXCEPT ![id] = node])
<1>1. PICK t, D : t = [nodes EXCEPT ![id] = node] /\ D = DOMAIN nodes
  OBVIOUS
<1>2. t = [i \in D |-> IF i = id THEN node ELSE nodes[i]]
  BY <1>1 DEF areNodes
<1>3. D \subseteq Ids /\ \A i \in D : isNode(nodes[i])
  BY <1>1 DEF areNodes
<1>4. t = [i \in D |-> t[i]]
  BY <1>2
<1>5. ASSUME NEW i \in D PROVE isNode(t[i])
  <2>1. CASE i = id
    <3>1. t[i] = node
      BY <1>2, <2>1
    <3> QED
      BY <3>1
  <2>2. CASE i # id
    <3>1. t[i] = nodes[i]
      BY <1>2, <2>2
    <3> QED
      BY <1>3, <3>1
  <2> QED
    BY <2>1, <2>2
<1> QED
  BY <1>1, <1>3, <1>4, <1>5, NodesMade

LEMMA MoveIsDraft ==
  ASSUME NEW d, isDraft(d), NEW id \in DOMAIN d.nodes, NEW parent \in Parents, NEW key
  PROVE  isDraft(moveNode(d, id, parent, key))
<1>1. PICK c \in Families : c = d.children
  BY DEF isDraft
<1>2. PICK from : from = d.nodes[id].parent
  OBVIOUS
<1>3. PICK left : left = [c EXCEPT ![from] = removeChild(c[from], id)]
  OBVIOUS
<1>4. left \in Families
  <2>1. from \in Parents => removeChild(c[from], id) \in Seq(Ids)
    BY ChildRemovedIsSeq DEF Families
  <2> QED
    BY <1>3, <2>1, FamilyChanged
<1>5. PICK nodes : nodes = [d.nodes EXCEPT ![id].parent = parent, ![id].key = key]
  OBVIOUS
<1>6. areNodes(nodes)
  <2>1. PICK n, ns : n = d.nodes[id] /\ ns = d.nodes
    OBVIOUS
  <2>2. isNode(n) /\ areNodes(ns) /\ id \in DOMAIN ns
    BY <2>1 DEF isDraft, areNodes
  <2>3. PICK v : v = [n EXCEPT !.parent = parent]
    OBVIOUS
  <2>4. PICK w : w = [ns EXCEPT ![id] = v]
    OBVIOUS
  <2>5. w[id] = v /\ DOMAIN w = DOMAIN ns
    BY <2>2, <2>4
  <2>6. nodes = [w EXCEPT ![id] = [w[id] EXCEPT !.key = key]]
    BY <1>5, <2>1, <2>3, <2>4, Zenon
  <2>7. PICK u : u = [n EXCEPT !.parent = parent, !.key = key]
    OBVIOUS
  <2>8. isNode(u)
    BY <2>2, <2>7, NodePlaced
  <2>9. u = [v EXCEPT !.key = key]
    BY <2>3, <2>7, Zenon
  <2>10. nodes = [w EXCEPT ![id] = u]
    BY <2>5, <2>6, <2>9, Zenon
  <2>11. nodes = [ns EXCEPT ![id] = u]
    BY <2>4, <2>10
  <2> QED
    BY <2>2, <2>8, <2>11, NodeReplaced
<1>7. PICK e : e = [left EXCEPT ![parent] = sortChildren(nodes, Append(left[parent], id))]
  OBVIOUS
<1>8. e \in Families
  <2>1. PICK s \in Seq(Ids) : s = left[parent]
    BY <1>4 DEF Families
  <2>2. id \in Ids
    BY DEF isDraft, areNodes
  <2>3. PICK t \in Seq(Ids) : t = Append(s, id)
    BY <2>2, AppendProperties
  <2>4. sortChildren(nodes, t) \in Seq(Ids)
    BY <2>3, SortIsSeq
  <2> QED
    BY <1>4, <1>7, <2>1, <2>3, <2>4, FamilyChanged
<1>9. PICK r : r = moveNode(d, id, parent, key)
  OBVIOUS
<1>10. r = [d EXCEPT !.nodes = nodes, !.children = e]
  BY <1>1, <1>2, <1>3, <1>5, <1>7, <1>9, Zenon DEF moveNode
<1>11. PICK n0, c0, g : d = [nodes |-> n0, children |-> c0, changed |-> g]
  BY DEF isDraft
<1>12. PICK w : w = [d EXCEPT !.nodes = nodes]
  OBVIOUS
<1>13. w = [nodes |-> nodes, children |-> c0, changed |-> g]
  BY <1>11, <1>12
<1>14. r = [w EXCEPT !.children = e]
  BY <1>10, <1>12, Zenon
<1>15. r = [nodes |-> nodes, children |-> e, changed |-> g]
  BY <1>13, <1>14
<1>16. isDraft(r)
  BY <1>6, <1>8, <1>15 DEF isDraft
<1> QED
  BY <1>9, <1>16

LEMMA PositionsAreDraft ==
  ASSUME NEW d, isDraft(d), NEW parent, NEW keys
  PROVE  isDraft(setPositions(d, parent, keys))
<1>1. PICK ns, D : ns = d.nodes /\ D = DOMAIN d.nodes
  OBVIOUS
<1>2. D \subseteq Ids /\ \A i \in D : isNode(ns[i])
  BY <1>1 DEF isDraft, areNodes
<1>3. PICK nodes : nodes = [i \in D |-> IF i \in DOMAIN keys THEN [ns[i] EXCEPT !.key = keys[i]] ELSE ns[i]]
  OBVIOUS
<1>4. areNodes(nodes)
  <2>1. ASSUME NEW i \in D PROVE isNode(nodes[i])
    <3>1. isNode([ns[i] EXCEPT !.key = keys[i]])
      BY <1>2, NodePlaced
    <3>2. nodes[i] = IF i \in DOMAIN keys THEN [ns[i] EXCEPT !.key = keys[i]] ELSE ns[i]
      BY <1>3
    <3>3. CASE i \in DOMAIN keys
      BY <3>1, <3>2, <3>3, Zenon
    <3>4. CASE i \notin DOMAIN keys
      BY <1>2, <3>2, <3>4, Zenon
    <3> QED
      BY <3>3, <3>4
  <2>2. nodes = [i \in D |-> nodes[i]]
    BY <1>3
  <2> QED
    BY <1>2, <2>1, <2>2, NodesMade
<1>5. PICK new : new = sortChildren(nodes, d.children[parent])
  OBVIOUS
<1>6. parent \in Parents => new \in Seq(Ids)
  BY <1>5, SortIsSeq DEF isDraft, Families
<1>7. setPositions(d, parent, keys) = [d EXCEPT !.nodes = nodes, !.children[parent] = new]
  <2>1. PICK w : w = [d EXCEPT !.nodes = nodes]
    OBVIOUS
  <2>2. w.children = d.children
    BY <2>1 DEF isDraft
  <2>3. setPositions(d, parent, keys) = [w EXCEPT !.children[parent] = sortChildren(nodes, w.children[parent])]
    BY <1>1, <1>3, <2>1, Zenon DEF setPositions
  <2> QED
    BY <1>5, <2>1, <2>2, <2>3, Zenon
<1>8. isDraft([d EXCEPT !.nodes = nodes, !.children[parent] = new])
  BY <1>4, <1>6, DraftChanged
<1> QED
  BY <1>7, <1>8, Zenon

LEMMA ReplaceIsDraft ==
  ASSUME NEW d, isDraft(d), NEW id, NEW node, isNode(node)
  PROVE  /\ isDraft(replaceNode(d, id, node))
         /\ replaceNode(d, id, node).nodes = [d.nodes EXCEPT ![id] = node]
         /\ replaceNode(d, id, node).changed = d.changed \cup {id}
<1>1. PICK n, c, g : d = [nodes |-> n, children |-> c, changed |-> g]
  BY DEF isDraft
<1>2. d.nodes = n /\ d.children = c /\ d.changed = g /\ areNodes(n) /\ c \in Families
  BY <1>1 DEF isDraft
<1>3. PICK m : m = [n EXCEPT ![id] = node]
  OBVIOUS
<1>4. areNodes(m)
  BY <1>2, <1>3, NodeReplaced
<1>5. PICK w : w = [d EXCEPT !.nodes = m]
  OBVIOUS
<1>6. w = [nodes |-> m, children |-> c, changed |-> g]
  BY <1>1, <1>5
<1>7. [d EXCEPT !.nodes[id] = node] = w
  <2>1. [d EXCEPT !.nodes[id] = node] = [d EXCEPT !.nodes = [d.nodes EXCEPT ![id] = node]]
    OBVIOUS
  <2> QED
    BY <1>2, <1>3, <1>5, <2>1, Zenon
<1>8. PICK r : r = replaceNode(d, id, node)
  OBVIOUS
<1>9. w.changed = g
  BY <1>6
<1>10. r = [w EXCEPT !.changed = w.changed \cup {id}]
  BY <1>7, <1>8, Zenon DEF replaceNode
<1>11. PICK h : h = g \cup {id}
  OBVIOUS
<1>12. r = [w EXCEPT !.changed = h]
  BY <1>9, <1>10, <1>11, Zenon
<1>13. r = [nodes |-> m, children |-> c, changed |-> h]
  BY <1>6, <1>12
<1>14. isDraft(r) /\ r.nodes = m /\ r.changed = h
  BY <1>2, <1>4, <1>13 DEF isDraft
<1> QED
  BY <1>2, <1>3, <1>8, <1>11, <1>14

-----------------------------------------------------------------------------
(* Operations and what applying them leads to.                             *)

OperationKinds ==
    {"insertNode", "deleteSubtree", "moveSubtree", "updateField", "unsetField",
     "setMaterialRef", "reorder", "rebalancePositions"}

isOperation(o) ==
    /\ o.op \in OperationKinds
    /\ o.op = "insertNode" => o.id \in Ids /\ isNode(o.node)

areOperations(s) == \E S : s \in Seq(S) /\ \A o \in S : isOperation(o)

isStep(r) == r.ok => isDraft(r.draft) /\ areOperations(r.inverse)

\* The nodes of a draft on which only fields were changed.
onlyFields(nodes, d) ==
    /\ DOMAIN d.nodes = DOMAIN nodes /\ d.changed \subseteq DOMAIN nodes
    /\ \A i \in DOMAIN nodes :
         /\ d.nodes[i].parent = nodes[i].parent /\ d.nodes[i].key = nodes[i].key
         /\ d.nodes[i].code = nodes[i].code
         /\ i \notin d.changed => d.nodes[i] = nodes[i]

LEMMA NoOperations == areOperations(<<>>)
<1>1. PICK S : S = {}
  OBVIOUS
<1>2. <<>> \in Seq(S) /\ \A o \in S : isOperation(o)
  BY <1>1, EmptySeq
<1> QED
  BY <1>2 DEF areOperations

LEMMA OneOperation == ASSUME NEW o, isOperation(o) PROVE areOperations(<<o>>)
<1>1. PICK S : S = {o}
  OBVIOUS
<1>2. <<o>> \in Seq(S) /\ \A x \in S : isOperation(x)
  BY <1>1
<1> QED
  BY <1>2 DEF areOperations

LEMMA OperationsJoined ==
  ASSUME NEW a, areOperations(a), NEW b, areOperations(b)
  PROVE  areOperations(a \o b)
<1>1. PICK S : a \in Seq(S) /\ \A o \in S : isOperation(o)
  BY DEF areOperations
<1>2. PICK T : b \in Seq(T) /\ \A o \in T : isOperation(o)
  BY DEF areOperations
<1>3. PICK U : U = S \cup T
  OBVIOUS
<1>4. S \subseteq U /\ T \subseteq U
  BY <1>3
<1>5. a \in Seq(U) /\ b \in Seq(U)
  BY <1>1, <1>2, <1>4, SeqMonotonic
<1>6. a \o b \in Seq(U)
  BY <1>5, ConcatProperties
<1>7. \A o \in U : isOperation(o)
  BY <1>1, <1>2, <1>3
<1> QED
  BY <1>6, <1>7 DEF areOperations

LEMMA FailedIsStep == isStep(Failed) /\ ~Failed.ok
<1>1. Failed.ok = FALSE
  BY DEF Failed
<1> QED
  BY <1>1 DEF isStep

LEMMA AppliedIs ==
  ASSUME NEW d, NEW i
  PROVE  applied(d, i).ok /\ applied(d, i).draft = d /\ applied(d, i).inverse = i
BY DEF applied

LEMMA AppliedIsStep ==
  ASSUME NEW d, isDraft(d), NEW i, areOperations(i)
  PROVE  isStep(applied(d, i))
<1>1. PICK r : r = applied(d, i)
  OBVIOUS
<1>2. r.draft = d /\ r.inverse = i
  BY <1>1, AppliedIs
<1>3. isDraft(r.draft) /\ areOperations(r.inverse)
  BY <1>2
<1> QED
  BY <1>1, <1>3 DEF isStep

LEMMA InsertIsStep ==
  ASSUME NEW d, isDraft(d), NEW o, isOperation(o), o.op = "insertNode"
  PROVE  isStep(applyInsertNode(d, o))
<1>1. CASE o.id \in DOMAIN d.nodes \/ ~requireParent(d, o.node.parent)
  BY <1>1, FailedIsStep DEF applyInsertNode
<1>2. CASE ~(o.id \in DOMAIN d.nodes \/ ~requireParent(d, o.node.parent))
  <2>1. o.node.parent \in Parents
    BY <1>2 DEF requireParent, isDraft, areNodes, Parents
  <2>2. o.id \in Ids /\ isNode(o.node)
    BY DEF isOperation
  <2>3. PICK e : e = insertNode(d, o.id, o.node)
    OBVIOUS
  <2>4. isDraft(e)
    BY <2>1, <2>2, <2>3, InsertIsDraft
  <2>5. PICK x : x = [op |-> "deleteSubtree", id |-> o.id]
    OBVIOUS
  <2>6. isOperation(x)
    BY <2>5 DEF isOperation, OperationKinds
  <2>7. areOperations(<<x>>)
    BY <2>6, OneOperation
  <2>8. isStep(applied(e, <<x>>))
    BY <2>4, <2>7, AppliedIsStep
  <2>9. applyInsertNode(d, o) = applied(e, <<x>>)
    BY <1>2, <2>3, <2>5, Zenon DEF applyInsertNode
  <2> QED
    BY <2>8, <2>9, Zenon
<1> QED
  BY <1>1, <1>2

\* What a deletion takes away can be inserted again.
LEMMA DeleteIsStep ==
  ASSUME NEW d, isDraft(d), NEW o, isOperation(o), o.op = "deleteSubtree"
  PROVE  isStep(applyDeleteSubtree(d, o))
<1>1. CASE o.id \notin DOMAIN d.nodes
  BY <1>1, FailedIsStep DEF applyDeleteSubtree
<1>2. CASE o.id \in DOMAIN d.nodes
  <2>1. PICK e : e = deleteSubtree(d, o.id)
    OBVIOUS
  <2>2. isDraft(e)
    BY <2>1, DeleteIsDraft
  <2>3. o.id \in Ids
    BY <1>2 DEF isDraft, areNodes
  <2>4. PICK taken \in Seq(DOMAIN d.nodes) : taken = subtree(d, o.id)
    BY <2>3, SubtreeIsSeq
  <2>5. PICK N \in Nat : N = Len(taken) /\ DOMAIN taken = 1 .. N
    BY <2>4, LenProperties
  <2>6. PICK back : back = [k \in DOMAIN taken |->
                        [op |-> "insertNode", id |-> taken[k], node |-> d.nodes[taken[k]]]]
    OBVIOUS
  <2>7. ASSUME NEW k \in 1 .. N PROVE isOperation(back[k])
    <3>1. PICK i \in DOMAIN d.nodes : i = taken[k]
      BY <2>4, <2>5, ElementOfSeq
    <3>2. i \in Ids /\ isNode(d.nodes[i])
      BY <3>1 DEF isDraft, areNodes
    <3>3. PICK x : x = back[k]
      OBVIOUS
    <3>4. x = [op |-> "insertNode", id |-> i, node |-> d.nodes[i]]
      BY <2>5, <2>6, <3>1, <3>3
    <3>5. x.op = "insertNode" /\ x.id = i /\ x.node = d.nodes[i]
      BY <3>4
    <3> QED
      BY <3>2, <3>3, <3>5 DEF isOperation, OperationKinds
  <2>8. areOperations(back)
    <3>1. PICK S : S = {back[k] : k \in 1 .. N}
      OBVIOUS
    <3>2. back \in [1 .. N -> S]
      BY <2>5, <2>6, <3>1
    <3>3. back \in Seq(S)
      BY <3>2, SeqDef
    <3> QED
      BY <2>7, <3>1, <3>3 DEF areOperations
  <2>9. isStep(applied(e, back))
    BY <2>2, <2>8, AppliedIsStep
  <2>10. applyDeleteSubtree(d, o) = applied(e, back)
    BY <1>2, <2>1, <2>4, <2>6, Zenon DEF applyDeleteSubtree
  <2> QED
    BY <2>9, <2>10, Zenon
<1> QED
  BY <1>1, <1>2

\* A step with one operation that undoes it.
LEMMA OneIsStep ==
  ASSUME NEW e, isDraft(e), NEW x, x.op \in OperationKinds \ {"insertNode"}
  PROVE  isStep(applied(e, <<x>>))
<1>1. isOperation(x)
  BY DEF isOperation
<1> QED
  BY <1>1, OneOperation, AppliedIsStep

LEMMA MoveIsStep ==
  ASSUME NEW d, isDraft(d), NEW o
  PROVE  isStep(applyMoveSubtree(d, o))
<1>1. CASE o.id \notin DOMAIN d.nodes \/ ~requireParent(d, o.parent)
  BY <1>1, FailedIsStep DEF applyMoveSubtree
<1>2. CASE ~(o.id \notin DOMAIN d.nodes \/ ~requireParent(d, o.parent))
  <2>1. o.id \in DOMAIN d.nodes /\ o.parent \in Parents
    BY <1>2 DEF requireParent, isDraft, areNodes, Parents
  <2>2. PICK e : e = moveNode(d, o.id, o.parent, o.key)
    OBVIOUS
  <2>3. isDraft(e)
    BY <2>1, <2>2, MoveIsDraft
  <2>4. PICK x : x = [op |-> "moveSubtree", id |-> o.id, parent |-> d.nodes[o.id].parent,
                      key |-> d.nodes[o.id].key]
    OBVIOUS
  <2>5. x.op \in OperationKinds \ {"insertNode"}
    BY <2>4 DEF OperationKinds
  <2>6. applyMoveSubtree(d, o) = applied(e, <<x>>)
    BY <1>2, <2>2, <2>4, Zenon DEF applyMoveSubtree
  <2>7. isStep(applied(e, <<x>>))
    BY <2>3, <2>5, OneIsStep
  <2> QED
    BY <2>6, <2>7, Zenon
<1> QED
  BY <1>1, <1>2

\* A node with other fields, or another code.
LEMMA NodeFilled ==
  ASSUME NEW n, isNode(n), NEW f
  PROVE  /\ isNode([n EXCEPT !.fields = f]) /\ isNode([n EXCEPT !.code = f])
         /\ [n EXCEPT !.fields = f].parent = n.parent /\ [n EXCEPT !.fields = f].key = n.key
         /\ [n EXCEPT !.fields = f].code = n.code /\ [n EXCEPT !.fields = f].fields = f
<1>1. PICK w, v : w = [n EXCEPT !.fields = f] /\ v = [n EXCEPT !.code = f]
  OBVIOUS
<1>2. w = [parent |-> n.parent, key |-> n.key, fields |-> f, code |-> n.code]
  BY <1>1 DEF isNode
<1>3. v = [parent |-> n.parent, key |-> n.key, fields |-> n.fields, code |-> f]
  BY <1>1 DEF isNode
<1>4. isNode(w) /\ isNode(v) /\ w.parent = n.parent /\ w.key = n.key /\ w.code = n.code /\ w.fields = f
  BY <1>2, <1>3 DEF isNode
<1> QED
  BY <1>1, <1>4

LEMMA MaterialIsStep ==
  ASSUME NEW d, isDraft(d), NEW o
  PROVE  isStep(applySetMaterialRef(d, o))
<1>1. CASE o.id \notin DOMAIN d.nodes
  BY <1>1, FailedIsStep DEF applySetMaterialRef
<1>2. CASE o.id \in DOMAIN d.nodes
  <2>1. isNode(d.nodes[o.id])
    BY <1>2 DEF isDraft, areNodes
  <2>2. PICK n : n = [d.nodes[o.id] EXCEPT !.code = o.code]
    OBVIOUS
  <2>3. isNode(n)
    BY <2>1, <2>2, NodeFilled
  <2>4. PICK e : e = replaceNode(d, o.id, n)
    OBVIOUS
  <2>5. isDraft(e)
    BY <2>3, <2>4, ReplaceIsDraft
  <2>6. PICK x : x = [op |-> "setMaterialRef", id |-> o.id, code |-> d.nodes[o.id].code]
    OBVIOUS
  <2>7. x.op \in OperationKinds \ {"insertNode"}
    BY <2>6 DEF OperationKinds
  <2>8. applySetMaterialRef(d, o) = applied(e, <<x>>)
    BY <1>2, <2>2, <2>4, <2>6, Zenon DEF applySetMaterialRef
  <2>9. isStep(applied(e, <<x>>))
    BY <2>5, <2>7, OneIsStep
  <2> QED
    BY <2>8, <2>9, Zenon
<1> QED
  BY <1>1, <1>2

LEMMA ReorderIsStep ==
  ASSUME NEW d, isDraft(d), NEW o
  PROVE  isStep(applyReorder(d, o))
<1>1. CASE o.id \notin DOMAIN d.nodes
  BY <1>1, FailedIsStep DEF applyReorder
<1>2. CASE o.id \in DOMAIN d.nodes
  <2>1. PICK e : e = setPositions(d, d.nodes[o.id].parent, [i \in {o.id} |-> o.key])
    OBVIOUS
  <2>2. isDraft(e)
    BY <2>1, PositionsAreDraft
  <2>3. PICK x : x = [op |-> "reorder", id |-> o.id, key |-> d.nodes[o.id].key]
    OBVIOUS
  <2>4. x.op \in OperationKinds \ {"insertNode"}
    BY <2>3 DEF OperationKinds
  <2>5. applyReorder(d, o) = applied(e, <<x>>)
    BY <1>2, <2>1, <2>3, Zenon DEF applyReorder
  <2>6. isStep(applied(e, <<x>>))
    BY <2>2, <2>4, OneIsStep
  <2> QED
    BY <2>5, <2>6, Zenon
<1> QED
  BY <1>1, <1>2

LEMMA RebalanceIsStep ==
  ASSUME NEW d, isDraft(d), NEW o
  PROVE  isStep(applyRebalance(d, o))
<1>1. CASE ~validateRebalance(d, o)
  BY <1>1, FailedIsStep DEF applyRebalance
<1>2. CASE validateRebalance(d, o)
  <2>1. PICK e : e = setPositions(d, o.parent, o.keys)
    OBVIOUS
  <2>2. isDraft(e)
    BY <2>1, PositionsAreDraft
  <2>3. PICK x : x = [op |-> "rebalancePositions", parent |-> o.parent,
                      keys |-> [i \in ToSet(d.children[o.parent]) |-> d.nodes[i].key]]
    OBVIOUS
  <2>4. x.op \in OperationKinds \ {"insertNode"}
    BY <2>3 DEF OperationKinds
  <2>5. applyRebalance(d, o) = applied(e, <<x>>)
    BY <1>2, <2>1, <2>3, Zenon DEF applyRebalance
  <2>6. isStep(applied(e, <<x>>))
    BY <2>2, <2>4, OneIsStep
  <2> QED
    BY <2>5, <2>6, Zenon
<1> QED
  BY <1>1, <1>2

\* A field operation changes the fields of one node, and notes which.
LEMMA FieldIsStep ==
  ASSUME NEW d, isDraft(d), NEW o, o.op \in {"updateField", "unsetField"}, NEW nodes,
         NEW r, r = applyFieldOperation(d, o)
  PROVE  isStep(r) /\ (onlyFields(nodes, d) /\ r.ok => onlyFields(nodes, r.draft))
<1>1. CASE r = Failed
  BY <1>1, FailedIsStep
<1>2. CASE r # Failed
  <2>1. o.id \in DOMAIN d.nodes
    BY <1>2 DEF applyFieldOperation
  <2>2. PICK n : n = d.nodes[o.id]
    OBVIOUS
  <2>3. isNode(n)
    BY <2>1, <2>2 DEF isDraft, areNodes
  <2>4. PICK after, x : /\ r = applied(replaceNode(d, o.id, [n EXCEPT !.fields = after]), <<x>>)
                        /\ x.op \in OperationKinds \ {"insertNode"}
    <3>1. PICK present : present = getBomFieldPath(n.fields, o.path)
      OBVIOUS
    <3>2. PICK after : after = IF o.op = "updateField" THEN o.value ELSE unsetBomFieldPath(n.fields, o.path)
      OBVIOUS
    <3>3. PICK x : x = IF present # None
                   THEN [op |-> "updateField", id |-> o.id, path |-> o.path,
                         value |-> present, expected |-> None]
                   ELSE [op |-> "unsetField", id |-> o.id, expected |-> None,
                         path |-> IF o.op = "updateField"
                                  THEN missingPrefix(n.fields, o.path) ELSE o.path]
      OBVIOUS
    <3>4. x.op \in {"updateField", "unsetField"}
      BY <3>3
    <3>5. r = applied(replaceNode(d, o.id, [n EXCEPT !.fields = after]), <<x>>)
      BY <1>2, <2>2, <3>1, <3>2, <3>3, Zenon DEF applyFieldOperation
    <3>6. x.op \in OperationKinds \ {"insertNode"}
      BY <3>4 DEF OperationKinds
    <3> QED
      BY <3>5, <3>6, Zenon
  <2>5. PICK m : m = [n EXCEPT !.fields = after]
    OBVIOUS
  <2>6. isNode(m) /\ m.parent = n.parent /\ m.key = n.key /\ m.code = n.code
    BY <2>3, <2>5, NodeFilled
  <2>7. PICK e : e = replaceNode(d, o.id, m)
    OBVIOUS
  <2>8. isDraft(e) /\ e.nodes = [d.nodes EXCEPT ![o.id] = m] /\ e.changed = d.changed \cup {o.id}
    BY <2>6, <2>7, ReplaceIsDraft
  <2>9. r = applied(e, <<x>>)
    BY <2>4, <2>5, <2>7, Zenon
  <2>10. isStep(r)
    BY <2>4, <2>8, <2>9, OneIsStep
  <2>11. r.draft = e
    BY <2>9, AppliedIs
  <2>12. ASSUME onlyFields(nodes, d) PROVE onlyFields(nodes, e)
    <3>1. DOMAIN e.nodes = DOMAIN nodes /\ e.changed \subseteq DOMAIN nodes
      BY <2>1, <2>8, <2>12 DEF onlyFields
    <3>2. ASSUME NEW i \in DOMAIN nodes
          PROVE  /\ e.nodes[i].parent = nodes[i].parent /\ e.nodes[i].key = nodes[i].key
                 /\ e.nodes[i].code = nodes[i].code
                 /\ i \notin e.changed => e.nodes[i] = nodes[i]
      <4>1. /\ d.nodes[i].parent = nodes[i].parent /\ d.nodes[i].key = nodes[i].key
            /\ d.nodes[i].code = nodes[i].code
            /\ i \notin d.changed => d.nodes[i] = nodes[i]
        BY <2>12 DEF onlyFields
      <4>2. CASE i = o.id
        <5>1. e.nodes[i] = m /\ i \in e.changed
          BY <2>1, <2>8, <4>2
        <5> QED
          BY <2>2, <2>6, <4>1, <4>2, <5>1
      <4>3. CASE i # o.id
        <5>1. e.nodes[i] = d.nodes[i] /\ (i \notin e.changed => i \notin d.changed)
          BY <2>8, <4>3
        <5> QED
          BY <4>1, <5>1
      <4> QED
        BY <4>2, <4>3
    <3> QED
      BY <3>1, <3>2 DEF onlyFields
  <2> QED
    BY <2>10, <2>11, <2>12
<1> QED
  BY <1>1, <1>2

\* Each operation ends in a draft, with operations that undo it.
LEMMA OperationIsStep ==
  ASSUME NEW d, isDraft(d), NEW o, isOperation(o), NEW nodes
  PROVE  /\ isStep(applyOperation(d, o))
         /\ onlyFields(nodes, d) /\ isFieldOperation(o) /\ applyOperation(d, o).ok
              => onlyFields(nodes, applyOperation(d, o).draft)
<1>1. PICK r : r = applyOperation(d, o)
  OBVIOUS
<1>2. CASE r = Failed
  BY <1>1, <1>2, FailedIsStep
<1>3. CASE r # Failed

  <2>1. r = CASE o.op = "insertNode"         -> applyInsertNode(d, o)
           [] o.op = "deleteSubtree"      -> applyDeleteSubtree(d, o)
           [] o.op = "moveSubtree"        -> applyMoveSubtree(d, o)
           [] o.op \in {"updateField", "unsetField"} -> applyFieldOperation(d, o)
           [] o.op = "setMaterialRef"     -> applySetMaterialRef(d, o)
           [] o.op = "reorder"            -> applyReorder(d, o)
           [] o.op = "rebalancePositions" -> applyRebalance(d, o)
    BY <1>1, <1>3, Zenon DEF applyOperation
  <2>2. CASE o.op = "insertNode"
    <3>1. r = applyInsertNode(d, o) /\ ~isFieldOperation(o)
      BY <2>1, <2>2 DEF isFieldOperation
    <3> QED
      BY <1>1, <2>2, <3>1, InsertIsStep
  <2>3. CASE o.op = "deleteSubtree"
    <3>1. r = applyDeleteSubtree(d, o) /\ ~isFieldOperation(o)
      BY <2>1, <2>3 DEF isFieldOperation
    <3> QED
      BY <1>1, <2>3, <3>1, DeleteIsStep
  <2>4. CASE o.op = "moveSubtree"
    <3>1. r = applyMoveSubtree(d, o) /\ ~isFieldOperation(o)
      BY <2>1, <2>4 DEF isFieldOperation
    <3> QED
      BY <1>1, <3>1, MoveIsStep
  <2>5. CASE o.op \in {"updateField", "unsetField"}
    <3>1. r = applyFieldOperation(d, o)
      BY <2>1, <2>5
    <3> QED
      BY <1>1, <2>5, <3>1, FieldIsStep
  <2>6. CASE o.op = "setMaterialRef"
    <3>1. r = applySetMaterialRef(d, o) /\ ~isFieldOperation(o)
      BY <2>1, <2>6 DEF isFieldOperation
    <3> QED
      BY <1>1, <3>1, MaterialIsStep
  <2>7. CASE o.op = "reorder"
    <3>1. r = applyReorder(d, o) /\ ~isFieldOperation(o)
      BY <2>1, <2>7 DEF isFieldOperation
    <3> QED
      BY <1>1, <3>1, ReorderIsStep
  <2>8. CASE o.op = "rebalancePositions"
    <3>1. r = applyRebalance(d, o) /\ ~isFieldOperation(o)
      BY <2>1, <2>8 DEF isFieldOperation
    <3> QED
      BY <1>1, <3>1, RebalanceIsStep
  <2> QED
    BY <2>2, <2>3, <2>4, <2>5, <2>6, <2>7, <2>8 DEF isOperation, OperationKinds
<1> QED
  BY <1>2, <1>3

-----------------------------------------------------------------------------
(* Operations one after the other.                                         *)

\* The operation after those that are done.
LEMMA NextIsStep ==
  ASSUME NEW done, isStep(done), NEW o, isOperation(o), NEW nodes, NEW r, r = applyNext(done, o)
  PROVE  /\ isStep(r) /\ (r.ok => done.ok)
         /\ isFieldOperation(o) /\ onlyFields(nodes, done.draft) /\ r.ok => onlyFields(nodes, r.draft)
<1>1. CASE r = Failed
  BY <1>1, FailedIsStep
<1>2. CASE r # Failed
  <2>1. PICK next : next = applyOperation(done.draft, o)
    OBVIOUS
  <2>2. r = IF done.ok THEN IF next.ok THEN applied(next.draft, next.inverse \o done.inverse)
                            ELSE Failed
            ELSE Failed
    BY <2>1, Zenon DEF applyNext, andThen
  <2>3. done.ok /\ next.ok /\ r = applied(next.draft, next.inverse \o done.inverse)
    BY <1>2, <2>2, Zenon
  <2>4. isDraft(done.draft) /\ areOperations(done.inverse)
    BY <2>3 DEF isStep
  <2>5. isStep(next)
    BY <2>1, <2>4, OperationIsStep
  <2>6. isDraft(next.draft) /\ areOperations(next.inverse)
    BY <2>3, <2>5 DEF isStep
  <2>7. areOperations(next.inverse \o done.inverse)
    BY <2>4, <2>6, OperationsJoined
  <2>8. isStep(r)
    BY <2>3, <2>6, <2>7, AppliedIsStep
  <2>9. r.draft = next.draft
    BY <2>3, AppliedIs
  <2>10. isFieldOperation(o) /\ onlyFields(nodes, done.draft) => onlyFields(nodes, next.draft)
    BY <2>1, <2>3, <2>4, OperationIsStep
  <2> QED
    BY <2>3, <2>8, <2>9, <2>10
<1> QED
  BY <1>1, <1>2

\* Any number of operations end in a draft, with operations that undo them; and
\* if they are field operations, only fields were changed.
LEMMA OperationsAreSteps ==
  ASSUME NEW d, isDraft(d), NEW ops, areOperations(ops), NEW nodes, NEW r, r = applyOperations(d, ops)
  PROVE  /\ isStep(r)
         /\ onlyFields(nodes, d) /\ (\A k \in DOMAIN ops : isFieldOperation(ops[k])) /\ r.ok
              => onlyFields(nodes, r.draft)
<1> DEFINE defined(f) == f = [n \in 0 .. Len(ops) |->
                IF n = 0 THEN applied(d, <<>>) ELSE applyNext(f[n - 1], ops[n])]
<1>1. PICK f : f = CHOOSE h : defined(h)
  OBVIOUS
<1>2. r = f[Len(ops)]
  BY <1>1 DEF applyOperations
<1>3. PICK S : ops \in Seq(S) /\ \A o \in S : isOperation(o)
  BY DEF areOperations
<1>4. PICK N \in Nat : N = Len(ops) /\ DOMAIN ops = 1 .. N
  BY <1>3, LenProperties
<1>5. \A n \in 1 .. N : isOperation(ops[n])
  BY <1>3, <1>4, ElementOfSeq
<1>6. PICK first : first = applied(d, <<>>)
  OBVIOUS
<1> DEFINE upTo(k, g) == g = [n \in 0 .. k |-> IF n = 0 THEN first ELSE applyNext(g[n - 1], ops[n])]
           T == {k \in Nat : \E g : upTo(k, g)}
<1>7. 0 \in T
  <2>1. PICK g : g = [n \in 0 .. 0 |-> first]
    OBVIOUS
  <2>2. \A n \in 0 .. 0 : n = 0
    OBVIOUS
  <2>3. g = [n \in 0 .. 0 |-> IF n = 0 THEN first ELSE applyNext(g[n - 1], ops[n])]
    BY <2>1, <2>2
  <2> QED
    BY <2>3
<1>8. ASSUME NEW k \in Nat, k \in T PROVE k + 1 \in T
  <2>1. PICK g : upTo(k, g)
    BY <1>8
  <2>2. PICK last : last = applyNext(g[k], ops[k + 1])
    OBVIOUS
  <2>3. PICK h : h = [n \in 0 .. k + 1 |-> IF n = k + 1 THEN last ELSE g[n]]
    OBVIOUS
  <2>4. ASSUME NEW n \in 0 .. k + 1 PROVE h[n] = IF n = 0 THEN first ELSE applyNext(h[n - 1], ops[n])
    <3>1. CASE n = k + 1
      <4>1. h[n] = last /\ n # 0 /\ n - 1 = k
        BY <2>3, <3>1
      <4>2. h[n - 1] = g[k]
        BY <2>3, <4>1
      <4> QED
        BY <2>2, <3>1, <4>1, <4>2
    <3>2. CASE n # k + 1
      <4>1. n \in 0 .. k /\ h[n] = g[n]
        BY <2>3, <3>2
      <4>2. g[n] = IF n = 0 THEN first ELSE applyNext(g[n - 1], ops[n])
        BY <2>1, <4>1
      <4>3. n # 0 => h[n - 1] = g[n - 1]
        BY <2>3, <4>1
      <4> QED
        BY <4>1, <4>2, <4>3
    <3> QED
      BY <3>1, <3>2
  <2>5. h = [n \in 0 .. k + 1 |-> IF n = 0 THEN first ELSE applyNext(h[n - 1], ops[n])]
    BY <2>3, <2>4
  <2> QED
    BY <2>5
<1>9. PICK g : upTo(N, g)
  <2>1. Nat \subseteq T
    <3> HIDE DEF T
    <3> QED
      BY <1>7, <1>8, CountingUp
  <2> QED
    BY <2>1
<1>10. defined(g)
  BY <1>4, <1>6, <1>9, Zenon
<1>11. defined(f)
  <2> HIDE DEF defined
  <2> QED
    BY <1>1, <1>10
<1>12. \A n \in 0 .. N : f[n] = IF n = 0 THEN first ELSE applyNext(f[n - 1], ops[n])
  BY <1>4, <1>6, <1>11
<1> DEFINE fieldsOnly == onlyFields(nodes, d) /\ \A k \in DOMAIN ops : isFieldOperation(ops[k])
           good(x) == isStep(x) /\ (fieldsOnly /\ x.ok => onlyFields(nodes, x.draft))
<1>13. good(first)
  <2>1. isStep(first) /\ first.draft = d
    BY <1>6, NoOperations, AppliedIsStep, AppliedIs
  <2> QED
    BY <2>1
<1>14. PICK G : G = {x \in {f[n] : n \in 0 .. N} : good(x)}
  OBVIOUS
<1>15. f[0] \in G
  <2>1. 0 \in 0 .. N
    BY <1>4
  <2>2. f[0] = first
    BY <1>12, <2>1
  <2> HIDE DEF good
  <2> QED
    BY <1>13, <1>14, <2>1, <2>2
<1>16. ASSUME NEW n \in 0 + 1 .. N, f[n - 1] \in G PROVE f[n] \in G
  <2>1. n \in 1 .. N /\ n \in 0 .. N /\ n # 0
    BY <1>4
  <2>2. PICK done, x : done = f[n - 1] /\ x = f[n]
    OBVIOUS
  <2>3. x = applyNext(done, ops[n])
    BY <1>12, <2>1, <2>2
  <2>4. good(done)
    <3> HIDE DEF good
    <3> QED
      BY <1>14, <1>16, <2>2
  <2>5. isOperation(ops[n])
    BY <1>5, <2>1
  <2>6. isStep(x) /\ (x.ok => done.ok)
        /\ (isFieldOperation(ops[n]) /\ onlyFields(nodes, done.draft) /\ x.ok => onlyFields(nodes, x.draft))
    BY <2>3, <2>4, <2>5, NextIsStep
  <2>7. fieldsOnly => isFieldOperation(ops[n])
    BY <1>4, <2>1
  <2>8. good(x)
    <3> HIDE DEF fieldsOnly
    <3> QED
      BY <2>4, <2>6, <2>7
  <2> HIDE DEF good
  <2> QED
    BY <1>14, <2>1, <2>2, <2>8
<1>17. f[N] \in G
  <2>1. \A n \in 0 .. N : f[n] \in G
    <3> HIDE DEF defined, good
    <3> QED
      BY <1>4, <1>15, <1>16, ValueByValue
  <2> QED
    BY <1>4, <2>1
<1>18. good(r)
  <2> HIDE DEF good
  <2> QED
    BY <1>2, <1>4, <1>14, <1>17
<1> QED
  BY <1>18

-----------------------------------------------------------------------------
(* Commands.                                                               *)

isPlace(p) == p.ok => areOperations(p.first)

LEMMA RenumberedIsPlace ==
  ASSUME NEW all, NEW siblings, NEW index, NEW parent
  PROVE  isPlace(renumbered(all, siblings, index, parent))
<1>1. PICK r : r = renumbered(all, siblings, index, parent)
  OBVIOUS
<1>2. CASE r = Failed
  BY <1>1, <1>2, FailedIsStep DEF isPlace
<1>3. CASE r # Failed
  <2>1. PICK keys, key : r = [ok |-> TRUE, key |-> key,
                  first |-> <<[op |-> "rebalancePositions", parent |-> parent, keys |-> keys]>>]
    <3>1. PICK fresh : fresh = rebalancePositionKeys(Len(all))
      OBVIOUS
    <3>2. PICK keys : keys = [i \in ToSet(all) |-> fresh[CHOOSE k \in DOMAIN all : all[k] = i]]
      OBVIOUS
    <3>3. PICK key : key = keyAt(siblings, index, keys)
      OBVIOUS
    <3>4. r = IF Len(fresh) # Len(all) THEN Failed
              ELSE IF key = NoKey THEN Failed
              ELSE [ok |-> TRUE, key |-> key,
                    first |-> <<[op |-> "rebalancePositions", parent |-> parent, keys |-> keys]>>]
      BY <1>1, <3>1, <3>2, <3>3 DEF renumbered
    <3>5. r = [ok |-> TRUE, key |-> key,
                  first |-> <<[op |-> "rebalancePositions", parent |-> parent, keys |-> keys]>>]
      BY <1>3, <3>4, Zenon
    <3> QED
      BY <3>5, Zenon
  <2>2. PICK x : x = [op |-> "rebalancePositions", parent |-> parent, keys |-> keys]
    OBVIOUS
  <2>3. isOperation(x)
    BY <2>2 DEF isOperation, OperationKinds
  <2>4. r.first = <<x>>
    BY <2>1, <2>2
  <2>5. areOperations(r.first)
    BY <2>3, <2>4, OneOperation
  <2> QED
    BY <1>1, <2>5 DEF isPlace
<1> QED
  BY <1>2, <1>3

LEMMA AllocatedIsPlace ==
  ASSUME NEW d, NEW parent, NEW placement, NEW moving
  PROVE  isPlace(allocatePosition(d, parent, placement, moving))
<1>1. PICK r : r = allocatePosition(d, parent, placement, moving)
  OBVIOUS
<1>2. PICK siblings : siblings = Remove(d.children[parent], moving)
  OBVIOUS
<1>3. PICK all : all = IF moving \in DOMAIN d.nodes /\ d.nodes[moving].parent = parent
                    THEN d.children[parent] ELSE siblings
  OBVIOUS
<1>4. PICK index : index = resolvePlacementIndex(siblings, placement, moving)
  OBVIOUS
<1>5. PICK direct : direct = keyAt(siblings, index, [i \in ToSet(siblings) |-> d.nodes[i].key])
  OBVIOUS
<1>6. r = IF index = -1 THEN Failed
          ELSE IF direct # NoKey THEN [ok |-> TRUE, first |-> <<>>, key |-> direct]
          ELSE renumbered(all, siblings, index, parent)
  BY <1>1, <1>2, <1>3, <1>4, <1>5, Zenon DEF allocatePosition
<1>7. CASE r = Failed
  BY <1>1, <1>7, FailedIsStep DEF isPlace
<1>8. CASE r = [ok |-> TRUE, first |-> <<>>, key |-> direct]
  <2>1. r.first = <<>>
    BY <1>8
  <2> QED
    BY <1>1, <2>1, NoOperations DEF isPlace
<1>9. CASE r = renumbered(all, siblings, index, parent)
  BY <1>1, <1>9, RenumberedIsPlace
<1> QED
  BY <1>6, <1>7, <1>8, <1>9, Zenon

isCompiled(r) == r.ok => areOperations(r.operations)

LEMMA NewIsNode == ASSUME NEW id, NEW parent, NEW key PROVE isNode(newNode(id, parent, key))
BY DEF newNode, isNode

\* The operation a structural command ends in.
LEMMA StructuralIsOperation ==
  ASSUME NEW c \in Command, c.type \in {"insertNode", "moveSubtree"}, NEW key, NEW x,
         x = IF c.type = "insertNode"
             THEN [op |-> "insertNode", id |-> c.id, node |-> newNode(c.id, c.parent, key)]
             ELSE [op |-> "moveSubtree", id |-> c.id, parent |-> c.parent, key |-> key]
  PROVE  isOperation(x)
<1>1. c.id \in Ids
  BY DEF Command
<1>2. CASE c.type = "insertNode"
  <2>1. x = [op |-> "insertNode", id |-> c.id, node |-> newNode(c.id, c.parent, key)]
    BY <1>2
  <2>2. x.op = "insertNode" /\ x.id = c.id /\ x.node = newNode(c.id, c.parent, key)
    BY <2>1
  <2>3. isNode(x.node)
    BY <2>2, NewIsNode
  <2> QED
    BY <1>1, <2>2, <2>3 DEF isOperation, OperationKinds
<1>3. CASE c.type # "insertNode"
  <2>1. x = [op |-> "moveSubtree", id |-> c.id, parent |-> c.parent, key |-> key]
    BY <1>3
  <2>2. x.op = "moveSubtree"
    BY <2>1
  <2> QED
    BY <2>2 DEF isOperation, OperationKinds
<1> QED
  BY <1>2, <1>3

LEMMA CommandCompiles ==
  ASSUME NEW d, NEW c \in Command
  PROVE  isCompiled(compileCommand(d, c))
<1>1. PICK r : r = compileCommand(d, c)
  OBVIOUS
<1>2. CASE r = Failed
  BY <1>1, <1>2, FailedIsStep DEF isCompiled
<1>3. CASE r # Failed
  <2>1. \A ops : areOperations(ops) /\ r = [ok |-> TRUE, operations |-> ops] => isCompiled(r)
    BY DEF isCompiled
  <2>2. CASE c.type \in {"insertNode", "moveSubtree"}
    <3>1. PICK moving : moving = IF c.type = "moveSubtree" THEN c.id ELSE Root
      OBVIOUS
    <3>2. PICK p : p = allocatePosition(d, c.parent, c.placement, moving)
      OBVIOUS
    <3>3. PICK x : x = IF c.type = "insertNode"
                        THEN [op |-> "insertNode", id |-> c.id,
                              node |-> newNode(c.id, c.parent, p.key)]
                        ELSE [op |-> "moveSubtree", id |-> c.id,
                              parent |-> c.parent, key |-> p.key]
      OBVIOUS
    <3>4. p.ok /\ r = [ok |-> TRUE, operations |-> Append(p.first, x)]
      <4>1. r = IF p.ok THEN [ok |-> TRUE, operations |-> Append(p.first, x)] ELSE Failed
        BY <1>1, <1>3, <2>2, <3>1, <3>2, <3>3, Zenon DEF compileCommand, andThen
      <4> QED
        BY <1>3, <4>1, Zenon
    <3>5. areOperations(p.first)
      BY <3>2, <3>4, AllocatedIsPlace DEF isPlace
    <3>6. isOperation(x)
      BY <2>2, <3>3, StructuralIsOperation
    <3>7. areOperations(Append(p.first, x))
      <4>1. PICK S : p.first \in Seq(S) /\ \A o \in S : isOperation(o)
        BY <3>5 DEF areOperations
      <4>2. PICK U : U = S \cup {x}
        OBVIOUS
      <4>3. p.first \in Seq(U) /\ x \in U /\ \A o \in U : isOperation(o)
        BY <3>6, <4>1, <4>2, SeqMonotonic
      <4>4. Append(p.first, x) \in Seq(U)
        BY <4>3, AppendProperties
      <4> QED
        BY <4>3, <4>4 DEF areOperations
    <3> QED
      BY <1>1, <2>1, <3>4, <3>7
  <2>3. CASE c.type = "deleteSubtree"
    <3>1. PICK x : x = [op |-> "deleteSubtree", id |-> c.id]
      OBVIOUS
    <3>2. isOperation(x)
      BY <3>1 DEF isOperation, OperationKinds
    <3>3. r = [ok |-> TRUE, operations |-> <<x>>]
      BY <1>1, <2>3, <3>1 DEF compileCommand
    <3> QED
      BY <1>1, <2>1, <3>2, <3>3, OneOperation
  <2>4. CASE c.type = "setField"
    <3>1. PICK x : x = [op |-> "updateField", id |-> c.id, path |-> c.path,
                        value |-> c.value, expected |-> c.expected]
      OBVIOUS
    <3>2. isOperation(x)
      BY <3>1 DEF isOperation, OperationKinds
    <3>3. r = [ok |-> TRUE, operations |-> <<x>>]
      BY <1>1, <2>4, <3>1 DEF compileCommand
    <3> QED
      BY <1>1, <2>1, <3>2, <3>3, OneOperation
  <2>5. CASE c.type = "unsetField"
    <3>1. PICK x : x = [op |-> "unsetField", id |-> c.id, path |-> c.path, expected |-> None]
      OBVIOUS
    <3>2. isOperation(x)
      BY <3>1 DEF isOperation, OperationKinds
    <3>3. r = [ok |-> TRUE, operations |-> <<x>>]
      BY <1>1, <1>3, <2>5, <3>1 DEF compileCommand
    <3> QED
      BY <1>1, <2>1, <3>2, <3>3, OneOperation
  <2>6. CASE c.type = "setMaterialRef"
    <3>1. PICK x : x = [op |-> "setMaterialRef", id |-> c.id, code |-> c.code]
      OBVIOUS
    <3>2. isOperation(x)
      BY <3>1 DEF isOperation, OperationKinds
    <3>3. r = [ok |-> TRUE, operations |-> <<x>>]
      BY <1>1, <2>6, <3>1 DEF compileCommand
    <3> QED
      BY <1>1, <2>1, <3>2, <3>3, OneOperation
  <2>7. c.type \in {"insertNode", "moveSubtree", "deleteSubtree", "setField", "unsetField", "setMaterialRef"}
    BY DEF Command
  <2> QED
    BY <2>2, <2>3, <2>4, <2>5, <2>6, <2>7
<1> QED
  BY <1>2, <1>3

\* What the commands of a batch were compiled to so far.
isBatch(r) ==
    r.ok => /\ DOMAIN r = {"ok", "draft", "operations"}
            /\ isDraft(r.draft) /\ areOperations(r.operations)

\* The command after those that are compiled.
LEMMA NextIsBatch ==
  ASSUME NEW done, isBatch(done), NEW c \in Command, NEW r, r = compileNext(done, c)
  PROVE  isBatch(r)
<1>1. CASE r = Failed
  BY <1>1, FailedIsStep DEF isBatch
<1>2. CASE r # Failed
  <2>1. PICK compiled : compiled = compileCommand(done.draft, c)
    OBVIOUS
  <2>2. PICK next : next = applyOperations(done.draft, compiled.operations)
    OBVIOUS
  <2>3. PICK w : w = [done EXCEPT !.draft = next.draft]
    OBVIOUS
  <2>4. r = IF done.ok THEN IF compiled.ok THEN IF next.ok
               THEN [w EXCEPT !.operations = w.operations \o compiled.operations]
               ELSE Failed ELSE Failed ELSE Failed
    BY <2>1, <2>2, <2>3, Zenon DEF compileNext, andThen
  <2>5. done.ok /\ compiled.ok /\ next.ok
    BY <1>2, <2>4, Zenon
  <2>6. r = [w EXCEPT !.operations = w.operations \o compiled.operations]
    BY <2>4, <2>5, Zenon
  <2>7. DOMAIN done = {"ok", "draft", "operations"} /\ isDraft(done.draft) /\ areOperations(done.operations)
    BY <2>5 DEF isBatch
  <2>8. areOperations(compiled.operations)
    BY <2>1, <2>5, CommandCompiles DEF isCompiled
  <2>9. isDraft(next.draft)
    BY <2>2, <2>5, <2>7, <2>8, OperationsAreSteps DEF isStep
  <2>10. PICK ds : ds = DOMAIN done
    OBVIOUS
  <2>11. "draft" \in ds /\ "operations" \in ds
    BY <2>7, <2>10
  <2>12. DOMAIN w = ds /\ w.draft = next.draft /\ w.operations = done.operations
    BY <2>3, <2>10, <2>11
  <2>13. PICK ops : ops = done.operations \o compiled.operations
    OBVIOUS
  <2>14. areOperations(ops)
    BY <2>7, <2>8, <2>13, OperationsJoined
  <2>15. r = [w EXCEPT !.operations = ops]
    BY <2>6, <2>12, <2>13, Zenon
  <2>16. DOMAIN r = ds /\ r.draft = next.draft /\ r.operations = ops
    BY <2>11, <2>12, <2>15
  <2> QED
    BY <2>7, <2>9, <2>10, <2>14, <2>16 DEF isBatch
<1> QED
  BY <1>1, <1>2

\* Commands compile to operations, whatever draft they start from.
LEMMA BatchCompiles ==
  ASSUME NEW e, isDraft(draftOf(e.document)), NEW cs \in Seq(Command), NEW r, r = compileBatch(e, cs)
  PROVE  isBatch(r)
<1>1. PICK first : first = [ok |-> TRUE, draft |-> draftOf(e.document), operations |-> <<>>]
  OBVIOUS
<1> DEFINE defined(f) == f = [n \in 0 .. Len(cs) |-> IF n = 0 THEN first ELSE compileNext(f[n - 1], cs[n])]
<1>2. PICK f : f = CHOOSE h : defined(h)
  OBVIOUS
<1>3. r = f[Len(cs)]
  BY <1>1, <1>2, Zenon DEF compileBatch
<1>4. PICK N \in Nat : N = Len(cs)
  BY LenProperties
<1> DEFINE upTo(k, g) == g = [n \in 0 .. k |-> IF n = 0 THEN first ELSE compileNext(g[n - 1], cs[n])]
           T == {k \in Nat : \E g : upTo(k, g)}
<1>5. 0 \in T
  <2>1. PICK g : g = [n \in 0 .. 0 |-> first]
    OBVIOUS
  <2>2. \A n \in 0 .. 0 : n = 0
    OBVIOUS
  <2>3. g = [n \in 0 .. 0 |-> IF n = 0 THEN first ELSE compileNext(g[n - 1], cs[n])]
    BY <2>1, <2>2
  <2> QED
    BY <2>3
<1>6. ASSUME NEW k \in Nat, k \in T PROVE k + 1 \in T
  <2>1. PICK g : upTo(k, g)
    BY <1>6
  <2>2. PICK last : last = compileNext(g[k], cs[k + 1])
    OBVIOUS
  <2>3. PICK h : h = [n \in 0 .. k + 1 |-> IF n = k + 1 THEN last ELSE g[n]]
    OBVIOUS
  <2>4. ASSUME NEW n \in 0 .. k + 1 PROVE h[n] = IF n = 0 THEN first ELSE compileNext(h[n - 1], cs[n])
    <3>1. CASE n = k + 1
      <4>1. h[n] = last /\ n # 0 /\ n - 1 = k
        BY <2>3, <3>1
      <4>2. h[n - 1] = g[k]
        BY <2>3, <4>1
      <4> QED
        BY <2>2, <3>1, <4>1, <4>2
    <3>2. CASE n # k + 1
      <4>1. n \in 0 .. k /\ h[n] = g[n]
        BY <2>3, <3>2
      <4>2. g[n] = IF n = 0 THEN first ELSE compileNext(g[n - 1], cs[n])
        BY <2>1, <4>1
      <4>3. n # 0 => h[n - 1] = g[n - 1]
        BY <2>3, <4>1
      <4> QED
        BY <4>1, <4>2, <4>3
    <3> QED
      BY <3>1, <3>2
  <2>5. h = [n \in 0 .. k + 1 |-> IF n = 0 THEN first ELSE compileNext(h[n - 1], cs[n])]
    BY <2>3, <2>4
  <2> QED
    BY <2>5
<1>7. PICK g : upTo(N, g)
  <2>1. Nat \subseteq T
    <3> HIDE DEF T
    <3> QED
      BY <1>5, <1>6, CountingUp
  <2> QED
    BY <2>1
<1>8. defined(g)
  BY <1>4, <1>7, Zenon
<1>9. defined(f)
  <2> HIDE DEF defined
  <2> QED
    BY <1>2, <1>8
<1>10. \A n \in 0 .. N : f[n] = IF n = 0 THEN first ELSE compileNext(f[n - 1], cs[n])
  BY <1>4, <1>9
<1>11. isBatch(first)
  <2>1. DOMAIN first = {"ok", "draft", "operations"}
    BY <1>1
  <2>2. first.draft = draftOf(e.document) /\ first.operations = <<>>
    BY <1>1
  <2> QED
    BY <2>1, <2>2, NoOperations DEF isBatch
<1>12. PICK G : G = {x \in {f[n] : n \in 0 .. N} : isBatch(x)}
  OBVIOUS
<1>13. f[0] \in G
  <2>1. 0 \in 0 .. N
    BY <1>4
  <2>2. f[0] = first
    BY <1>10, <2>1
  <2> QED
    BY <1>11, <1>12, <2>1, <2>2
<1>14. ASSUME NEW n \in 0 + 1 .. N, f[n - 1] \in G PROVE f[n] \in G
  <2>1. n \in 1 .. N /\ n \in 0 .. N /\ n # 0
    BY <1>4
  <2>2. PICK done, x : done = f[n - 1] /\ x = f[n]
    OBVIOUS
  <2>3. x = compileNext(done, cs[n])
    BY <1>10, <2>1, <2>2
  <2>4. isBatch(done)
    BY <1>12, <1>14, <2>2
  <2>5. cs[n] \in Command
    BY <1>4, <2>1, ElementOfSeq
  <2>6. isBatch(x)
    BY <2>3, <2>4, <2>5, NextIsBatch
  <2> QED
    BY <1>12, <2>1, <2>2, <2>6
<1>15. \A n \in 0 .. N : f[n] \in G
  <2> HIDE DEF defined
  <2> QED
    BY <1>4, <1>13, <1>14, ValueByValue
<1>16. f[N] \in G
  BY <1>4, <1>15
<1> QED
  BY <1>3, <1>4, <1>12, <1>16

-----------------------------------------------------------------------------
(* Documents.                                                              *)

areCanonical(nodes) == \A i \in DOMAIN nodes : nodes[i].fields = canonicalFields(nodes[i].fields)

isDocument(doc) ==
    /\ doc = documentOf(doc.nodes) /\ areNodes(doc.nodes)
    /\ normalizable(doc.nodes) /\ areCanonical(doc.nodes)

\* A canonical value is its own canonical form.
LEMMA CanonicalIsFixed == ASSUME NEW f PROVE canonicalFields(canonicalFields(f)) = canonicalFields(f)
BY TreeAssumption DEF canonicalFields

LEMMA DocumentIs ==
  ASSUME NEW nodes
  PROVE  /\ documentOf(nodes).nodes = nodes /\ documentOf(nodes).children = childrenByParent(nodes)
         /\ documentOf(nodes).materials = rowsByMaterialCode(nodes)
         /\ documentOf(nodes) = [nodes |-> nodes, children |-> childrenByParent(nodes),
                                 materials |-> rowsByMaterialCode(nodes)]
BY DEF documentOf

\* The index of the children of each node.
LEMMA ChildrenAreFamilies ==
  ASSUME NEW nodes, areNodes(nodes)
  PROVE  childrenByParent(nodes) \in Families
<1>1. PICK places : places = placesOf(nodes)
  OBVIOUS
<1>2. DOMAIN places \subseteq Ids
  BY <1>1 DEF placesOf, areNodes
<1>3. ASSUME NEW p \in Parents
      PROVE  sortChildren(places, SetToSeq({i \in DOMAIN places : places[i].parent = p})) \in Seq(Ids)
  <2>1. PICK S : S = {i \in DOMAIN places : places[i].parent = p}
    OBVIOUS
  <2>2. S \subseteq Ids
    BY <1>2, <2>1
  <2>3. IsFiniteSet(S)
    BY <2>2, FS_Subset, TreeAssumption
  <2>4. SetToSeq(S) \in Seq(S)
    <3>1. Cardinality(S) \in Nat
      BY <2>3, FS_CardinalityType
    <3>2. PICK M \in Nat : M = Cardinality(S)
      BY <3>1
    <3>3. PICK b : ExistsBijection(1 .. M, S) /\ b \in Bijection(1 .. M, S)
      BY <2>3, <3>2, FS_NatBijection, FS_CountingElements DEF ExistsBijection
    <3>4. b \in [1 .. M -> S] /\ \A x, y \in 1 .. M : x # y => b[x] # b[y]
      BY <3>3 DEF Bijection, Injection, IsInjective, Surjection
    <3>5. IsInjective(b)
      BY <3>4 DEF IsInjective
    <3>6. \E f \in [1 .. Cardinality(S) -> S] : IsInjective(f)
      BY <3>2, <3>4, <3>5
    <3>7. SetToSeq(S) \in [1 .. M -> S]
      BY <3>2, <3>6 DEF SetToSeq
    <3> QED
      BY <3>7, SeqDef
  <2>5. PICK s \in Seq(Ids) : s = SetToSeq(S)
    BY <2>2, <2>4, SeqMonotonic
  <2> QED
    BY <2>1, <2>5, SortIsSeq
<1>4. PICK c : c = [p \in Parents |-> sortChildren(places, SetToSeq({i \in DOMAIN places : places[i].parent = p}))]
  OBVIOUS
<1>5. c \in [Parents -> Seq(Ids)]
  BY <1>3, <1>4
<1>6. childrenByParent(nodes) = c
  BY <1>1, <1>4, Zenon DEF childrenByParent, childrenAt
<1> QED
  BY <1>5, <1>6 DEF Families

\* The draft of a document, with no field changed yet.
LEMMA DraftOfDocument ==
  ASSUME NEW doc, isDocument(doc)
  PROVE  isDraft(draftOf(doc)) /\ onlyFields(doc.nodes, draftOf(doc))
<1>1. PICK d : d = draftOf(doc)
  OBVIOUS
<1>2. d = [nodes |-> doc.nodes, children |-> doc.children, changed |-> {}]
  BY <1>1 DEF draftOf
<1>3. d.nodes = doc.nodes /\ d.children = doc.children /\ d.changed = {}
  BY <1>2
<1>4. areNodes(doc.nodes) /\ doc = documentOf(doc.nodes)
  BY DEF isDocument
<1>5. PICK ns : ns = doc.nodes
  OBVIOUS
<1>6. doc.children = childrenByParent(ns)
  BY <1>4, <1>5, DocumentIs
<1>7. doc.children \in Families
  BY <1>4, <1>5, <1>6, ChildrenAreFamilies
<1>8. isDraft(d)
  BY <1>2, <1>3, <1>4, <1>7 DEF isDraft
<1>9. onlyFields(ns, d)
  BY <1>3, <1>5 DEF onlyFields
<1> QED
  BY <1>1, <1>5, <1>8, <1>9

\* The nodes of a draft, those of C with canonical fields.
canonicalIn(d, C) ==
    [i \in DOMAIN d.nodes |-> IF i \in C THEN [d.nodes[i] EXCEPT !.fields = canonicalFields(@)]
                              ELSE d.nodes[i]]

LEMMA CanonicalNodes ==
  ASSUME NEW d, isDraft(d), NEW C, NEW nodes, nodes = canonicalIn(d, C)
  PROVE  /\ DOMAIN nodes = DOMAIN d.nodes /\ areNodes(nodes)
         /\ \A i \in DOMAIN nodes :
              /\ nodes[i].parent = d.nodes[i].parent /\ nodes[i].key = d.nodes[i].key
              /\ nodes[i].code = d.nodes[i].code
              /\ i \in C => nodes[i].fields = canonicalFields(nodes[i].fields)
              /\ i \notin C => nodes[i] = d.nodes[i]
<1>1. PICK old, D : old = d.nodes /\ D = DOMAIN d.nodes
  OBVIOUS
<1>2. D \subseteq Ids /\ \A i \in D : isNode(old[i])
  BY <1>1 DEF isDraft, areNodes
<1>3. nodes = [i \in D |-> IF i \in C THEN [old[i] EXCEPT !.fields = canonicalFields(old[i].fields)] ELSE old[i]]
  BY <1>1, Zenon DEF canonicalIn
<1>4. ASSUME NEW i \in D
      PROVE  /\ isNode(nodes[i]) /\ nodes[i].parent = old[i].parent /\ nodes[i].key = old[i].key
             /\ nodes[i].code = old[i].code
             /\ i \in C => nodes[i].fields = canonicalFields(nodes[i].fields)
             /\ i \notin C => nodes[i] = old[i]
  <2>1. PICK n, f : n = old[i] /\ f = canonicalFields(n.fields)
    OBVIOUS
  <2>2. isNode(n)
    BY <1>2, <2>1
  <2>3. PICK m : m = [n EXCEPT !.fields = f]
    OBVIOUS
  <2>4. isNode(m) /\ m.parent = n.parent /\ m.key = n.key /\ m.code = n.code /\ m.fields = f
    BY <2>2, <2>3, NodeFilled
  <2>5. canonicalFields(f) = f
    BY <2>1, CanonicalIsFixed
  <2>6. nodes[i] = IF i \in C THEN m ELSE n
    BY <1>3, <2>1, <2>3, Zenon
  <2>7. CASE i \in C
    <3>1. nodes[i] = m
      BY <2>6, <2>7
    <3> QED
      BY <2>1, <2>4, <2>5, <2>7, <3>1
  <2>8. CASE i \notin C
    <3>1. nodes[i] = n
      BY <2>6, <2>8
    <3> QED
      BY <2>1, <2>2, <2>8, <3>1
  <2> QED
    BY <2>7, <2>8
<1>5. DOMAIN nodes = D /\ nodes = [i \in D |-> nodes[i]]
  BY <1>3
<1>6. areNodes(nodes)
  BY <1>2, <1>4, <1>5, NodesMade
<1> QED
  BY <1>1, <1>4, <1>5, <1>6

\* What a field-only transaction keeps is what it would build anew.
LEMMA SamePlacesSameIndexes ==
  ASSUME NEW nodes, NEW old, DOMAIN nodes = DOMAIN old,
         \A i \in DOMAIN old : /\ nodes[i].parent = old[i].parent /\ nodes[i].key = old[i].key
                               /\ nodes[i].code = old[i].code
  PROVE  /\ placesOf(nodes) = placesOf(old)
         /\ childrenByParent(nodes) = childrenByParent(old)
         /\ rowsByMaterialCode(nodes) = rowsByMaterialCode(old)
<1>1. placesOf(nodes) = placesOf(old)
  BY DEF placesOf
<1>2. childrenByParent(nodes) = childrenByParent(old)
  BY <1>1, Zenon DEF childrenByParent
<1>3. \A c \in Codes : {i \in DOMAIN nodes \cap Materials : nodes[i].code = c}
                     = {i \in DOMAIN old \cap Materials : old[i].code = c}
  OBVIOUS
<1>4. rowsByMaterialCode(nodes) = rowsByMaterialCode(old)
  BY <1>3 DEF rowsByMaterialCode
<1> QED
  BY <1>1, <1>2, <1>4

\* A transaction that changed more than fields builds all of the document anew.
LEMMA BuiltAnewIsDocument ==
  ASSUME NEW d, isDraft(d), NEW nodes, nodes = canonicalIn(d, DOMAIN d.nodes), normalizable(nodes)
  PROVE  isDocument(documentOf(nodes))
<1>1. areNodes(nodes) /\ areCanonical(nodes)
  BY CanonicalNodes DEF areCanonical
<1>2. PICK doc : doc = documentOf(nodes)
  OBVIOUS
<1>3. doc.nodes = nodes
  BY <1>2, DocumentIs
<1> QED
  BY <1>1, <1>2, <1>3 DEF isDocument

\* One that changed nothing but fields keeps the indexes.
LEMMA KeptIndexesAreRight ==
  ASSUME NEW doc, isDocument(doc), NEW d, isDraft(d), onlyFields(doc.nodes, d),
         NEW nodes, nodes = canonicalIn(d, d.changed), \A i \in d.changed : nodes[i].fields \notin Refused
  PROVE  isDocument([doc EXCEPT !.nodes = nodes])
<1>1. PICK old : old = doc.nodes
  OBVIOUS
<1>2. doc = documentOf(old) /\ normalizable(old) /\ areCanonical(old)
  BY <1>1 DEF isDocument
<1>3. /\ DOMAIN d.nodes = DOMAIN old /\ d.changed \subseteq DOMAIN old
      /\ \A i \in DOMAIN old : /\ d.nodes[i].parent = old[i].parent /\ d.nodes[i].key = old[i].key
                               /\ d.nodes[i].code = old[i].code /\ (i \notin d.changed => d.nodes[i] = old[i])
  BY <1>1 DEF onlyFields
<1>4. /\ DOMAIN nodes = DOMAIN d.nodes /\ areNodes(nodes)
      /\ \A i \in DOMAIN nodes :
              /\ nodes[i].parent = d.nodes[i].parent /\ nodes[i].key = d.nodes[i].key
              /\ nodes[i].code = d.nodes[i].code
              /\ i \in d.changed => nodes[i].fields = canonicalFields(nodes[i].fields)
              /\ i \notin d.changed => nodes[i] = d.nodes[i]
  BY CanonicalNodes
<1>5. /\ DOMAIN nodes = DOMAIN old
      /\ \A i \in DOMAIN old :
              /\ nodes[i].parent = old[i].parent /\ nodes[i].key = old[i].key
              /\ nodes[i].code = old[i].code
              /\ i \in d.changed => nodes[i].fields = canonicalFields(nodes[i].fields)
              /\ i \notin d.changed => nodes[i] = old[i]
  BY <1>3, <1>4
<1>6. areCanonical(nodes)
  BY <1>2, <1>5 DEF areCanonical
<1>7. placesOf(nodes) = placesOf(old) /\ childrenByParent(nodes) = childrenByParent(old)
      /\ rowsByMaterialCode(nodes) = rowsByMaterialCode(old)
  BY <1>5, SamePlacesSameIndexes
<1>8. normalizable(nodes)
  <2>1. isTree(placesOf(nodes))
    BY <1>2, <1>7, Zenon DEF normalizable
  <2>2. ASSUME NEW i \in DOMAIN nodes
        PROVE  nodes[i].fields \notin Refused /\ (i \in Materials => nodes[i].code # NoCode)
    <3>1. old[i].fields \notin Refused /\ (i \in Materials => old[i].code # NoCode)
      BY <1>2, <1>5 DEF normalizable
    <3> QED
      BY <1>5, <3>1
  <2> QED
    BY <2>1, <2>2 DEF normalizable
<1>9. [doc EXCEPT !.nodes = nodes] = documentOf(nodes)
  <2>1. doc = [nodes |-> old, children |-> childrenByParent(old), materials |-> rowsByMaterialCode(old)]
    BY <1>2, DocumentIs
  <2>2. PICK c, m : c = childrenByParent(old) /\ m = rowsByMaterialCode(old)
    OBVIOUS
  <2>3. doc = [nodes |-> old, children |-> c, materials |-> m]
    BY <2>1, <2>2
  <2>4. [doc EXCEPT !.nodes = nodes] = [nodes |-> nodes, children |-> c, materials |-> m]
    BY <2>3
  <2>5. documentOf(nodes) = [nodes |-> nodes, children |-> c, materials |-> m]
    BY <1>7, <2>2, Zenon DEF documentOf
  <2> QED
    BY <2>4, <2>5
<1>10. PICK w : w = documentOf(nodes)
  OBVIOUS
<1>11. w.nodes = nodes
  BY <1>10, DocumentIs
<1>12. isDocument(w)
  BY <1>4, <1>6, <1>8, <1>10, <1>11 DEF isDocument
<1> QED
  BY <1>9, <1>10, <1>12

\* Whatever the operations were, the document that comes of the draft is one.
LEMMA NormalizedIsDocument ==
  ASSUME NEW e, isDocument(e.document), NEW d, isDraft(d), NEW ops,
         (\A k \in DOMAIN ops : isFieldOperation(ops[k])) => onlyFields(e.document.nodes, d),
         NEW r, r = normalized(e, d, ops), r.ok
  PROVE  isDocument(r.document)
<1>1. r # Failed
  BY FailedIsStep
<1>2. CASE \A k \in DOMAIN ops : isFieldOperation(ops[k])
  <2>1. PICK nodes : nodes = [i \in DOMAIN d.nodes |->
                    IF i \in d.changed
                    THEN [d.nodes[i] EXCEPT !.fields = canonicalFields(@)]
                    ELSE d.nodes[i]]
    OBVIOUS
  <2>2. nodes = canonicalIn(d, d.changed)
    BY <2>1, Zenon DEF canonicalIn
  <2>3. [i \in DOMAIN d.nodes |->
                    IF ~(\A k \in DOMAIN ops : isFieldOperation(ops[k])) \/ i \in d.changed
                    THEN [d.nodes[i] EXCEPT !.fields = canonicalFields(@)]
                    ELSE d.nodes[i]] = nodes
    BY <1>2, <2>1
  <2>4. r = IF ~(\A i \in d.changed : nodes[i].fields \notin Refused) THEN Failed
            ELSE [ok |-> TRUE, document |-> [e.document EXCEPT !.nodes = nodes]]
    BY <1>2, <2>3, Zenon DEF normalized
  <2>5. (\A i \in d.changed : nodes[i].fields \notin Refused)
        /\ r = [ok |-> TRUE, document |-> [e.document EXCEPT !.nodes = nodes]]
    BY <1>1, <2>4, Zenon
  <2>6. PICK doc : doc = [e.document EXCEPT !.nodes = nodes]
    OBVIOUS
  <2>7. r.document = doc
    BY <2>5, <2>6
  <2>8. isDocument(doc)
    BY <1>2, <2>2, <2>5, <2>6, KeptIndexesAreRight
  <2> QED
    BY <2>7, <2>8
<1>3. CASE ~\A k \in DOMAIN ops : isFieldOperation(ops[k])
  <2>1. PICK nodes : nodes = canonicalIn(d, DOMAIN d.nodes)
    OBVIOUS
  <2>2. [i \in DOMAIN d.nodes |->
                    IF ~(\A k \in DOMAIN ops : isFieldOperation(ops[k])) \/ i \in d.changed
                    THEN [d.nodes[i] EXCEPT !.fields = canonicalFields(@)]
                    ELSE d.nodes[i]] = nodes
    BY <1>3, <2>1 DEF canonicalIn
  <2>3. r = IF ~normalizable(nodes) THEN Failed ELSE [ok |-> TRUE, document |-> documentOf(nodes)]
    BY <1>3, <2>2, Zenon DEF normalized
  <2>4. normalizable(nodes) /\ r = [ok |-> TRUE, document |-> documentOf(nodes)]
    BY <1>1, <2>3, Zenon
  <2>5. PICK doc : doc = documentOf(nodes)
    OBVIOUS
  <2>6. r.document = doc
    BY <2>4, <2>5
  <2>7. isDocument(doc)
    BY <2>1, <2>4, <2>5, BuiltAnewIsDocument
  <2> QED
    BY <2>6, <2>7
<1> QED
  BY <1>2, <1>3

-----------------------------------------------------------------------------
(* Entries of the history, and what they count.                            *)

isEntry(x) ==
    /\ x = [transaction |-> x.transaction, operations |-> x.operations,
            inverse |-> x.inverse, commands |-> x.commands,
            before |-> x.before, after |-> x.after, overRemote |-> x.overRemote]
    /\ areOperations(x.operations) /\ areOperations(x.inverse) /\ x.commands \in Seq(Command)

areEntries(s) == \E S : s \in Seq(S) /\ \A x \in S : isEntry(x)

\* f counts the first n of some entries for each n.
sums(f, s, N) == f[0] = 0 /\ \A n \in 1 .. N : f[n] = f[n - 1] + sizeOf(s[n])

LEMMA EntriesFacts ==
  ASSUME NEW s, areEntries(s)
  PROVE  /\ Len(s) \in Nat /\ DOMAIN s = 1 .. Len(s)
         /\ \A i \in 1 .. Len(s) : isEntry(s[i]) /\ sizeOf(s[i]) \in Nat
<1>1. PICK S : s \in Seq(S) /\ \A x \in S : isEntry(x)
  BY DEF areEntries
<1>2. Len(s) \in Nat /\ DOMAIN s = 1 .. Len(s)
  BY <1>1, LenProperties
<1>3. ASSUME NEW i \in 1 .. Len(s) PROVE isEntry(s[i]) /\ sizeOf(s[i]) \in Nat
  <2>1. PICK x : x = s[i]
    OBVIOUS
  <2>2. isEntry(x)
    BY <1>1, <2>1, ElementOfSeq
  <2>3. areOperations(x.operations)
    BY <2>2 DEF isEntry
  <2>4. PICK T : x.operations \in Seq(T)
    BY <2>3 DEF areOperations
  <2>5. sizeOf(x) \in Nat
    BY <2>4, LenProperties DEF sizeOf
  <2> QED
    BY <2>1, <2>2, <2>5
<1> QED
  BY <1>2, <1>3

LEMMA TotalSums ==
  ASSUME NEW s, areEntries(s)
  PROVE  \E f : /\ sums(f, s, Len(s)) /\ totalSize(s) = f[Len(s)]
                /\ \A n \in 0 .. Len(s) : f[n] \in Nat
<1> DEFINE defined(f) == f = [n \in 0 .. Len(s) |-> IF n = 0 THEN 0 ELSE f[n - 1] + sizeOf(s[n])]
<1>1. PICK f : f = CHOOSE h : defined(h)
  OBVIOUS
<1>2. totalSize(s) = f[Len(s)]
  BY <1>1, Zenon DEF totalSize
<1>3. PICK N \in Nat : N = Len(s)
  BY EntriesFacts
<1>4. \A n \in 1 .. N : sizeOf(s[n]) \in Nat
  BY <1>3, EntriesFacts
<1>5. PICK A, next : A = Nat /\ next = [n \in 1 .. N |-> [t \in A |-> t + sizeOf(s[n])]]
  OBVIOUS
<1>6. next \in nextsOn(A, N)
  BY <1>4, <1>5 DEF nextsOn
<1>6a. PICK none \in A : none = 0
  BY <1>5
<1>7. PICK g : /\ g[0] = none
               /\ \A n \in 1 .. N : g[n - 1] \in A /\ g[n] = next[n][g[n - 1]]
  BY <1>3, <1>6, <1>6a, RecursionExists
<1>8. PICK h : h = [n \in 0 .. N |-> g[n]]
  OBVIOUS
<1>9. ASSUME NEW n \in 0 .. N PROVE h[n] = IF n = 0 THEN 0 ELSE h[n - 1] + sizeOf(s[n])
  <2>1. CASE n = 0
    BY <1>6a, <1>7, <1>8, <2>1
  <2>2. CASE n # 0
    <3>1. n \in 1 .. N /\ h[n] = g[n] /\ h[n - 1] = g[n - 1]
      BY <1>8, <2>2
    <3>2. PICK t \in A : t = g[n - 1]
      BY <1>7, <3>1
    <3>3. next[n][t] = t + sizeOf(s[n])
      BY <1>5, <3>1
    <3> QED
      BY <1>7, <2>2, <3>1, <3>2, <3>3
  <2> QED
    BY <2>1, <2>2
<1>10. defined(h)
  <2>1. h = [n \in 0 .. N |-> IF n = 0 THEN 0 ELSE h[n - 1] + sizeOf(s[n])]
    BY <1>8, <1>9
  <2> QED
    BY <1>3, <2>1
<1>11. defined(f)
  <2> HIDE DEF defined
  <2> QED
    BY <1>1, <1>10
<1>12. \A n \in 0 .. N : f[n] = IF n = 0 THEN 0 ELSE f[n - 1] + sizeOf(s[n])
  BY <1>3, <1>11
<1>13. f[0] = 0
  BY <1>12
<1>14. ASSUME NEW n \in 1 .. N PROVE f[n] = f[n - 1] + sizeOf(s[n])
  <2>1. n \in 0 .. N /\ n # 0
    OBVIOUS
  <2> QED
    BY <1>12, <2>1
<1>15. sums(f, s, N)
  BY <1>13, <1>14 DEF sums
<1>16. \A n \in 0 .. N : f[n] \in A
  <2>1. ASSUME NEW n \in 0 + 1 .. N, f[n - 1] \in A PROVE f[n] \in A
    <3>1. n \in 1 .. N
      BY <1>3
    <3>2. PICK x \in Nat, y \in Nat : x = f[n - 1] /\ y = sizeOf(s[n])
      BY <1>4, <1>5, <2>1, <3>1
    <3>3. f[n] = x + y
      BY <1>14, <3>1, <3>2
    <3> QED
      BY <1>5, <3>3
  <2>2. f[0] \in A /\ 0 \in Nat
    BY <1>5, <1>13
  <2> HIDE DEF defined
  <2> QED
    BY <1>3, <2>1, <2>2, ValueByValue
<1> QED
  BY <1>2, <1>3, <1>5, <1>15, <1>16

\* However it is counted, the total is the same.
LEMMA SumsAgree ==
  ASSUME NEW s, areEntries(s), NEW f, sums(f, s, Len(s))
  PROVE  totalSize(s) = f[Len(s)]
<1>1. PICK g : sums(g, s, Len(s)) /\ totalSize(s) = g[Len(s)]
  BY TotalSums
<1>2. PICK N \in Nat : N = Len(s)
  BY EntriesFacts
<1> DEFINE T == {k \in Nat : k <= N => f[k] = g[k]}
<1>3. 0 \in T
  BY <1>1 DEF sums
<1>4. ASSUME NEW k \in Nat, k \in T PROVE k + 1 \in T
  <2>1. CASE k + 1 <= N
    <3>1. k + 1 \in 1 .. N /\ (k + 1) - 1 = k
      BY <2>1
    <3>2. f[k + 1] = f[k] + sizeOf(s[k + 1]) /\ g[k + 1] = g[k] + sizeOf(s[k + 1])
      BY <1>1, <1>2, <3>1 DEF sums
    <3>3. f[k] = g[k]
      BY <1>4, <2>1
    <3> QED
      BY <3>2, <3>3
  <2>2. CASE ~(k + 1 <= N)
    BY <2>2
  <2> QED
    BY <2>1, <2>2
<1>5. Nat \subseteq T
  <2> HIDE DEF T
  <2> QED
    BY <1>3, <1>4, CountingUp
<1>6. f[N] = g[N]
  BY <1>5
<1> QED
  BY <1>1, <1>2, <1>6

LEMMA TotalIsNat == ASSUME NEW s, areEntries(s) PROVE totalSize(s) \in Nat
<1>1. PICK f : totalSize(s) = f[Len(s)] /\ \A n \in 0 .. Len(s) : f[n] \in Nat
  BY TotalSums
<1>2. Len(s) \in 0 .. Len(s)
  BY EntriesFacts
<1> QED
  BY <1>1, <1>2

LEMMA TotalOfNone == areEntries(<<>>) /\ totalSize(<<>>) = 0
<1>1. areEntries(<<>>)
  <2>1. PICK S : S = {}
    OBVIOUS
  <2>2. <<>> \in Seq(S) /\ \A x \in S : isEntry(x)
    BY <2>1, EmptySeq
  <2> QED
    BY <2>2 DEF areEntries
<1>2. Len(<<>>) = 0
  BY EmptySeq
<1>3. PICK f : sums(f, <<>>, Len(<<>>)) /\ totalSize(<<>>) = f[Len(<<>>)]
  BY <1>1, TotalSums
<1> QED
  BY <1>1, <1>2, <1>3 DEF sums

LEMMA TotalIsSame ==
  ASSUME NEW s, areEntries(s), NEW t, areEntries(t), Len(s) = Len(t),
         \A i \in 1 .. Len(s) : sizeOf(t[i]) = sizeOf(s[i])
  PROVE  totalSize(t) = totalSize(s)
<1>1. PICK f : sums(f, s, Len(s)) /\ totalSize(s) = f[Len(s)]
  BY TotalSums
<1>2. sums(f, t, Len(t))
  BY <1>1 DEF sums
<1> QED
  BY <1>1, <1>2, SumsAgree

\* One entry more.
LEMMA TotalExtends ==
  ASSUME NEW s, areEntries(s), NEW t, areEntries(t), Len(t) = Len(s) + 1,
         \A i \in 1 .. Len(s) : t[i] = s[i]
  PROVE  totalSize(t) = totalSize(s) + sizeOf(t[Len(t)])
<1>1. PICK N \in Nat : N = Len(s)
  BY EntriesFacts
<1>2. PICK f : sums(f, t, Len(t)) /\ totalSize(t) = f[Len(t)]
  BY TotalSums
<1>3. Len(t) = N + 1
  BY <1>1
<1>4. f[0] = 0 /\ \A n \in 1 .. N + 1 : f[n] = f[n - 1] + sizeOf(t[n])
  BY <1>2, <1>3 DEF sums
<1>5. \A n \in 1 .. N : f[n] = f[n - 1] + sizeOf(s[n])
  BY <1>1, <1>4
<1>6. sums(f, s, Len(s))
  BY <1>1, <1>4, <1>5 DEF sums
<1>7. totalSize(s) = f[N]
  BY <1>1, <1>6, SumsAgree
<1>8. N + 1 \in 1 .. N + 1 /\ (N + 1) - 1 = N
  OBVIOUS
<1>9. f[N + 1] = f[N] + sizeOf(t[N + 1])
  BY <1>4, <1>8
<1> QED
  BY <1>2, <1>3, <1>7, <1>9

\* Entries cut in two.
isCut(s, n, a, b) ==
    n \in 0 .. Len(s) /\ a = SubSeq(s, 1, n) /\ b = SubSeq(s, n + 1, Len(s))
areParts(s, n, a, b) ==
    /\ areEntries(a) /\ areEntries(b) /\ Len(a) = n /\ Len(b) = Len(s) - n
    /\ \A i \in 1 .. Len(s) - n : b[i] = s[n + i]

LEMMA CutFacts ==
  ASSUME NEW s, areEntries(s), NEW n, NEW a, NEW b, isCut(s, n, a, b)
  PROVE  areParts(s, n, a, b)
<1> USE DEF isCut, areParts
<1>1. PICK S : s \in Seq(S) /\ \A x \in S : isEntry(x)
  BY DEF areEntries
<1>2. PICK N \in Nat : N = Len(s)
  BY EntriesFacts
<1>3. a \in Seq(S) /\ Len(a) = n /\ \A i \in 1 .. n : a[i] = s[i]
  BY <1>1, PrefixProperties
<1>4. b \in Seq(S) /\ Len(b) = N - n /\ \A i \in 1 .. N - n : b[i] = s[n + i]
  <2>1. n \in Nat /\ n <= N
    BY <1>2
  <2>2. PICK m \in Int : m = n + 1
    BY <2>1
  <2>3. b = SubSeq(s, m, N)
    BY <1>2, <2>2
  <2>4. \A i \in m .. N : s[i] \in S
    <3>1. \A i \in m .. N : i \in 1 .. Len(s)
      BY <1>2, <2>1, <2>2
    <3> QED
      BY <1>1, <3>1, ElementOfSeq
  <2>5. /\ SubSeq(s, m, N) \in Seq(S)
        /\ Len(SubSeq(s, m, N)) = IF m <= N THEN N - m + 1 ELSE 0
        /\ \A i \in 1 .. N - m + 1 : SubSeq(s, m, N)[i] = s[m + i - 1]
    BY <2>4, SubSeqProperties
  <2>6. N - m + 1 = N - n /\ (IF m <= N THEN N - m + 1 ELSE 0) = N - n
    BY <2>1, <2>2
  <2>7. \A i \in 1 .. N - n : m + i - 1 = n + i
    BY <2>1, <2>2
  <2> QED
    BY <2>3, <2>5, <2>6, <2>7
<1>5. areEntries(a) /\ areEntries(b)
  BY <1>1, <1>3, <1>4 DEF areEntries
<1> QED
  BY <1>2, <1>3, <1>4, <1>5

LEMMA EntriesCut ==
  ASSUME NEW s, areEntries(s), NEW n \in 0 .. Len(s),
         NEW a, a = SubSeq(s, 1, n), NEW b, b = SubSeq(s, n + 1, Len(s))
  PROVE  /\ areEntries(a) /\ areEntries(b) /\ Len(a) = n /\ Len(b) = Len(s) - n
         /\ \A i \in 1 .. Len(s) - n : b[i] = s[n + i]
<1>1. isCut(s, n, a, b)
  BY DEF isCut
<1>2. areParts(s, n, a, b)
  BY ONLY areEntries(s), <1>1, CutFacts
<1> QED
  BY ONLY <1>2 DEF areParts

\* Both parts together count what the whole does.
LEMMA CutTotals ==
  ASSUME NEW s, areEntries(s), NEW n \in 0 .. Len(s)
  PROVE  totalSize(s) = totalSize(SubSeq(s, 1, n)) + totalSize(SubSeq(s, n + 1, Len(s)))
<1>1. PICK a, b : a = SubSeq(s, 1, n) /\ b = SubSeq(s, n + 1, Len(s))
  OBVIOUS
<1>2a. isCut(s, n, a, b)
  BY <1>1 DEF isCut
<1>2. PICK N \in Nat : N = Len(s)
  BY EntriesFacts
<1>2b. areParts(s, n, a, b)
  BY ONLY areEntries(s), <1>2a, CutFacts
<1>3a. /\ areEntries(a) /\ areEntries(b) /\ Len(a) = n /\ Len(b) = Len(s) - n
       /\ \A i \in 1 .. Len(s) - n : b[i] = s[n + i]
  BY ONLY <1>2b DEF areParts
<1>3. areEntries(a) /\ Len(a) = n /\ \A i \in 1 .. n : a[i] = s[i]
  <2>1. PICK S : s \in Seq(S)
    BY DEF areEntries
  <2>2. \A i \in 1 .. n : a[i] = s[i]
    BY <1>1, <2>1, PrefixProperties
  <2> QED
    BY <1>3a, <2>2
<1>4. areEntries(b) /\ Len(b) = N - n /\ \A i \in 1 .. N - n : b[i] = s[n + i]
  BY <1>2, <1>3a
<1>5. areEntries(a) /\ areEntries(b)
  BY <1>3, <1>4
<1>6. PICK f : sums(f, s, Len(s)) /\ totalSize(s) = f[Len(s)] /\ \A m \in 0 .. Len(s) : f[m] \in Nat
  BY TotalSums
<1>7. f[0] = 0 /\ (\A m \in 1 .. N : f[m] = f[m - 1] + sizeOf(s[m])) /\ totalSize(s) = f[N]
  BY <1>2, <1>6 DEF sums
<1>8. totalSize(a) = f[n]
  <2>1. sums(f, a, Len(a))
    BY <1>2, <1>3, <1>7 DEF sums
  <2> QED
    BY <1>3, <2>1, SumsAgree
<1>9. PICK g : g = [k \in 0 .. N - n |-> f[n + k] - f[n]]
  OBVIOUS
<1>10. g[0] = 0
  <2>1. f[n] \in Nat /\ n + 0 = n /\ 0 \in 0 .. N - n
    BY <1>2, <1>6
  <2> QED
    BY <1>9, <2>1
<1>11. ASSUME NEW k \in 1 .. N - n PROVE g[k] = g[k - 1] + sizeOf(b[k])
  <2>1. n + k \in 1 .. N /\ n + k - 1 \in 0 .. N /\ (n + k) - 1 = n + (k - 1)
    BY <1>2
  <2>2. k \in 0 .. N - n /\ k - 1 \in 0 .. N - n
    BY <1>2
  <2>3. f[n + k] = f[n + (k - 1)] + sizeOf(s[n + k])
    BY <1>7, <2>1
  <2>4. f[n] \in Nat /\ f[n + (k - 1)] \in Nat
    BY <1>2, <1>6, <2>1
  <2>5. sizeOf(s[n + k]) \in Nat
    BY <1>2, <2>1, EntriesFacts
  <2>6. g[k] = f[n + k] - f[n] /\ g[k - 1] = f[n + (k - 1)] - f[n]
    BY <1>9, <2>2
  <2>7. b[k] = s[n + k]
    BY <1>4
  <2>8. PICK x \in Nat, y \in Nat, z \in Nat : x = f[n] /\ y = f[n + (k - 1)] /\ z = sizeOf(s[n + k])
    BY <2>4, <2>5
  <2>9. g[k] = (y + z) - x /\ g[k - 1] = y - x
    BY <2>3, <2>6, <2>8
  <2>10. sizeOf(b[k]) = z
    BY <2>7, <2>8
  <2>11. (y + z) - x = (y - x) + z
    OBVIOUS
  <2> QED
    BY <2>9, <2>10, <2>11, Zenon
<1>12. totalSize(b) = g[N - n]
  <2>1. sums(g, b, Len(b))
    BY <1>4, <1>10, <1>11 DEF sums
  <2> QED
    BY <1>4, <1>5, <2>1, SumsAgree
<1>13. g[N - n] = f[N] - f[n]
  <2>1. N - n \in 0 .. N - n /\ n + (N - n) = N
    BY <1>2
  <2> QED
    BY <1>9, <2>1
<1>14. f[N] \in Nat /\ f[n] \in Nat
  BY <1>2, <1>6
<1>15. totalSize(s) = totalSize(a) + totalSize(b)
  BY <1>7, <1>8, <1>12, <1>13, <1>14
<1> QED
  BY <1>1, <1>15

LEMMA EntryAdded ==
  ASSUME NEW s, areEntries(s), NEW x, isEntry(x), NEW t, t = Append(s, x)
  PROVE  /\ areEntries(t) /\ Len(t) = Len(s) + 1
         /\ totalSize(t) = totalSize(s) + sizeOf(x)
<1>1. PICK S : s \in Seq(S) /\ \A y \in S : isEntry(y)
  BY DEF areEntries
<1>2. PICK U : U = S \cup {x}
  OBVIOUS
<1>3. s \in Seq(U) /\ x \in U /\ \A y \in U : isEntry(y)
  BY <1>1, <1>2, SeqMonotonic
<1>4. t \in Seq(U) /\ Len(t) = Len(s) + 1 /\ (\A i \in 1 .. Len(s) : t[i] = s[i]) /\ t[Len(s) + 1] = x
  BY <1>3, AppendProperties
<1>5. areEntries(t)
  BY <1>3, <1>4 DEF areEntries
<1>6. totalSize(t) = totalSize(s) + sizeOf(t[Len(t)])
  BY <1>4, <1>5, TotalExtends
<1> QED
  BY <1>4, <1>5, <1>6

LEMMA LastEntry ==
  ASSUME NEW s, areEntries(s), s # <<>>
  PROVE  /\ isEntry(Last(s)) /\ areEntries(Front(s)) /\ Len(Front(s)) = Len(s) - 1
         /\ totalSize(s) = totalSize(Front(s)) + sizeOf(Last(s))
<1>1. PICK S : s \in Seq(S) /\ \A y \in S : isEntry(y)
  BY DEF areEntries
<1>2. PICK t : t = Front(s)
  OBVIOUS
<1>3. t \in Seq(S) /\ Len(t) = Len(s) - 1 /\ \A i \in 1 .. Len(s) - 1 : t[i] = s[i]
  BY <1>1, <1>2, FrontProperties
<1>4. Last(s) \in S /\ Len(s) \in Nat \ {0} /\ Last(s) = s[Len(s)]
  BY <1>1, LastIsElement
<1>5. areEntries(t)
  BY <1>1, <1>3 DEF areEntries
<1>6. Len(s) = Len(t) + 1
  BY <1>3, <1>4
<1>7. totalSize(s) = totalSize(t) + sizeOf(s[Len(s)])
  BY <1>3, <1>5, <1>6, TotalExtends
<1> QED
  BY <1>1, <1>2, <1>3, <1>4, <1>5, <1>7

-----------------------------------------------------------------------------
(* The history and the engine.                                             *)

isHistory(h) ==
    /\ h = [undo |-> h.undo, redo |-> h.redo, bytes |-> h.bytes, evicted |-> h.evicted]
    /\ areEntries(h.undo) /\ areEntries(h.redo)
    /\ h.bytes = totalSize(h.undo) + totalSize(h.redo) /\ h.bytes <= MaxBytes
    /\ Len(h.undo) + Len(h.redo) <= MaxEntries

isIntact(e) ==
    /\ DOMAIN e = {"ok", "document", "revision", "history"}
    /\ isDocument(e.document) /\ isHistory(e.history)

isEngine(e) == e.ok => isIntact(e)

LEMMA FailedIsEngine == isEngine(Failed)
BY FailedIsStep DEF isEngine

\* Do the entries after the n-th keep to the budget?
fits(all, n) ==
    LET left == SubSeq(all, n + 1, Len(all))
    IN  Len(left) <= MaxEntries /\ totalSize(left) <= MaxBytes

\* There is a least number of entries to evict: all of them would do.
LEMMA EvictionEnds ==
  ASSUME NEW all, areEntries(all)
  PROVE  \E n \in 0 .. Len(all) : fits(all, n) /\ \A m \in 0 .. n - 1 : ~fits(all, m)
<1>1. PICK N \in Nat : N = Len(all)
  BY EntriesFacts
<1>2. PICK B : B = {n \in 0 .. N : fits(all, n)}
  OBVIOUS
<1>3. fits(all, N)
  <2>1. PICK left : left = SubSeq(all, N + 1, Len(all))
    OBVIOUS
  <2>2. N \in 0 .. Len(all)
    BY <1>1
  <2>3. PICK front : front = SubSeq(all, 1, N)
    OBVIOUS
  <2>4. areEntries(left) /\ Len(left) = Len(all) - N
    BY <2>1, <2>2, <2>3, EntriesCut
  <2>5. Len(left) = 0
    BY <1>1, <2>4
  <2>6. totalSize(left) = 0
    <3>1. PICK f : sums(f, left, Len(left)) /\ totalSize(left) = f[Len(left)]
      BY <2>4, TotalSums
    <3> QED
      BY <2>5, <3>1 DEF sums
  <2>7. MaxEntries \in Nat /\ MaxBytes \in Nat
    BY EngineAssumption
  <2> QED
    BY <2>1, <2>5, <2>6, <2>7 DEF fits
<1>4. B \in SUBSET Nat /\ B # {}
  BY <1>1, <1>2, <1>3
<1>5. PICK n \in B : \A m \in B : n <= m
  BY <1>4, LeastNatural
<1>6. n \in 0 .. N /\ fits(all, n)
  BY <1>2, <1>5
<1>7. ASSUME NEW m \in 0 .. n - 1 PROVE ~fits(all, m)
  <2>1. m \in 0 .. N /\ ~(n <= m)
    BY <1>6
  <2>2. m \notin B
    BY <1>5, <2>1
  <2> QED
    BY <1>2, <2>1, <2>2
<1> QED
  BY <1>1, <1>6, <1>7

\* What eviction leaves is within the budget, and the bytes are counted right.
LEMMA RecordedIsHistory ==
  ASSUME NEW h, isHistory(h), NEW x, isEntry(x), NEW r, r = recordHistory(h, x)
  PROVE  isHistory(r)
<1>1. PICK all : all = Append(h.undo, x)
  OBVIOUS
<1>2. areEntries(h.undo) /\ areEntries(h.redo)
      /\ h.bytes = totalSize(h.undo) + totalSize(h.redo)
  BY DEF isHistory
<1>3. areEntries(all) /\ totalSize(all) = totalSize(h.undo) + sizeOf(x)
  BY <1>1, <1>2, EntryAdded
<1>4. PICK n : n = CHOOSE k \in 0 .. Len(all) : fits(all, k) /\ \A m \in 0 .. k - 1 : ~fits(all, m)
  OBVIOUS
<1>5. n \in 0 .. Len(all) /\ fits(all, n)
  BY <1>3, <1>4, EvictionEnds
<1>6. PICK taken, left : taken = SubSeq(all, 1, n) /\ left = SubSeq(all, n + 1, Len(all))
  OBVIOUS
<1>7. areEntries(taken) /\ areEntries(left) /\ totalSize(all) = totalSize(taken) + totalSize(left)
  <2>1. n \in 0 .. Len(all)
    BY <1>5
  <2>2. taken = SubSeq(all, 1, n)
    BY <1>6
  <2>3. left = SubSeq(all, n + 1, Len(all))
    BY <1>6
  <2>4. areEntries(all)
    BY <1>3
  <2>5. areEntries(taken)
    BY <2>1, <2>2, <2>3, <2>4, EntriesCut
  <2>6. areEntries(left)
    BY <2>1, <2>2, <2>3, <2>4, EntriesCut
  <2>7. totalSize(all) \in Nat /\ totalSize(taken) \in Nat /\ totalSize(left) \in Nat
    BY <2>4, <2>5, <2>6, TotalIsNat
  <2>8. totalSize(all) = totalSize(taken) + totalSize(left)
    BY <2>1, <2>2, <2>3, <2>4, CutTotals
  <2> QED
    BY <2>5, <2>6, <2>8
<1>8. Len(left) <= MaxEntries /\ totalSize(left) <= MaxBytes
  BY <1>5, <1>6 DEF fits
<1>9. PICK b, v : b = h.bytes + sizeOf(x) - (totalSize(h.redo) + totalSize(taken)) /\ v = h.evicted + n
  OBVIOUS
<1>10. r = [undo |-> left, redo |-> <<>>, bytes |-> b, evicted |-> v]
  BY <1>1, <1>4, <1>6, <1>9, Zenon DEF recordHistory, fits
<1>11. r.undo = left /\ r.redo = <<>> /\ r.bytes = b /\ r.evicted = v
  BY <1>10
<1>12. b = totalSize(left)
  <2>1. totalSize(h.undo) \in Nat /\ totalSize(h.redo) \in Nat /\ totalSize(taken) \in Nat
        /\ totalSize(left) \in Nat /\ totalSize(all) \in Nat
    BY <1>2, <1>3, <1>7, TotalIsNat
  <2>2. sizeOf(x) \in Nat
    <3>1. PICK T : x.operations \in Seq(T)
      BY DEF isEntry, areOperations
    <3> QED
      BY <3>1, LenProperties DEF sizeOf
  <2>3. PICK tu \in Nat, tr \in Nat, tg \in Nat, tl \in Nat, z \in Nat :
            /\ tu = totalSize(h.undo) /\ tr = totalSize(h.redo) /\ tg = totalSize(taken)
            /\ tl = totalSize(left) /\ z = sizeOf(x)
    BY <2>1, <2>2
  <2>4. tu + z = tg + tl /\ b = ((tu + tr) + z) - (tr + tg)
    BY <1>2, <1>3, <1>7, <1>9, <2>3
  <2>5. b = tl
    BY <2>4
  <2> QED
    BY <2>3, <2>5
<1>13. totalSize(<<>>) = 0 /\ areEntries(<<>>) /\ Len(<<>>) = 0
  BY TotalOfNone, EmptySeq
<1>14. Len(left) \in Nat /\ totalSize(left) \in Nat
  BY <1>7, EntriesFacts, TotalIsNat
<1>15. r = [undo |-> r.undo, redo |-> r.redo, bytes |-> r.bytes, evicted |-> r.evicted]
  BY <1>10
<1>16. r.bytes = totalSize(r.undo) + totalSize(r.redo) /\ r.bytes <= MaxBytes
       /\ Len(r.undo) + Len(r.redo) <= MaxEntries
  BY <1>8, <1>11, <1>12, <1>13, <1>14
<1> QED
  BY <1>7, <1>11, <1>13, <1>15, <1>16 DEF isHistory

\* A committed patch leaves a document, and a history within its budget.
LEMMA CommitIsEngine ==
  ASSUME NEW e, isIntact(e), NEW tr, NEW ops, areOperations(ops), NEW recorded \in BOOLEAN,
         NEW cs \in Seq(Command), NEW r, r = commitPatch(e, tr, ops, recorded, cs)
  PROVE  isEngine(r) /\ (r.ok /\ ~recorded => r.history = e.history)
<1>1. CASE r = Failed
  BY <1>1, FailedIsEngine, FailedIsStep
<1>2. CASE r # Failed
  <2>1. PICK done : done = applyOperations(draftOf(e.document), ops)
    OBVIOUS
  <2>2. PICK next : next = normalized(e, done.draft, ops)
    OBVIOUS
  <2>3. PICK no : no = FALSE
    OBVIOUS
  <2>4. PICK x : x = [transaction |-> tr, operations |-> ops, inverse |-> done.inverse,
                      commands |-> cs, before |-> e.document.nodes,
                      after |-> next.document.nodes, overRemote |-> no]
    OBVIOUS
  <2>5. PICK h : h = IF recorded THEN recordHistory(e.history, x) ELSE e.history
    OBVIOUS
  <2>6. r = IF ops = <<>> THEN Failed ELSE IF done.ok THEN IF next.ok
            THEN [ok |-> TRUE, document |-> next.document, revision |-> e.revision + 1, history |-> h]
            ELSE Failed ELSE Failed
    BY <2>1, <2>2, <2>3, <2>4, <2>5, Zenon DEF commitPatch, andThen
  <2>7. done.ok /\ next.ok
    BY <1>2, <2>6, Zenon
  <2>8. r = [ok |-> TRUE, document |-> next.document, revision |-> e.revision + 1, history |-> h]
    BY <1>2, <2>6, Zenon
  <2>9. DOMAIN r = {"ok", "document", "revision", "history"} /\ r.document = next.document /\ r.history = h
    BY <2>8
  <2>10. isDocument(e.document) /\ isHistory(e.history)
    BY DEF isIntact
  <2>11. PICK d : d = draftOf(e.document)
    OBVIOUS
  <2>12. isDraft(d) /\ onlyFields(e.document.nodes, d)
    BY <2>10, <2>11, DraftOfDocument
  <2>13. done = applyOperations(d, ops)
    BY <2>1, <2>11
  <2>14. isStep(done)
         /\ ((\A k \in DOMAIN ops : isFieldOperation(ops[k])) => onlyFields(e.document.nodes, done.draft))
    BY <2>7, <2>12, <2>13, OperationsAreSteps
  <2>15. isDraft(done.draft) /\ areOperations(done.inverse)
    BY <2>7, <2>14 DEF isStep
  <2>16. isDocument(next.document)
    BY <2>2, <2>7, <2>10, <2>14, <2>15, NormalizedIsDocument
  <2>17. x.operations = ops /\ x.inverse = done.inverse /\ x.commands = cs
    BY <2>4
  <2>18. x = [transaction |-> x.transaction, operations |-> x.operations,
            inverse |-> x.inverse, commands |-> x.commands,
            before |-> x.before, after |-> x.after, overRemote |-> x.overRemote]
    BY <2>4
  <2>19. isEntry(x)
    BY <2>15, <2>17, <2>18 DEF isEntry
  <2>20. isHistory(recordHistory(e.history, x))
    BY <2>10, <2>19, RecordedIsHistory
  <2>21. isHistory(h)
    BY <2>5, <2>10, <2>20
  <2>22. ~recorded => h = e.history
    BY <2>5
  <2> QED
    BY <2>9, <2>16, <2>21, <2>22 DEF isEngine, isIntact
<1> QED
  BY <1>1, <1>2

\* So does a batch.
LEMMA CapturedIsEngine ==
  ASSUME NEW e, isIntact(e), NEW tr, NEW cs \in Seq(Command), NEW r, r = executeCapturedBatch(e, tr, cs)
  PROVE  isEngine(r)
<1>1. PICK c : c = compileBatch(e, cs)
  OBVIOUS
<1>2. r = IF c.ok THEN commitPatch(e, tr, c.operations, TRUE, cs) ELSE Failed
  BY <1>1, Zenon DEF executeCapturedBatch, andThen
<1>3. isDraft(draftOf(e.document))
  BY DraftOfDocument DEF isIntact
<1>4. isBatch(c)
  BY <1>1, <1>3, BatchCompiles
<1>5. CASE c.ok
  <2>1. areOperations(c.operations)
    BY <1>4, <1>5 DEF isBatch
  <2>2. PICK yes \in BOOLEAN : yes = TRUE
    OBVIOUS
  <2>3. r = commitPatch(e, tr, c.operations, yes, cs)
    BY <1>2, <1>5, <2>2, Zenon
  <2> QED
    BY <2>1, <2>3, CommitIsEngine
<1>6. CASE ~c.ok
  <2>1. r = Failed
    BY <1>2, <1>6, Zenon
  <2> QED
    BY <2>1, FailedIsEngine
<1> QED
  BY <1>5, <1>6

\* An entry taken back.
LEMMA BackIsEngine ==
  ASSUME NEW e, isEngine(e), NEW x, isEntry(x), NEW r, r = takeBack(e, x)
  PROVE  isEngine(r)
<1>1. r = IF e.ok THEN commitPatch(e, 0, x.inverse, FALSE, <<>>) ELSE Failed
  BY Zenon DEF takeBack, andThen
<1>2. CASE e.ok
  <2>1. PICK no \in BOOLEAN : no = FALSE
    OBVIOUS
  <2>2. PICK none \in Seq(Command) : none = <<>>
    BY EmptySeq
  <2>3. PICK ops : ops = x.inverse
    OBVIOUS
  <2>4. r = commitPatch(e, 0, ops, no, none)
    BY <1>1, <1>2, <2>1, <2>2, <2>3, Zenon
  <2>5. isIntact(e) /\ areOperations(ops)
    BY <1>2, <2>3 DEF isEngine, isEntry
  <2> QED
    BY <2>4, <2>5, CommitIsEngine
<1>3. CASE ~e.ok
  <2>1. r = Failed
    BY <1>1, <1>3, Zenon
  <2> QED
    BY <2>1, FailedIsEngine
<1> QED
  BY <1>2, <1>3

\* An entry replayed, by its commands or by its operations.
LEMMA ReplayIsEngine ==
  ASSUME NEW e, isEngine(e), NEW x, isEntry(x), NEW r, r = replay(e, x)
  PROVE  isEngine(r)
<1>1. r = IF e.ok THEN IF x.commands = <<>>
              THEN commitPatch(e, x.transaction, x.operations, TRUE, <<>>)
              ELSE executeCapturedBatch(e, x.transaction, x.commands)
          ELSE Failed
  BY Zenon DEF replay, andThen
<1>2. CASE e.ok
  <2>1. PICK yes \in BOOLEAN : yes = TRUE
    OBVIOUS
  <2>2. PICK none \in Seq(Command) : none = <<>>
    BY EmptySeq
  <2>3. PICK ops, tr, cs : ops = x.operations /\ tr = x.transaction /\ cs = x.commands
    OBVIOUS
  <2>4. r = IF x.commands = <<>> THEN commitPatch(e, tr, ops, yes, none)
            ELSE executeCapturedBatch(e, tr, cs)
    BY <1>1, <1>2, <2>1, <2>2, <2>3, Zenon
  <2>5. isIntact(e) /\ areOperations(ops) /\ cs \in Seq(Command)
    BY <1>2, <2>3 DEF isEngine, isEntry
  <2>6. isEngine(commitPatch(e, tr, ops, yes, none))
    BY <2>5, CommitIsEngine
  <2>7. isEngine(executeCapturedBatch(e, tr, cs))
    BY <2>5, CapturedIsEngine
  <2> QED
    BY <2>4, <2>6, <2>7, Zenon
<1>3. CASE ~e.ok
  <2>1. r = Failed
    BY <1>1, <1>3, Zenon
  <2> QED
    BY <2>1, FailedIsEngine
<1> QED
  BY <1>2, <1>3

\* Any number of entries taken back, the last one first.
LEMMA RolledBackIsEngine ==
  ASSUME NEW e, isEngine(e), NEW s, areEntries(s), NEW r, r = rolledBack(s, e)
  PROVE  isEngine(r)
<1> DEFINE defined(f) == f = [n \in 0 .. Len(s) |-> IF n = 0 THEN e ELSE takeBack(f[n - 1], s[Len(s) + 1 - n])]
<1>1. PICK f : f = CHOOSE h : defined(h)
  OBVIOUS
<1>2. r = f[Len(s)]
  BY <1>1, Zenon DEF rolledBack
<1>3. PICK N \in Nat : N = Len(s)
  BY EntriesFacts
<1> DEFINE upTo(k, g) == g = [n \in 0 .. k |-> IF n = 0 THEN e ELSE takeBack(g[n - 1], s[Len(s) + 1 - n])]
           T == {k \in Nat : \E g : upTo(k, g)}
<1>4. 0 \in T
  <2>1. PICK g : g = [n \in 0 .. 0 |-> e]
    OBVIOUS
  <2>2. \A n \in 0 .. 0 : n = 0
    OBVIOUS
  <2>3. g = [n \in 0 .. 0 |-> IF n = 0 THEN e ELSE takeBack(g[n - 1], s[Len(s) + 1 - n])]
    BY <2>1, <2>2
  <2> QED
    BY <2>3
<1>5. ASSUME NEW k \in Nat, k \in T PROVE k + 1 \in T
  <2>1. PICK g : upTo(k, g)
    BY <1>5
  <2>2. PICK last : last = takeBack(g[k], s[Len(s) + 1 - (k + 1)])
    OBVIOUS
  <2>3. PICK h : h = [n \in 0 .. k + 1 |-> IF n = k + 1 THEN last ELSE g[n]]
    OBVIOUS
  <2>4. ASSUME NEW n \in 0 .. k + 1 PROVE h[n] = IF n = 0 THEN e ELSE takeBack(h[n - 1], s[Len(s) + 1 - n])
    <3>1. CASE n = k + 1
      <4>1. h[n] = last /\ n # 0 /\ n - 1 = k
        BY <2>3, <3>1
      <4>2. h[n - 1] = g[k]
        BY <2>3, <4>1
      <4> QED
        BY <2>2, <3>1, <4>1, <4>2
    <3>2. CASE n # k + 1
      <4>1. n \in 0 .. k /\ h[n] = g[n]
        BY <2>3, <3>2
      <4>2. g[n] = IF n = 0 THEN e ELSE takeBack(g[n - 1], s[Len(s) + 1 - n])
        BY <2>1, <4>1
      <4>3. n # 0 => h[n - 1] = g[n - 1]
        BY <2>3, <4>1
      <4> QED
        BY <4>1, <4>2, <4>3
    <3> QED
      BY <3>1, <3>2
  <2>5. h = [n \in 0 .. k + 1 |-> IF n = 0 THEN e ELSE takeBack(h[n - 1], s[Len(s) + 1 - n])]
    BY <2>3, <2>4
  <2> QED
    BY <2>5
<1>6. PICK g : upTo(N, g)
  <2>1. Nat \subseteq T
    <3> HIDE DEF T
    <3> QED
      BY <1>4, <1>5, CountingUp
  <2> QED
    BY <2>1
<1>7. defined(g)
  BY <1>3, <1>6, Zenon
<1>8. defined(f)
  <2> HIDE DEF defined
  <2> QED
    BY <1>1, <1>7
<1>9. \A n \in 0 .. N : f[n] = IF n = 0 THEN e ELSE takeBack(f[n - 1], s[Len(s) + 1 - n])
  BY <1>3, <1>8
<1>10. PICK G : G = {x \in {f[n] : n \in 0 .. N} : isEngine(x)}
  OBVIOUS
<1>11. f[0] \in G
  <2>1. 0 \in 0 .. N
    BY <1>3
  <2>2. f[0] = e
    BY <1>9, <2>1
  <2> QED
    BY <1>10, <2>1, <2>2
<1>12. ASSUME NEW n \in 0 + 1 .. N, f[n - 1] \in G PROVE f[n] \in G
  <2>1. n \in 1 .. N /\ n \in 0 .. N /\ n # 0
    BY <1>3
  <2>2. PICK d, x, i : d = f[n - 1] /\ x = f[n] /\ i = Len(s) + 1 - n
    OBVIOUS
  <2>3. x = takeBack(d, s[i])
    BY <1>9, <2>1, <2>2
  <2>4. isEngine(d)
    BY <1>10, <1>12, <2>2
  <2>5. i \in 1 .. Len(s)
    BY <1>3, <2>1, <2>2
  <2>6. isEntry(s[i])
    BY <2>5, EntriesFacts
  <2>7. isEngine(x)
    BY <2>3, <2>4, <2>6, BackIsEngine
  <2> QED
    BY <1>10, <2>1, <2>2, <2>7
<1>13. \A n \in 0 .. N : f[n] \in G
  <2> HIDE DEF defined
  <2> QED
    BY <1>3, <1>11, <1>12, ValueByValue
<1>14. f[N] \in G
  BY <1>3, <1>13
<1> QED
  BY <1>2, <1>3, <1>10, <1>14

\* Any number of entries replayed.
LEMMA ReplayedIsEngine ==
  ASSUME NEW e, isEngine(e), NEW s, areEntries(s), NEW r, r = replayed(s, e)
  PROVE  isEngine(r)
<1> DEFINE defined(f) == f = [n \in 0 .. Len(s) |-> IF n = 0 THEN e ELSE replay(f[n - 1], s[n])]
<1>1. PICK f : f = CHOOSE h : defined(h)
  OBVIOUS
<1>2. r = f[Len(s)]
  BY <1>1, Zenon DEF replayed
<1>3. PICK N \in Nat : N = Len(s)
  BY EntriesFacts
<1> DEFINE upTo(k, g) == g = [n \in 0 .. k |-> IF n = 0 THEN e ELSE replay(g[n - 1], s[n])]
           T == {k \in Nat : \E g : upTo(k, g)}
<1>4. 0 \in T
  <2>1. PICK g : g = [n \in 0 .. 0 |-> e]
    OBVIOUS
  <2>2. \A n \in 0 .. 0 : n = 0
    OBVIOUS
  <2>3. g = [n \in 0 .. 0 |-> IF n = 0 THEN e ELSE replay(g[n - 1], s[n])]
    BY <2>1, <2>2
  <2> QED
    BY <2>3
<1>5. ASSUME NEW k \in Nat, k \in T PROVE k + 1 \in T
  <2>1. PICK g : upTo(k, g)
    BY <1>5
  <2>2. PICK last : last = replay(g[k], s[k + 1])
    OBVIOUS
  <2>3. PICK h : h = [n \in 0 .. k + 1 |-> IF n = k + 1 THEN last ELSE g[n]]
    OBVIOUS
  <2>4. ASSUME NEW n \in 0 .. k + 1 PROVE h[n] = IF n = 0 THEN e ELSE replay(h[n - 1], s[n])
    <3>1. CASE n = k + 1
      <4>1. h[n] = last /\ n # 0 /\ n - 1 = k
        BY <2>3, <3>1
      <4>2. h[n - 1] = g[k]
        BY <2>3, <4>1
      <4> QED
        BY <2>2, <3>1, <4>1, <4>2
    <3>2. CASE n # k + 1
      <4>1. n \in 0 .. k /\ h[n] = g[n]
        BY <2>3, <3>2
      <4>2. g[n] = IF n = 0 THEN e ELSE replay(g[n - 1], s[n])
        BY <2>1, <4>1
      <4>3. n # 0 => h[n - 1] = g[n - 1]
        BY <2>3, <4>1
      <4> QED
        BY <4>1, <4>2, <4>3
    <3> QED
      BY <3>1, <3>2
  <2>5. h = [n \in 0 .. k + 1 |-> IF n = 0 THEN e ELSE replay(h[n - 1], s[n])]
    BY <2>3, <2>4
  <2> QED
    BY <2>5
<1>6. PICK g : upTo(N, g)
  <2>1. Nat \subseteq T
    <3> HIDE DEF T
    <3> QED
      BY <1>4, <1>5, CountingUp
  <2> QED
    BY <2>1
<1>7. defined(g)
  BY <1>3, <1>6, Zenon
<1>8. defined(f)
  <2> HIDE DEF defined
  <2> QED
    BY <1>1, <1>7
<1>9. \A n \in 0 .. N : f[n] = IF n = 0 THEN e ELSE replay(f[n - 1], s[n])
  BY <1>3, <1>8
<1>10. PICK G : G = {x \in {f[n] : n \in 0 .. N} : isEngine(x)}
  OBVIOUS
<1>11. f[0] \in G
  <2>1. 0 \in 0 .. N
    BY <1>3
  <2>2. f[0] = e
    BY <1>9, <2>1
  <2> QED
    BY <1>10, <2>1, <2>2
<1>12. ASSUME NEW n \in 0 + 1 .. N, f[n - 1] \in G PROVE f[n] \in G
  <2>1. n \in 1 .. N /\ n \in 0 .. N /\ n # 0
    BY <1>3
  <2>2. PICK d, x, i : d = f[n - 1] /\ x = f[n] /\ i = n
    OBVIOUS
  <2>3. x = replay(d, s[i])
    BY <1>9, <2>1, <2>2
  <2>4. isEngine(d)
    BY <1>10, <1>12, <2>2
  <2>5. i \in 1 .. Len(s)
    BY <1>3, <2>1, <2>2
  <2>6. isEntry(s[i])
    BY <2>5, EntriesFacts
  <2>7. isEngine(x)
    BY <2>3, <2>4, <2>6, ReplayIsEngine
  <2> QED
    BY <1>10, <2>1, <2>2, <2>7
<1>13. \A n \in 0 .. N : f[n] \in G
  <2> HIDE DEF defined
  <2> QED
    BY <1>3, <1>11, <1>12, ValueByValue
<1>14. f[N] \in G
  BY <1>3, <1>13
<1> QED
  BY <1>2, <1>3, <1>10, <1>14

\* Entries below operations of the DataSource.
overRemote(s) == [i \in DOMAIN s |-> [s[i] EXCEPT !.overRemote = TRUE]]

LEMMA OverRemoteFits ==
  ASSUME NEW s, areEntries(s), NEW t, t = overRemote(s)
  PROVE  areEntries(t) /\ Len(t) = Len(s) /\ totalSize(t) = totalSize(s)
<1>1. PICK N \in Nat : N = Len(s) /\ DOMAIN s = 1 .. N
  BY EntriesFacts
<1>2. PICK yes : yes = TRUE
  OBVIOUS
<1>3. t = [i \in 1 .. N |-> [s[i] EXCEPT !.overRemote = yes]]
  BY <1>1, <1>2, Zenon DEF overRemote
<1>4. ASSUME NEW i \in 1 .. N PROVE isEntry(t[i]) /\ sizeOf(t[i]) = sizeOf(s[i])
  <2>1. PICK x : x = s[i]
    OBVIOUS
  <2>2. isEntry(x)
    BY <1>1, <2>1, EntriesFacts
  <2>3. PICK y : y = [x EXCEPT !.overRemote = yes]
    OBVIOUS
  <2>4. t[i] = y
    BY <1>3, <2>1, <2>3
  <2>5. PICK a, b, c, d, f, g, h : x = [transaction |-> a, operations |-> b, inverse |-> c, commands |-> d,
                                       before |-> f, after |-> g, overRemote |-> h]
    BY <2>2 DEF isEntry
  <2>6. x.operations = b /\ x.inverse = c /\ x.commands = d
    BY <2>5
  <2>7. y = [transaction |-> a, operations |-> b, inverse |-> c, commands |-> d,
             before |-> f, after |-> g, overRemote |-> yes]
    BY <2>3, <2>5
  <2>8. y.operations = b /\ y.inverse = c /\ y.commands = d
    BY <2>7
  <2>9. y = [transaction |-> y.transaction, operations |-> y.operations,
            inverse |-> y.inverse, commands |-> y.commands,
            before |-> y.before, after |-> y.after, overRemote |-> y.overRemote]
    BY <2>7
  <2>10. areOperations(b) /\ areOperations(c) /\ d \in Seq(Command)
    BY <2>2, <2>6 DEF isEntry
  <2>11. isEntry(y)
    BY <2>8, <2>9, <2>10 DEF isEntry
  <2>12. sizeOf(y) = sizeOf(x)
    BY <2>6, <2>8 DEF sizeOf
  <2> QED
    BY <2>1, <2>4, <2>11, <2>12
<1>5. areEntries(t) /\ Len(t) = N
  <2>1. PICK S : S = {t[i] : i \in 1 .. N}
    OBVIOUS
  <2>2. t \in [1 .. N -> S]
    BY <1>3, <2>1
  <2>3. t \in Seq(S) /\ Len(t) = N
    BY <2>2, SeqDef, LenProperties
  <2> QED
    BY <1>4, <2>1, <2>3 DEF areEntries
<1>6. totalSize(t) = totalSize(s)
  BY <1>1, <1>4, <1>5, TotalIsSame
<1> QED
  BY <1>1, <1>5, <1>6

hasEnds(h) == h = [undo |-> h.undo, redo |-> h.redo, bytes |-> h.bytes, evicted |-> h.evicted]

\* A history, and one with another end.
LEMMA OtherEnd ==
  ASSUME NEW h, hasEnds(h), NEW u
  PROVE  /\ [h EXCEPT !.undo = u] = [undo |-> u, redo |-> h.redo, bytes |-> h.bytes, evicted |-> h.evicted]
         /\ [h EXCEPT !.redo = u] = [undo |-> h.undo, redo |-> u, bytes |-> h.bytes, evicted |-> h.evicted]
         /\ [h EXCEPT !.bytes = u] = [undo |-> h.undo, redo |-> h.redo, bytes |-> u, evicted |-> h.evicted]
<1>1. PICK a, b, c, d : h = [undo |-> a, redo |-> b, bytes |-> c, evicted |-> d]
  BY DEF hasEnds
<1>2. h.undo = a /\ h.redo = b /\ h.bytes = c /\ h.evicted = d
  BY <1>1
<1>3. [h EXCEPT !.undo = u] = [undo |-> u, redo |-> b, bytes |-> c, evicted |-> d]
  BY <1>1
<1>4. [h EXCEPT !.redo = u] = [undo |-> a, redo |-> u, bytes |-> c, evicted |-> d]
  BY <1>1
<1>5. [h EXCEPT !.bytes = u] = [undo |-> a, redo |-> b, bytes |-> u, evicted |-> d]
  BY <1>1
<1> QED
  BY <1>2, <1>3, <1>4, <1>5, Zenon

\* An engine with another history.
LEMMA OtherHistory ==
  ASSUME NEW e, "history" \in DOMAIN e, NEW h, NEW w, w = [e EXCEPT !.history = h]
  PROVE  DOMAIN w = DOMAIN e /\ w.history = h /\ w.document = e.document /\ w.ok = e.ok
OBVIOUS

LEMMA RemoteIsEngine ==
  ASSUME NEW e, isEngine(e), NEW foreign, areOperations(foreign), NEW r, r = withRemote(e, foreign)
  PROVE  isEngine(r)
<1>1. PICK no \in BOOLEAN : no = FALSE
  OBVIOUS
<1>2. PICK none \in Seq(Command) : none = <<>>
  BY EmptySeq
<1>3. PICK c : c = commitPatch(e, 0, foreign, no, none)
  OBVIOUS
<1>4. PICK u : u = overRemote(c.history.undo)
  OBVIOUS
<1>5. PICK w : w = [c EXCEPT !.history.undo = u]
  OBVIOUS
<1>6. r = IF foreign = <<>> THEN e ELSE IF e.ok THEN IF c.ok THEN w ELSE Failed ELSE Failed
  BY <1>1, <1>2, <1>3, <1>4, <1>5, Zenon DEF withRemote, andThen, overRemote
<1>7. CASE r = Failed
  BY <1>7, FailedIsEngine
<1>8. CASE r = e
  BY <1>8
<1>9. CASE e.ok /\ c.ok /\ r = w
  <2>1. isIntact(e)
    BY <1>9 DEF isEngine
  <2>2. isEngine(c)
    BY <1>3, <2>1, CommitIsEngine
  <2>3. isIntact(c)
    BY <1>9, <2>2 DEF isEngine
  <2>4. isDocument(c.document) /\ isHistory(c.history) /\ DOMAIN c = {"ok", "document", "revision", "history"}
    BY <2>3 DEF isIntact
  <2>5. PICK h : h = c.history
    OBVIOUS
  <2>6. PICK g : g = [h EXCEPT !.undo = u]
    OBVIOUS
  <2>7. w = [c EXCEPT !.history = g]
    <3>1. w = [c EXCEPT !.history = [c.history EXCEPT !.undo = u]]
      BY <1>5
    <3> QED
      BY <2>5, <2>6, <3>1, Zenon
  <2>8. "history" \in DOMAIN c
    BY <2>4
  <2>9. DOMAIN w = DOMAIN c /\ w.history = g /\ w.document = c.document
    BY <2>7, <2>8, OtherHistory
  <2>10. isHistory(h)
    BY <2>4, <2>5
  <2>11. g = [undo |-> u, redo |-> h.redo, bytes |-> h.bytes, evicted |-> h.evicted]
    BY <2>6, <2>10, OtherEnd DEF isHistory, hasEnds
  <2>12. g.undo = u /\ g.redo = h.redo /\ g.bytes = h.bytes
         /\ g = [undo |-> g.undo, redo |-> g.redo, bytes |-> g.bytes, evicted |-> g.evicted]
    BY <2>11
  <2>13. /\ areEntries(h.undo) /\ areEntries(h.redo)
         /\ h.bytes = totalSize(h.undo) + totalSize(h.redo) /\ h.bytes <= MaxBytes
         /\ Len(h.undo) + Len(h.redo) <= MaxEntries
    BY <2>10 DEF isHistory
  <2>14. areEntries(u) /\ Len(u) = Len(h.undo) /\ totalSize(u) = totalSize(h.undo)
    BY <1>4, <2>5, <2>13, OverRemoteFits
  <2>15. isHistory(g)
    BY <2>12, <2>13, <2>14 DEF isHistory
  <2>16. isIntact(w)
    BY <2>4, <2>9, <2>15 DEF isIntact
  <2> QED
    BY <1>9, <2>16 DEF isEngine
<1> QED
  BY <1>6, <1>7, <1>8, <1>9, Zenon

\* An engine whose history has another end.
LEMMA UndoChanged ==
  ASSUME NEW e, "history" \in DOMAIN e, hasEnds(e.history), NEW a, NEW w, w = [e EXCEPT !.history.undo = a]
  PROVE  /\ DOMAIN w = DOMAIN e /\ w.document = e.document /\ w.ok = e.ok /\ hasEnds(w.history)
         /\ w.history.undo = a /\ w.history.redo = e.history.redo /\ w.history.bytes = e.history.bytes
<1>1. PICK h : h = e.history
  OBVIOUS
<1>2. PICK g : g = [h EXCEPT !.undo = a]
  OBVIOUS
<1>3. w = [e EXCEPT !.history = g]
  <2>1. w = [e EXCEPT !.history = [e.history EXCEPT !.undo = a]]
    OBVIOUS
  <2> QED
    BY <1>1, <1>2, <2>1, Zenon
<1>4. DOMAIN w = DOMAIN e /\ w.history = g /\ w.document = e.document /\ w.ok = e.ok
  BY <1>3, OtherHistory
<1>5. g = [undo |-> a, redo |-> h.redo, bytes |-> h.bytes, evicted |-> h.evicted]
  BY <1>1, <1>2, OtherEnd
<1>6. hasEnds(g) /\ g.undo = a /\ g.redo = h.redo /\ g.bytes = h.bytes
  BY <1>5 DEF hasEnds
<1> QED
  BY <1>1, <1>4, <1>6, Zenon

LEMMA RedoChanged ==
  ASSUME NEW e, "history" \in DOMAIN e, hasEnds(e.history), NEW a, NEW w, w = [e EXCEPT !.history.redo = a]
  PROVE  /\ DOMAIN w = DOMAIN e /\ w.document = e.document /\ w.ok = e.ok /\ hasEnds(w.history)
         /\ w.history.undo = e.history.undo /\ w.history.redo = a /\ w.history.bytes = e.history.bytes
<1>1. PICK h : h = e.history
  OBVIOUS
<1>2. PICK g : g = [h EXCEPT !.redo = a]
  OBVIOUS
<1>3. w = [e EXCEPT !.history = g]
  <2>1. w = [e EXCEPT !.history = [e.history EXCEPT !.redo = a]]
    OBVIOUS
  <2> QED
    BY <1>1, <1>2, <2>1, Zenon
<1>4. DOMAIN w = DOMAIN e /\ w.history = g /\ w.document = e.document /\ w.ok = e.ok
  BY <1>3, OtherHistory
<1>5. g = [undo |-> h.undo, redo |-> a, bytes |-> h.bytes, evicted |-> h.evicted]
  BY <1>1, <1>2, OtherEnd
<1>6. hasEnds(g) /\ g.undo = h.undo /\ g.redo = a /\ g.bytes = h.bytes
  BY <1>5 DEF hasEnds
<1> QED
  BY <1>1, <1>4, <1>6, Zenon

LEMMA BytesChanged ==
  ASSUME NEW e, "history" \in DOMAIN e, hasEnds(e.history), NEW a, NEW w, w = [e EXCEPT !.history.bytes = a]
  PROVE  /\ DOMAIN w = DOMAIN e /\ w.document = e.document /\ w.ok = e.ok /\ hasEnds(w.history)
         /\ w.history.undo = e.history.undo /\ w.history.redo = e.history.redo /\ w.history.bytes = a
<1>1. PICK h : h = e.history
  OBVIOUS
<1>2. PICK g : g = [h EXCEPT !.bytes = a]
  OBVIOUS
<1>3. w = [e EXCEPT !.history = g]
  <2>1. w = [e EXCEPT !.history = [e.history EXCEPT !.bytes = a]]
    OBVIOUS
  <2> QED
    BY <1>1, <1>2, <2>1, Zenon
<1>4. DOMAIN w = DOMAIN e /\ w.history = g /\ w.document = e.document /\ w.ok = e.ok
  BY <1>3, OtherHistory
<1>5. g = [undo |-> h.undo, redo |-> h.redo, bytes |-> a, evicted |-> h.evicted]
  BY <1>1, <1>2, OtherEnd
<1>6. hasEnds(g) /\ g.undo = h.undo /\ g.redo = h.redo /\ g.bytes = a
  BY <1>5 DEF hasEnds
<1> QED
  BY <1>1, <1>4, <1>6, Zenon


-----------------------------------------------------------------------------
(* The calls.                                                              *)

EngineInv == isDocument(document) /\ isHistory(history)

LEMMA StateIsIntact == ASSUME EngineInv PROVE isIntact(state)
<1>1. PICK e : e = state
  OBVIOUS
<1>2. DOMAIN e = {"ok", "document", "revision", "history"} /\ e.document = document /\ e.history = history
  BY <1>1 DEF state
<1> QED
  BY <1>1, <1>2 DEF isIntact, EngineInv

\* What a call ends in becomes the engine.
LEMMA ConcludedStands ==
  ASSUME NEW r, isEngine(r), conclude(r)
  PROVE  EngineInv'
<1>1. r.ok /\ become(r)
  BY DEF conclude
<1>2. document' = r.document /\ history' = r.history
  BY <1>1 DEF become
<1>3. isDocument(r.document) /\ isHistory(r.history)
  BY <1>1 DEF isEngine, isIntact
<1> QED
  BY <1>2, <1>3 DEF EngineInv

LEMMA BatchesAreCommands ==
  ASSUME NEW cs \in Batches
  PROVE  cs \in Seq(Command)
<1>1. PICK n \in {m \in 1 .. MaxBatch : inHistory + m <= MaxCommands /\ revision + m < MaxRevisions} :
        cs \in batchesOf(n)
  BY DEF Batches
<1>2. n \in Nat /\ n >= 1
  BY <1>1, EngineAssumption
<1>3. PICK c \in allowed : cs \in {<<c>> \o rest : rest \in [1 .. n - 1 -> Command]}
  BY <1>1 DEF batchesOf
<1>4. PICK rest \in [1 .. n - 1 -> Command] : cs = <<c>> \o rest
  BY <1>3
<1>5. c \in Command
  BY DEF allowed
<1>6. n - 1 \in Nat
  BY <1>2
<1>7. rest \in Seq(Command)
  BY <1>4, <1>6, SeqDef
<1>8. <<c>> \in Seq(Command)
  BY ONLY <1>5
<1> QED
  BY <1>4, <1>7, <1>8, ConcatProperties

LEMMA PatchesAreOperations ==
  ASSUME EngineInv, NEW ops \in RemotePatches
  PROVE  areOperations(ops)
<1>1. \/ ops \in {compileBatch(state, <<c>>).operations : c \in allowed}
      \/ ops \in {<<[op |-> "reorder", id |-> i, key |-> k]>> : i \in Ids, k \in PatchKeys}
  BY DEF RemotePatches
<1>2. CASE ops \in {compileBatch(state, <<c>>).operations : c \in allowed}
  <2>1. PICK c \in allowed : ops = compileBatch(state, <<c>>).operations
    BY <1>2
  <2>2. c \in Command
    BY DEF allowed
  <2>3. compileBatch(state, <<c>>).ok
    BY DEF allowed
  <2>4. <<c>> \in Seq(Command)
    BY ONLY <2>2
  <2>5. PICK cs \in Seq(Command) : cs = <<c>>
    BY <2>4, Zenon
  <2>6. PICK b : b = compileBatch(state, cs)
    OBVIOUS
  <2>7. isDraft(draftOf(state.document))
    BY StateIsIntact, DraftOfDocument DEF isIntact
  <2>8. isBatch(b)
    BY <2>6, <2>7, BatchCompiles
  <2>9. b.ok /\ ops = b.operations
    BY <2>1, <2>3, <2>5, <2>6, Zenon
  <2> QED
    BY <2>8, <2>9 DEF isBatch
<1>3. CASE ops \in {<<[op |-> "reorder", id |-> i, key |-> k]>> : i \in Ids, k \in PatchKeys}
  <2>1. PICK i \in Ids, k \in PatchKeys : ops = <<[op |-> "reorder", id |-> i, key |-> k]>>
    BY <1>3
  <2>2. PICK x : x = [op |-> "reorder", id |-> i, key |-> k]
    OBVIOUS
  <2>3. isOperation(x)
    BY <2>2 DEF isOperation, OperationKinds
  <2> QED
    BY <2>1, <2>2, <2>3, OneOperation
<1> QED
  BY <1>1, <1>2, <1>3

LEMMA BatchStands == ASSUME EngineInv, ExecuteBatch PROVE EngineInv'
<1>1. PICK cs \in Batches : conclude(executeCapturedBatch(state, revision + 1, cs))
  BY DEF ExecuteBatch
<1>2. cs \in Seq(Command)
  BY BatchesAreCommands
<1>3. PICK r : r = executeCapturedBatch(state, revision + 1, cs)
  OBVIOUS
<1>4. PICK e, tr : e = state /\ tr = revision + 1
  OBVIOUS
<1>5. isIntact(e)
  BY <1>4, StateIsIntact
<1>6. r = executeCapturedBatch(e, tr, cs)
  BY <1>3, <1>4
<1>7. isEngine(r)
  BY <1>2, <1>5, <1>6, CapturedIsEngine
<1>8. conclude(r)
  BY <1>1, <1>3
<1> QED
  BY <1>7, <1>8, ConcludedStands

LEMMA PatchStands == ASSUME EngineInv, ApplyPatch PROVE EngineInv'
<1>1. PICK ops \in Patches : conclude(commitPatch(state, revision + 1, ops, TRUE, <<>>))
  BY DEF ApplyPatch
<1>2. areOperations(ops)
  BY PatchesAreOperations DEF Patches
<1>3. PICK r : r = commitPatch(state, revision + 1, ops, TRUE, <<>>)
  OBVIOUS
<1>4. PICK e, tr : e = state /\ tr = revision + 1
  OBVIOUS
<1>5. PICK yes \in BOOLEAN : yes = TRUE
  OBVIOUS
<1>6. PICK none \in Seq(Command) : none = <<>>
  BY EmptySeq
<1>7. r = commitPatch(e, tr, ops, yes, none)
  BY <1>3, <1>4, <1>5, <1>6, Zenon
<1>8. isIntact(e)
  BY <1>4, StateIsIntact
<1>9. isEngine(r)
  BY <1>2, <1>7, <1>8, CommitIsEngine
<1>10. conclude(r)
  BY <1>1, <1>3
<1> QED
  BY <1>9, <1>10, ConcludedStands

LEMMA UndoStands == ASSUME EngineInv, Undo PROVE EngineInv'
<1>1. PICK h : h = history
  OBVIOUS
<1>2. h.undo # <<>> /\ isHistory(h)
  BY <1>1 DEF Undo, EngineInv
<1>3. PICK x, a, b : x = Last(h.undo) /\ a = Front(h.undo) /\ b = Append(h.redo, x)
  OBVIOUS
<1>4. PICK e, tr, ops, no, none : /\ e = state /\ tr = revision + 1 /\ ops = x.inverse
                                  /\ no = FALSE /\ none = <<>>
  OBVIOUS
<1>5. PICK u : u = commitPatch(e, tr, ops, no, none)
  OBVIOUS
<1>6. u = undone
  BY <1>1, <1>3, <1>4, <1>5, Zenon DEF undone
<1>7. /\ areEntries(h.undo) /\ areEntries(h.redo)
      /\ h.bytes = totalSize(h.undo) + totalSize(h.redo) /\ h.bytes <= MaxBytes
      /\ Len(h.undo) + Len(h.redo) <= MaxEntries /\ hasEnds(h)
  BY <1>2 DEF isHistory, hasEnds
<1>8. /\ isEntry(x) /\ areEntries(a) /\ Len(a) = Len(h.undo) - 1
      /\ totalSize(h.undo) = totalSize(a) + sizeOf(x)
  BY <1>2, <1>3, <1>7, LastEntry
<1>9. areEntries(b) /\ Len(b) = Len(h.redo) + 1 /\ totalSize(b) = totalSize(h.redo) + sizeOf(x)
  BY <1>3, <1>7, <1>8, EntryAdded
<1>10. isIntact(e)
  BY <1>4, StateIsIntact
<1>11. e.history = h
  BY <1>1, <1>4 DEF state
<1>12. no \in BOOLEAN /\ ~no /\ none \in Seq(Command)
  BY <1>4, EmptySeq
<1>13. areOperations(ops)
  BY <1>4, <1>8 DEF isEntry
<1>14. isEngine(u) /\ (u.ok => u.history = h)
  BY <1>5, <1>10, <1>11, <1>12, <1>13, CommitIsEngine
<1>15. PICK w : w = [u EXCEPT !.history.undo = a]
  OBVIOUS
<1>16. PICK r : r = IF u.ok THEN [u EXCEPT !.history.undo = Front(@), !.history.redo = Append(@, Last(history.undo))]
                    ELSE Failed
  OBVIOUS
<1>17. conclude(r)
  BY <1>6, <1>16, Zenon DEF Undo, andThen
<1>18. CASE ~u.ok
  <2>1. r = Failed
    BY <1>16, <1>18, Zenon
  <2> QED
    BY <1>17, <2>1, FailedIsEngine, ConcludedStands
<1>19. CASE u.ok
  <2>1. isIntact(u) /\ u.history = h
    BY <1>14, <1>19 DEF isEngine
  <2>2. DOMAIN u = {"ok", "document", "revision", "history"} /\ isDocument(u.document)
    BY <2>1 DEF isIntact
  <2>3. "history" \in DOMAIN u /\ hasEnds(u.history)
    BY <1>7, <2>1, <2>2
  <2>4. /\ DOMAIN w = DOMAIN u /\ w.document = u.document /\ hasEnds(w.history)
        /\ w.history.undo = a /\ w.history.redo = h.redo /\ w.history.bytes = h.bytes
    BY <1>15, <2>1, <2>3, UndoChanged
  <2>5. r = [w EXCEPT !.history.redo = b]
    <3>1. Front(u.history.undo) = a
      BY <1>3, <2>1
    <3>2. w = [u EXCEPT !.history.undo = Front(u.history.undo)]
      BY <1>15, <3>1
    <3>3. r = [w EXCEPT !.history.redo = Append(w.history.redo, Last(history.undo))]
      BY <1>16, <1>19, <3>2, Zenon
    <3>4. Append(w.history.redo, Last(history.undo)) = b
      BY <1>1, <1>3, <2>4, Zenon
    <3> QED
      BY <3>3, <3>4, Zenon
  <2>6. "history" \in DOMAIN w
    BY <2>3, <2>4
  <2>7. /\ DOMAIN r = DOMAIN w /\ r.document = w.document /\ hasEnds(r.history)
        /\ r.history.redo = b /\ r.history.undo = w.history.undo /\ r.history.bytes = w.history.bytes
    BY <2>4, <2>5, <2>6, RedoChanged
  <2>8. PICK g : g = r.history
    OBVIOUS
  <2>9. g.undo = a /\ g.redo = b /\ g.bytes = h.bytes /\ hasEnds(g)
    BY <2>4, <2>7, <2>8
  <2>10. totalSize(a) \in Nat /\ totalSize(h.redo) \in Nat /\ totalSize(h.undo) \in Nat
    BY <1>7, <1>8, TotalIsNat
  <2>11. sizeOf(x) \in Nat
    <3>1. PICK T : x.operations \in Seq(T)
      BY <1>8 DEF isEntry, areOperations
    <3> QED
      BY <3>1, LenProperties DEF sizeOf
  <2>12. Len(h.undo) \in Nat /\ Len(h.redo) \in Nat
    BY <1>7, EntriesFacts
  <2>13. g.bytes = totalSize(g.undo) + totalSize(g.redo)
    <3>1. PICK p \in Nat, q \in Nat, z \in Nat : p = totalSize(a) /\ q = totalSize(h.redo) /\ z = sizeOf(x)
      BY <2>10, <2>11
    <3>2. totalSize(h.undo) = p + z /\ totalSize(b) = q + z
      BY <1>8, <1>9, <3>1
    <3>3. h.bytes = (p + z) + q
      BY <1>7, <3>1, <3>2
    <3> QED
      BY <2>9, <3>1, <3>2, <3>3
  <2>14. Len(g.undo) + Len(g.redo) <= MaxEntries
    <3>1. PICK p \in Nat, q \in Nat : p = Len(h.undo) /\ q = Len(h.redo)
      BY <2>12
    <3>2. Len(g.undo) = p - 1 /\ Len(g.redo) = q + 1
      BY <1>8, <1>9, <2>9, <3>1
    <3>3. p + q <= MaxEntries /\ MaxEntries \in Nat
      BY <1>7, <3>1, EngineAssumption
    <3> QED
      BY <3>2, <3>3
  <2>15. isHistory(g)
    BY <1>7, <1>8, <1>9, <2>9, <2>13, <2>14 DEF isHistory, hasEnds
  <2>16. DOMAIN r = {"ok", "document", "revision", "history"} /\ isDocument(r.document)
    BY <2>2, <2>4, <2>7
  <2>17. isEngine(r)
    BY <2>8, <2>15, <2>16 DEF isEngine, isIntact
  <2> QED
    BY <1>17, <2>17, ConcludedStands
<1> QED
  BY <1>18, <1>19

LEMMA RedoStands == ASSUME EngineInv, Redo PROVE EngineInv'
<1>1. PICK h : h = history
  OBVIOUS
<1>2. h.redo # <<>> /\ isHistory(h)
  BY <1>1 DEF Redo, EngineInv
<1>3. PICK x, a, b : x = Last(h.redo) /\ a = Front(h.redo) /\ b = Append(h.undo, x)
  OBVIOUS
<1>4. PICK e, tr, ops, no, none : /\ e = state /\ tr = revision + 1 /\ ops = x.operations
                                  /\ no = FALSE /\ none = <<>>
  OBVIOUS
<1>5. PICK u : u = commitPatch(e, tr, ops, no, none)
  OBVIOUS
<1>6. u = redone
  BY <1>1, <1>3, <1>4, <1>5, Zenon DEF redone
<1>7. /\ areEntries(h.undo) /\ areEntries(h.redo)
      /\ h.bytes = totalSize(h.undo) + totalSize(h.redo) /\ h.bytes <= MaxBytes
      /\ Len(h.undo) + Len(h.redo) <= MaxEntries /\ hasEnds(h)
  BY <1>2 DEF isHistory, hasEnds
<1>8. /\ isEntry(x) /\ areEntries(a) /\ Len(a) = Len(h.redo) - 1
      /\ totalSize(h.redo) = totalSize(a) + sizeOf(x)
  BY <1>2, <1>3, <1>7, LastEntry
<1>9. areEntries(b) /\ Len(b) = Len(h.undo) + 1 /\ totalSize(b) = totalSize(h.undo) + sizeOf(x)
  BY <1>3, <1>7, <1>8, EntryAdded
<1>10. isIntact(e)
  BY <1>4, StateIsIntact
<1>11. e.history = h
  BY <1>1, <1>4 DEF state
<1>12. no \in BOOLEAN /\ ~no /\ none \in Seq(Command)
  BY <1>4, EmptySeq
<1>13. areOperations(ops)
  BY <1>4, <1>8 DEF isEntry
<1>14. isEngine(u) /\ (u.ok => u.history = h)
  BY <1>5, <1>10, <1>11, <1>12, <1>13, CommitIsEngine
<1>15. PICK w : w = [u EXCEPT !.history.redo = a]
  OBVIOUS
<1>16. PICK r : r = IF u.ok THEN [u EXCEPT !.history.redo = Front(@), !.history.undo = Append(@, Last(history.redo))]
                    ELSE Failed
  OBVIOUS
<1>17. conclude(r)
  BY <1>6, <1>16, Zenon DEF Redo, andThen
<1>18. CASE ~u.ok
  <2>1. r = Failed
    BY <1>16, <1>18, Zenon
  <2> QED
    BY <1>17, <2>1, FailedIsEngine, ConcludedStands
<1>19. CASE u.ok
  <2>1. isIntact(u) /\ u.history = h
    BY <1>14, <1>19 DEF isEngine
  <2>2. DOMAIN u = {"ok", "document", "revision", "history"} /\ isDocument(u.document)
    BY <2>1 DEF isIntact
  <2>3. "history" \in DOMAIN u /\ hasEnds(u.history)
    BY <1>7, <2>1, <2>2
  <2>4. /\ DOMAIN w = DOMAIN u /\ w.document = u.document /\ hasEnds(w.history)
        /\ w.history.redo = a /\ w.history.undo = h.undo /\ w.history.bytes = h.bytes
    BY <1>15, <2>1, <2>3, RedoChanged
  <2>5. r = [w EXCEPT !.history.undo = b]
    <3>1. Front(u.history.redo) = a
      BY <1>3, <2>1
    <3>2. w = [u EXCEPT !.history.redo = Front(u.history.redo)]
      BY <1>15, <3>1
    <3>3. r = [w EXCEPT !.history.undo = Append(w.history.undo, Last(history.redo))]
      BY <1>16, <1>19, <3>2, Zenon
    <3>4. Append(w.history.undo, Last(history.redo)) = b
      BY <1>1, <1>3, <2>4, Zenon
    <3> QED
      BY <3>3, <3>4, Zenon
  <2>6. "history" \in DOMAIN w
    BY <2>3, <2>4
  <2>7. /\ DOMAIN r = DOMAIN w /\ r.document = w.document /\ hasEnds(r.history)
        /\ r.history.undo = b /\ r.history.redo = w.history.redo /\ r.history.bytes = w.history.bytes
    BY <2>4, <2>5, <2>6, UndoChanged
  <2>8. PICK g : g = r.history
    OBVIOUS
  <2>9. g.redo = a /\ g.undo = b /\ g.bytes = h.bytes /\ hasEnds(g)
    BY <2>4, <2>7, <2>8
  <2>10. totalSize(a) \in Nat /\ totalSize(h.undo) \in Nat /\ totalSize(h.redo) \in Nat
    BY <1>7, <1>8, TotalIsNat
  <2>11. sizeOf(x) \in Nat
    <3>1. PICK T : x.operations \in Seq(T)
      BY <1>8 DEF isEntry, areOperations
    <3> QED
      BY <3>1, LenProperties DEF sizeOf
  <2>12. Len(h.undo) \in Nat /\ Len(h.redo) \in Nat
    BY <1>7, EntriesFacts
  <2>13. g.bytes = totalSize(g.undo) + totalSize(g.redo)
    <3>1. PICK p \in Nat, q \in Nat, z \in Nat : p = totalSize(a) /\ q = totalSize(h.undo) /\ z = sizeOf(x)
      BY <2>10, <2>11
    <3>2. totalSize(h.redo) = p + z /\ totalSize(b) = q + z
      BY <1>8, <1>9, <3>1
    <3>3. h.bytes = (p + z) + q
      BY <1>7, <3>1, <3>2
    <3> QED
      BY <2>9, <3>1, <3>2, <3>3
  <2>14. Len(g.undo) + Len(g.redo) <= MaxEntries
    <3>1. PICK p \in Nat, q \in Nat : p = Len(h.redo) /\ q = Len(h.undo)
      BY <2>12
    <3>2. Len(g.redo) = p - 1 /\ Len(g.undo) = q + 1
      BY <1>8, <1>9, <2>9, <3>1
    <3>3. q + p <= MaxEntries /\ MaxEntries \in Nat
      BY <1>7, <3>1, EngineAssumption
    <3> QED
      BY <3>2, <3>3
  <2>15. isHistory(g)
    BY <1>7, <1>8, <1>9, <2>9, <2>13, <2>14 DEF isHistory, hasEnds
  <2>16. DOMAIN r = {"ok", "document", "revision", "history"} /\ isDocument(r.document)
    BY <2>2, <2>4, <2>7
  <2>17. isEngine(r)
    BY <2>8, <2>15, <2>16 DEF isEngine, isIntact
  <2> QED
    BY <1>17, <2>17, ConcludedStands
<1> QED
  BY <1>18, <1>19

\* Both ends of a history count its bytes, and are within the budget.
keepBudget(undo, redo, bytes) ==
    /\ bytes = totalSize(undo) + totalSize(redo) /\ bytes <= MaxBytes
    /\ Len(undo) + Len(redo) <= MaxEntries

\* A history cut before its k-th entry.
LEMMA HistoryCut ==
  ASSUME NEW h, isHistory(h), NEW k \in DOMAIN h.undo,
         NEW a, a = SubSeq(h.undo, 1, k - 1), NEW s, s = SubSeq(h.undo, k, Len(h.undo)),
         NEW b, b = h.bytes - totalSize(s)
  PROVE  /\ areEntries(a) /\ areEntries(s) /\ areEntries(Tail(s))
         /\ keepBudget(a, h.redo, b)
<1>1. /\ areEntries(h.undo) /\ areEntries(h.redo)
      /\ h.bytes = totalSize(h.undo) + totalSize(h.redo) /\ h.bytes <= MaxBytes
      /\ Len(h.undo) + Len(h.redo) <= MaxEntries
  BY DEF isHistory
<1>2. PICK N \in Nat : N = Len(h.undo) /\ DOMAIN h.undo = 1 .. N
  BY <1>1, EntriesFacts
<1>3. PICK n \in Nat : n = k - 1 /\ k = n + 1 /\ n < N
  BY <1>2
<1>4. n \in 0 .. Len(h.undo)
  BY <1>2, <1>3
<1>5. a = SubSeq(h.undo, 1, n)
  BY <1>3
<1>6. s = SubSeq(h.undo, n + 1, Len(h.undo))
  BY <1>3
<1>7. areEntries(a)
  BY <1>1, <1>4, <1>5, <1>6, EntriesCut
<1>8. areEntries(s)
  BY <1>1, <1>4, <1>5, <1>6, EntriesCut
<1>9. Len(a) = n
  BY <1>1, <1>4, <1>5, <1>6, EntriesCut
<1>10. Len(s) = Len(h.undo) - n
  BY <1>1, <1>4, <1>5, <1>6, EntriesCut
<1>11. totalSize(h.undo) = totalSize(a) + totalSize(s)
  BY <1>1, <1>4, <1>5, <1>6, CutTotals
<1>12. areEntries(Tail(s))
  <2>1. Len(s) = N - n /\ N - n # 0
    BY <1>2, <1>3, <1>10
  <2>2. s # <<>>
    BY <2>1, EmptySeq
  <2>3. PICK S : s \in Seq(S) /\ \A x \in S : isEntry(x)
    BY <1>8 DEF areEntries
  <2>4. Tail(s) \in Seq(S)
    BY <2>2, <2>3, HeadTailProperties
  <2> QED
    BY <2>3, <2>4 DEF areEntries
<1>13. b = totalSize(a) + totalSize(h.redo) /\ b <= MaxBytes
  <2>1. PICK p \in Nat, q \in Nat, z \in Nat : p = totalSize(a) /\ q = totalSize(h.redo) /\ z = totalSize(s)
    BY <1>1, <1>7, <1>8, TotalIsNat
  <2>2. h.bytes = (p + z) + q
    BY <1>1, <1>11, <2>1
  <2>3. b = p + q /\ MaxBytes \in Nat
    BY <2>1, <2>2, EngineAssumption
  <2>4. (p + z) + q <= MaxBytes
    BY <1>1, <2>2
  <2> QED
    BY <2>1, <2>3, <2>4
<1>14. Len(a) + Len(h.redo) <= MaxEntries
  <2>1. PICK q \in Nat : q = Len(h.redo)
    BY <1>1, EntriesFacts
  <2>2. MaxEntries \in Nat
    BY EngineAssumption
  <2>3. N + q <= MaxEntries
    BY <1>1, <1>2, <2>1
  <2> QED
    BY <1>3, <1>9, <2>1, <2>2, <2>3
<1> QED
  BY <1>7, <1>8, <1>12, <1>13, <1>14 DEF keepBudget

\* An engine whose history was cut.
LEMMA CutIsIntact ==
  ASSUME NEW e, isIntact(e), NEW a, areEntries(a), NEW b, keepBudget(a, e.history.redo, b),
         NEW w, w = [e EXCEPT !.history.undo = a], NEW r, r = [w EXCEPT !.history.bytes = b]
  PROVE  isIntact(r)
<1>1. /\ isDocument(e.document) /\ DOMAIN e = {"ok", "document", "revision", "history"}
      /\ isHistory(e.history)
  BY DEF isIntact
<1>2. "history" \in DOMAIN e /\ hasEnds(e.history) /\ areEntries(e.history.redo)
  BY <1>1 DEF isHistory, hasEnds
<1>3. /\ DOMAIN w = DOMAIN e /\ w.document = e.document /\ hasEnds(w.history)
      /\ w.history.undo = a /\ w.history.redo = e.history.redo /\ w.history.bytes = e.history.bytes
  BY ONLY <1>2, w = [e EXCEPT !.history.undo = a], UndoChanged
<1>4. "history" \in DOMAIN w
  BY <1>2, <1>3
<1>5. /\ DOMAIN r = DOMAIN w /\ r.document = w.document /\ hasEnds(r.history)
      /\ r.history.undo = w.history.undo /\ r.history.redo = w.history.redo /\ r.history.bytes = b
  BY ONLY <1>3, <1>4, r = [w EXCEPT !.history.bytes = b], BytesChanged
<1>6. PICK g : g = r.history
  OBVIOUS
<1>7. g.undo = a /\ g.redo = e.history.redo /\ g.bytes = b /\ hasEnds(g)
  BY <1>3, <1>5, <1>6
<1>8. isHistory(g)
  BY <1>2, <1>7 DEF isHistory, hasEnds, keepBudget
<1> QED
  BY <1>1, <1>3, <1>5, <1>6, <1>8 DEF isIntact

\* The engine without the end of its history.
LEMMA WithoutSuffixIsIntact ==
  ASSUME EngineInv, NEW k \in DOMAIN history.undo, NEW r, r = withoutSuffix(k),
         NEW s, s = SubSeq(history.undo, k, Len(history.undo))
  PROVE  isIntact(r) /\ areEntries(s) /\ areEntries(Tail(s))
<1>1. PICK e : e = state
  OBVIOUS
<1>2. isIntact(e) /\ e.history = history
  BY <1>1, StateIsIntact DEF state
<1>3. PICK h : h = history
  OBVIOUS
<1>4. isHistory(h) /\ k \in DOMAIN h.undo
  BY <1>3 DEF EngineInv
<1>5. PICK a : a = SubSeq(h.undo, 1, k - 1)
  OBVIOUS
<1>6. PICK b : b = h.bytes - totalSize(s)
  OBVIOUS
<1>7. s = SubSeq(h.undo, k, Len(h.undo))
  BY <1>3
<1>8. /\ areEntries(a) /\ areEntries(s) /\ areEntries(Tail(s))
      /\ keepBudget(a, h.redo, b)
  BY <1>4, <1>5, <1>6, <1>7, HistoryCut
<1>9. PICK w : w = [e EXCEPT !.history.undo = a]
  OBVIOUS
<1>10. w.history.bytes = h.bytes
  <2>1. "history" \in DOMAIN e /\ hasEnds(e.history)
    BY <1>2, <1>3, <1>4 DEF isIntact, isHistory, hasEnds
  <2>2. w.history.bytes = e.history.bytes
    BY ONLY <1>9, <2>1, UndoChanged
  <2> QED
    BY <1>2, <1>3, <2>2
<1>11. r = [w EXCEPT !.history.bytes = b]
  <2>1. SubSeq(e.history.undo, 1, k - 1) = a
    BY <1>2, <1>3, <1>5
  <2>2. w = [e EXCEPT !.history.undo = SubSeq(e.history.undo, 1, k - 1)]
    BY <1>9, <2>1
  <2>3. r = [w EXCEPT !.history.bytes = w.history.bytes - totalSize(s)]
    BY <1>1, <2>2, Zenon DEF withoutSuffix
  <2>4. w.history.bytes - totalSize(s) = b
    BY <1>6, <1>10, Zenon
  <2> QED
    BY <2>3, <2>4, Zenon
<1>12. e.history = h
  BY <1>2, <1>3
<1>13. keepBudget(a, e.history.redo, b)
  BY <1>8, <1>12
<1>14. isIntact(r)
  <2>1. isIntact(e)
    BY <1>2
  <2>2. areEntries(a)
    BY <1>8
  <2> QED
    BY ONLY <1>9, <1>11, <1>13, <2>1, <2>2, CutIsIntact
<1> QED
  BY <1>8, <1>14

LEMMA ReconcileStands == ASSUME EngineInv, ReconcileHistorySuffix PROVE EngineInv'
<1>1. PICK k \in DOMAIN history.undo, foreign \in RemotePatches \cup {<<>>} :
        conclude(replayed(Tail(SubSeq(history.undo, k, Len(history.undo))),
            withRemote(rolledBack(SubSeq(history.undo, k, Len(history.undo)), withoutSuffix(k)), foreign)))
  BY DEF ReconcileHistorySuffix
<1>2. PICK suffix : suffix = SubSeq(history.undo, k, Len(history.undo))
  OBVIOUS
<1>3. PICK a : a = withoutSuffix(k)
  OBVIOUS
<1>4. PICK b : b = rolledBack(suffix, a)
  OBVIOUS
<1>5. PICK c : c = withRemote(b, foreign)
  OBVIOUS
<1>6. PICK rest : rest = Tail(suffix)
  OBVIOUS
<1>7. PICK r : r = replayed(rest, c)
  OBVIOUS
<1>8. conclude(r)
  BY <1>1, <1>2, <1>3, <1>4, <1>5, <1>6, <1>7, Zenon
<1>9. isIntact(a) /\ areEntries(suffix) /\ areEntries(rest)
  BY <1>2, <1>3, <1>6, WithoutSuffixIsIntact
<1>10. isEngine(a)
  BY <1>9 DEF isEngine
<1>11. isEngine(b)
  BY <1>4, <1>9, <1>10, RolledBackIsEngine
<1>12. areOperations(foreign)
  <2>1. CASE foreign \in RemotePatches
    BY <2>1, PatchesAreOperations
  <2>2. CASE foreign = <<>>
    BY <2>2, NoOperations
  <2> QED
    BY <2>1, <2>2
<1>13. isEngine(c)
  BY <1>5, <1>11, <1>12, RemoteIsEngine
<1>14. isEngine(r)
  BY <1>7, <1>9, <1>13, ReplayedIsEngine
<1> QED
  BY <1>8, <1>14, ConcludedStands

\* The engine is created with a document the model accepts.
LEMMA EngineInvInit == EngineInit => EngineInv
<1> SUFFICES ASSUME EngineInit PROVE EngineInv
  OBVIOUS
<1>1. document = documentOf(FirstNodes)
      /\ history = [undo |-> <<>>, redo |-> <<>>, bytes |-> 0, evicted |-> 0]
  BY DEF EngineInit
<1>2. document.nodes = FirstNodes
  BY <1>1, DocumentIs
<1>3. /\ DOMAIN FirstNodes \subseteq Ids /\ FirstNodes \in [DOMAIN FirstNodes -> Node]
      /\ normalizable(FirstNodes)
  BY EngineAssumption
<1>4. areCanonical(FirstNodes)
  BY EngineAssumption DEF areCanonical
<1>5. areNodes(FirstNodes)
  <2>1. FirstNodes = [i \in DOMAIN FirstNodes |-> FirstNodes[i]]
    BY <1>3
  <2>2. ASSUME NEW i \in DOMAIN FirstNodes PROVE isNode(FirstNodes[i])
    <3>1. FirstNodes[i] \in Node
      BY <1>3
    <3> QED
      BY <3>1 DEF Node, isNode
  <2> QED
    BY <1>3, <2>1, <2>2 DEF areNodes
<1>6. isDocument(document)
  BY <1>1, <1>2, <1>3, <1>4, <1>5 DEF isDocument
<1>7. isHistory(history)
  <2>1. PICK h : h = history
    OBVIOUS
  <2>2. h.undo = <<>> /\ h.redo = <<>> /\ h.bytes = 0
        /\ h = [undo |-> h.undo, redo |-> h.redo, bytes |-> h.bytes, evicted |-> h.evicted]
    BY <1>1, <2>1
  <2>3. areEntries(<<>>) /\ totalSize(<<>>) = 0 /\ Len(<<>>) = 0
    BY TotalOfNone, EmptySeq
  <2>4. MaxBytes \in Nat /\ MaxEntries \in Nat
    BY EngineAssumption
  <2>5. isHistory(h)
    BY <2>2, <2>3, <2>4 DEF isHistory
  <2> QED
    BY <2>1, <2>5
<1> QED
  BY <1>6, <1>7 DEF EngineInv

LEMMA EngineInvStep == EngineInv /\ [EngineNext]_engineVars => EngineInv'
<1> SUFFICES ASSUME EngineInv, [EngineNext]_engineVars PROVE EngineInv'
  OBVIOUS
<1>1. CASE UNCHANGED engineVars
  BY <1>1 DEF engineVars, EngineInv
<1>2. CASE ExecuteBatch
  BY <1>2, BatchStands
<1>3. CASE ApplyPatch
  BY <1>3, PatchStands
<1>4. CASE Undo
  BY <1>4, UndoStands
<1>5. CASE Redo
  BY <1>5, RedoStands
<1>6. CASE ReconcileHistorySuffix
  BY <1>6, ReconcileStands
<1> QED
  BY <1>1, <1>2, <1>3, <1>4, <1>5, <1>6 DEF EngineNext

LEMMA EngineInvariant == EngineSpec => []EngineInv
BY EngineInvInit, EngineInvStep, PTL DEF EngineSpec

(* Whatever was committed, undone, redone or reconciled, the indexes of    *)
(* the document are those a new index of its nodes would be, and its nodes *)
(* are canonical and form a tree the model accepts: field-only             *)
(* transactions, which keep the indexes and check only what they changed,  *)
(* never leave the document different from what a rebuild would give.      *)
THEOREM DocumentsAreIndexed == EngineSpec => []IndexesAgree
<1>1. EngineInv => IndexesAgree
  BY DEF EngineInv, isDocument, areCanonical, IndexesAgree
<1> QED
  BY <1>1, EngineInvariant, PTL

(* The history never holds more entries or bytes than its budget, and      *)
(* counts its bytes right, through the eviction of its oldest entries, the *)
(* loss of what could be redone, and the rewriting of its end.             *)
THEOREM HistoryKeepsItsBudget == EngineSpec => []HistoryWithinBudget
<1>1. EngineInv => HistoryWithinBudget
  BY DEF EngineInv, isHistory, HistoryWithinBudget
<1> QED
  BY <1>1, EngineInvariant, PTL
=============================================================================
