------------------------------ MODULE Proposals ------------------------------
(***************************************************************************)
(* Proposed changes that wait for a decision: fixes a plugin derives from  *)
(* an issue, and material matches the editor finds.  A proposal is bound   *)
(* to the revision it was computed from, is kept in a bounded store, and   *)
(* is applied through the mutation queue; a match first waits for an       *)
(* approval outside the queue.  Meanwhile other commits are published.     *)
(***************************************************************************)
EXTENDS Naturals, SequencesExt

CONSTANTS
    Impacts,         \* what a fix touches: [fields, structural], sets of rows
    Retained,        \* MAX_RETAINED_..._PROPOSALS, for both stores
    MaxProposalSteps, MaxDecisions   \* bounds: calls of the host, queued tasks

ASSUME ProposalAssumption == {Retained, MaxProposalSteps, MaxDecisions} \subseteq Nat

VARIABLES
    snapshotNo,   \* the revision of the published snapshot
    publishedNo,  \* the identity of the published state, view changes included
    fixes,        \* #fixProposals, oldest first: [no, base, impact, status]
    matches,      \* #materialMatchProposals, oldest first: [no, base, status]
    candidates,   \* the published states of the match results handed out
    approvals,    \* applyMaterialMatch calls: [no, stage, aborted]
    decisions,    \* the mutation queue, the running task first: [kind, no, ...]
    landed,       \* the proposals that were committed: [kind, no, base, at]
    proposalSteps

proposalVars == <<snapshotNo, publishedNo, fixes, matches, candidates, approvals, decisions,
                  landed, proposalSteps>>

-----------------------------------------------------------------------------
(* The stores.                                                             *)

unfinished(kind) ==
    IF kind = "fix" THEN {"active", "applying"} ELSE {"active", "approvalPending", "applying"}

numberedIn(store, no) == {i \in DOMAIN store : store[i].no = no}

withStatus(store, no, status) ==
    [i \in DOMAIN store |-> IF store[i].no = no THEN [store[i] EXCEPT !.status = status] ELSE store[i]]

\* The oldest finished proposal goes, or else the oldest active one.
dropOne(store, kind) ==
    LET finished == {i \in DOMAIN store : store[i].status \notin unfinished(kind)}
        active   == {i \in DOMAIN store : store[i].status = "active"}
        oldest(s) == CHOOSE i \in s : \A j \in s : i <= j
    IN CASE finished # {} -> RemoveAt(store, oldest(finished))
         [] finished = {} /\ active # {} -> RemoveAt(store, oldest(active))
         [] OTHER -> store

trimProposals(store, kind) ==
    LET trimmed[n \in 0..Len(store)] ==
          IF n = 0 THEN store
          ELSE IF Len(trimmed[n - 1]) > Retained THEN dropOne(trimmed[n - 1], kind)
          ELSE trimmed[n - 1]
    IN trimmed[Len(store)]

(* Mutant: only matches that nobody decides on expire.                     *)
expiresActive(store, kind, now) ==
    trimProposals([i \in DOMAIN store |->
        IF store[i].status = "active" /\ store[i].base # now
        THEN [store[i] EXCEPT !.status = "stale"] ELSE store[i]], kind)

expireProposals(store, kind, now) ==
    trimProposals([i \in DOMAIN store |->
        IF store[i].status \in {"active", "approvalPending"} /\ store[i].base # now
        THEN [store[i] EXCEPT !.status = "stale"] ELSE store[i]], kind)

\* A commit, or a document that replaces this one.
Published ==
    /\ snapshotNo' = snapshotNo + 1
    /\ publishedNo' = publishedNo + 1

fixImpactsOverlap(a, b) ==
    \/ a.fields \cap b.fields # {}
    \/ (a.fields \cup a.structural) \cap (b.fields \cup b.structural)
         \cap (a.structural \cup b.structural) # {}

fixProposalConflicts(impact, base, except) ==
    {i \in DOMAIN fixes : /\ fixes[i].no # except
                          /\ fixes[i].status = "active"
                          /\ fixes[i].base = base
                          /\ fixImpactsOverlap(fixes[i].impact, impact)}

-----------------------------------------------------------------------------
ProposalInit ==
    /\ snapshotNo = 0 /\ publishedNo = 0
    /\ fixes = <<>> /\ matches = <<>>
    /\ candidates = {}
    /\ approvals = {}
    /\ decisions = <<>>
    /\ landed = <<>>
    /\ proposalSteps = 0

ProposalStep == proposalSteps < MaxProposalSteps /\ proposalSteps' = proposalSteps + 1

Enter(t) == Len(decisions) < MaxDecisions /\ decisions' = Append(decisions, t)

Leave == decisions' = Tail(decisions)

decision(kind, no, supersede) ==
    [kind |-> kind, no |-> no, supersede |-> supersede, stage |-> "waiting", impact |-> {}]

ViewChanges ==
    /\ ProposalStep
    /\ publishedNo' = publishedNo + 1
    /\ UNCHANGED <<snapshotNo, fixes, matches, candidates, approvals, decisions, landed>>

HostCommits ==
    /\ ProposalStep
    /\ Enter(decision("host", 0, FALSE))
    /\ UNCHANGED <<snapshotNo, publishedNo, fixes, matches, candidates, approvals, landed>>

MatchMaterials ==
    /\ ProposalStep
    /\ publishedNo \notin candidates
    /\ candidates' = candidates \cup {publishedNo}
    /\ UNCHANGED <<snapshotNo, publishedNo, fixes, matches, approvals, decisions, landed>>

\* The candidate must come from the very state that is published.
ProposeMaterialMatch ==
    /\ ProposalStep
    /\ publishedNo \in candidates
    /\ matches' = trimProposals(
            Append(matches, [no |-> proposalSteps', base |-> snapshotNo, status |-> "active"]), "match")
    /\ UNCHANGED <<snapshotNo, publishedNo, fixes, candidates, approvals, decisions, landed>>

ProposeFix(impact) ==
    /\ ProposalStep
    /\ Enter([decision("propose", proposalSteps', FALSE) EXCEPT !.impact = impact])
    /\ UNCHANGED <<snapshotNo, publishedNo, fixes, matches, candidates, approvals, landed>>

ApplyFix(i, supersede) ==
    /\ ProposalStep
    /\ i \in DOMAIN fixes
    /\ Enter(decision("fix", fixes[i].no, supersede))
    /\ UNCHANGED <<snapshotNo, publishedNo, fixes, matches, candidates, approvals, landed>>

\* Only an active, current match can be decided on.
ApplyMaterialMatch(i) ==
    /\ ProposalStep
    /\ i \in DOMAIN matches
    /\ matches[i].status = "active"
    /\ IF matches[i].base = snapshotNo
       THEN /\ matches' = withStatus(matches, matches[i].no, "approvalPending")
            /\ approvals' = approvals \cup {[no |-> matches[i].no, stage |-> "policy", aborted |-> FALSE]}
       ELSE /\ matches' = withStatus(matches, matches[i].no, "stale")
            /\ UNCHANGED approvals
    /\ UNCHANGED <<snapshotNo, publishedNo, fixes, candidates, decisions, landed>>

-----------------------------------------------------------------------------
(* The decision on a match.                                                *)

matchOf(a) == matches[CHOOSE i \in numberedIn(matches, a.no) : TRUE]

isPending(a) == numberedIn(matches, a.no) # {} /\ matchOf(a).status = "approvalPending"

isCurrent(a) == matchOf(a).base = snapshotNo

\* The match is free again, or stale if a commit came first.
Released(a) ==
    matches' = IF ~isPending(a) THEN matches
               ELSE withStatus(matches, a.no, IF isCurrent(a) THEN "active" ELSE "stale")

\* After a policy that throws the match is free, with no look at the revision.
Freed(a) == matches' = IF isPending(a) THEN withStatus(matches, a.no, "active") ELSE matches

\* The caller aborts, or the policy throws, answers nonsense or refuses.
ApprovalFails(a) ==
    /\ a \in approvals /\ a.stage = "policy"
    /\ Released(a) \/ Freed(a)
    /\ approvals' = approvals \ {a}
    /\ UNCHANGED <<snapshotNo, publishedNo, fixes, candidates, decisions, landed, proposalSteps>>

Approved(a) ==
    /\ a \in approvals /\ a.stage = "policy"
    /\ IF isPending(a) /\ isCurrent(a)
       THEN /\ Enter(decision("match", a.no, FALSE))
            /\ approvals' = (approvals \ {a}) \cup {[a EXCEPT !.stage = "queued"]}
            /\ UNCHANGED matches
       ELSE /\ matches' = IF isPending(a) THEN withStatus(matches, a.no, "stale") ELSE matches
            /\ approvals' = approvals \ {a}
            /\ UNCHANGED decisions
    /\ UNCHANGED <<snapshotNo, publishedNo, fixes, candidates, landed, proposalSteps>>

AbortQueued(a) ==
    /\ a \in approvals /\ a.stage = "queued" /\ ~a.aborted
    /\ approvals' = (approvals \ {a}) \cup {[a EXCEPT !.aborted = TRUE]}
    /\ UNCHANGED <<snapshotNo, publishedNo, fixes, matches, candidates, decisions, landed,
                   proposalSteps>>

-----------------------------------------------------------------------------
(* The queue.                                                              *)

heads(kind, stage) == decisions # <<>> /\ decisions[1].kind = kind /\ decisions[1].stage = stage

Runs == decisions' = [decisions EXCEPT ![1].stage = "committing"]

fixOf(no) == fixes[CHOOSE i \in numberedIn(fixes, no) : TRUE]

\* The fixer and the preview are awaited; nothing else of the queue runs, but
\* the revision is compared again.
FixIssued ==
    /\ heads("propose", "waiting")
    /\ fixes' = trimProposals(
            Append(fixes, [no |-> decisions[1].no, base |-> snapshotNo,
                           impact |-> decisions[1].impact, status |-> "active"]), "fix")
    /\ Leave
    /\ UNCHANGED <<snapshotNo, publishedNo, matches, candidates, approvals, landed, proposalSteps>>

fixMayStart ==
    /\ numberedIn(fixes, decisions[1].no) # {}
    /\ fixOf(decisions[1].no).status = "active"

StartFix ==
    /\ heads("fix", "waiting") /\ fixMayStart
    /\ \E fix \in {fixOf(decisions[1].no)} :
        /\ fix.base = snapshotNo
        /\ fixProposalConflicts(fix.impact, fix.base, fix.no) = {} \/ decisions[1].supersede
    /\ fixes' = withStatus(fixes, decisions[1].no, "applying")
    /\ Runs
    /\ UNCHANGED <<snapshotNo, publishedNo, matches, candidates, approvals, landed, proposalSteps>>

\* A stale fix is marked; a conflict or a lost plugin leaves it as it is, and
\* a fixer may have nothing to propose.
RefuseFix ==
    /\ heads("fix", "waiting") \/ heads("propose", "waiting")
    /\ fixes' = IF heads("fix", "waiting") /\ fixMayStart /\ fixOf(decisions[1].no).base # snapshotNo
                THEN withStatus(fixes, decisions[1].no, "stale") ELSE fixes
    /\ Leave
    /\ UNCHANGED <<snapshotNo, publishedNo, matches, candidates, approvals, landed, proposalSteps>>

queuedApproval == CHOOSE a \in approvals : a.stage = "queued" /\ a.no = decisions[1].no

StartMatch ==
    /\ heads("match", "waiting")
    /\ ~queuedApproval.aborted
    /\ isPending(queuedApproval) /\ isCurrent(queuedApproval)
    /\ matches' = withStatus(matches, decisions[1].no, "applying")
    /\ Runs
    /\ UNCHANGED <<snapshotNo, publishedNo, fixes, candidates, approvals, landed, proposalSteps>>

\* Aborted, stale, or persistence takes no mutation now.
RefuseMatch ==
    /\ heads("match", "waiting")
    /\ Released(queuedApproval)
    /\ approvals' = approvals \ {queuedApproval}
    /\ Leave
    /\ UNCHANGED <<snapshotNo, publishedNo, fixes, candidates, landed, proposalSteps>>

HostLands ==
    /\ heads("host", "waiting")
    /\ Published
    /\ fixes' = expireProposals(fixes, "fix", snapshotNo')
    /\ matches' = expireProposals(matches, "match", snapshotNo')
    /\ Leave
    /\ UNCHANGED <<candidates, approvals, landed, proposalSteps>>

\* The rivals a fix superseded are marked after its own commit made them stale.
Lands ==
    /\ decisions # <<>> /\ decisions[1].stage = "committing"
    /\ Published
    /\ landed' = Append(landed, [kind |-> decisions[1].kind, no |-> decisions[1].no,
            base |-> IF decisions[1].kind = "fix" THEN fixOf(decisions[1].no).base
                     ELSE matchOf(queuedApproval).base,
            at |-> snapshotNo])
    /\ \E rivals \in {IF decisions[1].kind = "fix" /\ decisions[1].supersede
                      THEN {fixes[i].no : i \in fixProposalConflicts(
                               fixOf(decisions[1].no).impact, fixOf(decisions[1].no).base,
                               decisions[1].no)}
                      ELSE {}},
          expired \in {expireProposals(fixes, "fix", snapshotNo')} :
        fixes' = [i \in DOMAIN expired |->
            IF expired[i].no \in rivals THEN [expired[i] EXCEPT !.status = "superseded"]
            ELSE IF decisions[1].kind = "fix" /\ expired[i].no = decisions[1].no
            THEN [expired[i] EXCEPT !.status = "applied"] ELSE expired[i]]
    /\ \E expired \in {expireProposals(matches, "match", snapshotNo')} :
        matches' = IF decisions[1].kind = "match"
                   THEN withStatus(expired, decisions[1].no, "applied") ELSE expired
    /\ approvals' = IF decisions[1].kind = "match" THEN approvals \ {queuedApproval} ELSE approvals
    /\ Leave
    /\ UNCHANGED <<candidates, proposalSteps>>

\* The engine refuses, or a listener prevents the transaction.
CommitRefused ==
    /\ decisions # <<>> /\ decisions[1].stage = "committing"
    /\ fixes' = IF decisions[1].kind = "fix" THEN withStatus(fixes, decisions[1].no, "active")
                ELSE fixes
    /\ matches' = IF decisions[1].kind = "match" THEN withStatus(matches, decisions[1].no, "active")
                  ELSE matches
    /\ approvals' = IF decisions[1].kind = "match" THEN approvals \ {queuedApproval} ELSE approvals
    /\ Leave
    /\ UNCHANGED <<snapshotNo, publishedNo, candidates, landed, proposalSteps>>

ProposalNext ==
    \/ ViewChanges \/ HostCommits \/ MatchMaterials \/ ProposeMaterialMatch
    \/ \E impact \in Impacts : ProposeFix(impact)
    \/ \E i \in 1..MaxProposalSteps, supersede \in BOOLEAN : ApplyFix(i, supersede)
    \/ \E i \in 1..MaxProposalSteps : ApplyMaterialMatch(i)
    \/ \E a \in approvals : ApprovalFails(a) \/ Approved(a) \/ AbortQueued(a)
    \/ FixIssued \/ StartFix \/ RefuseFix \/ StartMatch \/ RefuseMatch
    \/ HostLands \/ Lands \/ CommitRefused

-----------------------------------------------------------------------------
(* Properties.                                                             *)

(* A proposal is committed at most once, and onto the revision it was      *)
(* computed from, however long its approval or the queue took; the ones    *)
(* still open are those of the published revision; and none is stuck: one  *)
(* that waits for an approval or is being applied has a call under way     *)
(* (editor.ts:2560 and 5302).                                              *)
ProposalsHitTheirDocument ==
    /\ \A i \in DOMAIN landed :
        /\ landed[i].at = landed[i].base
        /\ \A j \in DOMAIN landed : i # j =>
              <<landed[i].kind, landed[i].no>> # <<landed[j].kind, landed[j].no>>
    /\ \A i \in DOMAIN fixes :
        /\ fixes[i].status = "active" => fixes[i].base = snapshotNo
        /\ fixes[i].status = "applying" =>
              heads("fix", "committing") /\ decisions[1].no = fixes[i].no
    /\ \A i \in DOMAIN matches :
        /\ matches[i].status \in {"active", "approvalPending"} => matches[i].base = snapshotNo
        /\ matches[i].status = "approvalPending" => \E a \in approvals : a.no = matches[i].no
        /\ matches[i].status = "applying" =>
              heads("match", "committing") /\ decisions[1].no = matches[i].no

=============================================================================
