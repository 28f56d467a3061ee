----------------------------- MODULE PluginHost -----------------------------
(***************************************************************************)
(* The plugin host of the editor and the validation that consults it.      *)
(* Installing, removing, reloading and calling a plugin are tasks of the   *)
(* mutation queue, one at a time, each with hooks of the plugin it waits   *)
(* for.  A validation runs beside the queue: it walks a copy of the        *)
(* validators, waits for each, and publishes its report only if neither    *)
(* the document nor the set of plugins moved in between.                   *)
(***************************************************************************)
EXTENDS Naturals, SequencesExt, PluginManifest

CONSTANTS
    Offers,           \* plugins: [id, version, needs, rules, abi, engine, capabilities]
    InitialOffers,    \* the plugins of the editor's options, one of each id, none refused
    MaxPluginCalls    \* bound: calls of the host

ASSUME PluginAssumption ==
    /\ InitialOffers \subseteq Offers /\ IsFiniteSet(InitialOffers)
    /\ \A a, b \in InitialOffers : a.id = b.id => a = b
    /\ \A o \in InitialOffers :
         /\ isManifest(o) /\ negotiatePlugin(o)
         /\ \A n \in o.needs : \E d \in InitialOffers :
               d.id = n.id /\ engineRangeSatisfies(d.version, n.range)
    /\ MaxPluginCalls \in Nat

VARIABLES
    plugins,        \* #plugins: installed entries [no, offer, accepting, rules]
    contributions,  \* #pluginValidators: [no, id, rule]
    generation,     \* #pluginGeneration
    report,         \* #validationState, or the empty sequence
    job,            \* the task of the mutation queue
    check,          \* the validation that runs, or the empty sequence
    hostRevision,   \* the revision of the published snapshot
    alive,          \* not destroyed
    setUp,          \* instances whose setup succeeded
    attempted,      \* instances whose cleanup ran
    cleaned,        \* instances whose cleanup succeeded
    exempt,         \* did a plugin withdraw a rule, or destroy meet a removal?
    calls

pluginVars == <<plugins, contributions, generation, report, job, check, hostRevision, alive,
                setUp, attempted, cleaned, exempt, calls>>

-----------------------------------------------------------------------------
NoJob == [op |-> "none"]

entryOf(id)    == CHOOSE e \in plugins : e.offer.id = id
isInstalled(id) == \E e \in plugins : e.offer.id = id

\* Dependencies first; a plugin that is not offered is no obstacle here, a
\* cycle is.
orderPlugins(offers) ==
    {order \in [1..Cardinality(offers) -> offers] :
        /\ IsInjective(order)
        /\ \A i, j \in DOMAIN order :
              (\E n \in order[i].needs : n.id = order[j].id) => j < i}

verifyPluginDependencies(offer) ==
    \A n \in offer.needs :
        isInstalled(n.id) /\ engineRangeSatisfies(entryOf(n.id).offer.version, n.range)

added(e) == {[no |-> e.no, id |-> e.offer.id, rule |-> r] : r \in e.rules}

\* #runPluginHook: a hook is called, and its answer taken, while the entry
\* takes calls and the editor lives.
takesCalls(no) == alive /\ \E e \in plugins : e.no = no /\ e.accepting

newNo == Cardinality(InitialOffers) + calls + 1

-----------------------------------------------------------------------------
PluginInit ==
    /\ \E order \in orderPlugins(InitialOffers) :
        plugins = {[no |-> i, offer |-> order[i], accepting |-> TRUE,
                    rules |-> order[i].rules] : i \in DOMAIN order}
    /\ contributions = UNION {added(e) : e \in plugins}
    /\ generation = Cardinality(plugins)
    /\ report = <<>>
    /\ job = NoJob
    /\ check = <<>>
    /\ hostRevision = 0
    /\ alive = TRUE
    /\ setUp = {e.no : e \in plugins}
    /\ attempted = {}
    /\ cleaned = {}
    /\ exempt = FALSE
    /\ calls = 0

PluginCall == alive /\ calls < MaxPluginCalls /\ calls' = calls + 1

ghosts == <<setUp, attempted, cleaned, exempt>>

Ends == job' = NoJob

numbers(entries) == {e.no : e \in entries}

\* The cleanup hook is called once and not waited for longer than the
\* timeout: it succeeded for these, it failed or timed out for the others.
safePluginCleanup(called, succeeded) ==
    attempted' = attempted \cup called /\ cleaned' = cleaned \cup succeeded

\* A new generation forgets every report.
NewGeneration == generation' = generation + 1 /\ report' = <<>>

InstallPlugin(offer) ==
    /\ PluginCall
    /\ job = NoJob
    /\ ~isInstalled(offer.id)
    /\ isManifest(offer) /\ negotiatePlugin(offer) /\ verifyPluginDependencies(offer)
    /\ job' = [op |-> "install", stage |-> "setup", offer |-> offer, no |-> newNo]
    /\ UNCHANGED <<plugins, contributions, generation, report, check, hostRevision, alive, ghosts>>

ReloadPlugin(offer) ==
    /\ PluginCall
    /\ job = NoJob
    /\ isInstalled(offer.id)
    /\ isManifest(offer) /\ negotiatePlugin(offer) /\ verifyPluginDependencies(offer)
    /\ job' = [op |-> "reload", stage |-> "setup", offer |-> offer, no |-> newNo]
    /\ UNCHANGED <<plugins, contributions, generation, report, check, hostRevision, alive, ghosts>>

\* #pausePlugin: the entry takes no calls, and hooks under way are aborted.
paused(e) == [e EXCEPT !.accepting = FALSE]

Pauses(id) ==
    /\ plugins' = (plugins \ {entryOf(id)}) \cup {paused(entryOf(id))}
    /\ NewGeneration

UninstallPlugin(id) ==
    /\ PluginCall
    /\ job = NoJob
    /\ isInstalled(id)
    /\ job' = [op |-> "uninstall", stage |-> "cleanup", offer |-> entryOf(id).offer, no |-> 0]
    /\ Pauses(id)
    /\ UNCHANGED <<contributions, check, hostRevision, alive, ghosts>>

\* The grant policy or setup fails, times out, is aborted, or a destroyed
\* editor aborts it; what was staged goes.
SetupFails ==
    /\ job.op \in {"install", "reload"} /\ job.stage = "setup"
    /\ Ends
    /\ UNCHANGED <<plugins, contributions, generation, report, check, hostRevision, alive, ghosts, calls>>

stagedEntry ==
    [no |-> job.no, offer |-> job.offer, accepting |-> TRUE, rules |-> job.offer.rules]

collides == \E c \in contributions : c.id = job.offer.id /\ c.rule \in job.offer.rules

SetupReturns ==
    /\ alive
    /\ job.op = "install" /\ job.stage = "setup"
    /\ setUp' = setUp \cup {job.no}
    /\ IF collides
       THEN /\ \E succeeded \in SUBSET {job.no} : safePluginCleanup({job.no}, succeeded)
            /\ UNCHANGED <<plugins, contributions, generation, report>>
       ELSE /\ plugins' = plugins \cup {stagedEntry}
            /\ contributions' = contributions \cup added(stagedEntry)
            /\ NewGeneration
            /\ UNCHANGED <<attempted, cleaned>>
    /\ Ends
    /\ UNCHANGED <<check, hostRevision, alive, exempt, calls>>

\* A reload sets the replacement up before it takes the old entry down.
ReplacementReady ==
    /\ alive
    /\ job.op = "reload" /\ job.stage = "setup"
    /\ setUp' = setUp \cup {job.no}
    /\ job' = [job EXCEPT !.stage = "cleanup"]
    /\ Pauses(job.offer.id)
    /\ UNCHANGED <<contributions, check, hostRevision, alive, attempted, cleaned, exempt, calls>>

removing == IF isInstalled(job.offer.id) THEN {entryOf(job.offer.id)} ELSE {}

UninstallCleanup(succeeds) ==
    /\ job.op = "uninstall"
    /\ safePluginCleanup(numbers(removing), IF succeeds THEN numbers(removing) ELSE {})
    /\ contributions' = contributions \ UNION {added(e) : e \in removing}
    /\ plugins' = plugins \ removing
    /\ Ends
    /\ UNCHANGED <<generation, report, check, hostRevision, alive, setUp, exempt, calls>>

\* The old entry takes calls again, the replacement is disposed of.
Resumes ==
    /\ plugins' = (plugins \ removing) \cup {[e EXCEPT !.accepting = TRUE] : e \in removing}
    /\ \E succeeded \in SUBSET {job.no} :
         safePluginCleanup(numbers(removing) \cup {job.no}, succeeded)
    /\ UNCHANGED contributions
    /\ NewGeneration

\* Also after the editor was destroyed: the replacement is installed then too.
Replaces ==
    /\ plugins' = (plugins \ removing) \cup {stagedEntry}
    /\ safePluginCleanup(numbers(removing), numbers(removing))
    /\ contributions' =
         (contributions \ UNION {added(e) : e \in removing}) \cup added(stagedEntry)
    /\ NewGeneration

ReloadCleanup(succeeds) ==
    /\ job.op = "reload" /\ job.stage = "cleanup"
    /\ IF succeeds THEN Replaces ELSE Resumes
    /\ Ends
    /\ UNCHANGED <<check, hostRevision, alive, setUp, exempt, calls>>

\* A plugin keeps the function that unregisters its rule and calls it later.
Withdraw(e, rule) ==
    /\ PluginCall
    /\ rule \in e.rules
    /\ plugins' = (plugins \ {e}) \cup {[e EXCEPT !.rules = @ \ {rule}]}
    /\ exempt' = TRUE
    /\ UNCHANGED <<contributions, generation, report, job, check, hostRevision, alive, setUp,
                   attempted, cleaned>>

\* A plugin's command, or any other commit.
ExecutePluginCommand(id) ==
    /\ PluginCall
    /\ job = NoJob
    /\ isInstalled(id) /\ entryOf(id).accepting
    /\ job' = [op |-> "command", stage |-> "hook", offer |-> entryOf(id).offer,
               no |-> entryOf(id).no]
    /\ UNCHANGED <<plugins, contributions, generation, report, check, hostRevision, alive, ghosts>>

CommandReturns(commits) ==
    /\ job.op = "command"
    /\ commits => takesCalls(job.no)
    /\ hostRevision' = IF commits THEN hostRevision + 1 ELSE hostRevision
    /\ Ends
    /\ UNCHANGED <<plugins, contributions, generation, report, check, alive, ghosts, calls>>

-----------------------------------------------------------------------------
(* Validation.                                                             *)

(* Mutant: only the document is compared.                                  *)
ignoresGeneration(c) == c.revision = hostRevision

isValidationCurrent(c) == c.revision = hostRevision /\ c.generation = generation

StartValidation ==
    /\ PluginCall
    /\ check = <<>>
    /\ check' = <<[revision |-> hostRevision, generation |-> generation, stage |-> "scan",
                   left |-> {}, asked |-> {}]>>
    /\ UNCHANGED <<plugins, contributions, generation, report, job, hostRevision, alive, ghosts>>

\* The caller aborts, the published state moves for the view's sake, a
\* validator times out, or the validation finds itself stale.
ValidationEnds ==
    /\ check # <<>>
    /\ check' = <<>>
    /\ UNCHANGED <<plugins, contributions, generation, report, job, hostRevision, alive, ghosts, calls>>

ScanDone ==
    /\ check # <<>>
    /\ check[1].stage = "scan"
    /\ isValidationCurrent(check[1])
    /\ check' = <<[check[1] EXCEPT !.stage = "next", !.left = contributions]>>
    /\ UNCHANGED <<plugins, contributions, generation, report, job, hostRevision, alive, ghosts, calls>>

\* A validator is called while its entry is installed, holds it and takes calls.
CallValidator(c) ==
    /\ check # <<>>
    /\ check[1].stage = "next"
    /\ c \in check[1].left
    /\ alive
    /\ isValidationCurrent(check[1])
    /\ \E e \in plugins : e.no = c.no /\ c.rule \in e.rules /\ e.accepting
    /\ check' = <<[check[1] EXCEPT !.stage = "hook", !.left = @ \ {c}, !.asked = @ \cup {c}]>>
    /\ UNCHANGED <<plugins, contributions, generation, report, job, hostRevision, alive, ghosts, calls>>

\* A validator that throws or answers nonsense leaves an issue.
ValidatorReturns ==
    /\ check # <<>>
    /\ check[1].stage = "hook"
    /\ isValidationCurrent(check[1])
    /\ check' = <<[check[1] EXCEPT !.stage = "next"]>>
    /\ UNCHANGED <<plugins, contributions, generation, report, job, hostRevision, alive, ghosts, calls>>

PublishValidationChanged ==
    /\ check # <<>>
    /\ check[1].stage = "next" /\ check[1].left = {}
    /\ isValidationCurrent(check[1])
    /\ report' = <<[revision |-> hostRevision, asked |-> check[1].asked]>>
    /\ check' = <<>>
    /\ UNCHANGED <<plugins, contributions, generation, job, hostRevision, alive, ghosts, calls>>

-----------------------------------------------------------------------------
\* Every installed plugin is cleaned up without waiting for it.
Destroy ==
    /\ alive
    /\ alive' = FALSE
    /\ exempt' = (exempt \/ (job.op = "reload" /\ job.stage = "cleanup"))
    /\ \E succeeded \in SUBSET numbers(plugins) :
         safePluginCleanup(numbers(plugins), succeeded)
    /\ plugins' = {}
    /\ contributions' = {}
    /\ NewGeneration
    /\ UNCHANGED <<job, check, hostRevision, setUp, calls>>

PluginNext ==
    \/ \E offer \in Offers : InstallPlugin(offer) \/ ReloadPlugin(offer)
    \/ \E id \in {o.id : o \in Offers} : UninstallPlugin(id) \/ ExecutePluginCommand(id)
    \/ SetupFails \/ SetupReturns \/ ReplacementReady
    \/ \E succeeds \in BOOLEAN :
        UninstallCleanup(succeeds) \/ ReloadCleanup(succeeds) \/ CommandReturns(succeeds)
    \/ \E e \in plugins : \E rule \in e.rules : Withdraw(e, rule)
    \/ StartValidation \/ ValidationEnds \/ ScanDone
    \/ \E c \in UNION {check[i].left : i \in DOMAIN check} : CallValidator(c)
    \/ ValidatorReturns \/ PublishValidationChanged
    \/ Destroy

-----------------------------------------------------------------------------
(* Properties.                                                             *)

\* The validators the host walks are those of the installed plugins.
contributionsAreInstalled == contributions = UNION {added(e) : e \in plugins}

\* A report of the published revision asked every validator there is.
reportIsComplete ==
    report # <<>> /\ report[1].revision = hostRevision => report[1].asked = contributions

\* An instance that was set up is installed, or about to be, or was cleaned
\* up; one whose cleanup succeeded serves no more.
instancesAreCleanedUp ==
    /\ setUp \subseteq numbers(plugins) \cup attempted \cup
                       (IF job.op = "reload" THEN {job.no} ELSE {})
    /\ cleaned \cap numbers({e \in plugins : e.accepting}) = {}

(* Whatever mix of installations, removals, failed reloads and validations *)
(* ran, and however it was cut by destroy: the validators are those of the *)
(* installed plugins, a current report comes from all of them, no plugin   *)
(* is lost without its cleanup, and a destroyed editor holds none          *)
(* (editor.ts:3445 and 5602).  Excluded are a plugin that withdraws a rule *)
(* itself, which leaves the rule behind in the host, and a destroy during  *)
(* the cleanup of a reload, after which the replacement is installed.      *)
PluginsAndReportsAgree ==
    ~exempt =>
        /\ contributionsAreInstalled
        /\ reportIsComplete
        /\ instancesAreCleanedUp
        /\ alive \/ plugins = {}

=============================================================================
