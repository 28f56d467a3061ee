--------------------------- MODULE ResourceRegistry ---------------------------
(***************************************************************************)
(* The resource registry (resource-registry.ts).  A resource is known by   *)
(* the number of its registration, so that the linked list of entries is a *)
(* set of numbers and its tail the largest.  A cleanup is foreign code: it *)
(* may register, dispose of another resource or of the registry, or throw. *)
(* What runs is a stack, where 0 is the loop of dispose and another number *)
(* the cleanup of that resource.                                           *)
(***************************************************************************)
EXTENDS Integers, Sequences, FiniteSets

CONSTANTS
    Kinds,            \* kinds of resources
    MaxResources      \* bound: registrations

ASSUME RegistryAssumption == MaxResources \in Nat

Resources == 1..MaxResources
DisposeLoop == 0

VARIABLES
    kindOf,       \* the kind of each resource that was registered
    active,       \* the entries whose cleanup is still to come
    linked,       \* the list of entries: #tail is its maximum
    disposed,     \* #disposed
    running,      \* the stack of calls
    attempts,     \* ghost: how often the cleanup of a resource was called
    ledger        \* [active, attempts, failures] per kind

registryVars == <<kindOf, active, linked, disposed, running, attempts, ledger>>

registered == DOMAIN kindOf

RegistryInit ==
    /\ kindOf = [n \in {} |-> 0]
    /\ active = {}
    /\ linked = {}
    /\ disposed = FALSE
    /\ running = <<>>
    /\ attempts = [n \in Resources |-> 0]
    /\ ledger = [k \in Kinds |-> [active |-> 0, attempts |-> 0, failures |-> 0]]

\* Anyone may call, but for the loop of dispose nothing runs beside it.
mayCall == running # <<>> => running[Len(running)] # DisposeLoop

-----------------------------------------------------------------------------
(* Mutant: a disposer that was used may be used again.                     *)
disposesAgain(n, entries, known, counts) ==
    /\ active' = entries \ {n}
    /\ linked' = linked \ {n}
    /\ ledger' = [counts EXCEPT ![known[n]].active = @ - 1, ![known[n]].attempts = @ + 1]
    /\ attempts' = [attempts EXCEPT ![n] = @ + 1]
    /\ running' = Append(running, n)

\* An entry that is not active is left alone.
disposeEntry(n, entries, known, counts) ==
    IF n \in entries
    THEN /\ active' = entries \ {n}
         /\ linked' = linked \ {n}
         /\ ledger' = [counts EXCEPT ![known[n]].active = @ - 1, ![known[n]].attempts = @ + 1]
         /\ attempts' = [attempts EXCEPT ![n] = @ + 1]
         /\ running' = Append(running, n)
    ELSE UNCHANGED <<active, linked, ledger, attempts, running>>

\* What is registered with a registry that was disposed of is cleaned up at once.
Register(n, kind) ==
    /\ mayCall
    /\ n \notin registered /\ \A m \in Resources : m < n => m \in registered
    /\ kindOf' = [m \in registered \cup {n} |-> IF m = n THEN kind ELSE kindOf[m]]
    /\ \E counts \in {[ledger EXCEPT ![kind].active = @ + 1]} :
         IF disposed
         THEN disposeEntry(n, active \cup {n}, kindOf', counts)
         ELSE /\ active' = active \cup {n}
              /\ linked' = linked \cup {n}
              /\ ledger' = counts
              /\ UNCHANGED <<attempts, running>>
    /\ UNCHANGED disposed

\* The disposer that register returned.
DisposeOne(n) ==
    /\ mayCall
    /\ n \in registered
    /\ disposeEntry(n, active, kindOf, ledger)
    /\ UNCHANGED <<kindOf, disposed>>

Dispose ==
    /\ mayCall
    /\ ~disposed
    /\ disposed' = TRUE
    /\ running' = Append(running, DisposeLoop)
    /\ UNCHANGED <<kindOf, active, linked, attempts, ledger>>

\* The loop of dispose: the last entry, or the end.
DisposeTail ==
    /\ ~mayCall
    /\ IF linked = {}
       THEN /\ running' = SubSeq(running, 1, Len(running) - 1)
            /\ UNCHANGED <<active, linked, ledger, attempts>>
       ELSE \E n \in linked : (\A m \in linked : m <= n) /\ disposeEntry(n, active, kindOf, ledger)
    /\ UNCHANGED <<kindOf, disposed>>

CleanupReturns(throws) ==
    /\ running # <<>> /\ mayCall
    /\ \E kind \in {kindOf[running[Len(running)]]} :
         ledger' = IF throws THEN [ledger EXCEPT ![kind].failures = @ + 1] ELSE ledger
    /\ running' = SubSeq(running, 1, Len(running) - 1)
    /\ UNCHANGED <<kindOf, active, linked, disposed, attempts>>

RegistryNext ==
    \/ \E n \in Resources, kind \in Kinds : Register(n, kind)
    \/ \E n \in Resources : DisposeOne(n)
    \/ Dispose \/ DisposeTail
    \/ \E throws \in BOOLEAN : CleanupReturns(throws)

RegistrySpec == RegistryInit /\ [][RegistryNext]_registryVars

-----------------------------------------------------------------------------
(* Properties.                                                             *)

(* A cleanup is called once, whoever disposes of what from where, and when *)
(* dispose is over no resource is left, those included that a cleanup      *)
(* registered meanwhile; the diagnostics count what is there               *)
(* (resource-registry.ts:251).                                             *)
EachResourceIsCleanedOnce ==
    /\ \A n \in Resources : attempts[n] <= 1
    /\ \A n \in registered : n \in linked <=> attempts[n] = 0
    /\ disposed /\ running = <<>> => linked = {}
    /\ \A k \in Kinds : ledger[k].active = Cardinality({n \in linked : kindOf[n] = k})

=============================================================================
