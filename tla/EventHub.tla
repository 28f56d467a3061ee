------------------------------ MODULE EventHub ------------------------------
(***************************************************************************)
(* The event hub (event-hub.ts).  dispatch takes a snapshot of the         *)
(* listeners of the event's type and calls, one after the other, those     *)
(* that the Set it was taken from still has.  A listener may subscribe,    *)
(* unsubscribe, clear, prevent, throw, return a promise, or dispatch,      *)
(* which is refused.  off forgets a Set that became empty and clear        *)
(* forgets all of them: a later on makes a new one, which the dispatch     *)
(* under way does not look at.                                             *)
(***************************************************************************)
EXTENDS Integers, SequencesExt

CONSTANTS
    Listeners,
    EventTypes,
    Cancellable,       \* CANCELLABLE_TYPES
    NoListener,
    MaxSequence,       \* bound: dispatches
    MaxHubCalls        \* bound: calls of on, off and clear

ASSUME HubAssumption ==
    /\ Cancellable \subseteq EventTypes
    /\ NoListener \notin Listeners
    /\ {MaxSequence, MaxHubCalls} \subseteq Nat

VARIABLES
    listeners,   \* #listeners: [EventTypes -> Seq(Listeners)], in order of insertion
    dispatching, \* the dispatch under way, or the last one
    calling,     \* the listener that runs
    counters,    \* [sequence, registered, removed, pendingAsync]
    promises,    \* promises of listeners that have not settled
    hubCalls

hubVars == <<listeners, dispatching, calling, counters, promises, hubCalls>>

NoDispatch ==
    [open |-> FALSE, type |-> CHOOSE t \in EventTypes : TRUE, rest |-> <<>>, kept |-> {},
     detached |-> FALSE, prevented |-> FALSE,
     first |-> <<>>, heard |-> <<>>, left |-> {}]

HubInit ==
    /\ listeners = [t \in EventTypes |-> <<>>]
    /\ dispatching = NoDispatch
    /\ calling = NoListener
    /\ counters = [sequence |-> 0, registered |-> 0, removed |-> 0, pendingAsync |-> 0]
    /\ promises = 0
    /\ hubCalls = 0

-----------------------------------------------------------------------------
(* Any code calls the hub, in a listener while a dispatch is under way.    *)

HubCall ==
    /\ dispatching.open => calling # NoListener
    /\ hubCalls < MaxHubCalls /\ hubCalls' = hubCalls + 1

subscriptions == {s \in EventTypes \X Listeners : Contains(listeners[s[1]], s[2])}
listenerCount == Cardinality(subscriptions)

\* The Set of the dispatch under way, if it is still the one of the type.
watched(t) == dispatching.open /\ dispatching.type = t /\ ~dispatching.detached

On(t, l) ==
    /\ HubCall
    /\ IF Contains(listeners[t], l)
       THEN UNCHANGED <<listeners, counters>>
       ELSE /\ listeners' = [listeners EXCEPT ![t] = Append(@, l)]
            /\ counters' = [counters EXCEPT !.registered = @ + 1]
    /\ dispatching' = IF watched(t) /\ Contains(dispatching.rest, l)
                      THEN [dispatching EXCEPT !.left = @ \ {l}] ELSE dispatching
    /\ UNCHANGED <<calling, promises>>

\* "left" records, for the property, who left before its turn.
Off(t, l) ==
    /\ HubCall
    /\ \E i \in DOMAIN listeners[t] :
         /\ listeners[t][i] = l
         /\ listeners' = [listeners EXCEPT ![t] = RemoveAt(@, i)]
    /\ counters' = [counters EXCEPT !.removed = @ + 1]
    /\ dispatching' = IF watched(t)
                      THEN [dispatching EXCEPT !.detached = listeners'[t] = <<>>,
                          !.left = IF Contains(dispatching.heard, l) THEN @ ELSE @ \cup {l}]
                      ELSE dispatching
    /\ UNCHANGED <<calling, promises>>

\* The Set that is forgotten keeps its listeners.
Clear ==
    /\ HubCall
    /\ counters' = [counters EXCEPT !.removed = @ + listenerCount]
    /\ listeners' = [t \in EventTypes |-> <<>>]
    /\ dispatching' = IF dispatching.open /\ ~dispatching.detached
                      THEN [dispatching EXCEPT !.detached = TRUE,
                                               !.kept = ToSet(listeners[dispatching.type])]
                      ELSE dispatching
    /\ UNCHANGED <<calling, promises>>

\* A dispatch in a listener is refused, and changes nothing.
Dispatch(t) ==
    /\ ~dispatching.open
    /\ counters.sequence < MaxSequence
    /\ counters' = [counters EXCEPT !.sequence = @ + 1]
    /\ dispatching' = [NoDispatch EXCEPT !.open = TRUE, !.type = t, !.rest = listeners[t],
                          !.detached = listeners[t] = <<>>, !.first = listeners[t]]
    /\ UNCHANGED <<listeners, calling, promises, hubCalls>>

PreventDefault ==
    /\ calling # NoListener /\ dispatching.type \in Cancellable
    /\ dispatching' = [dispatching EXCEPT !.prevented = TRUE]
    /\ UNCHANGED <<listeners, calling, counters, promises, hubCalls>>

-----------------------------------------------------------------------------
(* The loop of a dispatch.                                                 *)

(* Mutant: the snapshot alone says who is called.                          *)
trustsTheSnapshot(l) == TRUE

stillListens(l) ==
    IF dispatching.detached THEN l \in dispatching.kept
    ELSE Contains(listeners[dispatching.type], l)

\* Those that left are skipped.
CallListener ==
    /\ dispatching.open /\ calling = NoListener /\ dispatching.rest # <<>>
    /\ \E l \in {Head(dispatching.rest)} :
         IF stillListens(l)
         THEN /\ calling' = l
              /\ dispatching' = [dispatching EXCEPT !.rest = Tail(@), !.heard = Append(@, l)]
         ELSE /\ dispatching' = [dispatching EXCEPT !.rest = Tail(@)]
              /\ UNCHANGED calling
    /\ UNCHANGED <<listeners, counters, promises, hubCalls>>

\* What it throws is reported; a promise is waited for aside.
ListenerReturns(async) ==
    /\ calling # NoListener
    /\ calling' = NoListener
    /\ counters' = IF async THEN [counters EXCEPT !.pendingAsync = @ + 1] ELSE counters
    /\ promises' = IF async THEN promises + 1 ELSE promises
    /\ UNCHANGED <<listeners, dispatching, hubCalls>>

PromiseSettles ==
    /\ ~dispatching.open /\ promises > 0
    /\ promises' = promises - 1
    /\ counters' = [counters EXCEPT !.pendingAsync = @ - 1]
    /\ UNCHANGED <<listeners, dispatching, calling, hubCalls>>

DispatchEnds ==
    /\ dispatching.open /\ calling = NoListener /\ dispatching.rest = <<>>
    /\ dispatching' = [dispatching EXCEPT !.open = FALSE]
    /\ UNCHANGED <<listeners, calling, counters, promises, hubCalls>>

HubNext ==
    \/ \E t \in EventTypes, l \in Listeners : On(t, l) \/ Off(t, l)
    \/ Clear
    \/ \E t \in EventTypes : Dispatch(t)
    \/ PreventDefault
    \/ CallListener
    \/ \E async \in BOOLEAN : ListenerReturns(async)
    \/ PromiseSettles \/ DispatchEnds

-----------------------------------------------------------------------------
(* Properties.                                                             *)

(* An event is heard at most once by a listener, in the order in which     *)
(* they subscribed, and only by those that had when it was dispatched.     *)
(* One that left the Set before its turn, and did not come back in time,   *)
(* does not hear it; everyone else does, those included whom clear took    *)
(* away (event-hub.ts:219).  The counters tell how many listeners and      *)
(* promises there are.                                                     *)
EventIsHeardOnce ==
    /\ IsInjective(dispatching.heard)
    /\ ToSet(dispatching.heard) \subseteq ToSet(dispatching.first)
    /\ \A i, j \in DOMAIN dispatching.heard : i < j =>
         \E m, n \in DOMAIN dispatching.first :
            /\ dispatching.first[m] = dispatching.heard[i]
            /\ dispatching.first[n] = dispatching.heard[j]
            /\ m < n
    /\ ToSet(dispatching.heard) \cap dispatching.left = {}
    /\ ~dispatching.open =>
         ToSet(dispatching.first) \subseteq ToSet(dispatching.heard) \cup dispatching.left
    /\ counters.registered - counters.removed = listenerCount
    /\ counters.pendingAsync = promises

=============================================================================
