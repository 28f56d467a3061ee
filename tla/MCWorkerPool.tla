---------------------------- MODULE MCWorkerPool ----------------------------
(* WorkerPool on small instances: two instances a and b, one merge key k,  *)
(* the kinds of task that a run's host submits and what it offers.         *)
EXTENDS WorkerPool, TLC

CONSTANTS a, b, k

plain(i) == [instance |-> i, key |-> NoKey, priority |-> 1, replayable |-> FALSE]
replayed(i) == [plain(i) EXCEPT !.replayable = TRUE]

MergedKinds == {[replayed(a) EXCEPT !.key = k], plain(b)}
UrgentKinds == {[replayed(a) EXCEPT !.priority = 2], plain(b)}
PlainKinds == {plain(a)}

offers(factory, loads, fallback) ==
  [factory |-> factory, loads |-> loads, fallback |-> fallback]

Workers == {offers("works", TRUE, FALSE)}
BadScript == {offers("works", FALSE, TRUE)}
AllHosts == Workers \cup {offers("flaky", FALSE, TRUE), offers("none", FALSE, TRUE),
                          offers("none", FALSE, FALSE)}

SlotSymmetry == Permutations(Slot)
=============================================================================
