-------------------------- MODULE PersistenceQueue --------------------------
(***************************************************************************)
(* What remote persistence promises to the owner of a document, whatever   *)
(* the network, the DataSource and the recovery hooks do: the lifecycle of *)
(* section 4.5 of the design document,                                     *)
(*                                                                         *)
(*   localApplied -> pending -> acknowledged                               *)
(*                           -> rejected   -> rolledBack                   *)
(*                           -> conflicted -> rebased | rolledBack         *)
(*                                          | reloadRequired               *)
(*                                                                         *)
(* seen from the receipts.  Submitted transactions form one queue.  Only   *)
(* the oldest is acknowledged or fails, only the newest is cancelled, and  *)
(* everything else happens to all of them together.                        *)
(***************************************************************************)
EXTENDS Integers, SequencesExt

CONSTANT Tx

VARIABLES
  status,  \* what the receipt of a transaction has resolved to
  pending, \* transactions awaiting confirmation, oldest first
  held     \* unresolved transactions kept for a retry or a reload

qvars == <<status, pending, held>>

Resolve(T, s) == [t \in Tx |-> IF t \in T THEN s ELSE status[t]]

QInit ==
  /\ status = [t \in Tx |-> "none"]
  /\ pending = <<>>
  /\ held = <<>>

Submit(t) ==
  /\ held = <<>> /\ status[t] = "none"
  /\ pending' = Append(pending, t)
  /\ status' = Resolve({t}, "pending")
  /\ UNCHANGED held

(* The oldest transaction is confirmed, or fails alone: the others go on.  *)
Conclude(s) ==
  /\ pending # <<>>
  /\ pending' = Tail(pending)
  /\ status' = Resolve({Head(pending)}, s)
  /\ UNCHANGED held

(* The newest transaction is taken back.                                   *)
Withdraw ==
  /\ pending # <<>>
  /\ pending' = Front(pending)
  /\ status' = Resolve({Last(pending)}, "cancelled")
  /\ UNCHANGED held

(* Nobody knows what became of the queue: all of it is held.               *)
Hold ==
  /\ pending # <<>>
  /\ held' = pending
  /\ pending' = <<>>
  /\ status' = Resolve(ToSet(pending), "reloadRequired")

(* The oldest fails and the others cannot be rebased: they are held.       *)
FailAndHold(s) ==
  /\ Len(pending) > 1
  /\ held' = Tail(pending)
  /\ pending' = <<>>
  /\ status' = [Resolve(ToSet(Tail(pending)), "reloadRequired")
                 EXCEPT ![Head(pending)] = s]

Retry ==
  /\ held # <<>>
  /\ pending' = held
  /\ held' = <<>>
  /\ status' = Resolve(ToSet(held), "pending")

(* The document is reloaded: what was held is given up.                    *)
Forget ==
  /\ held # <<>>
  /\ held' = <<>>
  /\ UNCHANGED <<status, pending>>

(* The document is left.                                                   *)
Abandon(s) ==
  /\ pending \o held # <<>>
  /\ status' = Resolve(ToSet(pending), s)
  /\ pending' = <<>>
  /\ held' = <<>>

QNext ==
  \/ \E t \in Tx : Submit(t)
  \/ \E s \in {"acknowledged", "rejected", "conflicted"} : Conclude(s)
  \/ Withdraw
  \/ Hold
  \/ \E s \in {"rejected", "conflicted"} : FailAndHold(s)
  \/ Retry
  \/ Forget
  \/ \E s \in {"stale", "aborted"} : Abandon(s)

QSpec == QInit /\ [][QNext]_qvars
=============================================================================
