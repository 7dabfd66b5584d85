---------------------------- MODULE MCLifecycle ----------------------------
(* The two owners of a lifecycle machine in turn: an application with      *)
(* listeners that dispatches any event, and the Dart session.              *)
EXTENDS LifecycleObservers, SyncSession, TLC

VARIABLE owner

CallSymmetry == Permutations(Calls)

OwnedInit == ObserversInit /\ SessionInit /\ owner \in {"application", "session"}

OwnedNext ==
  \/ owner = "application" /\ ObserversNext /\ UNCHANGED <<session, owner>>
  \/ owner = "session" /\ SessionNext /\ UNCHANGED <<observation, owner>>

OwnedSpec == OwnedInit /\ [][OwnedNext]_<<vars, observation, session, owner>>
=============================================================================
