------------------------- MODULE AppLifecycleProofs -------------------------
(***************************************************************************)
(* What AppLifecycle guarantees for every generation limit: the snapshot   *)
(* stays coherent under every sequence of events, revoked tokens stay      *)
(* revoked, and the phases never skip the cleanup.                         *)
(***************************************************************************)
EXTENDS AppLifecycle, TLAPS

(* The tokens revoked so far are allocated ones, so that the next token,   *)
(* generation + 1, is none of them.                                        *)
RevokedAllocated == \A r \in revoked : r # None /\ r <= snapshot.generation

(* The inductive invariant: coherence alone does not say that a token that *)
(* is about to be allocated was never revoked.                             *)
IInv == TypeOK /\ Validated /\ RevokedAllocated /\ RevokedForGood

(* The machine starts stopped at generation 0, with no token revoked.      *)
LEMMA InitInv == Init => IInv
  BY GenerationAssumption DEF Init, IInv, TypeOK, Validated, TokenInRange, Coherent, Stopped, None,
     Snapshot, Phases, Operations, Failures, Outcomes, RevokedAllocated, RevokedForGood

(* What every applied transition has in common: the token stays, goes, or  *)
(* becomes the next generation.                                            *)
Follows ==
  /\ snapshot' \in Snapshot
  /\ snapshot'.generation \in {snapshot.generation, snapshot.generation + 1}
  /\ snapshot'.generation <= MAX_SAFE_GENERATION
  /\ \/ snapshot'.active_token = None
     \/ snapshot'.active_token = snapshot.active_token
     \/ snapshot'.active_token = snapshot.generation + 1 /\ snapshot'.generation = snapshot.generation + 1

(* An applied transition to a coherent snapshot keeps the invariant.       *)
LEMMA ApplyInv ==
  ASSUME IInv, Follows, Apply(snapshot'), Coherent'
  PROVE  IInv'
<1> DEFINE old == snapshot.active_token
           new == snapshot'.active_token
<1>1. TypeOK'
  BY DEF IInv, TypeOK, Snapshot, Outcomes, Apply, Follows
<1>2. Validated'
  BY GenerationAssumption DEF IInv, TypeOK, Validated, TokenInRange, Snapshot, Follows, None
<1>3. revoked' \subseteq revoked \cup {old} /\ (old \in {None, new} => revoked' = revoked)
  BY DEF Apply
<1>4. /\ old \in Nat /\ snapshot.generation \in Nat /\ old <= snapshot.generation
      /\ snapshot'.generation >= snapshot.generation /\ snapshot'.generation \in Nat
      /\ \A r \in revoked : r \in Nat /\ r # None /\ r <= snapshot.generation
  BY DEF IInv, TypeOK, Validated, TokenInRange, Snapshot, Follows, RevokedAllocated
<1>5. RevokedAllocated'
  BY <1>3, <1>4 DEF RevokedAllocated, None
<1>6. new \notin revoked'
  BY <1>3, <1>4 DEF IInv, RevokedForGood, Follows, None
<1>7. QED
  BY <1>1, <1>2, <1>5, <1>6 DEF IInv, RevokedForGood

(* A refused event, and a stuttering step, keep it.                        *)
LEMMA RefuseInv ==
  ASSUME IInv, NEW result \in Outcomes, Refuse(result)
  PROVE  IInv'
  BY DEF Refuse, IInv, TypeOK, Validated, TokenInRange, Coherent, IsCurrent, RevokedAllocated,
     RevokedForGood

(* begin_stop allocates the next token for a cleanup.                      *)
LEMMA BeginStopInv ==
  ASSUME IInv, NEW operation \in {"stop", "reconcile"}, BeginStop(operation)
  PROVE  IInv'
<1>1. CASE snapshot.generation < MAX_SAFE_GENERATION
  <2>1. snapshot' = [phase |-> "stopping", operation |-> operation,
                    generation |-> snapshot.generation + 1,
                    active_token |-> snapshot.generation + 1,
                    desired_running |-> FALSE, online |-> FALSE, failure |-> "none"]
    BY <1>1 DEF BeginStop, Apply
  <2>2. Apply(snapshot')
    BY <1>1 DEF BeginStop, Apply
  <2>3. Follows
    BY <1>1, <2>1, GenerationAssumption
    DEF Follows, IInv, TypeOK, Snapshot, Phases, Operations, Failures
  <2>4. Coherent'
    BY <2>1 DEF Coherent, IsCurrent, IInv, TypeOK, Snapshot
  <2>5. QED
    BY <2>2, <2>3, <2>4, ApplyInv
<1>2. CASE ~(snapshot.generation < MAX_SAFE_GENERATION)
  BY <1>2, RefuseInv DEF BeginStop, Outcomes
<1>3. QED
  BY <1>1, <1>2

(* fail() closes the session and revokes its token.                        *)
LEMMA FailInv ==
  ASSUME IInv, NEW failure \in Failures \ {"none"}, Fail(failure)
  PROVE  IInv'
<1>1. Apply(snapshot')
  BY DEF Fail, Apply
<1>2. Follows
  BY DEF Fail, Apply, Follows, Stopped, IInv, TypeOK, Validated, TokenInRange, Snapshot, Phases,
     Operations, Failures, None
<1>3. Coherent'
  BY DEF Fail, Apply, Coherent, Stopped, Failures
<1>4. QED
  BY <1>1, <1>2, <1>3, ApplyInv

(* StartRequested allocates the next token, from stopped only.             *)
LEMMA StartInv ==
  ASSUME IInv, StartRequested
  PROVE  IInv'
<1>1. CASE snapshot.phase = "stopped" /\ snapshot.generation < MAX_SAFE_GENERATION
  <2>1. snapshot' = [phase |-> "starting", operation |-> "start",
                    generation |-> snapshot.generation + 1,
                    active_token |-> snapshot.generation + 1,
                    desired_running |-> TRUE, online |-> FALSE, failure |-> "none"]
    BY <1>1 DEF StartRequested, Apply
  <2>2. Apply(snapshot')
    BY <1>1 DEF StartRequested, Apply
  <2>3. Follows
    BY <1>1, <2>1, GenerationAssumption
    DEF Follows, IInv, TypeOK, Snapshot, Phases, Operations, Failures
  <2>4. Coherent'
    BY <2>1 DEF Coherent, IsCurrent, IInv, TypeOK, Snapshot
  <2>5. QED
    BY <2>2, <2>3, <2>4, ApplyInv
<1>2. CASE ~(snapshot.phase = "stopped" /\ snapshot.generation < MAX_SAFE_GENERATION)
  BY <1>2, RefuseInv DEF StartRequested, Outcomes
<1>3. QED
  BY <1>1, <1>2

(* Every event that carries a token keeps the invariant.                   *)
LEMMA TokenEventInv ==
  ASSUME IInv, NEW token, TokenEvent(token)
  PROVE  IInv'
<1> DEFINE Refused == \E result \in Outcomes : Refuse(result)
<1>1. ASSUME Refused PROVE IInv'
  BY <1>1, RefuseInv
<1>2. CASE StartSucceeded(token)
  <2>1. CASE snapshot.phase = "starting" /\
             Apply([snapshot EXCEPT !.phase = IF snapshot.online THEN "online" ELSE "offline",
                                    !.operation = "none"])
    <3>1. Apply(snapshot')
      BY <2>1 DEF Apply
    <3>2. Follows
      BY <2>1 DEF Apply, Follows, IInv, TypeOK, Validated, TokenInRange, Snapshot, Phases,
         Operations
    <3>3. Coherent'
      BY <2>1 DEF Apply, Coherent, IsCurrent, IInv, TypeOK, Validated, Snapshot
    <3>4. QED
      BY <3>1, <3>2, <3>3, ApplyInv
  <2>2. QED
    BY <1>1, <1>2, <2>1 DEF StartSucceeded, WithToken, Relation, Outcomes
<1>3. CASE StartFailed(token)
  BY <1>1, <1>3, FailInv DEF StartFailed, WithToken, Relation, Outcomes, Failures
<1>4. ASSUME NEW online \in BOOLEAN, ConnectivityChanged(token, online)
      PROVE  IInv'
  <2> DEFINE target == IF snapshot.phase = "starting" THEN "starting"
                       ELSE IF online THEN "online" ELSE "offline"
  <2>1. CASE snapshot.phase \in Running /\
             Apply([snapshot EXCEPT !.online = online, !.phase = target])
    <3>1. Apply(snapshot')
      BY <2>1 DEF Apply
    <3>2. Follows
      BY <2>1, <1>4 DEF Apply, Follows, IInv, TypeOK, Validated, TokenInRange, Snapshot, Phases
    <3>3. Coherent'
      BY <2>1, <1>4 DEF Apply, Coherent, IsCurrent, IInv, TypeOK, Validated, Snapshot, Running
    <3>4. QED
      BY <3>1, <3>2, <3>3, ApplyInv
  <2>2. QED
    BY <1>1, <1>4, <2>1 DEF ConnectivityChanged, WithToken, Relation, Outcomes
<1>5. CASE RuntimeFailed(token)
  BY <1>1, <1>5, FailInv DEF RuntimeFailed, WithToken, Relation, Outcomes, Failures
<1>6. CASE StopSucceeded(token)
  <2>1. CASE Apply(Stopped(snapshot.generation))
    <3>1. Apply(snapshot')
      BY <2>1 DEF Apply
    <3>2. Follows
      BY <2>1 DEF Apply, Follows, Stopped, IInv, TypeOK, Validated, TokenInRange, Snapshot,
         Phases, Operations, Failures, None
    <3>3. Coherent'
      BY <2>1 DEF Apply, Coherent, Stopped
    <3>4. QED
      BY <3>1, <3>2, <3>3, ApplyInv
  <2>2. QED
    BY <1>1, <1>6, <2>1 DEF StopSucceeded, WithToken, Relation, Outcomes
<1>7. CASE StopFailed(token)
  BY <1>1, <1>7, FailInv DEF StopFailed, WithToken, Relation, Outcomes, Failures
<1>8. QED
  BY <1>2, <1>3, <1>4, <1>5, <1>6, <1>7 DEF TokenEvent

(* Every step of the machine keeps the invariant.                          *)
LEMMA NextInv == IInv /\ [Next]_vars => IInv'
<1> SUFFICES ASSUME IInv, [Next]_vars PROVE IInv'
  OBVIOUS
<1>1. CASE StartRequested
  BY <1>1, StartInv
<1>2. CASE StopRequested
  BY <1>2, RefuseInv, BeginStopInv DEF StopRequested, Outcomes, IInv, TypeOK, Snapshot, Phases,
     Running
<1>3. CASE ReconcileRequested
  BY <1>3, RefuseInv, BeginStopInv DEF ReconcileRequested, Outcomes
<1>4. CASE \E token \in Tokens : TokenEvent(token)
  BY <1>4, TokenEventInv
<1>5. CASE UNCHANGED vars
  BY <1>5 DEF vars, IInv, TypeOK, Validated, TokenInRange, Coherent, IsCurrent,
     RevokedAllocated, RevokedForGood
<1>6. QED
  BY <1>1, <1>2, <1>3, <1>4, <1>5 DEF Next

(* IInv holds in every reachable state.                                    *)
THEOREM Invariance == Spec => []IInv
  BY InitInv, NextInv, PTL DEF Spec

(* The types are right in every reachable state.                           *)
THEOREM TypeCorrect == Spec => []TypeOK
  BY Invariance, PTL DEF IInv

(* The debug_assert at the end of dispatch never fails: whatever events    *)
(* arrive with whatever tokens, the snapshot is one validate() accepts.    *)
THEOREM AlwaysValid == Spec => []Valid
<1>1. IInv => Valid
  BY DEF IInv, Valid
<1>2. QED
  BY <1>1, Invariance, PTL

(* A revoked token is never current again: a late completion of an older   *)
(* session can never act on a newer one.                                   *)
THEOREM RevokedStaysRevoked == Spec => []RevokedForGood
  BY Invariance, PTL DEF IInv

(* No step brings a stopping, failed or stopped session back to a running  *)
(* phase but a start from stopped.                                         *)
THEOREM PhasesInOrder == Spec => NoResurrection
<1> DEFINE Step == /\ snapshot.phase = "stopping" => snapshot'.phase \in {"stopping", "stopped", "failed"}
                   /\ snapshot.phase = "failed" => snapshot'.phase \in {"failed", "stopping"}
                   /\ snapshot.phase = "stopped" => snapshot'.phase \in {"stopped", "starting"}
<1>1. IInv /\ [Next]_vars => [Step]_snapshot
  <2> SUFFICES ASSUME IInv, Next PROVE Step \/ UNCHANGED snapshot
    BY DEF vars
  <2>1. CASE StartRequested
    BY <2>1 DEF StartRequested, Apply, Refuse
  <2>2. CASE StopRequested
    BY <2>2 DEF StopRequested, BeginStop, Apply, Refuse, Running, IInv, TypeOK, Snapshot, Phases
  <2>3. CASE ReconcileRequested
    BY <2>3 DEF ReconcileRequested, BeginStop, Apply, Refuse
  <2>4. ASSUME NEW token, TokenEvent(token) PROVE Step \/ UNCHANGED snapshot
    <3>1. CASE StartSucceeded(token)
      BY <3>1 DEF StartSucceeded, WithToken, Relation, Apply, Refuse
    <3>2. CASE StartFailed(token)
      BY <3>2 DEF StartFailed, WithToken, Relation, Apply, Refuse, Fail, Stopped
    <3>3. CASE RuntimeFailed(token)
      BY <3>3 DEF RuntimeFailed, WithToken, Relation, Apply, Refuse, Fail, Stopped, Running
    <3>4. CASE StopSucceeded(token)
      <4>1. \/ snapshot.phase = "stopping" /\ snapshot' = Stopped(snapshot.generation)
            \/ UNCHANGED snapshot
        BY <3>4 DEF StopSucceeded, WithToken, Relation, Apply, Refuse
      <4>2. QED
        BY <4>1 DEF Stopped
    <3>5. CASE StopFailed(token)
      BY <3>5 DEF StopFailed, WithToken, Relation, Apply, Refuse, Fail, Stopped
    <3>6. ASSUME NEW online \in BOOLEAN, ConnectivityChanged(token, online)
          PROVE  Step \/ UNCHANGED snapshot
      BY <3>6 DEF ConnectivityChanged, WithToken, Relation, Apply, Refuse, Running
    <3>7. QED
      BY <2>4, <3>1, <3>2, <3>3, <3>4, <3>5, <3>6 DEF TokenEvent
  <2>5. QED
    BY <2>1, <2>2, <2>3, <2>4 DEF Next
<1>2. QED
  BY <1>1, Invariance, PTL DEF Spec, NoResurrection
=============================================================================
