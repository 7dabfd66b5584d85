---------------------------- MODULE AppLifecycle ----------------------------
(***************************************************************************)
(* The application/session lifecycle reducer (src/lifecycle.rs; the SDK's  *)
(* lifecycle.mjs and the Dart lifecycle.dart repeat it).  Start and stop   *)
(* requests come from the application; completions, connectivity changes   *)
(* and runtime failures come from asynchronous effects that carry the      *)
(* token they were started with, at any later time and any number of       *)
(* times.  Token 0 stands for None in active_token and for the invalid     *)
(* token 0 in an event.                                                    *)
(***************************************************************************)
EXTENDS Integers

CONSTANT MAX_SAFE_GENERATION   \* the generation counter never exceeds this

ASSUME GenerationAssumption == MAX_SAFE_GENERATION \in Nat

Phases == {"stopped", "starting", "online", "offline", "stopping", "failed"}
Operations == {"none", "start", "stop", "reconcile"}
Failures == {"none", "start", "runtime", "stop"}
Outcomes == {"applied", "stuttered", "stale", "rejected"}

None == 0

Snapshot == [phase : Phases, operation : Operations, generation : Nat, active_token : Nat,
             desired_running : BOOLEAN, online : BOOLEAN, failure : Failures]

VARIABLES
  snapshot,   \* AppLifecycleMachine.snapshot
  outcome,    \* what the last dispatch returned
  revoked     \* ghost: tokens that were active once and are not any more

vars == <<snapshot, outcome, revoked>>

Stopped(generation) ==
  [phase |-> "stopped", operation |-> "none", generation |-> generation, active_token |-> None,
   desired_running |-> FALSE, online |-> FALSE, failure |-> "none"]

(* validate(): the generation's range, and the fields each phase allows.   *)
TokenInRange ==
  /\ snapshot.generation <= MAX_SAFE_GENERATION
  /\ snapshot.active_token <= snapshot.generation

IsCurrent == snapshot.active_token = snapshot.generation /\ snapshot.generation # 0

Coherent ==
  CASE snapshot.phase = "stopped" -> snapshot = Stopped(snapshot.generation)
    [] snapshot.phase = "starting" ->
         /\ snapshot.operation = "start" /\ IsCurrent
         /\ snapshot.desired_running /\ snapshot.failure = "none"
    [] snapshot.phase \in {"online", "offline"} ->
         /\ snapshot.operation = "none" /\ IsCurrent
         /\ snapshot.online = (snapshot.phase = "online")
         /\ snapshot.desired_running /\ snapshot.failure = "none"
    [] snapshot.phase = "stopping" ->
         /\ snapshot.operation \in {"stop", "reconcile"} /\ IsCurrent
         /\ ~snapshot.desired_running /\ ~snapshot.online /\ snapshot.failure = "none"
    [] snapshot.phase = "failed" ->
         /\ snapshot.failure # "none"
         /\ snapshot = [Stopped(snapshot.generation) EXCEPT
                          !.phase = "failed", !.failure = snapshot.failure]

Validated == TokenInRange /\ Coherent

Init ==
  /\ snapshot = Stopped(0)
  /\ outcome = "applied"
  /\ revoked = {}

-----------------------------------------------------------------------------
(* Variant: any allocated token will do while there is a session. *)
RelationAllocated(token) ==
  IF token = 0 \/ token > snapshot.generation THEN "invalid"
  ELSE IF snapshot.active_token = None THEN "stale" ELSE "current"

(* token_relation: only an allocated, now revoked token is stale.          *)
Relation(token) ==
  CASE token = 0 -> "invalid"
    [] token # 0 /\ token = snapshot.active_token -> "current"
    [] token # 0 /\ token # snapshot.active_token ->
         IF token <= snapshot.generation THEN "stale" ELSE "invalid"

Running == {"starting", "online", "offline"}

(* An applied transition: the token it replaces is revoked.                *)
Apply(next) ==
  /\ snapshot' = next
  /\ outcome' = "applied"
  /\ revoked' = IF snapshot.active_token \in {None, next.active_token} THEN revoked
                ELSE revoked \cup {snapshot.active_token}

Refuse(result) == outcome' = result /\ UNCHANGED <<snapshot, revoked>>

(* Variant (a bug to be caught): the relation is returned as the outcome. *)
WithTokenRelation(token, phases, Applied) ==
  IF Relation(token) = "current" /\ snapshot.phase \in phases THEN Applied
  ELSE Refuse(Relation(token))

(* The guard of every event that carries a token: stale, invalid, in the   *)
(* wrong phase, or applied as Applied says.                                *)
WithToken(token, phases, Applied) ==
  CASE Relation(token) = "stale" -> Refuse("stale")
    [] Relation(token) = "invalid" -> Refuse("rejected")
    [] Relation(token) = "current" ->
         IF snapshot.phase \in phases THEN Applied ELSE Refuse("rejected")

(* begin_stop *)
BeginStop(operation) ==
  IF snapshot.generation < MAX_SAFE_GENERATION
  THEN Apply([phase |-> "stopping", operation |-> operation,
              generation |-> snapshot.generation + 1,
              active_token |-> snapshot.generation + 1,
              desired_running |-> FALSE, online |-> FALSE, failure |-> "none"])
  ELSE Refuse("rejected")

(* Variant: a failure leaves the intent to run. *)
FailKeepsIntent(failure) ==
  Apply([Stopped(snapshot.generation) EXCEPT
           !.phase = "failed", !.failure = failure,
           !.desired_running = snapshot.desired_running])

(* fail *)
Fail(failure) ==
  Apply([Stopped(snapshot.generation) EXCEPT !.phase = "failed", !.failure = failure])

-----------------------------------------------------------------------------
(* dispatch, one action per event. *)

(* Variant: a restart reuses the last generation. *)
StartReusesGeneration ==
  IF snapshot.phase = "stopped" /\ snapshot.generation < MAX_SAFE_GENERATION
  THEN LET token == IF snapshot.generation = 0 THEN 1 ELSE snapshot.generation
       IN  Apply([phase |-> "starting", operation |-> "start",
                  generation |-> token, active_token |-> token,
                  desired_running |-> TRUE, online |-> FALSE, failure |-> "none"])
  ELSE Refuse("rejected")

StartRequested ==
  IF snapshot.phase = "stopped" /\ snapshot.generation < MAX_SAFE_GENERATION
  THEN Apply([phase |-> "starting", operation |-> "start",
              generation |-> snapshot.generation + 1,
              active_token |-> snapshot.generation + 1,
              desired_running |-> TRUE, online |-> FALSE, failure |-> "none"])
  ELSE Refuse("rejected")

StartSucceeded(token) ==
  WithToken(token, {"starting"},
    Apply([snapshot EXCEPT !.phase = IF snapshot.online THEN "online" ELSE "offline",
                           !.operation = "none"]))

StartFailed(token) == WithToken(token, {"starting"}, Fail("start"))

(* Variant: connectivity is applied in every phase. *)
ConnectivityInAnyPhase(token, online) ==
  WithToken(token, Phases,
    Apply([snapshot EXCEPT !.online = online, !.phase = IF online THEN "online" ELSE "offline"]))

ConnectivityChanged(token, online) ==
  LET target == IF snapshot.phase = "starting" THEN "starting"
                ELSE IF online THEN "online" ELSE "offline"
  IN  WithToken(token, Running,
        IF snapshot.online = online /\ snapshot.phase = target
        THEN Refuse("stuttered")
        ELSE Apply([snapshot EXCEPT !.online = online, !.phase = target]))

RuntimeFailed(token) == WithToken(token, Running, Fail("runtime"))

StopRequested ==
  CASE snapshot.phase \in {"stopped", "stopping"} -> Refuse("stuttered")
    [] snapshot.phase = "failed" -> Refuse("rejected")
    [] snapshot.phase \in Running -> BeginStop("stop")

StopSucceeded(token) == WithToken(token, {"stopping"}, Apply(Stopped(snapshot.generation)))

StopFailed(token) == WithToken(token, {"stopping"}, Fail("stop"))

ReconcileRequested ==
  IF snapshot.phase = "failed" THEN BeginStop("reconcile") ELSE Refuse("rejected")

(* Tokens an event may carry: 0, every allocated one, and the next one,    *)
(* not allocated yet.                                                      *)
Tokens == 0 .. snapshot.generation + 1

TokenEvent(token) ==
  \/ StartSucceeded(token)
  \/ StartFailed(token)
  \/ \E online \in BOOLEAN : ConnectivityChanged(token, online)
  \/ RuntimeFailed(token)
  \/ StopSucceeded(token)
  \/ StopFailed(token)

Next ==
  \/ StartRequested
  \/ StopRequested
  \/ ReconcileRequested
  \/ \E token \in Tokens : TokenEvent(token)

Spec == Init /\ [][Next]_vars

-----------------------------------------------------------------------------
(* Every variable has its type. *)
TypeOK ==
  /\ snapshot \in Snapshot
  /\ outcome \in Outcomes
  /\ revoked \subseteq Nat

(* The debug_assert of dispatch: after any sequence of events, whatever    *)
(* tokens they carry, phase, operation, token, intent, connectivity and    *)
(* failure agree.                                                          *)
Valid == Validated

(* "A completion from an older generation ... cannot resurrect a stopped   *)
(* or replaced session" (src/lifecycle.rs:5): a token that was revoked is  *)
(* never current again.                                                    *)
RevokedForGood == snapshot.active_token \notin revoked

(* The phases never go back to a running one without passing through       *)
(* stopped: only the completion of a cleanup ends stopping, and "failed    *)
(* cannot restart directly" (formal/README.md:36).                         *)
NoResurrection ==
  [][/\ snapshot.phase = "stopping" => snapshot'.phase \in {"stopping", "stopped", "failed"}
     /\ snapshot.phase = "failed" => snapshot'.phase \in {"failed", "stopping"}
     /\ snapshot.phase = "stopped" => snapshot'.phase \in {"stopped", "starting"}]_snapshot
=============================================================================
