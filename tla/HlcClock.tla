------------------------------ MODULE HlcClock ------------------------------
(***************************************************************************)
(* The life of one device's Clock: local ticks and observed stamps in any  *)
(* order, against a physical clock that may jump anywhere, and restarts of *)
(* the process, which build a new Clock at (0, 0) because it is not        *)
(* persisted.                                                              *)
(***************************************************************************)
EXTENDS Hlc

CONSTANTS
  Actor,         \* rank of this device's actor id
  Walls,         \* values the device wall clock may show
  Remotes,       \* stamps that may arrive from other replicas
  MaxRestarts    \* bound: process restarts in one behaviour

ASSUME ActorAssumption == Actor \in Nat
ASSUME WallsAssumption == Walls \subseteq Nat
ASSUME RemotesAssumption == Remotes \subseteq {s \in Stamp : s.counter <= MaxCounter}
ASSUME RestartsAssumption == MaxRestarts \in Nat

VARIABLES
  clock,      \* the Clock object: its last stamp
  top,        \* ghost: the largest wall the device clock has shown
  seen,       \* ghost: in-drift remote stamps observed by this process
  restarts

vars == <<clock, top, seen, restarts>>

Fresh == [wall_ms |-> 0, counter |-> 0, actor |-> Actor]

Init ==
  /\ clock = Fresh
  /\ top = 0
  /\ seen = {}
  /\ restarts = 0

TickStep(now) ==
  /\ clock' = HlcTick(clock, now)
  /\ top' = HlcMax(top, now)
  /\ UNCHANGED <<seen, restarts>>

ObserveStep(remote, now) ==
  /\ clock' = HlcObserve(clock, remote, now)
  /\ seen' = IF InDrift(remote, now) THEN seen \cup {remote} ELSE seen
  /\ top' = HlcMax(top, now)
  /\ UNCHANGED restarts

Restart ==
  /\ restarts < MaxRestarts
  /\ restarts' = restarts + 1
  /\ clock' = Fresh
  /\ seen' = {}
  /\ UNCHANGED top

Next ==
  \/ \E now \in Walls : TickStep(now)
  \/ \E now \in Walls, remote \in Remotes : ObserveStep(remote, now)
  \/ Restart

Spec == Init /\ [][Next]_vars

-----------------------------------------------------------------------------
(* Every field has its type. *)
TypeOK ==
  /\ clock \in Stamp /\ clock.actor = Actor
  /\ top \in Nat
  /\ seen \subseteq Stamp
  /\ restarts \in Nat

(* observe(): "local stamps always sort after the last one seen"           *)
(* (docs/timestamps.md:43).  The clock is past every in-drift stamp this   *)
(* process has ever observed, not only the last one, until its counter     *)
(* saturates (src/hlc.rs).                                                 *)
PastEverySeen == \A r \in seen : HlcLess(r, clock) \/ clock.counter = MaxCounter

(* The drift clamp of observe(): whatever remote stamps arrive, in         *)
(* whatever order, the local clock never runs more than MAX_DRIFT_MS ahead *)
(* of the furthest wall time the device itself has shown.                  *)
WithinDrift == clock.wall_ms <= top + MAX_DRIFT_MS

(* tick() and observe(): within one process the clock only moves forward,  *)
(* although the wall clock jumps backwards between two calls, and every    *)
(* call moves it until its counter saturates.                              *)
Advances == HlcLess(clock, clock') \/ (clock' = clock /\ clock.counter = MaxCounter)
NeverBack == [][restarts' = restarts => Advances]_<<clock, seen, restarts>>
=============================================================================
