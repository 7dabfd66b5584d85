-------------------------------- MODULE Hlc --------------------------------
(***************************************************************************)
(* Hybrid logical clock stamps: the total order every replica reconciles   *)
(* with, and the two clock updates, as the Rust core (src/hlc.rs) defines  *)
(* them and as the JavaScript SDK (sdk/src/hlc.mjs) repeats them.          *)
(*                                                                         *)
(* Actors are natural numbers: the rank of the actor string in the         *)
(* lexicographic order.  Counters are u32 and saturate in Rust; they are   *)
(* JavaScript numbers, which never reach their limit, in the SDK.          *)
(***************************************************************************)
EXTENDS Integers

CONSTANTS
  MAX_DRIFT_MS,   \* how far ahead of the local wall clock a remote wall may be
  MaxCounter      \* largest counter value (u32::MAX in Rust)

ASSUME DriftAssumption == MAX_DRIFT_MS \in Nat
ASSUME CounterAssumption == MaxCounter \in Nat

Stamp == [wall_ms : Nat, counter : Nat, actor : Nat]

(* impl Ord for Hlc: wall_ms, then counter, then actor. *)
HlcLess(a, b) ==
  \/ a.wall_ms < b.wall_ms
  \/ a.wall_ms = b.wall_ms /\ a.counter < b.counter
  \/ a.wall_ms = b.wall_ms /\ a.counter = b.counter /\ a.actor < b.actor

HlcLeq(a, b) == a = b \/ HlcLess(a, b)

(* u32::saturating_add(1) *)
SatInc(c) == IF c < MaxCounter THEN c + 1 ELSE MaxCounter

HlcMax(a, b) == IF a < b THEN b ELSE a

(* Variant (a bug to be caught): the clock follows a wall clock that went  *)
(* back.                                                                   *)
TickFollowsWall(clock, now) ==
  [clock EXCEPT !.wall_ms = now, !.counter = IF now = clock.wall_ms THEN SatInc(@) ELSE 0]

(* tick: a local event against the device wall clock. *)
HlcTick(clock, now) ==
  IF now > clock.wall_ms
  THEN [clock EXCEPT !.wall_ms = now, !.counter = 0]
  ELSE [clock EXCEPT !.counter = SatInc(clock.counter)]

(* Variant: no drift clamp. *)
InDriftAlways(remote, now) == TRUE

(* The drift clamp: an over-drift remote wall is not folded in. *)
InDrift(remote, now) == remote.wall_ms <= now + MAX_DRIFT_MS

(* Variant: adopt a newer remote stamp whole, its actor included. *)
ObserveTakesRemote(clock, remote, now) ==
  IF InDrift(remote, now) /\ HlcLess(clock, remote)
  THEN [remote EXCEPT !.counter = SatInc(@)]
  ELSE HlcTick(clock, now)

(* Variant: take the larger counter without going past it. *)
ObserveNoBump(clock, remote, now) ==
  IF InDrift(remote, now) /\ remote.wall_ms >= HlcMax(now, clock.wall_ms)
  THEN [clock EXCEPT !.wall_ms = remote.wall_ms, !.counter = HlcMax(@, remote.counter)]
  ELSE HlcTick(clock, now)

(* observe: fold in a remote stamp and the local wall clock. *)
HlcObserve(clock, remote, now) ==
  LET ok   == InDrift(remote, now)
      wall == HlcMax(HlcMax(now, clock.wall_ms), IF ok THEN remote.wall_ms ELSE 0)
      ctr  == IF ok /\ wall = clock.wall_ms /\ wall = remote.wall_ms
              THEN SatInc(HlcMax(clock.counter, remote.counter))
              ELSE IF wall = clock.wall_ms THEN SatInc(clock.counter)
              ELSE IF ok /\ wall = remote.wall_ms THEN SatInc(remote.counter)
              ELSE 0
  IN  [clock EXCEPT !.wall_ms = wall, !.counter = ctr]

(***************************************************************************)
(* The JavaScript port: unbounded counters, and the maximum taken over two *)
(* walls or three depending on the clamp.                                  *)
(***************************************************************************)
JsTick(clock, now) ==
  IF now > clock.wall_ms
  THEN [clock EXCEPT !.wall_ms = now, !.counter = 0]
  ELSE [clock EXCEPT !.counter = @ + 1]

JsObserve(clock, remote, now) ==
  LET ok   == remote.wall_ms <= now + MAX_DRIFT_MS
      wall == IF ok THEN HlcMax(HlcMax(now, clock.wall_ms), remote.wall_ms)
                    ELSE HlcMax(now, clock.wall_ms)
      ctr  == IF ok /\ wall = clock.wall_ms /\ wall = remote.wall_ms
              THEN HlcMax(clock.counter, remote.counter) + 1
              ELSE IF wall = clock.wall_ms THEN clock.counter + 1
              ELSE IF ok /\ wall = remote.wall_ms THEN remote.counter + 1
              ELSE 0
  IN  [clock EXCEPT !.wall_ms = wall, !.counter = ctr]
=============================================================================
