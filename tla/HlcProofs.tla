----------------------------- MODULE HlcProofs -----------------------------
(***************************************************************************)
(* What the hybrid logical clock guarantees for every wall clock, every    *)
(* remote stamp, every drift bound and every counter limit: its stamps are *)
(* totally ordered, both updates advance, and the clock of a device stays  *)
(* past what it has seen and within the drift bound.                       *)
(***************************************************************************)
EXTENDS HlcClock, TLAPS

-----------------------------------------------------------------------------
(* The order of stamps *)

(* impl Ord for Hlc is a strict order ...                                  *)
THEOREM HlcLessIsStrict ==
  /\ \A a \in Stamp : ~HlcLess(a, a)
  /\ \A a, b, c \in Stamp : HlcLess(a, b) /\ HlcLess(b, c) => HlcLess(a, c)
  BY DEF Stamp, HlcLess

(* ... and a total one: two stamps that neither precedes are the same, the *)
(* deterministic tiebreak that makes every replica agree.                  *)
THEOREM HlcLessIsTotal ==
  \A a, b \in Stamp : HlcLess(a, b) \/ HlcLess(b, a) \/ a = b
<1> SUFFICES ASSUME NEW a \in Stamp, NEW b \in Stamp, ~HlcLess(a, b), ~HlcLess(b, a)
             PROVE  a = b
  OBVIOUS
<1>1. a.wall_ms = b.wall_ms /\ a.counter = b.counter /\ a.actor = b.actor
  BY DEF Stamp, HlcLess
<1>2. QED
  BY <1>1 DEF Stamp

-----------------------------------------------------------------------------
(* The two updates *)

(* What an update may do to the clock: move it forward, keep its actor, or *)
(* leave it when the counter is at its limit.                              *)
Forward(old, new) ==
  /\ new \in Stamp
  /\ new.actor = old.actor
  /\ new.counter <= MaxCounter
  /\ \/ HlcLess(old, new)
     \/ new = old /\ old.counter = MaxCounter

Bounded(s) == s \in Stamp /\ s.counter <= MaxCounter

(* tick() strictly advances below the counter's limit, even when the wall  *)
(* clock jumped backwards, and never goes back.                            *)
THEOREM TickAdvances ==
  ASSUME NEW clock0, Bounded(clock0), NEW now \in Nat
  PROVE  Forward(clock0, HlcTick(clock0, now))
<1>1. CASE now > clock0.wall_ms
  <2>1. HlcTick(clock0, now) = [wall_ms |-> now, counter |-> 0, actor |-> clock0.actor]
    BY <1>1 DEF Bounded, HlcTick, Stamp
  <2>2. QED
    BY <1>1, <2>1, CounterAssumption DEF Bounded, Forward, Stamp, HlcLess
<1>2. CASE ~(now > clock0.wall_ms) /\ clock0.counter < MaxCounter
  BY <1>2, CounterAssumption DEF Bounded, Forward, HlcTick, SatInc, Stamp, HlcLess
<1>3. CASE ~(now > clock0.wall_ms) /\ clock0.counter = MaxCounter
  BY <1>3, CounterAssumption DEF Bounded, Forward, HlcTick, SatInc, Stamp, HlcLess
<1>4. QED
  BY <1>1, <1>2, <1>3, CounterAssumption DEF Bounded, Stamp

(* observe() in two numbers: the wall it moves to, and the counter there.  *)
Observed(old, remote, now, new) ==
  /\ Bounded(new) /\ new.actor = old.actor
  /\ new.wall_ms >= now /\ new.wall_ms >= old.wall_ms
  /\ \/ new.wall_ms = now
     \/ new.wall_ms = old.wall_ms
     \/ InDrift(remote, now) /\ new.wall_ms = remote.wall_ms
  /\ new.wall_ms = old.wall_ms => new.counter > old.counter \/ new.counter = MaxCounter
  /\ InDrift(remote, now) =>
       /\ new.wall_ms >= remote.wall_ms
       /\ new.wall_ms = remote.wall_ms => new.counter > remote.counter \/ new.counter = MaxCounter

(* What observe() does to the wall and the counter.                        *)
LEMMA ObserveParts ==
  ASSUME NEW clock0, Bounded(clock0), NEW remote, Bounded(remote), NEW now \in Nat
  PROVE  Observed(clock0, remote, now, HlcObserve(clock0, remote, now))
<1> DEFINE new  == HlcObserve(clock0, remote, now)
           ok   == InDrift(remote, now)
           wall == HlcMax(HlcMax(now, clock0.wall_ms), IF ok THEN remote.wall_ms ELSE 0)
           ctr  == IF ok /\ wall = clock0.wall_ms /\ wall = remote.wall_ms
                   THEN SatInc(HlcMax(clock0.counter, remote.counter))
                   ELSE IF wall = clock0.wall_ms THEN SatInc(clock0.counter)
                   ELSE IF ok /\ wall = remote.wall_ms THEN SatInc(remote.counter)
                   ELSE 0
<1>1. /\ clock0.wall_ms \in Nat /\ clock0.counter \in 0 .. MaxCounter
      /\ remote.wall_ms \in Nat /\ remote.counter \in 0 .. MaxCounter
  BY CounterAssumption DEF Bounded, Stamp
<1>2. new = [clock0 EXCEPT !.wall_ms = wall, !.counter = ctr]
  BY DEF HlcObserve
<1>3. /\ wall \in Nat /\ wall >= now /\ wall >= clock0.wall_ms
      /\ ok => wall >= remote.wall_ms
      /\ wall = now \/ wall = clock0.wall_ms \/ (ok /\ wall = remote.wall_ms)
  BY <1>1 DEF HlcMax
<1>4. \A c \in 0 .. MaxCounter : SatInc(c) \in 0 .. MaxCounter /\ (SatInc(c) > c \/ SatInc(c) = MaxCounter)
  BY CounterAssumption DEF SatInc
<1>5. /\ ctr \in 0 .. MaxCounter
      /\ wall = clock0.wall_ms => ctr > clock0.counter \/ ctr = MaxCounter
      /\ ok /\ wall = remote.wall_ms => ctr > remote.counter \/ ctr = MaxCounter
  <2>1. HlcMax(clock0.counter, remote.counter) \in 0 .. MaxCounter
        /\ HlcMax(clock0.counter, remote.counter) >= clock0.counter
        /\ HlcMax(clock0.counter, remote.counter) >= remote.counter
    BY <1>1, CounterAssumption DEF HlcMax
  <2> HIDE DEF ok, wall
  <2>2. CASE ok /\ wall = clock0.wall_ms /\ wall = remote.wall_ms
    <3>1. ctr = SatInc(HlcMax(clock0.counter, remote.counter))
      BY <2>2
    <3>2. QED
      BY <3>1, <1>1, <1>4, <2>1, CounterAssumption
  <2>3. CASE wall = clock0.wall_ms /\ ~(ok /\ wall = remote.wall_ms)
    <3>1. ctr = SatInc(clock0.counter)
      BY <2>3
    <3>2. QED
      BY <3>1, <2>3, <1>1, <1>4, CounterAssumption
  <2>4. CASE wall # clock0.wall_ms /\ ok /\ wall = remote.wall_ms
    <3>1. ctr = SatInc(remote.counter)
      BY <2>4
    <3>2. QED
      BY <3>1, <2>4, <1>1, <1>4, CounterAssumption
  <2>5. CASE wall # clock0.wall_ms /\ ~(ok /\ wall = remote.wall_ms)
    <3>1. ctr = 0
      BY <2>5
    <3>2. QED
      BY <3>1, <2>5, CounterAssumption
  <2>6. QED
    BY <2>2, <2>3, <2>4, <2>5
<1>6. new.wall_ms = wall /\ new.counter = ctr /\ new.actor = clock0.actor /\ new \in Stamp
  <2> HIDE DEF ok, wall, ctr
  <2>1. new = [wall_ms |-> wall, counter |-> ctr, actor |-> clock0.actor]
    BY <1>2 DEF Bounded, Stamp
  <2>2. ctr \in Nat /\ clock0.actor \in Nat
    BY <1>5, CounterAssumption DEF Bounded, Stamp
  <2>3. QED
    BY <2>1, <2>2, <1>3 DEF Stamp
<1> HIDE DEF wall, ctr, new
<1>7. Observed(clock0, remote, now, new)
  BY <1>1, <1>3, <1>5, <1>6, CounterAssumption DEF Bounded, Observed
<1>8. QED
  BY <1>7 DEF new

(* observe() never moves the clock back and strictly advances it below the *)
(* counter's limit, whatever stamp arrives.                                *)
THEOREM ObserveAdvances ==
  ASSUME NEW clock0, Bounded(clock0), NEW remote, Bounded(remote), NEW now \in Nat
  PROVE  Forward(clock0, HlcObserve(clock0, remote, now))
<1> DEFINE new == HlcObserve(clock0, remote, now)
<1>1. /\ Bounded(new) /\ new.actor = clock0.actor
      /\ new.wall_ms >= clock0.wall_ms
      /\ new.wall_ms = clock0.wall_ms =>
           new.counter > clock0.counter \/ new.counter = MaxCounter
  BY ObserveParts DEF Observed
<1> SUFFICES Forward(clock0, new)
  OBVIOUS
<1> HIDE DEF new
<1>2. CASE new.wall_ms = clock0.wall_ms /\ ~(new.counter > clock0.counter)
  <2>1. new.counter = MaxCounter /\ clock0.counter = MaxCounter
    BY <1>1, <1>2, CounterAssumption DEF Bounded, Stamp
  <2>2. new = clock0
    <3>1. new.wall_ms = clock0.wall_ms /\ new.counter = clock0.counter /\ new.actor = clock0.actor
      BY <1>1, <1>2, <2>1
    <3>2. new \in Stamp /\ clock0 \in Stamp
      BY <1>1 DEF Bounded
    <3>3. QED
      BY <3>1, <3>2 DEF Stamp
  <2>3. QED
    BY <1>1, <2>1, <2>2 DEF Forward, Bounded
<1>3. CASE new.wall_ms > clock0.wall_ms \/ new.counter > clock0.counter
  BY <1>1, <1>3 DEF Forward, Bounded, Stamp, HlcLess
<1>4. QED
  BY <1>1, <1>2, <1>3 DEF Bounded, Stamp

(* observe() puts the clock past an in-drift remote stamp: a local stamp   *)
(* made afterwards sorts after the change the replica has just seen.       *)
THEOREM ObserveDominates ==
  ASSUME NEW clock0, Bounded(clock0), NEW remote, Bounded(remote), NEW now \in Nat,
         InDrift(remote, now)
  PROVE  LET new == HlcObserve(clock0, remote, now)
         IN  HlcLess(remote, new) \/ new.counter = MaxCounter
<1> DEFINE new == HlcObserve(clock0, remote, now)
<1>1. /\ Bounded(new)
      /\ new.wall_ms >= remote.wall_ms
      /\ new.wall_ms = remote.wall_ms =>
           new.counter > remote.counter \/ new.counter = MaxCounter
  BY ObserveParts DEF Observed
<1> HIDE DEF new
<1>2. HlcLess(remote, new) \/ new.counter = MaxCounter
  BY <1>1 DEF Bounded, Stamp, HlcLess
<1>3. QED
  BY <1>2 DEF new

(* The JavaScript clock computes the same tick as the Rust core as long as *)
(* the u32 counter is below its limit ...                                  *)
THEOREM JsTickAgrees ==
  ASSUME NEW clock0 \in Stamp, clock0.counter < MaxCounter, NEW now \in Nat
  PROVE  JsTick(clock0, now) = HlcTick(clock0, now)
  BY DEF JsTick, HlcTick, SatInc

(* ... and the same observation: the two ports cannot stamp differently.   *)
THEOREM JsObserveAgrees ==
  ASSUME NEW clock0 \in Stamp, clock0.counter < MaxCounter,
         NEW remote \in Stamp, remote.counter < MaxCounter, NEW now \in Nat
  PROVE  JsObserve(clock0, remote, now) = HlcObserve(clock0, remote, now)
<1>1. /\ clock0.wall_ms \in Nat /\ clock0.counter \in Nat
      /\ remote.wall_ms \in Nat /\ remote.counter \in Nat
  BY DEF Stamp
<1> DEFINE ok   == InDrift(remote, now)
           wall == HlcMax(HlcMax(now, clock0.wall_ms), IF ok THEN remote.wall_ms ELSE 0)
           jsWall == IF ok THEN HlcMax(HlcMax(now, clock0.wall_ms), remote.wall_ms)
                            ELSE HlcMax(now, clock0.wall_ms)
<1>2. wall = jsWall
  BY <1>1 DEF HlcMax
<1>3. /\ SatInc(clock0.counter) = clock0.counter + 1
      /\ SatInc(remote.counter) = remote.counter + 1
      /\ SatInc(HlcMax(clock0.counter, remote.counter)) = HlcMax(clock0.counter, remote.counter) + 1
  BY <1>1 DEF SatInc, HlcMax
<1>4. ok = (remote.wall_ms <= now + MAX_DRIFT_MS)
  BY DEF InDrift
<1> HIDE DEF ok
<1>5. QED
  BY <1>2, <1>3, <1>4 DEF JsObserve, HlcObserve, ok
-----------------------------------------------------------------------------
(* The clock of a device *)

(* PastEverySeen is not inductive: when the counter is at its limit it     *)
(* says nothing of the stamps seen, and a later tick resets the counter.   *)
(* What survives is that no stamp seen has a larger wall.                  *)
SeenBelow ==
  \A r \in seen :
    /\ r.wall_ms <= clock.wall_ms
    /\ r.wall_ms = clock.wall_ms => r.counter < clock.counter \/ clock.counter = MaxCounter

IInv ==
  /\ TypeOK
  /\ clock.counter <= MaxCounter
  /\ SeenBelow
  /\ WithinDrift

(* A new Clock satisfies the invariant.                                    *)
LEMMA InitInv == Init => IInv
  BY ActorAssumption, CounterAssumption, DriftAssumption
  DEF Init, IInv, TypeOK, Fresh, Stamp, SeenBelow, WithinDrift

(* A local event. *)
LEMMA TickInv ==
  ASSUME IInv, NEW now \in Walls, TickStep(now)
  PROVE  IInv' /\ Advances
<1>1. Forward(clock, clock') /\ now \in Nat
  BY TickAdvances, WallsAssumption DEF TickStep, IInv, TypeOK, Bounded
<1>2. TypeOK' /\ clock'.counter <= MaxCounter
  BY <1>1 DEF TickStep, Forward, IInv, TypeOK, HlcMax
<1>3. Advances
  BY <1>1 DEF Forward, Advances
<1>4. clock'.wall_ms = now \/ clock'.wall_ms = clock.wall_ms
  BY <1>1 DEF TickStep, HlcTick, Forward, IInv, TypeOK, Stamp
<1>5. /\ clock.wall_ms \in Nat /\ clock.counter \in Nat
      /\ clock'.wall_ms \in Nat /\ clock'.counter \in Nat
      /\ \A r \in seen : r.wall_ms \in Nat /\ r.counter \in Nat
  BY <1>2 DEF IInv, TypeOK, Stamp
<1>6. SeenBelow'
  BY <1>2, <1>3, <1>5, CounterAssumption DEF TickStep, IInv, SeenBelow, Advances, HlcLess
<1>7. WithinDrift'
  BY <1>1, <1>4, <1>5, DriftAssumption DEF TickStep, IInv, TypeOK, WithinDrift, HlcMax
<1>8. QED
  BY <1>2, <1>3, <1>6, <1>7 DEF IInv

(* An observed stamp. *)
LEMMA ObserveInv ==
  ASSUME IInv, NEW now \in Walls, NEW remote \in Remotes, ObserveStep(remote, now)
  PROVE  IInv' /\ Advances
<1>1. Bounded(clock) /\ Bounded(remote) /\ now \in Nat
  BY WallsAssumption, RemotesAssumption DEF IInv, TypeOK, Bounded
<1>2. Forward(clock, clock')
  BY <1>1, ObserveAdvances DEF ObserveStep
<1>3. Observed(clock, remote, now, clock')
  BY <1>1, ObserveParts DEF ObserveStep
<1>4. TypeOK' /\ clock'.counter <= MaxCounter
  <2>1. clock' \in Stamp /\ clock'.actor = Actor /\ clock'.counter <= MaxCounter
    BY <1>2 DEF Forward, IInv, TypeOK
  <2>2. top' \in Nat
    BY <1>1 DEF ObserveStep, IInv, TypeOK, HlcMax
  <2>3. seen' \subseteq Stamp /\ restarts' \in Nat
    BY <1>1 DEF ObserveStep, IInv, TypeOK, Bounded
  <2>4. QED
    BY <2>1, <2>2, <2>3 DEF TypeOK
<1>5. Advances
  BY <1>2 DEF Forward, Advances
<1>6. /\ clock.wall_ms \in Nat /\ clock.counter \in Nat
      /\ clock'.wall_ms \in Nat /\ clock'.counter \in Nat
      /\ remote.wall_ms \in Nat /\ remote.counter \in Nat
      /\ \A r \in seen : r.wall_ms \in Nat /\ r.counter \in Nat
  BY <1>1, <1>4 DEF IInv, TypeOK, Stamp, Bounded
<1>7. \A r \in seen :
        /\ r.wall_ms <= clock'.wall_ms
        /\ r.wall_ms = clock'.wall_ms => r.counter < clock'.counter \/ clock'.counter = MaxCounter
  BY <1>4, <1>5, <1>6, CounterAssumption DEF IInv, SeenBelow, Advances, HlcLess
<1>8. SeenBelow'
  <2>1. seen' = seen \/ (seen' = seen \cup {remote} /\ InDrift(remote, now))
    BY DEF ObserveStep
  <2>2. QED
    BY <2>1, <1>3, <1>6, <1>7 DEF SeenBelow, Observed
<1>9. WithinDrift'
  <2>1. /\ top' >= top /\ top' >= now /\ top' \in Nat
        /\ clock.wall_ms <= top + MAX_DRIFT_MS /\ top \in Nat
    BY <1>1 DEF ObserveStep, IInv, TypeOK, WithinDrift, HlcMax
  <2>2. InDrift(remote, now) => remote.wall_ms <= now + MAX_DRIFT_MS
    BY DEF InDrift
  <2>3. QED
    BY <2>1, <2>2, <1>1, <1>3, <1>6, DriftAssumption DEF WithinDrift, Observed
<1>10. QED
  BY <1>4, <1>5, <1>8, <1>9 DEF IInv

(* Every step keeps the invariant and moves the clock forward.             *)
LEMMA NextInv == IInv /\ [Next]_vars => IInv' /\ [restarts' = restarts => Advances]_<<clock, seen, restarts>>
<1> SUFFICES ASSUME IInv, [Next]_vars
             PROVE  IInv' /\ [restarts' = restarts => Advances]_<<clock, seen, restarts>>
  OBVIOUS
<1>1. CASE \E now \in Walls : TickStep(now)
  BY <1>1, TickInv
<1>2. CASE \E now \in Walls, remote \in Remotes : ObserveStep(remote, now)
  BY <1>2, ObserveInv
<1>3. CASE Restart
  <2>1. IInv'
    BY <1>3, ActorAssumption, CounterAssumption, DriftAssumption
    DEF Restart, IInv, TypeOK, Fresh, Stamp, SeenBelow, WithinDrift
  <2>2. restarts' # restarts
    BY <1>3 DEF Restart, IInv, TypeOK
  <2>3. QED
    BY <2>1, <2>2
<1>4. CASE UNCHANGED vars
  BY <1>4 DEF vars, IInv, TypeOK, SeenBelow, WithinDrift
<1>5. QED
  BY <1>1, <1>2, <1>3, <1>4 DEF Next

(* IInv holds in every reachable state. *)
THEOREM Invariance == Spec => []IInv
  BY InitInv, NextInv, PTL DEF Spec

(* The types are right in every reachable state. *)
THEOREM TypeCorrect == Spec => []TypeOK
  BY Invariance, PTL DEF IInv

(* observe(): the clock stays past every in-drift stamp the process has    *)
(* seen, whatever the wall clock does between the calls.                   *)
THEOREM StaysPastEverySeen == Spec => []PastEverySeen
<1>1. IInv => PastEverySeen
  BY CounterAssumption DEF IInv, TypeOK, Stamp, SeenBelow, PastEverySeen, HlcLess
<1>2. QED
  BY <1>1, Invariance, PTL

(* The drift clamp: no sequence of remote stamps carries the clock further *)
(* than MAX_DRIFT_MS past the device's own wall clock.                     *)
THEOREM StaysWithinDrift == Spec => []WithinDrift
  BY Invariance, PTL DEF IInv

(* Within one process the clock never goes back and every call moves it    *)
(* until its counter is at the limit.                                      *)
THEOREM NeverGoesBack == Spec => NeverBack
  BY NextInv, Invariance, PTL DEF Spec, NeverBack
=============================================================================
