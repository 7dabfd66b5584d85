---------------------- MODULE LifecycleObserversProofs ----------------------
(***************************************************************************)
(* The listeners of AppLifecycleMachine, for every number of listeners and *)
(* every depth of nested commits: whoever is not overtaken by a nested     *)
(* commit is left with the machine's snapshot.  With listeners the machine *)
(* still does what AppLifecycle says, so AppLifecycleProofs holds of it.   *)
(***************************************************************************)
EXTENDS LifecycleObservers, AppLifecycleProofs, SequenceTheorems

allVars == <<vars, observation>>

-----------------------------------------------------------------------------
(* Sequences of listeners *)

(* Without forgets at most the listener it is asked to.                    *)
LEMMA WithoutKeeps ==
  ASSUME NEW s \in Seq(Listeners), NEW l
  PROVE  /\ Without(s, l) \in Seq(Listeners)
         /\ Members(Without(s, l)) \subseteq Members(s)
         /\ \A k \in Members(s) : k # l => k \in Members(Without(s, l))
<1>1. CASE l \notin Members(s)
  BY <1>1 DEF Without
<1>2. CASE l \in Members(s)
  <2> DEFINE at == CHOOSE n \in DOMAIN s : s[n] = l
             r  == [n \in 1 .. Len(s) - 1 |-> s[IF n < at THEN n ELSE n + 1]]
  <2>1. Without(s, l) = r
    BY <1>2 DEF Without
  <2>2. at \in 1 .. Len(s) /\ s[at] = l
    BY <1>2 DEF Members
  <2>3. Len(s) \in Nat
    OBVIOUS
  <2> HIDE DEF at
  <2>4. \A n \in 1 .. Len(s) - 1 : r[n] \in Listeners /\ r[n] \in Members(s)
    BY <2>2, <2>3 DEF Members
  <2>5. r \in Seq(Listeners) /\ DOMAIN r = 1 .. Len(s) - 1
    <3>1. Len(s) - 1 \in Nat
      BY <2>2, <2>3
    <3>2. r \in [1 .. Len(s) - 1 -> Listeners]
      BY <2>4
    <3>3. QED
      BY <3>1, <3>2, SeqDef
  <2>6. ASSUME NEW k \in Members(s), k # l
        PROVE  k \in Members(r)
    <3>1. PICK n \in 1 .. Len(s) : s[n] = k
      BY <2>6 DEF Members
    <3>2. n # at
      BY <2>2, <2>6, <3>1
    <3>3. CASE n < at
      <4>1. n \in 1 .. Len(s) - 1 /\ r[n] = s[n]
        BY <2>2, <2>3, <3>1, <3>3
      <4>2. QED
        BY <2>5, <3>1, <4>1 DEF Members
    <3>4. CASE n > at
      <4>1. n - 1 \in 1 .. Len(s) - 1 /\ r[n - 1] = s[n]
        BY <2>2, <2>3, <3>1, <3>4
      <4>2. QED
        BY <2>5, <3>1, <4>1 DEF Members
    <3>5. n < at \/ n > at
      BY <2>2, <2>3, <3>1, <3>2
    <3> HIDE DEF r
    <3>6. QED
      BY <3>3, <3>4, <3>5
  <2>7. Members(r) \subseteq Members(s)
    BY <2>4, <2>5 DEF Members
  <2>8. QED
    BY <2>1, <2>5, <2>6, <2>7
<1>3. QED
  BY <1>1, <1>2

(* Who else waits once the head of a list has been called.                 *)
LEMMA TailKeeps ==
  ASSUME NEW s \in Seq(Listeners), s # <<>>
  PROVE  /\ Head(s) \in Listeners /\ Head(s) \in Members(s)
         /\ Tail(s) \in Seq(Listeners)
         /\ Members(Tail(s)) \subseteq Members(s)
         /\ \A k \in Members(s) : k # Head(s) => k \in Members(Tail(s))
<1>1. Len(s) \in Nat \ {0} /\ Head(s) = s[1] /\ Tail(s) \in Seq(Listeners)
  OBVIOUS
<1>2. DOMAIN Tail(s) = 1 .. Len(s) - 1 /\ \A n \in 1 .. Len(s) - 1 : Tail(s)[n] = s[n + 1]
  BY <1>1
<1>3. Head(s) \in Members(s) /\ Head(s) \in Listeners
  BY <1>1 DEF Members
<1>4. Members(Tail(s)) \subseteq Members(s)
  BY <1>1, <1>2 DEF Members
<1>5. ASSUME NEW k \in Members(s), k # Head(s)
      PROVE  k \in Members(Tail(s))
  <2>1. PICK n \in 1 .. Len(s) : s[n] = k
    BY <1>5 DEF Members
  <2>2. n - 1 \in 1 .. Len(s) - 1 /\ Tail(s)[n - 1] = k
    BY <1>1, <1>2, <1>5, <2>1
  <2>3. QED
    BY <1>2, <2>2 DEF Members
<1>6. QED
  BY <1>1, <1>3, <1>4, <1>5

-----------------------------------------------------------------------------
(* The machine under its listeners is AppLifecycle. *)

(* Only dispatch() changes the machine.                                    *)
LEMMA MachineSteps == [ObserversNext]_allVars => [Next]_vars
  BY Zenon DEF ObserversNext, Dispatch, Call, Return, Subscribe, Observe, Unsubscribe,
     allVars, observation

(* A refused event leaves the snapshot.                                    *)
LEMMA RefusedKeeps ==
  ASSUME TypeOK, Next, outcome' # "applied"
  PROVE  snapshot' = snapshot
<1> USE DEF Apply, Refuse
<1>2. CASE StartRequested \/ StopRequested \/ ReconcileRequested
  BY <1>2 DEF StartRequested, StopRequested, ReconcileRequested, BeginStop, Running, TypeOK,
     Snapshot, Phases
<1>3. ASSUME NEW token \in Tokens, TokenEvent(token)
      PROVE  snapshot' = snapshot
  BY <1>3
  DEF TokenEvent, StartSucceeded, StartFailed, ConnectivityChanged, RuntimeFailed, StopSucceeded,
      StopFailed, Fail, WithToken, Relation
<1>4. QED
  BY <1>2, <1>3 DEF Next

-----------------------------------------------------------------------------
(* Types *)

(* The machine's invariant, and the types of what is observed.             *)
ObsInv == IInv /\ ObserversTypeOK

(* A snapshot no machine reaches stands for a listener not yet called.     *)
LEMMA NothingTyped == Nothing \in Snapshot
<1>1. MAX_SAFE_GENERATION + 1 \in Nat
  BY GenerationAssumption
<1>2. QED
  BY <1>1 DEF Nothing, Stopped, Snapshot, Phases, Operations, Failures, None

(* Who waits to be called, or to join, is a listener.                      *)
LEMMA WaitingTyped == ObserversTypeOK => Waiting \cup Joining \subseteq Listeners
<1> SUFFICES ASSUME ObserversTypeOK
             PROVE  Waiting \cup Joining \subseteq Listeners
  OBVIOUS
<1>1. ASSUME NEW n \in DOMAIN frames
      PROVE  Members(frames[n].todo) \subseteq Listeners
  <2>1. frames[n] \in Frame
    BY <1>1, ElementOfSeq, LenProperties DEF ObserversTypeOK
  <2>2. frames[n].todo \in Seq(Listeners)
    BY <2>1 DEF Frame
  <2>3. \A m \in DOMAIN frames[n].todo : frames[n].todo[m] \in Listeners
    BY <2>2, ElementOfSeq, LenProperties
  <2>4. QED
    BY <2>3 DEF Members
<1>2. ASSUME NEW n \in DOMAIN frames
      PROVE  frames[n].joins \in Listeners \cup {Nobody}
  <2>1. frames[n] \in Frame
    BY <1>2, ElementOfSeq, LenProperties DEF ObserversTypeOK
  <2>2. QED
    BY <2>1 DEF Frame
<1>3. Waiting \subseteq Listeners
  BY <1>1 DEF Waiting
<1>4. Joining \subseteq Listeners
  BY <1>2 DEF Joining
<1>5. QED
  BY <1>3, <1>4

(* A commit or a subscription that begins is one frame more.               *)
LEMMA PushTyped ==
  ASSUME NEW new \in Frame, frames \in Seq(Frame), Push(new)
  PROVE  /\ frames' \in Seq(Frame)
         /\ DOMAIN frames = 1 .. Len(frames) /\ DOMAIN frames' = 1 .. 1 + Len(frames)
         /\ Len(frames) \in Nat
         /\ frames'[1] = new
         /\ \A n \in 2 .. 1 + Len(frames) : frames'[n] = frames[n - 1]
<1>1. <<new>> \in Seq(Frame) /\ Len(<<new>>) = 1 /\ Len(frames) \in Nat /\ frames' = <<new>> \o frames
  BY DEF Push
<1>2. Len(frames') = 1 + Len(frames) /\ frames' \in Seq(Frame)
  BY <1>1, ConcatProperties
<1>3. QED
  BY <1>1, <1>2, ConcatProperties, LenProperties

(* Adding a listener adds nobody else.                                     *)
LEMMA AddedKeeps ==
  ASSUME NEW l \in Listeners, listeners \in Seq(Listeners)
  PROVE  /\ Added(l) \in Seq(Listeners)
         /\ Members(Added(l)) \subseteq Members(listeners) \cup {l}
<1>1. CASE l \in Members(listeners)
  BY <1>1 DEF Added
<1>2. CASE l \notin Members(listeners)
  <2> DEFINE s == Append(listeners, l)
  <2>1. Added(l) = s
    BY <1>2 DEF Added
  <2>2. Len(listeners) \in Nat /\ DOMAIN listeners = 1 .. Len(listeners)
        /\ s \in Seq(Listeners) /\ DOMAIN s = 1 .. Len(listeners) + 1 /\ s[Len(listeners) + 1] = l
        /\ \A n \in 1 .. Len(listeners) : s[n] = listeners[n]
    OBVIOUS
  <2> HIDE DEF s
  <2>3. QED
    BY <2>1, <2>2 DEF Members
<1>3. QED
  BY <1>1, <1>2

(* Every step keeps the types: the machine's are AppLifecycle's business.  *)
LEMMA NextObsInv == ObsInv /\ [ObserversNext]_allVars => ObsInv'
<1> SUFFICES ASSUME ObsInv, [ObserversNext]_allVars
             PROVE  ObsInv'
  OBVIOUS
<1>1. IInv'
  BY MachineSteps, NextInv DEF ObsInv
<1>2. TypeOK'
  BY <1>1 DEF IInv
<1>3. /\ listeners \in Seq(Listeners) /\ frames \in Seq(Frame)
      /\ heard \in [Listeners -> Snapshot] /\ overtaken \subseteq Listeners
      /\ snapshot \in Snapshot /\ snapshot' \in Snapshot
  BY <1>2 DEF ObsInv, ObserversTypeOK, TypeOK
<1> DEFINE Observed ==
      /\ listeners' \in Seq(Listeners) /\ frames' \in Seq(Frame)
      /\ heard' \in [Listeners -> Snapshot] /\ overtaken' \subseteq Listeners
<1>4. Observed
  <2>1. CASE Dispatch
    <3>1. CASE outcome' = "applied"
      <4> DEFINE new == [snapshot |-> snapshot', todo |-> listeners, calling |-> Nobody,
                         joins |-> Nobody]
      <4>1. new \in Frame
        BY <1>3 DEF Frame
      <4>2. Push(new) /\ listeners' = listeners /\ heard' = heard
        BY <2>1, <3>1 DEF Dispatch, Commit
      <4>3. overtaken' \subseteq Listeners
        BY <1>3, <2>1, <3>1, WaitingTyped DEF Dispatch, Commit, ObsInv
      <4> HIDE DEF new
      <4>4. frames' \in Seq(Frame)
        BY <1>3, <4>1, <4>2, PushTyped
      <4>5. QED
        BY <1>3, <4>2, <4>3, <4>4
    <3>2. CASE outcome' # "applied"
      BY <1>3, <2>1, <3>2 DEF Dispatch, observation
    <3>3. QED
      BY <3>1, <3>2
  <2>2. CASE Call
    <3> DEFINE frame == Head(frames)
               l     == Head(frame.todo)
               next  == [frame EXCEPT !.todo = Tail(@), !.calling = l]
    <3>1. frames # <<>> /\ frame.todo # <<>> /\ heard' = [heard EXCEPT ![l] = frame.snapshot]
          /\ frames' = [frames EXCEPT ![1] = next] /\ listeners' = listeners /\ overtaken' = overtaken
      BY <2>2 DEF Call
    <3>2. frame \in Frame /\ 1 \in 1 .. Len(frames)
      BY <1>3, <3>1
    <3> HIDE DEF frame
    <3>3. frame.todo \in Seq(Listeners) /\ frame.snapshot \in Snapshot
      BY <3>2 DEF Frame
    <3>4. l \in Listeners /\ Tail(frame.todo) \in Seq(Listeners)
      BY <3>1, <3>3, TailKeeps
    <3>5. next \in Frame
      BY <3>2, <3>4 DEF Frame
    <3> HIDE DEF next, l
    <3>6. frames' \in Seq(Frame)
      BY <1>3, <3>1, <3>2, <3>5, ExceptSeq
    <3>7. heard' \in [Listeners -> Snapshot]
      BY <1>3, <3>1, <3>3, <3>4
    <3>8. QED
      BY <1>3, <3>1, <3>6, <3>7
  <2>3. CASE Return
    <3>1. frames' \in Seq(Frame) /\ heard' = heard /\ overtaken' = overtaken
      BY <1>3, <2>3 DEF Return
    <3>2. Head(frames) \in Frame
      BY <1>3, <2>3 DEF Return
    <3>3. listeners' \in Seq(Listeners)
      BY <1>3, <2>3, <3>2, AddedKeeps DEF Return, Frame
    <3>4. QED
      BY <1>3, <3>1, <3>3
  <2>4. ASSUME NEW l \in Listeners, Subscribe(l)
        PROVE  Observed
    <3>1. frames' = frames /\ overtaken' = overtaken /\ heard' \in [Listeners -> Snapshot]
      BY <1>3, <2>4, NothingTyped DEF Subscribe
    <3>2. QED
      BY <1>3, <2>4, <3>1, AddedKeeps DEF Subscribe
  <2>5. ASSUME NEW l \in Listeners, Observe(l)
        PROVE  Observed
    <3> DEFINE new == [snapshot |-> snapshot, todo |-> <<>>, calling |-> l, joins |-> l]
    <3>1. new \in Frame
      BY <1>3 DEF Frame
    <3>2. Push(new) /\ listeners' = listeners /\ overtaken' = overtaken
          /\ heard' = [heard EXCEPT ![l] = snapshot]
      BY <2>5 DEF Observe
    <3> HIDE DEF new
    <3>3. frames' \in Seq(Frame)
      BY <1>3, <3>1, <3>2, PushTyped
    <3>4. QED
      BY <1>3, <3>2, <3>3
  <2>6. ASSUME NEW l \in Listeners, Unsubscribe(l)
        PROVE  Observed
    <3>1. listeners' = Without(listeners, l) /\ heard' = [heard EXCEPT ![l] = Nothing]
          /\ overtaken' = overtaken
      BY <2>6 DEF Unsubscribe
    <3>2. listeners' \in Seq(Listeners)
      BY <1>3, <3>1, WithoutKeeps
    <3>3. frames' \in Seq(Frame)
      <4>1. CASE l \notin Streams
        BY <1>3, <2>6, <4>1 DEF Unsubscribe
      <4>2. CASE l \in Streams
        <5>1. frames' = [n \in 1 .. Len(frames) |-> Closed(frames[n], l)]
          BY <1>3, <2>6, <4>2, LenProperties DEF Unsubscribe
        <5>2. ASSUME NEW n \in 1 .. Len(frames)
              PROVE  Closed(frames[n], l) \in Frame
          <6>1. frames[n] \in Frame
            BY <1>3, <5>2, ElementOfSeq
          <6>2. Without(frames[n].todo, l) \in Seq(Listeners)
            BY <6>1, WithoutKeeps DEF Frame
          <6>3. QED
            BY <6>1, <6>2 DEF Frame, Closed
        <5>3. Len(frames) \in Nat
          BY <1>3
        <5>4. QED
          BY <5>1, <5>2, <5>3, SeqDef
      <4>3. QED
        BY <4>1, <4>2
    <3>4. heard' \in [Listeners -> Snapshot]
      BY <1>3, <3>1, NothingTyped
    <3>5. QED
      BY <1>3, <3>1, <3>2, <3>3, <3>4
  <2>7. CASE UNCHANGED allVars
    BY <1>3, <2>7 DEF allVars, observation
  <2>8. QED
    BY <2>1, <2>2, <2>3, <2>4, <2>5, <2>6, <2>7 DEF ObserversNext
<1>5. QED
  BY <1>1, <1>2, <1>4 DEF ObsInv, ObserversTypeOK

(* Before anybody subscribes there is nothing to observe.                  *)
LEMMA InitObsInv == ObserversInit => ObsInv
<1> SUFFICES ASSUME ObserversInit
             PROVE  ObsInv
  OBVIOUS
<1>1. IInv
  BY InitInv DEF ObserversInit
<1>2. QED
  BY <1>1, NothingTyped DEF ObserversInit, ObsInv, ObserversTypeOK, IInv

(* Every variable has its type, whatever the listeners do.                 *)
THEOREM ObserversTypeCorrect == ObserversSpec => []ObserversTypeOK
<1>1. ObsInv => ObserversTypeOK
  BY DEF ObsInv
<1>2. QED
  BY <1>1, InitObsInv, NextObsInv, PTL DEF ObserversSpec, allVars

-----------------------------------------------------------------------------
(* Catching up *)

(* A commit delivers the machine's snapshot, or whoever still waits in it  *)
(* was overtaken by a later one.                                           *)
NewestOrOvertaken ==
  \A n \in DOMAIN frames :
    frames[n].snapshot = snapshot \/ Members(frames[n].todo) \subseteq overtaken

(* Such a commit still has the listener to call.                           *)
Awaits(l) == \E n \in DOMAIN frames : l \in Members(frames[n].todo) /\ frames[n].snapshot = snapshot

(* A listener shows the machine's snapshot, or will be called with it.     *)
HearsOrWaits ==
  \A l \in Members(listeners) \ overtaken : heard[l] \in {Nothing, snapshot} \/ Awaits(l)

(* A stream that is about to join has been called with it.                 *)
JoinsCurrent == \A l \in Joining \ overtaken : heard[l] \in {Nothing, snapshot} \/ Awaits(l)

CatchUp == NewestOrOvertaken /\ HearsOrWaits /\ JoinsCurrent

(* A step that leaves the machine and the commits alone, and after which   *)
(* every listener shows the snapshot or is as before, keeps both.          *)
LEMMA QuietKeeps ==
  ASSUME CatchUp, snapshot' = snapshot, frames' = frames, overtaken' = overtaken,
         \A l : heard'[l] \in {Nothing, snapshot} \/ heard'[l] = heard[l],
         \A l \in Members(listeners') : heard'[l] \in {Nothing, snapshot} \/ l \in Members(listeners)
  PROVE  CatchUp'
  BY DEF CatchUp, NewestOrOvertaken, HearsOrWaits, JoinsCurrent, Joining, Awaits

(* A nested commit overtakes everyone the commits around it still owe a    *)
(* call, and owes its own to every listener.                               *)
LEMMA CommitCatchesUp ==
  ASSUME ObsInv, CatchUp, Commit, snapshot' \in Snapshot
  PROVE  CatchUp'
<1> DEFINE new == [snapshot |-> snapshot', todo |-> listeners, calling |-> Nobody,
                   joins |-> Nobody]
<1>1. frames \in Seq(Frame) /\ listeners \in Seq(Listeners)
  BY DEF ObsInv, ObserversTypeOK
<1>2. Push(new) /\ listeners' = listeners /\ overtaken' = Waiting \cup Joining
  BY DEF Commit
<1>3. new \in Frame /\ new.snapshot = snapshot' /\ new.todo = listeners /\ new.joins = Nobody
  BY <1>1 DEF Frame
<1> HIDE DEF new
<1>5. /\ DOMAIN frames = 1 .. Len(frames) /\ DOMAIN frames' = 1 .. 1 + Len(frames)
      /\ frames'[1] = new /\ Len(frames) \in Nat
      /\ \A n \in 2 .. 1 + Len(frames) : frames'[n] = frames[n - 1]
  BY <1>1, <1>2, <1>3, PushTyped
<1>6. ASSUME NEW n \in DOMAIN frames', n # 1
      PROVE  /\ Members(frames'[n].todo) \subseteq overtaken'
             /\ frames'[n].joins \in overtaken' \cup {Nobody}
  <2>1. n - 1 \in DOMAIN frames /\ frames'[n] = frames[n - 1]
    BY <1>5, <1>6
  <2>2. Members(frames[n - 1].todo) \subseteq Waiting /\ frames[n - 1].joins \in Joining \cup {Nobody}
    BY <2>1 DEF Waiting, Joining
  <2>3. QED
    BY <1>2, <2>1, <2>2
<1>7. NewestOrOvertaken'
  BY <1>3, <1>5, <1>6 DEF NewestOrOvertaken
<1>8. ASSUME NEW l \in Members(listeners)
      PROVE  Awaits(l)'
  <2>1. 1 \in DOMAIN frames'
    BY <1>5
  <2>2. QED
    BY <1>3, <1>5, <1>8, <2>1 DEF Awaits
<1>9. Joining' \subseteq overtaken'
  BY <1>3, <1>5, <1>6 DEF Joining
<1>10. QED
  BY <1>2, <1>7, <1>8, <1>9 DEF CatchUp, HearsOrWaits, JoinsCurrent

(* A stream that begins to subscribe shows the snapshot it found.          *)
LEMMA ObserveCatchesUp ==
  ASSUME ObsInv, CatchUp, NEW l \in Listeners, Observe(l)
  PROVE  CatchUp'
<1> DEFINE new == [snapshot |-> snapshot, todo |-> <<>>, calling |-> l, joins |-> l]
<1>1. frames \in Seq(Frame) /\ snapshot \in Snapshot /\ heard \in [Listeners -> Snapshot]
  BY DEF ObsInv, ObserversTypeOK, TypeOK
<1>2. /\ Push(new) /\ listeners' = listeners /\ overtaken' = overtaken /\ snapshot' = snapshot
      /\ heard' = [heard EXCEPT ![l] = snapshot]
  BY DEF Observe, vars
<1>3. new \in Frame /\ new.snapshot = snapshot /\ new.joins = l
  BY <1>1 DEF Frame
<1> HIDE DEF new
<1>4. /\ DOMAIN frames = 1 .. Len(frames) /\ DOMAIN frames' = 1 .. 1 + Len(frames)
      /\ frames'[1] = new /\ Len(frames) \in Nat
      /\ \A n \in 2 .. 1 + Len(frames) : frames'[n] = frames[n - 1]
  BY <1>1, <1>2, <1>3, PushTyped
<1>5. ASSUME NEW n \in DOMAIN frames', n # 1
      PROVE  n - 1 \in DOMAIN frames /\ frames'[n] = frames[n - 1]
  BY <1>4, <1>5
<1>6. NewestOrOvertaken'
  BY <1>2, <1>3, <1>4, <1>5 DEF CatchUp, NewestOrOvertaken
<1>7. ASSUME NEW k, Awaits(k)
      PROVE  Awaits(k)'
  <2>1. PICK n \in DOMAIN frames : k \in Members(frames[n].todo) /\ frames[n].snapshot = snapshot
    BY <1>7 DEF Awaits
  <2>2. n + 1 \in DOMAIN frames' /\ frames'[n + 1] = frames[n]
    BY <1>4, <2>1
  <2>3. QED
    BY <1>2, <2>1, <2>2 DEF Awaits
<1>8. ASSUME NEW k, heard[k] \in {Nothing, snapshot} \/ Awaits(k)
      PROVE  heard'[k] \in {Nothing, snapshot'} \/ Awaits(k)'
  BY <1>1, <1>2, <1>7, <1>8
<1>9. \A k \in Joining' : k = l \/ k \in Joining
  BY <1>3, <1>4, <1>5 DEF Joining
<1>10. heard'[l] = snapshot'
  BY <1>1, <1>2
<1>11. HearsOrWaits'
  BY <1>2, <1>8 DEF CatchUp, HearsOrWaits
<1>12. JoinsCurrent'
  BY <1>2, <1>8, <1>9, <1>10 DEF CatchUp, JoinsCurrent
<1>13. QED
  BY <1>6, <1>11, <1>12 DEF CatchUp

(* The listener called hears the newest snapshot, or had been overtaken.   *)
LEMMA CallCatchesUp ==
  ASSUME ObsInv, CatchUp, Call
  PROVE  CatchUp'
<1> DEFINE frame == frames[1]
           l     == Head(frame.todo)
           next  == [frame EXCEPT !.todo = Tail(@), !.calling = l]
<1>1. /\ frames \in Seq(Frame) /\ frames # <<>> /\ listeners \in Seq(Listeners)
      /\ heard \in [Listeners -> Snapshot]
  BY DEF ObsInv, ObserversTypeOK, Call
<1>2. Head(frames) = frame /\ 1 \in DOMAIN frames /\ frame \in Frame
  BY <1>1
<1>3. /\ frame.todo # <<>> /\ heard' = [heard EXCEPT ![l] = frame.snapshot]
      /\ frames' = [frames EXCEPT ![1] = next] /\ listeners' = listeners
      /\ overtaken' = overtaken /\ snapshot' = snapshot
  BY <1>2 DEF Call, vars
<1>4. frame.todo \in Seq(Listeners)
  BY <1>2 DEF Frame
<1>5. l \in Listeners /\ l \in Members(frame.todo)
      /\ Members(Tail(frame.todo)) \subseteq Members(frame.todo)
      /\ \A k \in Members(frame.todo) : k # l => k \in Members(Tail(frame.todo))
  BY <1>3, <1>4, TailKeeps
<1>6. next.snapshot = frame.snapshot /\ next.todo = Tail(frame.todo) /\ next.joins = frame.joins
  BY <1>2 DEF Frame
<1>7. DOMAIN frames' = DOMAIN frames /\ frames'[1] = next
      /\ \A n \in DOMAIN frames : n # 1 => frames'[n] = frames[n]
  <2> HIDE DEF next
  <2>1. QED
    BY <1>2, <1>3
<1> HIDE DEF next, l, frame
<1>8. NewestOrOvertaken'
  <2>1. frame.snapshot = snapshot \/ Members(frame.todo) \subseteq overtaken
    BY <1>2 DEF CatchUp, NewestOrOvertaken, frame
  <2>2. QED
    BY <1>3, <1>5, <1>6, <1>7, <2>1 DEF CatchUp, NewestOrOvertaken
<1>9. ASSUME NEW k, k \notin overtaken', heard[k] \in {Nothing, snapshot} \/ Awaits(k)
      PROVE  heard'[k] \in {Nothing, snapshot} \/ Awaits(k)'
  <2>2. CASE k = l
    <3>1. frame.snapshot = snapshot
      BY <1>2, <1>3, <1>5, <1>9, <2>2 DEF CatchUp, NewestOrOvertaken, frame
    <3>2. QED
      BY <1>1, <1>3, <1>5, <2>2, <3>1
  <2>3. CASE k # l
    <3>1. heard'[k] = heard[k]
      BY <1>1, <1>3, <1>5, <2>3
    <3>2. Awaits(k) => Awaits(k)'
      <4>1. SUFFICES ASSUME NEW n \in DOMAIN frames, k \in Members(frames[n].todo),
                            frames[n].snapshot = snapshot
                     PROVE  k \in Members(frames'[n].todo) /\ frames'[n].snapshot = snapshot'
        BY <1>7 DEF Awaits
      <4>2. CASE n = 1
        BY <1>3, <1>5, <1>6, <1>7, <2>3, <4>1, <4>2 DEF frame
      <4>3. CASE n # 1
        BY <1>3, <1>7, <4>1, <4>3
      <4>4. QED
        BY <4>2, <4>3
    <3>3. QED
      BY <1>9, <3>1, <3>2
  <2>4. QED
    BY <2>2, <2>3
<1>10. Joining' \subseteq Joining
  BY <1>2, <1>6, <1>7 DEF Joining, frame
<1>11. QED
  BY <1>3, <1>8, <1>9, <1>10 DEF CatchUp, HearsOrWaits, JoinsCurrent

(* A commit ends when nobody waits in it any more; a stream joins the      *)
(* listeners with the snapshot it was called with.                         *)
LEMMA ReturnCatchesUp ==
  ASSUME ObsInv, CatchUp, Return
  PROVE  CatchUp'
<1>1. /\ frames \in Seq(Frame) /\ frames # <<>> /\ Head(frames).todo = <<>> /\ frames' = Tail(frames)
      /\ heard' = heard /\ overtaken' = overtaken /\ snapshot' = snapshot
      /\ listeners \in Seq(Listeners)
  BY DEF ObsInv, ObserversTypeOK, Return, vars
<1>2. Len(frames) \in Nat \ {0} /\ DOMAIN frames = 1 .. Len(frames) /\ frames[1].todo = <<>>
      /\ Head(frames) = frames[1] /\ frames[1] \in Frame
      /\ DOMAIN frames' = 1 .. Len(frames) - 1
      /\ \A n \in DOMAIN frames' : frames'[n] = frames[n + 1]
  BY <1>1
<1>3. NewestOrOvertaken'
  BY <1>1, <1>2 DEF CatchUp, NewestOrOvertaken
<1>4. ASSUME NEW l, Awaits(l)
      PROVE  Awaits(l)'
  <2>1. PICK n \in DOMAIN frames : l \in Members(frames[n].todo) /\ frames[n].snapshot = snapshot
    BY <1>4 DEF Awaits
  <2>2. Members(<<>>) = {}
    BY DEF Members
  <2>3. n # 1
    BY <1>2, <2>1, <2>2
  <2>4. n - 1 \in DOMAIN frames' /\ frames'[n - 1] = frames[n]
    BY <1>2, <2>1, <2>3
  <2>5. QED
    BY <1>1, <2>1, <2>4 DEF Awaits
<1>5. Joining' \subseteq Joining
  BY <1>2 DEF Joining
<1>6. \A l \in Members(listeners') : l \in Members(listeners) \/ l \in Joining
  <2>1. CASE frames[1].joins = Nobody
    BY <1>2, <2>1 DEF Return
  <2>2. CASE frames[1].joins # Nobody
    <3>1. frames[1].joins \in Listeners /\ frames[1].joins \in Joining
      BY <1>2, <2>2 DEF Frame, Joining
    <3>2. listeners' = Added(frames[1].joins)
      BY <1>2, <2>2 DEF Return
    <3>3. QED
      BY <1>1, <3>1, <3>2, AddedKeeps
  <2>3. QED
    BY <2>1, <2>2
<1>7. HearsOrWaits'
  BY <1>1, <1>4, <1>6 DEF CatchUp, HearsOrWaits, JoinsCurrent
<1>8. JoinsCurrent'
  BY <1>1, <1>4, <1>5 DEF CatchUp, JoinsCurrent
<1>9. QED
  BY <1>3, <1>7, <1>8 DEF CatchUp

(* A stream that closes takes itself, and nobody else, off the copies.     *)
LEMMA UnsubscribeCatchesUp ==
  ASSUME ObsInv, CatchUp, NEW l \in Listeners, Unsubscribe(l)
  PROVE  CatchUp'
<1>1. /\ frames \in Seq(Frame) /\ listeners \in Seq(Listeners) /\ heard \in [Listeners -> Snapshot]
      /\ listeners' = Without(listeners, l)
      /\ heard' = [heard EXCEPT ![l] = Nothing] /\ overtaken' = overtaken /\ snapshot' = snapshot
  BY DEF ObsInv, ObserversTypeOK, Unsubscribe, vars
<1>2. Members(listeners') \subseteq Members(listeners)
  BY <1>1, WithoutKeeps
<1>3. \A k : heard'[k] = heard[k] \/ heard'[k] = Nothing
  BY <1>1
<1>4. heard'[l] = Nothing
  BY <1>1
<1>5. CASE l \notin Streams
  <2>1. frames' = frames
    BY <1>5 DEF Unsubscribe
  <2>2. QED
    BY <1>1, <1>2, <1>3, <2>1, QuietKeeps
<1>6. CASE l \in Streams
  <2>1. frames' = [n \in DOMAIN frames |-> Closed(frames[n], l)]
    BY <1>6 DEF Unsubscribe
  <2>2. ASSUME NEW n \in DOMAIN frames
        PROVE  /\ frames'[n].snapshot = frames[n].snapshot
               /\ Members(frames'[n].todo) \subseteq Members(frames[n].todo)
               /\ \A k \in Members(frames[n].todo) : k # l => k \in Members(frames'[n].todo)
               /\ frames'[n].joins \in {frames[n].joins, Nobody}
    <3>1. frames[n] \in Frame
      BY <1>1, ElementOfSeq, LenProperties
    <3>2. frames[n].todo \in Seq(Listeners)
      BY <3>1 DEF Frame
    <3>3. frames'[n].snapshot = frames[n].snapshot /\ frames'[n].todo = Without(frames[n].todo, l)
          /\ frames'[n].joins \in {frames[n].joins, Nobody}
      BY <2>1, <3>1 DEF Frame, Closed
    <3>4. QED
      BY <3>2, <3>3, WithoutKeeps
  <2>3. DOMAIN frames' = DOMAIN frames
    BY <2>1
  <2>4. NewestOrOvertaken'
    BY <1>1, <2>2, <2>3 DEF CatchUp, NewestOrOvertaken
  <2>5. ASSUME NEW k, heard[k] \in {Nothing, snapshot} \/ Awaits(k)
        PROVE  heard'[k] \in {Nothing, snapshot} \/ Awaits(k)'
    <3>1. CASE k = l
      BY <1>4, <3>1
    <3>2. CASE k # l
      BY <1>1, <1>3, <2>2, <2>3, <2>5, <3>2 DEF Awaits
    <3>3. QED
      BY <3>1, <3>2
  <2>6. Joining' \subseteq Joining
    BY <2>2, <2>3 DEF Joining
  <2>7. QED
    BY <1>1, <1>2, <2>4, <2>5, <2>6 DEF CatchUp, HearsOrWaits, JoinsCurrent
<1>7. QED
  BY <1>5, <1>6

(* Every step keeps what is owed to the listeners.                         *)
LEMMA NextCatchUp == ObsInv /\ CatchUp /\ [ObserversNext]_allVars => CatchUp'
<1> SUFFICES ASSUME ObsInv, CatchUp, [ObserversNext]_allVars
             PROVE  CatchUp'
  OBVIOUS
<1>1. TypeOK /\ TypeOK' /\ heard \in [Listeners -> Snapshot] /\ listeners \in Seq(Listeners)
  BY NextObsInv DEF ObsInv, ObserversTypeOK
<1>2. CASE Dispatch
  <2>1. CASE outcome' = "applied"
    BY <1>1, <1>2, <2>1, CommitCatchesUp DEF Dispatch, TypeOK
  <2>2. CASE outcome' # "applied"
    <3>1. snapshot' = snapshot
      BY <1>1, <1>2, <2>2, RefusedKeeps DEF Dispatch
    <3>2. UNCHANGED <<listeners, frames, heard, overtaken>>
      BY <1>2, <2>2 DEF Dispatch, observation
    <3>3. QED
      BY <3>1, <3>2, QuietKeeps
  <2>3. QED
    BY <2>1, <2>2
<1>3. CASE Call
  BY <1>3, CallCatchesUp
<1>4. CASE Return
  BY <1>4, ReturnCatchesUp
<1>5. ASSUME NEW l \in Listeners, Subscribe(l)
      PROVE  CatchUp'
  <2>1. /\ listeners' = Added(l) /\ frames' = frames /\ overtaken' = overtaken
        /\ snapshot' = snapshot /\ heard' = [heard EXCEPT ![l] = Nothing]
    BY <1>5 DEF Subscribe, vars
  <2>2. \A k \in Members(listeners') : k = l \/ k \in Members(listeners)
    BY <1>1, <2>1, AddedKeeps
  <2>3. heard'[l] = Nothing /\ \A k : heard'[k] = heard[k] \/ heard'[k] = Nothing
    BY <1>1, <2>1
  <2>4. QED
    BY <2>1, <2>2, <2>3, QuietKeeps
<1>6. ASSUME NEW l \in Listeners, Observe(l) \/ Unsubscribe(l)
      PROVE  CatchUp'
  BY <1>6, ObserveCatchesUp, UnsubscribeCatchesUp
<1>7. CASE UNCHANGED allVars
  BY <1>7, QuietKeeps DEF allVars, vars, observation
<1>8. QED
  BY <1>2, <1>3, <1>4, <1>5, <1>6, <1>7 DEF ObserversNext

(* Listeners that dispatch from within a call may leave behind those after *)
(* them and streams that are still subscribing, and nobody else: when no   *)
(* call is under way, every other listener shows the machine's snapshot.   *)
THEOREM ListenersHearCurrent == ObserversSpec => []HearsCurrent
<1>1. ObserversInit => CatchUp
  BY DEF ObserversInit, CatchUp, NewestOrOvertaken, HearsOrWaits, JoinsCurrent, Joining, Members
<1>2. CatchUp => HearsCurrent
  BY DEF CatchUp, HearsOrWaits, Awaits, HearsCurrent
<1>3. QED
  BY <1>1, <1>2, InitObsInv, NextObsInv, NextCatchUp, PTL DEF ObserversSpec, allVars
=============================================================================
