------------------------- MODULE LifecycleObservers -------------------------
(***************************************************************************)
(* AppLifecycleMachine with its listeners (sdk/src/lifecycle.mjs), and the *)
(* streams of sdk/src/rxjs.mjs among them.  dispatch() calls the listeners *)
(* synchronously, and a listener may itself dispatch (a failure that makes *)
(* the application call stop(), say), subscribe or unsubscribe: calls      *)
(* nest, and each commit goes through the copy of the listeners it made.   *)
(***************************************************************************)
EXTENDS AppLifecycle, Sequences

CONSTANTS
  Listeners,   \* functions given to subscribe()
  Streams,     \* those of them that are observeLifecycle() subscriptions
  Nobody,
  MaxDepth     \* commits and subscriptions that may be nested

ASSUME ListenersAssumption == Streams \subseteq Listeners /\ Nobody \notin Listeners
ASSUME DepthAssumption == MaxDepth \in Nat \ {0}

VARIABLES
  listeners,   \* #listeners, in the order they were added
  frames,      \* the commits and subscriptions under way, innermost first
  heard,       \* what each listener was last called with since it subscribed
  overtaken    \* ghost: who still waited to be called, or subscribed, at the last commit

observation == <<listeners, frames, heard, overtaken>>

Nothing == Stopped(MAX_SAFE_GENERATION + 1)   \* not called since it subscribed

(* A commit calls the listeners of todo; a stream that subscribes is       *)
(* called, and joins the listeners when that call has returned.            *)
Frame == [snapshot : Snapshot, todo : Seq(Listeners),
          calling : Listeners \cup {Nobody}, joins : Listeners \cup {Nobody}]

Members(s) == {s[n] : n \in DOMAIN s}

(* s without its entry l, if it has one. *)
Without(s, l) ==
  IF l \notin Members(s) THEN s
  ELSE LET at == CHOOSE n \in DOMAIN s : s[n] = l
       IN  [n \in 1 .. Len(s) - 1 |-> s[IF n < at THEN n ELSE n + 1]]

ObserversInit ==
  /\ Init
  /\ listeners = <<>> /\ frames = <<>>
  /\ heard = [l \in Listeners |-> Nothing]
  /\ overtaken = {}

(* Inside a commit or a subscription, whoever is being called acts.        *)
MayAct == frames # <<>> => Head(frames).calling # Nobody

Waiting == UNION {Members(frames[n].todo) : n \in DOMAIN frames}
Joining == {frames[n].joins : n \in DOMAIN frames} \ {Nobody}

Push(frame) == Len(frames) < MaxDepth /\ frames' = <<frame>> \o frames

(* #commit: the snapshot is in place before the first listener is called.  *)
Commit ==
  /\ Push([snapshot |-> snapshot', todo |-> listeners, calling |-> Nobody, joins |-> Nobody])
  /\ overtaken' = Waiting \cup Joining
  /\ UNCHANGED <<listeners, heard>>

Dispatch ==
  /\ MayAct
  /\ Next
  /\ IF outcome' = "applied" THEN Commit ELSE UNCHANGED observation

(* The loop of #commit; an exception of the listener is swallowed.         *)
Call ==
  /\ frames # <<>> /\ Head(frames).todo # <<>>
  /\ LET frame == Head(frames)
         l     == Head(frame.todo)
     IN  /\ heard' = [heard EXCEPT ![l] = frame.snapshot]
         /\ frames' = [frames EXCEPT ![1] = [frame EXCEPT !.todo = Tail(@), !.calling = l]]
  /\ UNCHANGED <<vars, listeners, overtaken>>

Added(l) == IF l \in Members(listeners) THEN listeners ELSE Append(listeners, l)

Return ==
  /\ frames # <<>> /\ Head(frames).todo = <<>>
  /\ frames' = Tail(frames)
  /\ listeners' = IF Head(frames).joins = Nobody THEN listeners ELSE Added(Head(frames).joins)
  /\ UNCHANGED <<vars, heard, overtaken>>

(* Variant (a bug to be caught): #commit loops over the set itself, which  *)
(* visits what is added meanwhile.                                         *)
SubscribeLive(l) ==
  /\ MayAct
  /\ l \notin Streams /\ l \notin Members(listeners)
  /\ listeners' = Added(l)
  /\ heard' = [heard EXCEPT ![l] = Nothing]
  /\ frames' = [n \in DOMAIN frames |-> [frames[n] EXCEPT !.todo = Append(@, l)]]
  /\ UNCHANGED <<vars, overtaken>>

(* subscribe() *)
Subscribe(l) ==
  /\ MayAct
  /\ l \notin Streams /\ l \notin Members(listeners)
  /\ listeners' = Added(l)
  /\ heard' = [heard EXCEPT ![l] = Nothing]
  /\ UNCHANGED <<vars, frames, overtaken>>

(* observeLifecycle: publish the snapshot first, then subscribe().         *)
Observe(l) ==
  /\ MayAct
  /\ l \in Streams /\ l \notin Members(listeners) \cup Joining
  /\ Push([snapshot |-> snapshot, todo |-> <<>>, calling |-> l, joins |-> l])
  /\ heard' = [heard EXCEPT ![l] = snapshot]
  /\ UNCHANGED <<vars, listeners, overtaken>>

Closed(frame, l) ==
  [frame EXCEPT !.todo = Without(@, l), !.joins = IF @ = l THEN Nobody ELSE @]

(* The copies keep a listener that unsubscribed; a stream that has closed  *)
(* ignores the call, and does not subscribe if it closed while publishing. *)
Unsubscribe(l) ==
  /\ MayAct
  /\ l \in Members(listeners) \cup Joining
  /\ listeners' = Without(listeners, l)
  /\ frames' = IF l \in Streams THEN [n \in DOMAIN frames |-> Closed(frames[n], l)] ELSE frames
  /\ heard' = [heard EXCEPT ![l] = Nothing]
  /\ UNCHANGED <<vars, overtaken>>

ObserversNext ==
  \/ Dispatch
  \/ Call
  \/ Return
  \/ \E l \in Listeners : Subscribe(l) \/ Observe(l) \/ Unsubscribe(l)

ObserversSpec == ObserversInit /\ [][ObserversNext]_<<vars, observation>>

-----------------------------------------------------------------------------
(* Every variable has its type. *)
ObserversTypeOK ==
  /\ TypeOK
  /\ listeners \in Seq(Listeners) /\ frames \in Seq(Frame)
  /\ heard \in [Listeners -> Snapshot]
  /\ overtaken \subseteq Listeners

(* When no call is under way, every listener that has been called, and     *)
(* every stream, shows the machine's snapshot, unless a listener called    *)
(* before it dispatched a transition meanwhile (it hears the two in        *)
(* reverse), or its own stream did on its first notification (it misses    *)
(* that transition).                                                       *)
HearsCurrent ==
  frames = <<>> => \A l \in Members(listeners) \ overtaken : heard[l] \in {Nothing, snapshot}
=============================================================================
