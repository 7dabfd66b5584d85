------------------------- MODULE SyncSessionProofs -------------------------
(***************************************************************************)
(* What the Dart SyncSession guarantees for any number of calls in flight, *)
(* any order in which their effects take place, and any failures.          *)
(***************************************************************************)
EXTENDS AppLifecycleProofs, SyncSession

sessionVars == <<vars, session>>

-----------------------------------------------------------------------------
(* What a dispatch does to the phase and the token *)

(* The phase it leaves alone, or moves between online and offline.         *)
Stays ==
  /\ snapshot'.active_token = snapshot.active_token
  /\ snapshot'.generation = snapshot.generation
  /\ \/ snapshot'.phase = snapshot.phase
     \/ {snapshot.phase, snapshot'.phase} \subseteq {"online", "offline"}

(* An accepted start or stop takes the next token.                         *)
NextToken ==
  /\ snapshot'.generation = snapshot.generation + 1
  /\ snapshot'.active_token = snapshot'.generation

(* A start is accepted when stopped, and a refused one changes nothing.    *)
LEMMA StartEffect ==
  ASSUME TypeOK, StartRequested
  PROVE  IF outcome' = "applied"
         THEN snapshot.phase = "stopped" /\ snapshot'.phase = "starting" /\ NextToken
         ELSE snapshot' = snapshot
  BY DEF StartRequested, Apply, Refuse, NextToken, TypeOK, Snapshot

(* fail() ends the session and keeps the generation.                       *)
LEMMA FailEffect ==
  ASSUME NEW failure, Fail(failure)
  PROVE  snapshot'.phase = "failed" /\ snapshot'.generation = snapshot.generation
  BY DEF Fail, Apply, Stopped, None

(* So does the end of a cleanup.                                           *)
LEMMA StoppedEffect ==
  ASSUME Apply(Stopped(snapshot.generation))
  PROVE  snapshot'.phase = "stopped" /\ snapshot'.generation = snapshot.generation
  BY DEF Apply, Stopped, None

(* begin_stop takes the next token, or refuses.                            *)
LEMMA BeginStopEffect ==
  ASSUME TypeOK, NEW operation, BeginStop(operation)
  PROVE  IF outcome' = "applied" THEN snapshot'.phase = "stopping" /\ NextToken
         ELSE snapshot' = snapshot
<1>1. CASE snapshot.generation < MAX_SAFE_GENERATION
  BY <1>1 DEF BeginStop, Apply, NextToken, TypeOK, Snapshot
<1>2. CASE ~(snapshot.generation < MAX_SAFE_GENERATION)
  BY <1>2 DEF BeginStop, Refuse
<1>3. QED
  BY <1>1, <1>2

(* A stop or a reconciliation is accepted in a running or failed phase.    *)
LEMMA StopEffect ==
  ASSUME TypeOK, IF snapshot.phase = "failed" THEN ReconcileRequested ELSE StopRequested
  PROVE  IF outcome' = "applied"
         THEN snapshot.phase \in Running \cup {"failed"} /\ snapshot'.phase = "stopping" /\ NextToken
         ELSE snapshot' = snapshot
<1>1. CASE snapshot.phase = "failed"
  <2>1. BeginStop("reconcile")
    BY <1>1 DEF ReconcileRequested
  <2>2. QED
    BY <1>1, <2>1, BeginStopEffect
<1>2. CASE snapshot.phase \in Running
  <2>1. BeginStop("stop")
    BY <1>2 DEF StopRequested, Running
  <2>2. QED
    BY <1>2, <2>1, BeginStopEffect
<1>3. CASE snapshot.phase \in {"stopped", "stopping"}
  <2>1. Refuse("stuttered")
    BY <1>3 DEF StopRequested, Running
  <2>2. QED
    BY <2>1 DEF Refuse
<1>4. QED
  BY <1>1, <1>2, <1>3 DEF TypeOK, Snapshot, Phases, Running

(* A start is confirmed by the session's own token only.                   *)
LEMMA ConfirmEffect ==
  ASSUME TypeOK, NEW token \in Nat \ {None}, StartSucceeded(token)
  PROVE  IF outcome' = "applied"
         THEN /\ snapshot.phase = "starting" /\ token = snapshot.active_token
              /\ snapshot'.phase \in {"online", "offline"}
              /\ snapshot'.active_token = snapshot.active_token
              /\ snapshot'.generation = snapshot.generation
         ELSE snapshot' = snapshot /\ (snapshot.phase = "starting" => token # snapshot.active_token)
  BY DEF StartSucceeded, WithToken, Relation, Apply, Refuse, TypeOK, Snapshot, None

(* A failed start leaves any phase but starting.                           *)
LEMMA StartFailedEffect ==
  ASSUME TypeOK, NEW token \in Nat \ {None}, StartFailed(token)
  PROVE  \/ /\ snapshot.phase = "starting" /\ token = snapshot.active_token
            /\ snapshot'.phase = "failed" /\ snapshot'.generation = snapshot.generation
         \/ /\ snapshot' = snapshot
            /\ snapshot.phase = "starting" => token # snapshot.active_token
  BY DEF StartFailed, Fail, Stopped, WithToken, Relation, Apply, Refuse, TypeOK, Snapshot, None

(* Connectivity moves a running session only.                              *)
LEMMA ConnectivityEffect ==
  ASSUME TypeOK, NEW token \in Nat, NEW online \in BOOLEAN, ConnectivityChanged(token, online)
  PROVE  Stays
  BY DEF ConnectivityChanged, WithToken, Relation, Apply, Refuse, TypeOK, Snapshot, Stays, Running,
     None

(* A runtime failure fails a running session.                              *)
LEMMA RuntimeFailedEffect ==
  ASSUME TypeOK, NEW token \in Nat, RuntimeFailed(token)
  PROVE  IF outcome' = "applied"
         THEN /\ snapshot.phase \in Running /\ snapshot'.phase = "failed"
              /\ snapshot'.generation = snapshot.generation
         ELSE snapshot' = snapshot
  BY DEF RuntimeFailed, Fail, Stopped, WithToken, Relation, Apply, Refuse, TypeOK, Snapshot, None

(* The end of a cleanup ends the stopping phase it belongs to.             *)
LEMMA StopEndEffect ==
  ASSUME TypeOK, NEW token \in Nat \ {None}, StopSucceeded(token) \/ StopFailed(token)
  PROVE  \/ /\ snapshot.phase = "stopping" /\ token = snapshot.active_token
            /\ snapshot'.phase \in {"stopped", "failed"}
            /\ snapshot'.generation = snapshot.generation
         \/ snapshot' = snapshot
<1>1. CASE snapshot.phase = "stopping" /\ token = snapshot.active_token
  <2>1. Apply(Stopped(snapshot.generation)) \/ Fail("stop")
    BY <1>1 DEF StopSucceeded, StopFailed, WithToken, Relation, None
  <2>2. QED
    BY <1>1, <2>1, FailEffect, StoppedEffect
<1>2. CASE ~(snapshot.phase = "stopping" /\ token = snapshot.active_token)
  BY <1>2 DEF StopSucceeded, StopFailed, WithToken, Relation, Refuse, None
<1>3. QED
  BY <1>1, <1>2

-----------------------------------------------------------------------------
(* Types, and the machine under the session *)

(* Calls carry tokens the machine has allocated.                           *)
TokensAllocated == \A c \in Calls : call[c].token <= snapshot.generation

SessionInv == IInv /\ SessionTypeOK /\ TokensAllocated

(* The session starts with nothing in flight.                              *)
LEMMA InitSession == SessionInit => SessionInv
<1> SUFFICES ASSUME SessionInit PROVE SessionInv
  OBVIOUS
<1>1. IInv
  BY InitInv DEF SessionInit
<1>2. SessionTypeOK
  BY <1>1 DEF SessionInit, SessionTypeOK, IInv, CallState, Cleanups, Dispatching, Idle, None
<1>3. TokensAllocated
  BY DEF SessionInit, Init, TokensAllocated, Idle, Stopped, None
<1>4. QED
  BY <1>1, <1>2, <1>3 DEF SessionInv

(* Every step of a session leaves the machine or dispatches one event.     *)
LEMMA MachineSteps ==
  ASSUME SessionInv, [SessionNext]_sessionVars
  PROVE  [Next]_vars
<1> DEFINE Allocated(token) == token \in Nat /\ token <= snapshot.generation
<1>1. ASSUME NEW token, Allocated(token), TokenEvent(token) PROVE [Next]_vars
  <2>1. token \in Tokens
    BY <1>1 DEF Tokens, SessionInv, IInv, TypeOK, Snapshot
  <2>2. QED
    BY <1>1, <2>1, Zenon DEF Next
<1>2. Allocated(snapshot.active_token) /\ \A c \in Calls : Allocated(call[c].token)
  BY DEF SessionInv, IInv, TypeOK, Validated, TokenInRange, Snapshot, SessionTypeOK, CallState,
     TokensAllocated
<1>3. CASE UNCHANGED sessionVars
  BY <1>3 DEF sessionVars
<1>4. ASSUME NEW c \in Calls, CallStep(c) PROVE [Next]_vars
  <2>1. \/ StartRequested \/ StopRequested \/ ReconcileRequested \/ UNCHANGED vars
        \/ \E token : Allocated(token) /\ TokenEvent(token)
    <3> HIDE DEF Allocated
    <3>1. CASE ComesUp(c) \/ GoesDown(c) \/ Activate(c) \/ ActivateThrows(c) \/ FailEnds(c) \/ StopClears(c)
      BY <3>1, Zenon DEF ComesUp, GoesDown, Activate, ActivateThrows, FailEnds, StopClears
    <3>2. CASE Start(c) \/ Stop(c)
      BY <3>2, Zenon DEF Start, Stop
    <3>3. CASE Confirm(c) \/ Cleaned(c) \/ StopDone(c) \/ StopThrows(c) \/ FailRuntime(c)
      BY <3>3, <1>2, Zenon DEF Confirm, Cleaned, StopDone, StopThrows, FailRuntime, TokenEvent
    <3>4. CASE \E online \in BOOLEAN : Activated(c, online)
      BY <3>4, <1>2, Zenon DEF Activated, TokenEvent
    <3>5. QED
      BY <1>4, <3>1, <3>2, <3>3, <3>4, Zenon DEF CallStep
  <2>2. QED
    BY <2>1, <1>1, Zenon DEF Next
<1>5. CASE \E online \in BOOLEAN : SetOnline(online)
  BY <1>5, <1>1, <1>2, Zenon DEF SetOnline, TokenEvent
<1>6. QED
  BY <1>3, <1>4, <1>5 DEF SessionNext

(* One call's next state, typed.                                           *)
LEMMA CallSet ==
  ASSUME SessionTypeOK, NEW c \in Calls, NEW x \in CallState, call' = [call EXCEPT ![c] = x]
  PROVE  call' \in [Calls -> CallState] /\ call'[c] = x /\ \A d \in Calls \ {c} : call'[d] = call[d]
  BY DEF SessionTypeOK

(* What the invariant says of the calls.                                   *)
CallsTyped ==
  /\ call \in [Calls -> CallState]
  /\ \A c \in Calls :
       /\ call[c].pc \in {"activating", "confirming", "cleaning", "stopping"} => call[c].token # None
       /\ call[c].token <= snapshot.generation

(* A call moves on, with an allocated token.                               *)
LEMMA MovesTyped ==
  ASSUME SessionInv, NEW c \in Calls, NEW x \in CallState, call' = [call EXCEPT ![c] = x],
         snapshot' \in Snapshot, snapshot'.generation >= snapshot.generation,
         x.token <= snapshot'.generation,
         x.pc \in {"activating", "confirming", "cleaning", "stopping"} => x.token # None
  PROVE  CallsTyped'
<1>1. /\ call' \in [Calls -> CallState] /\ call'[c] = x
      /\ \A d \in Calls \ {c} : call'[d] = call[d]
  BY CallSet DEF SessionInv
<1>2. \A d \in Calls : call[d].token \in Nat /\ call[d].token <= snapshot.generation
  BY DEF SessionInv, SessionTypeOK, CallState, TokensAllocated
<1>3. snapshot.generation \in Nat /\ snapshot'.generation \in Nat
  BY DEF SessionInv, IInv, TypeOK, Snapshot
<1>4. \A d \in Calls : call'[d].token <= snapshot'.generation
  BY <1>1, <1>2, <1>3
<1>5. QED
  BY <1>1, <1>4 DEF CallsTyped, SessionInv, SessionTypeOK

(* No dispatch takes the generation back.                                  *)
LEMMA GenerationGrows ==
  ASSUME SessionInv, [Next]_vars
  PROVE  snapshot' \in Snapshot /\ snapshot'.generation >= snapshot.generation
<1>1. snapshot' \in Snapshot
  BY NextInv DEF SessionInv, IInv, TypeOK
<1>2. snapshot.generation \in Nat
  BY DEF SessionInv, IInv, TypeOK, Snapshot
<1>3. snapshot'.generation \in {snapshot.generation, snapshot.generation + 1}
  <2>1. TypeOK
    BY DEF SessionInv, IInv
  <2>2. CASE StartRequested
    BY <2>1, <2>2, StartEffect DEF NextToken
  <2>3. CASE StopRequested \/ ReconcileRequested
    <3>1. BeginStop("stop") \/ BeginStop("reconcile") \/ \E result \in Outcomes : Refuse(result)
      BY <2>1, <2>3 DEF StopRequested, ReconcileRequested, TypeOK, Snapshot, Phases, Running, Outcomes
    <3>2. QED
      BY <2>1, <3>1, BeginStopEffect DEF NextToken, Refuse
  <2>4. ASSUME NEW token \in Tokens, TokenEvent(token)
        PROVE  snapshot'.generation = snapshot.generation
    <3>1. CASE StartSucceeded(token)
      BY <2>1, <3>1 DEF StartSucceeded, WithToken, Relation, Apply, Refuse, TypeOK, Snapshot
    <3>2. CASE StartFailed(token) \/ RuntimeFailed(token) \/ StopFailed(token)
      <4>1. (\E failure : Fail(failure)) \/ snapshot' = snapshot
        BY <3>2 DEF StartFailed, RuntimeFailed, StopFailed, WithToken, Relation, Refuse
      <4>2. QED
        BY <4>1, FailEffect
    <3>3. CASE \E online \in BOOLEAN : ConnectivityChanged(token, online)
      BY <2>1, <3>3 DEF ConnectivityChanged, WithToken, Relation, Apply, Refuse, TypeOK, Snapshot
    <3>4. CASE StopSucceeded(token)
      <4>1. Apply(Stopped(snapshot.generation)) \/ snapshot' = snapshot
        BY <3>4 DEF StopSucceeded, WithToken, Relation, Refuse
      <4>2. QED
        BY <4>1, StoppedEffect
    <3>5. QED
      BY <2>4, <3>1, <3>2, <3>3, <3>4, Zenon DEF TokenEvent
  <2>5. CASE UNCHANGED vars
    BY <2>5 DEF vars
  <2>6. QED
    BY <2>2, <2>3, <2>4, <2>5 DEF Next
<1>4. QED
  BY <1>1, <1>2, <1>3

(* Every step of a call keeps the types.                                   *)
LEMMA CallStepTyped ==
  ASSUME SessionInv, NEW c \in Calls, CallStep(c), [Next]_vars
  PROVE  CallsTyped'
<1> DEFINE Fine(x) == /\ x \in CallState /\ x.token <= snapshot'.generation
                      /\ x.pc \in {"activating", "confirming", "cleaning", "stopping"}
                           => x.token # None
<1>1. snapshot' \in Snapshot /\ snapshot'.generation >= snapshot.generation
  BY GenerationGrows
<1>2. ASSUME NEW x, Fine(x), call' = [call EXCEPT ![c] = x] PROVE CallsTyped'
  BY <1>1, <1>2, MovesTyped
<1>3. /\ call[c] \in CallState /\ call[c].token <= snapshot.generation
      /\ call[c].pc \in {"activating", "confirming", "cleaning", "stopping"} => call[c].token # None
      /\ call = [call EXCEPT ![c] = call[c]]
  BY DEF SessionInv, SessionTypeOK, TokensAllocated
<1>4. /\ snapshot.generation \in Nat /\ snapshot'.generation \in Nat
      /\ snapshot.active_token \in Nat /\ snapshot.active_token <= snapshot.generation
  BY <1>1 DEF SessionInv, IInv, TypeOK, Validated, TokenInRange, Snapshot
<1>5. Fine(call[c]) /\ Fine([call[c] EXCEPT !.did = TRUE])
  <2>1. call[c].token \in Nat /\ call[c].token <= snapshot'.generation
    BY <1>1, <1>3, <1>4 DEF CallState
  <2>2. [call[c] EXCEPT !.did = TRUE] \in CallState
    BY <1>3 DEF CallState
  <2>3. QED
    BY <2>1, <2>2, <1>3 DEF CallState
<1>6. Fine(Idle) /\ Fine([pc |-> "requested", token |-> None, did |-> FALSE])
      /\ Fine([pc |-> "failing", token |-> None, did |-> FALSE])
      /\ Fine([pc |-> "done", token |-> None, did |-> FALSE])
  BY <1>4 DEF Idle, CallState, Cleanups, Dispatching, None
<1>7. ASSUME NEW pc \in {"activating", "confirming", "cleaning"}, NEW token \in Nat \ {None},
             token <= snapshot.generation
      PROVE  Fine([pc |-> pc, token |-> token, did |-> FALSE])
  BY <1>1, <1>4, <1>7 DEF CallState, Cleanups, Dispatching
<1> HIDE DEF Fine
<1>8. CASE ComesUp(c) \/ GoesDown(c)
  BY <1>8, <1>2, <1>5 DEF ComesUp, GoesDown
<1>9. CASE Start(c) \/ FailRuntime(c)
  BY <1>9, <1>2, <1>3, <1>5, <1>6 DEF Start, FailRuntime, Becomes
<1>10. CASE Activate(c)
  BY <1>10, <1>2, <1>4, <1>6, <1>7 DEF Activate, Becomes, Returns
<1>11. CASE ActivateThrows(c) \/ Confirm(c) \/ \E online \in BOOLEAN : Activated(c, online)
  <2>1. call[c].token \in Nat \ {None} /\ call[c].token <= snapshot.generation
    BY <1>3, <1>11 DEF ActivateThrows, Confirm, Activated, Resumes, CallState
  <2>2. QED
    BY <2>1, <1>11, <1>2, <1>6, <1>7 DEF ActivateThrows, Confirm, Activated, Becomes, Returns
<1>12. CASE Cleaned(c) \/ FailEnds(c) \/ StopClears(c)
  BY <1>12, <1>2, <1>6 DEF Cleaned, FailEnds, StopClears, Returns
<1>13. CASE StopDone(c) \/ StopThrows(c)
  BY <1>13, <1>2, <1>6 DEF StopDone, StopThrows, Becomes
<1>14. CASE Stop(c)
  <2>1. CASE outcome' = "applied"
    <3>1. /\ call' = [call EXCEPT ![c] = [pc |-> "stopping", token |-> snapshot'.active_token, did |-> FALSE]]
          /\ NextToken
      BY <1>14, <2>1, StopEffect DEF Stop, Becomes, SessionInv, IInv
    <3>2. Fine([pc |-> "stopping", token |-> snapshot'.active_token, did |-> FALSE])
      BY <3>1, <1>4 DEF Fine, CallState, NextToken, Cleanups, None
    <3>3. QED
      BY <3>1, <3>2, <1>2
  <2>2. CASE outcome' # "applied"
    BY <1>14, <2>2, <1>2, <1>3, <1>5 DEF Stop
  <2>3. QED
    BY <2>1, <2>2
<1>15. QED
  BY <1>8, <1>9, <1>10, <1>11, <1>12, <1>13, <1>14, Zenon DEF CallStep

(* SessionInv is inductive.                                                *)
LEMMA NextSession == SessionInv /\ [SessionNext]_sessionVars => SessionInv'
<1> SUFFICES ASSUME SessionInv, [SessionNext]_sessionVars PROVE SessionInv'
  OBVIOUS
<1>1. [Next]_vars
  BY MachineSteps
<1>2. IInv' /\ TypeOK'
  BY <1>1, NextInv DEF SessionInv, IInv
<1>3. ASSUME NEW c \in Calls, CallStep(c)
      PROVE  /\ CallsTyped' /\ pendingStop' \in Calls \cup {NoCall}
             /\ effects' \in BOOLEAN /\ leaked' \in BOOLEAN /\ alone' \in BOOLEAN
  <2>1. CallsTyped'
    BY <1>1, <1>3, CallStepTyped
  <2>2. pendingStop' \in Calls \cup {NoCall}
    BY <1>3 DEF SessionInv, SessionTypeOK, CallStep, ComesUp, GoesDown, Start, Activate,
       ActivateThrows, Confirm, Cleaned, Activated, FailRuntime, FailEnds, Stop, StopDone,
       StopThrows, StopClears
  <2>3. effects' \in BOOLEAN /\ leaked' \in BOOLEAN /\ alone' \in BOOLEAN
    BY <1>3, Zenon DEF SessionInv, SessionTypeOK, CallStep, ComesUp, GoesDown, Start, Activate,
       ActivateThrows, Confirm, Cleaned, Activated, FailRuntime, FailEnds, Stop, StopDone,
       StopThrows, StopClears, Deactivated, AtRest
  <2>4. QED
    BY <2>1, <2>2, <2>3
<1>4. CASE UNCHANGED session
  <2>1. CallsTyped'
    <3>1. \A c \in Calls : call[c].token \in Nat /\ call[c].token <= snapshot.generation
      BY DEF SessionInv, SessionTypeOK, CallState, TokensAllocated
    <3>2. /\ snapshot.generation \in Nat /\ snapshot'.generation \in Nat
          /\ snapshot'.generation >= snapshot.generation
      BY <1>1, GenerationGrows DEF SessionInv, IInv, TypeOK, Snapshot
    <3>3. QED
      BY <1>4, <3>1, <3>2 DEF session, CallsTyped, SessionInv, SessionTypeOK
  <2>2. QED
    BY <1>2, <1>4, <2>1 DEF session, CallsTyped, SessionInv, SessionTypeOK, TokensAllocated
<1>5. QED
  BY <1>2, <1>3, <1>4 DEF SessionNext, SetOnline, sessionVars, CallsTyped, SessionInv,
     SessionTypeOK, TokensAllocated

(* The invariant in every reachable state.                                 *)
THEOREM SessionInvariance == SessionSpec => []SessionInv
<1>1. QED
  BY InitSession, NextSession, PTL DEF SessionSpec, sessionVars

(* The types are right: no call awaits without a token.                    *)
THEOREM SessionTypeCorrect == SessionSpec => []SessionTypeOK
  BY SessionInvariance, PTL DEF SessionInv

(* A session only ever dispatches events the reducer knows, with tokens it *)
(* allocated: AppLifecycle's guarantees are the session's.                 *)
THEOREM SessionDrivesReducer == SessionSpec => Spec
<1>1. SessionInit => Init
  BY DEF SessionInit
<1>2. SessionInv /\ [SessionNext]_sessionVars => [Next]_vars
  BY MachineSteps
<1>3. QED
  BY <1>1, <1>2, SessionInvariance, PTL DEF SessionSpec, Spec, sessionVars

-----------------------------------------------------------------------------
(* The calls a step moves *)

(* The next state of a call that moves, and of the others.                 *)
LEMMA Moves ==
  ASSUME SessionInv, NEW c \in Calls
  PROVE  /\ \A pc, token : Becomes(c, pc, token) =>
              call'[c].pc = pc /\ call'[c].token = token /\ ~call'[c].did
         /\ Returns(c) => call'[c] = Idle
         /\ call' = [call EXCEPT ![c].did = TRUE] =>
              call'[c].pc = call[c].pc /\ call'[c].token = call[c].token /\ call'[c].did
  BY DEF SessionInv, SessionTypeOK, Becomes, Returns, CallState

(* A call's step leaves the other calls where they are.                    *)
LEMMA OthersStay ==
  ASSUME SessionInv, NEW c \in Calls, CallStep(c), NEW d \in Calls \ {c}
  PROVE  call'[d] = call[d]
<1>1. call \in [Calls -> CallState]
  BY DEF SessionInv, SessionTypeOK
<1>2. \/ call' = call \/ \E x : call' = [call EXCEPT ![c] = x]
      \/ call' = [call EXCEPT ![c].did = TRUE]
  BY DEF CallStep, ComesUp, GoesDown, Start, Activate, ActivateThrows, Confirm, Cleaned, Activated,
     FailRuntime, FailEnds, Stop, StopDone, StopThrows, StopClears, Becomes, Returns
<1>3. QED
  BY <1>1, <1>2

(* What each call has to hold of: its token, and the reducer's state.      *)
LEMMA CallTokens ==
  ASSUME SessionInv
  PROVE  /\ TypeOK
         /\ snapshot.phase \in Phases
         /\ snapshot.active_token \in Nat
         /\ snapshot.phase \in Running \cup {"stopping"} => snapshot.active_token # None
         /\ \A c \in Calls :
              /\ call[c].pc \in {"activating", "confirming", "cleaning", "stopping"} =>
                   call[c].token \in Nat \ {None}
              /\ call[c].did \in BOOLEAN
<1>1. TypeOK /\ snapshot.phase \in Phases /\ snapshot.active_token \in Nat
  BY DEF SessionInv, IInv, TypeOK, Snapshot
<1>2. snapshot.phase \in Running \cup {"stopping"} => snapshot.active_token # None
  BY <1>1 DEF SessionInv, IInv, Validated, Coherent, IsCurrent, Running, None
<1>3. \A c \in Calls : call[c].token \in Nat /\ call[c].did \in BOOLEAN
  BY DEF SessionInv, SessionTypeOK, CallState
<1>4. QED
  BY <1>1, <1>2, <1>3 DEF SessionInv, SessionTypeOK

-----------------------------------------------------------------------------
(* Which start() a session belongs to *)

(* The start() of the present session, or one that was accepted and has    *)
(* not read its token yet.                                                 *)
Starts(c) ==
  \/ call[c].pc = "requested"
  \/ call[c].pc \in {"activating", "confirming"} /\ call[c].token = snapshot.active_token

(* There is one such call, and no session is online before it has          *)
(* confirmed.                                                              *)
OwnInv ==
  /\ \A c \in Calls : call[c].pc = "requested" => snapshot.phase \in {"starting", "stopping", "failed"}
  /\ \A c, d \in Calls : Starts(c) /\ Starts(d) => c = d
  /\ OnlineAfterItsActivate

(* A stopped or failed session has no token, and so no start() but one     *)
(* that has not read it.                                                   *)
LEMMA DownStarts ==
  ASSUME SessionInv', snapshot'.phase \in {"stopped", "failed"}
  PROVE  \A c \in Calls : Starts(c)' => call'[c].pc = "requested"
<1>1. Validated' /\ snapshot' \in Snapshot
  BY DEF SessionInv, IInv, TypeOK
<1>2. CASE snapshot'.phase = "stopped"
  BY <1>1, <1>2 DEF SessionInv, SessionTypeOK, Validated, Coherent, Stopped, Snapshot, Starts, None
<1>3. CASE snapshot'.phase = "failed"
  BY <1>1, <1>3 DEF SessionInv, SessionTypeOK, Validated, Coherent, Stopped, Snapshot, Starts, None
<1>4. QED
  BY <1>2, <1>3

(* A new token is nobody's.                                                *)
LEMMA FreshToken ==
  ASSUME SessionInv, NEW d \in Calls, NextToken, call'[d] = call[d], Starts(d)'
  PROVE  call[d].pc = "requested"
<1>1. snapshot.generation \in Nat /\ call[d].token \in Nat /\ call[d].token <= snapshot.generation
  BY DEF SessionInv, IInv, TypeOK, Snapshot, SessionTypeOK, CallState, TokensAllocated
<1>2. QED
  BY <1>1 DEF NextToken, Starts

(* One call starts at most, and the session is not online before it.       *)
LEMMA OneStarts ==
  ASSUME NEW c \in Calls,
         \A d \in Calls \ {c} : ~Starts(d)',
         call'[c].pc = "requested" => snapshot'.phase \in {"starting", "stopping", "failed"},
         call'[c].pc = "activating" => snapshot'.phase \notin {"online", "offline"}
  PROVE  OwnInv'
  BY DEF OwnInv, Starts, OnlineAfterItsActivate

(* The end of a session leaves no start() but one not yet begun.           *)
LEMMA EndStarts ==
  ASSUME OwnInv, snapshot'.phase \in {"stopping", "stopped", "failed"},
         \A d \in Calls : Starts(d)' =>
           /\ call[d].pc = "requested" /\ call'[d].pc = "requested"
           /\ snapshot'.phase # "stopped"
  PROVE  OwnInv'
<1>1. \A c, d \in Calls : Starts(c)' /\ Starts(d)' => c = d
  BY DEF OwnInv, Starts
<1>2. QED
  BY <1>1 DEF OwnInv, Starts, OnlineAfterItsActivate

(* A step that keeps the session and lets no call start.                   *)
LEMMA NothingStarts ==
  ASSUME OwnInv, Stays,
         \A d \in Calls :
           \/ call'[d].pc = call[d].pc /\ call'[d].token = call[d].token
           \/ call'[d].pc \notin {"requested", "activating", "confirming"}
           \/ call'[d].pc = "confirming" /\ call[d].pc = "activating" /\ call'[d].token = call[d].token
  PROVE  OwnInv'
<1>1. \A d \in Calls : Starts(d)' => Starts(d)
  BY DEF Starts, Stays
<1>2. \A c, d \in Calls : Starts(c)' /\ Starts(d)' => c = d
  BY <1>1 DEF OwnInv
<1>3. QED
  BY <1>2 DEF OwnInv, OnlineAfterItsActivate, Stays

(* Every step of a call keeps OwnInv.                                      *)
LEMMA CallStepOwn ==
  ASSUME SessionInv, SessionInv', OwnInv, NEW c \in Calls, CallStep(c)
  PROVE  OwnInv'
<1>1. \A d \in Calls \ {c} : call'[d] = call[d]
  BY OthersStay
<1>2. ASSUME Stays,
             \/ call'[c].pc = call[c].pc /\ call'[c].token = call[c].token
             \/ call'[c].pc \notin {"requested", "activating", "confirming"}
             \/ call'[c].pc = "confirming" /\ call[c].pc = "activating" /\ call'[c].token = call[c].token
      PROVE  OwnInv'
  BY <1>1, <1>2, NothingStarts
<1>3. snapshot' = snapshot => Stays
  BY DEF Stays
<1>4. CASE ComesUp(c) \/ GoesDown(c) \/ ActivateThrows(c) \/ FailEnds(c) \/ StopClears(c)
  <2>1. snapshot' = snapshot
    BY <1>4 DEF ComesUp, GoesDown, ActivateThrows, FailEnds, StopClears, vars
  <2>2. \/ call'[c].pc = call[c].pc /\ call'[c].token = call[c].token
        \/ call'[c].pc \in {"idle", "cleaning"}
    BY <1>4, Moves DEF ComesUp, GoesDown, ActivateThrows, FailEnds, StopClears, Idle
  <2>3. QED
    BY <2>1, <2>2, <1>2, <1>3
<1>5. CASE Start(c)
  <2>1. CASE outcome' = "applied"
    <3>1. snapshot.phase = "stopped" /\ snapshot'.phase = "starting" /\ NextToken
      BY <1>5, <2>1, StartEffect, CallTokens DEF Start
    <3>2. \A d \in Calls \ {c} : ~Starts(d)'
      BY <1>1, <3>1, FreshToken DEF OwnInv
    <3>3. QED
      BY <3>1, <3>2, OneStarts
  <2>2. CASE outcome' # "applied"
    BY <1>5, <2>2, <1>2, <1>3, StartEffect, CallTokens DEF Start
  <2>3. QED
    BY <2>1, <2>2
<1>6. CASE Activate(c)
  <2>1. call[c].pc = "requested" /\ snapshot' = snapshot /\ call'[c].pc # "requested"
    BY <1>6, Moves DEF Activate, vars, Idle
  <2>2. \A d \in Calls \ {c} : ~Starts(d)'
    BY <1>1, <2>1 DEF OwnInv, Starts
  <2>3. QED
    BY <2>1, <2>2, OneStarts DEF OwnInv
<1>7. ASSUME NEW online \in BOOLEAN, Activated(c, online) PROVE OwnInv'
  <2>1. Stays
    BY <1>7, ConnectivityEffect, CallTokens DEF Activated, Resumes
  <2>2. call[c].pc = "activating" /\ call'[c].pc = "confirming" /\ call'[c].token = call[c].token
    BY <1>7, Moves DEF Activated, Resumes
  <2>3. QED
    BY <1>2, <2>1, <2>2
<1>8. CASE Confirm(c)
  <2>1. call[c].pc = "confirming" /\ call'[c].pc \in {"idle", "cleaning"}
    BY <1>8, Moves DEF Confirm, Idle
  <2>2. CASE outcome' = "applied"
    <3>1. Starts(c) /\ snapshot'.active_token = snapshot.active_token
      BY <1>8, <2>1, <2>2, ConfirmEffect, CallTokens DEF Confirm, Starts
    <3>2. \A d \in Calls \ {c} : ~Starts(d)'
      BY <1>1, <3>1 DEF OwnInv, Starts
    <3>3. QED
      BY <2>1, <3>2, OneStarts
  <2>3. CASE outcome' # "applied"
    BY <1>8, <2>1, <2>3, <1>2, <1>3, ConfirmEffect, CallTokens DEF Confirm
  <2>4. QED
    BY <2>2, <2>3
<1>9. CASE FailRuntime(c)
  <2>1. call'[c].pc \in {"idle", "failing"} /\ call[c].pc = "idle"
    BY <1>9, Moves DEF FailRuntime, Idle
  <2>2. CASE outcome' = "applied"
    <3>1. snapshot'.phase = "failed"
      BY <1>9, <2>2, RuntimeFailedEffect, CallTokens DEF FailRuntime
    <3>2. \A d \in Calls : Starts(d)' => call'[d].pc = "requested"
      BY <3>1, DownStarts
    <3>3. QED
      BY <1>1, <2>1, <3>1, <3>2, EndStarts
  <2>3. CASE outcome' # "applied"
    BY <1>9, <2>1, <2>3, <1>2, <1>3, RuntimeFailedEffect, CallTokens DEF FailRuntime
  <2>4. QED
    BY <2>2, <2>3
<1>10. CASE Stop(c)
  <2>1. call'[c].pc \in {"idle", "stopping"} /\ call[c].pc = "idle"
    BY <1>10, Moves DEF Stop, Idle
  <2>2. CASE outcome' = "applied"
    <3>1. snapshot'.phase = "stopping" /\ NextToken
      BY <1>10, <2>2, StopEffect, CallTokens DEF Stop
    <3>2. \A d \in Calls \ {c} : Starts(d)' => call[d].pc = "requested"
      BY <1>1, <3>1, FreshToken
    <3>3. QED
      BY <1>1, <2>1, <3>1, <3>2, EndStarts DEF Starts
  <2>3. CASE outcome' # "applied"
    BY <1>10, <2>1, <2>3, <1>2, <1>3, StopEffect, CallTokens DEF Stop
  <2>4. QED
    BY <2>2, <2>3
<1>11. CASE Cleaned(c) \/ StopDone(c) \/ StopThrows(c)
  <2>1. /\ call'[c].pc \in {"idle", "done"}
        /\ \A d \in Calls : call[d].pc # "requested"
    BY <1>11, Moves DEF Cleaned, StopDone, StopThrows, Resumes, Dispatching, Idle
  <2>2. snapshot'.phase \in {"stopped", "failed"} \/ snapshot' = snapshot
    BY <1>11, StartFailedEffect, StopEndEffect, CallTokens DEF Cleaned, StopDone, StopThrows, Resumes
  <2>3. CASE snapshot'.phase \in {"stopped", "failed"}
    <3>1. \A d \in Calls : Starts(d)' => call'[d].pc = "requested"
      BY <2>3, DownStarts
    <3>2. \A d \in Calls : ~Starts(d)'
      BY <1>1, <2>1, <3>1
    <3>3. QED
      BY <2>3, <3>2, EndStarts
  <2>4. QED
    BY <2>1, <2>2, <2>3, <1>2, <1>3
<1>12. QED
  BY <1>4, <1>5, <1>6, <1>7, <1>8, <1>9, <1>10, <1>11, Zenon DEF CallStep

(* Whatever completes late from sessions that were stopped or replaced, a  *)
(* session is not online before its own activate() has completed.          *)
THEOREM SessionsStartThemselves == SessionSpec => []OnlineAfterItsActivate
<1>1. SessionInit => OwnInv
  BY DEF SessionInit, OwnInv, Starts, OnlineAfterItsActivate, Idle
<1>2. SessionInv /\ SessionInv' /\ OwnInv /\ [SessionNext]_sessionVars => OwnInv'
  <2> SUFFICES ASSUME SessionInv, SessionInv', OwnInv, [SessionNext]_sessionVars PROVE OwnInv'
    OBVIOUS
  <2>1. CASE UNCHANGED sessionVars
    BY <2>1 DEF sessionVars, vars, session, OwnInv, Starts, OnlineAfterItsActivate
  <2>2. CASE \E c \in Calls : CallStep(c)
    BY <2>2, CallStepOwn
  <2>3. ASSUME NEW online \in BOOLEAN, SetOnline(online) PROVE OwnInv'
    <3>1. Stays /\ UNCHANGED session
      BY <2>3, ConnectivityEffect, CallTokens DEF SetOnline
    <3>2. QED
      BY <3>1, NothingStarts DEF session
  <2>4. QED
    BY <2>1, <2>2, <2>3 DEF SessionNext
<1>3. OwnInv => OnlineAfterItsActivate
  BY DEF OwnInv
<1>4. QED
  BY <1>1, <1>2, <1>3, SessionInvariance, PTL DEF SessionSpec, sessionVars

-----------------------------------------------------------------------------
(* Nothing is left up *)

(* A call that brought the effects up, or is about to take them down.      *)
Answers(c) ==
  \/ call[c].pc \in {"activating", "confirming"}
  \/ call[c].pc \in Cleanups /\ ~call[c].did

(* While effects are up, the session runs or some call answers for them.   *)
UpInv ==
  effects /\ ~leaked =>
    snapshot.phase \in {"online", "offline"} \/ \E c \in Calls : Answers(c)

(* A call's step keeps UpInv.                                              *)
LEMMA CallStepUp ==
  ASSUME SessionInv, UpInv, NEW c \in Calls, CallStep(c)
  PROVE  UpInv'
<1> DEFINE Up == snapshot.phase \in {"online", "offline"}
<1>1. Answers(c)' \/ Up' => UpInv'
  BY DEF UpInv, Answers
<1>2. ASSUME effects' = effects, leaked' = leaked, ~Answers(c) \/ call' = call, Up => Up'
      PROVE  UpInv'
  <2>1. \A d \in Calls : d # c \/ call' = call => call'[d] = call[d]
    BY OthersStay
  <2>2. QED
    BY <1>2, <2>1 DEF UpInv, Answers
<1>3. CASE ComesUp(c) \/ ActivateThrows(c) \/ \E online \in BOOLEAN : Activated(c, online)
  <2>1. Answers(c)'
    BY <1>3, Moves DEF ComesUp, ActivateThrows, Activated, Answers, Cleanups
  <2>2. QED
    BY <1>1, <2>1
<1>4. CASE GoesDown(c)
  BY <1>4 DEF GoesDown, UpInv
<1>5. CASE Start(c)
  <2>1. Up => Up'
    BY <1>5, StartEffect, CallTokens DEF Start
  <2>2. ~Answers(c)
    BY <1>5 DEF Start, Answers, Idle, Cleanups
  <2>3. QED
    BY <1>5, <2>1, <2>2, <1>2 DEF Start
<1>6. CASE Activate(c)
  BY <1>6, <1>2 DEF Activate, Answers, Cleanups, vars
<1>7. CASE Confirm(c)
  <2>1. IF outcome' = "applied" THEN Up' ELSE Answers(c)'
    BY <1>7, ConfirmEffect, CallTokens, Moves DEF Confirm, Answers, Cleanups
  <2>2. QED
    BY <1>1, <2>1
<1>8. CASE FailRuntime(c)
  <2>1. Answers(c)' \/ UNCHANGED <<call, snapshot>>
    BY <1>8, RuntimeFailedEffect, CallTokens, Moves DEF FailRuntime, Answers, Cleanups
  <2>2. QED
    BY <1>8, <1>1, <1>2, <2>1 DEF FailRuntime
<1>9. CASE Stop(c)
  <2>1. Answers(c)' \/ UNCHANGED <<call, snapshot>>
    BY <1>9, StopEffect, CallTokens, Moves DEF Stop, Answers, Cleanups
  <2>2. QED
    BY <1>9, <1>1, <1>2, <2>1 DEF Stop
<1>10. CASE Cleaned(c) \/ FailEnds(c) \/ StopDone(c) \/ StopThrows(c)
  <2>1. Up => Up'
    <3>1. CASE Cleaned(c)
      BY <3>1, StartFailedEffect, CallTokens DEF Cleaned, Resumes
    <3>2. CASE FailEnds(c)
      BY <3>2 DEF FailEnds, vars
    <3>3. CASE StopDone(c) \/ StopThrows(c)
      BY <3>3, StopEndEffect, CallTokens DEF StopDone, StopThrows, Resumes
    <3>4. QED
      BY <1>10, <3>1, <3>2, <3>3
  <2>2. call[c].pc \in Cleanups /\ Deactivated(c)
    BY <1>10 DEF Cleaned, FailEnds, StopDone, StopThrows, Resumes, Cleanups
  <2>3. CASE call[c].did
    <3>1. effects' = effects /\ leaked' = leaked /\ ~Answers(c)
      BY <2>2, <2>3 DEF Deactivated, Answers, Cleanups, SessionInv, SessionTypeOK
    <3>2. QED
      BY <1>2, <2>1, <3>1
  <2>4. CASE ~call[c].did
    BY <2>2, <2>4 DEF Deactivated, UpInv
  <2>5. QED
    BY <2>3, <2>4
<1>11. CASE StopClears(c)
  BY <1>11, <1>2 DEF StopClears, Resumes, Answers, Cleanups, vars
<1>12. QED
  BY <1>3, <1>4, <1>5, <1>6, <1>7, <1>8, <1>9, <1>10, <1>11, Zenon DEF CallStep

(* However late an activation completes, and whatever is in flight when a  *)
(* session ends, its effects are taken down again, unless deactivate()     *)
(* itself throws.                                                          *)
THEOREM LateStartsCleaned == SessionSpec => []NothingLeftUp
<1>1. SessionInit => UpInv
  BY DEF SessionInit, UpInv
<1>2. SessionInv /\ UpInv /\ [SessionNext]_sessionVars => UpInv'
  <2> SUFFICES ASSUME SessionInv, UpInv, [SessionNext]_sessionVars PROVE UpInv'
    OBVIOUS
  <2>1. CASE UNCHANGED sessionVars
    BY <2>1 DEF sessionVars, vars, session, UpInv, Answers
  <2>2. CASE \E c \in Calls : CallStep(c)
    BY <2>2, CallStepUp
  <2>3. ASSUME NEW online \in BOOLEAN, SetOnline(online) PROVE UpInv'
    <3>1. Stays /\ UNCHANGED session
      BY <2>3, ConnectivityEffect, CallTokens DEF SetOnline
    <3>2. QED
      BY <3>1 DEF Stays, session, UpInv, Answers
  <2>4. QED
    BY <2>1, <2>2, <2>3 DEF SessionNext
<1>3. SessionInv /\ UpInv => NothingLeftUp
  BY DEF UpInv, NothingLeftUp, Answers, AtRest, Cleanups
<1>4. QED
  BY <1>1, <1>2, <1>3, SessionInvariance, PTL DEF SessionSpec, sessionVars

-----------------------------------------------------------------------------
(* A session started alone *)

Quiet(c) == call[c].pc \in {"idle", "done"}

(* The one call in flight is the start() of this session.                  *)
StartsAlone(c) ==
  /\ \A d \in Calls \ {c} : Quiet(d)
  /\ call[c].pc \in {"requested", "activating", "confirming", "cleaning"}
  /\ call[c].pc # "requested" => call[c].token = snapshot.active_token
  /\ call[c].pc = "confirming" \/ (call[c].pc = "activating" /\ call[c].did) => effects

(* A session that was started alone is still being started by one call, or *)
(* runs with its effects up and nothing in flight.                         *)
AloneInv ==
  alone /\ snapshot.phase \in Running =>
    \/ snapshot.phase = "starting" /\ \E c \in Calls : StartsAlone(c)
    \/ snapshot.phase \in {"online", "offline"} /\ effects /\ AtRest

(* A call that is quiet accepts, refuses or ends something, and leaves a   *)
(* running session or ends it.                                             *)
LEMMA QuietSteps ==
  ASSUME SessionInv, NEW c \in Calls, CallStep(c), Quiet(c), snapshot.phase \in Running
  PROVE  \/ snapshot'.phase \notin Running
         \/ UNCHANGED <<snapshot, effects, alone>> /\ Quiet(c)'
<1>1. Start(c) \/ FailRuntime(c) \/ Stop(c) \/ StopClears(c)
  BY DEF CallStep, ComesUp, GoesDown, Activate, ActivateThrows, Confirm, Cleaned, Activated,
     FailEnds, StopDone, StopThrows, Resumes, Quiet, Cleanups
<1>2. CASE Start(c)
  BY <1>2, StartEffect, CallTokens DEF Start, Running, Quiet
<1>3. CASE FailRuntime(c)
  BY <1>3, RuntimeFailedEffect, CallTokens DEF FailRuntime, Running, Quiet
<1>4. CASE Stop(c)
  BY <1>4, StopEffect, CallTokens DEF Stop, Running, Quiet
<1>5. CASE StopClears(c)
  BY <1>5, Moves DEF StopClears, Quiet, vars, Idle
<1>6. QED
  BY <1>1, <1>2, <1>3, <1>4, <1>5

(* Only an accepted start leads to a running phase from another.           *)
LEMMA OnlyStartRuns ==
  ASSUME SessionInv, NEW c \in Calls, CallStep(c), snapshot.phase \notin Running,
         snapshot'.phase \in Running
  PROVE  Start(c) /\ outcome' = "applied" /\ snapshot'.phase = "starting"
<1> USE CallTokens DEF Running
<1>1. CASE Start(c)
  BY <1>1, StartEffect DEF Start
<1>2. CASE ComesUp(c) \/ GoesDown(c) \/ Activate(c) \/ ActivateThrows(c) \/ FailEnds(c) \/ StopClears(c)
  BY <1>2 DEF ComesUp, GoesDown, Activate, ActivateThrows, FailEnds, StopClears, vars
<1>3. ASSUME NEW online \in BOOLEAN, Activated(c, online) PROVE FALSE
  BY <1>3, ConnectivityEffect DEF Activated, Resumes, Stays
<1>4. CASE Confirm(c)
  BY <1>4, ConfirmEffect DEF Confirm
<1>5. CASE Cleaned(c)
  BY <1>5, StartFailedEffect DEF Cleaned, Resumes
<1>6. CASE FailRuntime(c)
  BY <1>6, RuntimeFailedEffect DEF FailRuntime
<1>7. CASE Stop(c)
  BY <1>7, StopEffect DEF Stop
<1>8. CASE StopDone(c) \/ StopThrows(c)
  BY <1>8, StopEndEffect DEF StopDone, StopThrows, Resumes
<1>9. QED
  BY <1>1, <1>2, <1>3, <1>4, <1>5, <1>6, <1>7, <1>8, Zenon DEF CallStep

(* The start() of the session itself moves on.                             *)
LEMMA StartGoesOn ==
  ASSUME SessionInv, NEW c \in Calls, CallStep(c), StartsAlone(c), snapshot.phase = "starting",
         snapshot'.phase \in Running
  PROVE  \/ snapshot'.phase = "starting" /\ StartsAlone(c)'
         \/ snapshot'.phase \in {"online", "offline"} /\ effects' /\ AtRest'
<1>1. \A d \in Calls \ {c} : Quiet(d)'
  BY OthersStay DEF StartsAlone, Quiet
<1>2. snapshot.active_token # None
  BY CallTokens DEF Running
<1>3. \/ ComesUp(c) \/ GoesDown(c) \/ Activate(c) \/ ActivateThrows(c) \/ Confirm(c) \/ Cleaned(c)
      \/ \E online \in BOOLEAN : Activated(c, online)
  BY DEF CallStep, Start, FailRuntime, FailEnds, Stop, StopDone, StopThrows, StopClears, Resumes,
     Idle, StartsAlone
<1>4. CASE ComesUp(c) \/ GoesDown(c)
  <2>1. /\ call'[c].pc = call[c].pc /\ call'[c].token = call[c].token
        /\ snapshot' = snapshot
        /\ \/ call[c].pc = "activating" /\ effects'
           \/ call[c].pc \in Cleanups
    BY <1>4, Moves DEF ComesUp, GoesDown, vars
  <2>2. QED
    BY <2>1, <1>1 DEF StartsAlone, Cleanups
<1>5. CASE Activate(c)
  BY <1>5, <1>1, <1>2, Moves DEF Activate, StartsAlone, vars
<1>6. CASE ActivateThrows(c)
  BY <1>6, <1>1, Moves DEF ActivateThrows, Resumes, StartsAlone, vars
<1>7. ASSUME NEW online \in BOOLEAN, Activated(c, online)
      PROVE  snapshot'.phase = "starting" /\ StartsAlone(c)'
  <2>1. call[c].pc = "activating" /\ call[c].did /\ call[c].token = snapshot.active_token /\ effects
    BY <1>7 DEF Activated, Resumes, StartsAlone
  <2>2. snapshot'.phase = "starting" /\ snapshot'.active_token = snapshot.active_token
    BY <1>7, <2>1, ConnectivityEffect, CallTokens DEF Activated, Stays
  <2>3. call'[c].pc = "confirming" /\ call'[c].token = call[c].token /\ effects' = effects
    BY <1>7, Moves DEF Activated
  <2>4. QED
    BY <1>1, <2>1, <2>2, <2>3 DEF StartsAlone
<1>8. CASE Confirm(c)
  <2>1. call[c].token = snapshot.active_token /\ effects
    BY <1>8 DEF Confirm, StartsAlone
  <2>2. outcome' = "applied" /\ snapshot'.phase \in {"online", "offline"}
    BY <1>8, <2>1, ConfirmEffect, CallTokens DEF Confirm
  <2>3. call'[c] = Idle /\ effects' = effects
    BY <1>8, <2>2, Moves DEF Confirm
  <2>4. QED
    BY <1>1, <2>1, <2>2, <2>3 DEF AtRest, Quiet, Idle
<1>9. CASE Cleaned(c)
  <2>1. call[c].token = snapshot.active_token
    BY <1>9 DEF Cleaned, Resumes, StartsAlone
  <2>2. snapshot'.phase = "failed"
    BY <1>9, <2>1, StartFailedEffect, CallTokens DEF Cleaned, Resumes
  <2>3. QED
    BY <2>2 DEF Running
<1>10. QED
  BY <1>3, <1>4, <1>5, <1>6, <1>7, <1>8, <1>9

(* Every step of a call keeps AloneInv.                                    *)
LEMMA CallStepAlone ==
  ASSUME SessionInv, AloneInv, NEW e \in Calls, CallStep(e)
  PROVE  AloneInv'
<1> SUFFICES ASSUME alone', snapshot'.phase \in Running
             PROVE  \/ snapshot'.phase = "starting" /\ \E c \in Calls : StartsAlone(c)'
                    \/ snapshot'.phase \in {"online", "offline"} /\ effects' /\ AtRest'
  BY DEF AloneInv
<1>1. CASE snapshot.phase \notin Running
  <2>1. Start(e) /\ outcome' = "applied" /\ snapshot'.phase = "starting"
    BY <1>1, OnlyStartRuns
  <2>2. AtRest /\ call'[e].pc = "requested"
    BY <2>1, Moves DEF Start
  <2>3. StartsAlone(e)'
    BY <2>2, OthersStay DEF StartsAlone, AtRest, Quiet
  <2>4. QED
    BY <2>1, <2>3
<1>2. CASE snapshot.phase \in Running
  <2>1. alone
    <3>1. CASE Start(e)
      BY <1>2, <3>1, StartEffect, CallTokens DEF Start, Running
    <3>2. CASE ~Start(e)
      BY <3>2 DEF CallStep, ComesUp, GoesDown, Activate, ActivateThrows, Confirm, Cleaned, Activated,
         FailRuntime, FailEnds, Stop, StopDone, StopThrows, StopClears, Deactivated
    <3>3. QED
      BY <3>1, <3>2
  <2>2. ASSUME NEW c \in Calls, StartsAlone(c), snapshot.phase = "starting"
        PROVE  \/ snapshot'.phase = "starting" /\ \E d \in Calls : StartsAlone(d)'
               \/ snapshot'.phase \in {"online", "offline"} /\ effects' /\ AtRest'
    <3>1. CASE e = c
      BY <2>2, <3>1, StartGoesOn
    <3>2. CASE e # c
      <4>1. UNCHANGED <<snapshot, effects, alone>> /\ Quiet(e)'
        BY <1>2, <2>2, <3>2, QuietSteps DEF StartsAlone
      <4>2. \A d \in Calls \ {e} : call'[d] = call[d]
        BY OthersStay
      <4>3. StartsAlone(c)'
        BY <2>2, <3>2, <4>1, <4>2 DEF StartsAlone, Quiet
      <4>4. QED
        BY <2>2, <4>1, <4>3
    <3>3. QED
      BY <3>1, <3>2
  <2>3. CASE snapshot.phase \in {"online", "offline"} /\ effects /\ AtRest
    <3>1. UNCHANGED <<snapshot, effects, alone>> /\ Quiet(e)'
      BY <1>2, <2>3, QuietSteps DEF AtRest, Quiet
    <3>2. AtRest'
      BY <2>3, <3>1, OthersStay DEF AtRest, Quiet
    <3>3. QED
      BY <2>3, <3>1, <3>2
  <2>4. QED
    BY <1>2, <2>1, <2>2, <2>3 DEF AloneInv
<1>3. QED
  BY <1>1, <1>2

(* A session that was started with nothing else in flight has its effects  *)
(* for as long as it runs.                                                 *)
THEOREM UndisturbedSessionsUp == SessionSpec => []RunningIsUp
<1>1. SessionInit => AloneInv
  BY DEF SessionInit, AloneInv
<1>2. SessionInv /\ AloneInv /\ [SessionNext]_sessionVars => AloneInv'
  <2> SUFFICES ASSUME SessionInv, AloneInv, [SessionNext]_sessionVars PROVE AloneInv'
    OBVIOUS
  <2>1. CASE UNCHANGED sessionVars
    BY <2>1 DEF sessionVars, vars, session, AloneInv, StartsAlone, Quiet, AtRest
  <2>2. CASE \E c \in Calls : CallStep(c)
    BY <2>2, CallStepAlone
  <2>3. ASSUME NEW online \in BOOLEAN, SetOnline(online) PROVE AloneInv'
    <3>1. Stays /\ UNCHANGED session
      BY <2>3, ConnectivityEffect, CallTokens DEF SetOnline
    <3>2. QED
      BY <3>1 DEF Stays, session, AloneInv, StartsAlone, Quiet, AtRest, Running
  <2>4. QED
    BY <2>1, <2>2, <2>3 DEF SessionNext
<1>3. AloneInv => RunningIsUp
  BY DEF AloneInv, RunningIsUp, Running
<1>4. QED
  BY <1>1, <1>2, <1>3, SessionInvariance, PTL DEF SessionSpec, sessionVars

-----------------------------------------------------------------------------
(* stop() *)

(* There is one stop() at a time, and _stopFuture is its future.           *)
StopInv ==
  /\ StopJoinsCleanup
  /\ \A c \in Calls : call[c].pc \in {"stopping", "done"} => pendingStop = c

(* Only the end of its cleanup ends a stopping phase.                      *)
LEMMA StoppingStays ==
  ASSUME SessionInv, NEW c \in Calls, CallStep(c), snapshot.phase = "stopping",
         call[c].pc # "stopping"
  PROVE  snapshot'.phase = "stopping" /\ snapshot'.active_token = snapshot.active_token
<1> USE CallTokens DEF Running
<1>1. CASE Start(c)
  BY <1>1, StartEffect DEF Start
<1>2. CASE ComesUp(c) \/ GoesDown(c) \/ Activate(c) \/ ActivateThrows(c) \/ FailEnds(c) \/ StopClears(c)
  BY <1>2 DEF ComesUp, GoesDown, Activate, ActivateThrows, FailEnds, StopClears, vars
<1>3. ASSUME NEW online \in BOOLEAN, Activated(c, online)
      PROVE  snapshot'.phase = "stopping" /\ snapshot'.active_token = snapshot.active_token
  BY <1>3, ConnectivityEffect DEF Activated, Resumes, Stays
<1>4. CASE Confirm(c)
  BY <1>4, ConfirmEffect DEF Confirm
<1>5. CASE Cleaned(c)
  BY <1>5, StartFailedEffect DEF Cleaned, Resumes
<1>6. CASE FailRuntime(c)
  BY <1>6, RuntimeFailedEffect DEF FailRuntime
<1>7. CASE Stop(c)
  BY <1>7, StopEffect DEF Stop
<1>8. CASE StopDone(c) \/ StopThrows(c)
  BY <1>8 DEF StopDone, StopThrows, Resumes
<1>9. QED
  BY <1>1, <1>2, <1>3, <1>4, <1>5, <1>6, <1>7, <1>8, Zenon DEF CallStep

(* Every step of a call keeps StopInv.                                     *)
LEMMA CallStepStop ==
  ASSUME SessionInv, StopInv, NEW c \in Calls, CallStep(c)
  PROVE  StopInv'
<1>1. \A d \in Calls \ {c} : call'[d] = call[d]
  BY OthersStay
<1>2. CASE Stop(c) /\ outcome' = "applied"
  <2>1. /\ pendingStop = NoCall /\ pendingStop' = c
        /\ call'[c].pc = "stopping" /\ call'[c].token = snapshot'.active_token
        /\ snapshot'.phase = "stopping"
    BY <1>2, StopEffect, CallTokens, Moves DEF Stop
  <2>2. \A d \in Calls \ {c} : call'[d].pc \notin {"stopping", "done"}
    BY <1>1, <2>1, CallsAssumption DEF StopInv
  <2>3. QED
    BY <2>1, <2>2 DEF StopInv, StopJoinsCleanup
<1>3. CASE StopDone(c) \/ StopThrows(c)
  <2>1. /\ call[c].pc = "stopping" /\ call'[c].pc = "done" /\ pendingStop' = pendingStop
    BY <1>3, Moves DEF StopDone, StopThrows, Resumes
  <2>2. pendingStop = c
    BY <2>1 DEF StopInv
  <2>3. QED
    BY <1>1, <2>1, <2>2 DEF StopInv, StopJoinsCleanup
<1>4. CASE StopClears(c)
  <2>1. pendingStop = c /\ pendingStop' = NoCall /\ call'[c].pc = "idle"
    BY <1>4, Moves DEF StopClears, Resumes, StopInv, Idle
  <2>2. QED
    BY <1>1, <2>1 DEF StopInv, StopJoinsCleanup
<1>5. CASE /\ ~(Stop(c) /\ outcome' = "applied") /\ ~StopDone(c) /\ ~StopThrows(c) /\ ~StopClears(c)
  <2>1. pendingStop' = pendingStop
    BY <1>5, Zenon DEF CallStep, ComesUp, GoesDown, Start, Activate, ActivateThrows, Confirm, Cleaned,
       Activated, FailRuntime, FailEnds, Stop
  <2>2. /\ call'[c].pc \in {"stopping", "done"} <=> call[c].pc \in {"stopping", "done"}
        /\ call[c].pc \in {"stopping", "done"} =>
             call'[c].pc = call[c].pc /\ call'[c].token = call[c].token
    BY <1>5, Moves DEF CallStep, ComesUp, GoesDown, Start, Activate, ActivateThrows, Confirm, Cleaned,
       Activated, FailRuntime, FailEnds, Stop, Resumes, Idle
  <2>3. CASE pendingStop # NoCall /\ call[pendingStop].pc = "stopping"
    <3>1. pendingStop \in Calls
      BY <2>3 DEF SessionInv, SessionTypeOK
    <3>2. call'[pendingStop].pc = "stopping" /\ call'[pendingStop].token = call[pendingStop].token
      BY <1>1, <2>2, <2>3, <3>1
    <3>3. snapshot'.phase = "stopping" /\ snapshot'.active_token = snapshot.active_token
      <4>1. snapshot.phase = "stopping"
        BY <2>3 DEF StopInv, StopJoinsCleanup
      <4>2. CASE call[c].pc # "stopping"
        BY <4>1, <4>2, StoppingStays
      <4>3. CASE call[c].pc = "stopping"
        BY <4>1, <4>3, <1>5 DEF CallStep, ComesUp, GoesDown, Start, Activate, ActivateThrows, Confirm,
           Cleaned, Activated, FailRuntime, FailEnds, Stop, Resumes, Idle, vars
      <4>4. QED
        BY <4>2, <4>3
    <3>4. QED
      BY <1>1, <2>1, <2>2, <2>3, <3>2, <3>3 DEF StopInv, StopJoinsCleanup
  <2>4. CASE pendingStop # NoCall => call[pendingStop].pc = "done"
    BY <1>1, <2>1, <2>2, <2>4 DEF StopInv, StopJoinsCleanup, SessionInv, SessionTypeOK
  <2>5. QED
    BY <2>3, <2>4 DEF StopInv, StopJoinsCleanup
<1>6. QED
  BY <1>2, <1>3, <1>4, <1>5

(* A stop() that finds another pending waits for the cleanup that is under *)
(* way, or for one that has just ended.                                    *)
THEOREM StopsJoinCleanup == SessionSpec => []StopJoinsCleanup
<1>1. SessionInit => StopInv
  BY DEF SessionInit, StopInv, StopJoinsCleanup, Idle
<1>2. SessionInv /\ StopInv /\ [SessionNext]_sessionVars => StopInv'
  <2> SUFFICES ASSUME SessionInv, StopInv, [SessionNext]_sessionVars PROVE StopInv'
    OBVIOUS
  <2>1. CASE UNCHANGED sessionVars
    BY <2>1 DEF sessionVars, vars, session, StopInv, StopJoinsCleanup
  <2>2. CASE \E c \in Calls : CallStep(c)
    BY <2>2, CallStepStop
  <2>3. ASSUME NEW online \in BOOLEAN, SetOnline(online) PROVE StopInv'
    <3>1. Stays /\ UNCHANGED session
      BY <2>3, ConnectivityEffect, CallTokens DEF SetOnline
    <3>2. QED
      BY <3>1 DEF Stays, session, StopInv, StopJoinsCleanup
  <2>4. QED
    BY <2>1, <2>2, <2>3 DEF SessionNext
<1>3. StopInv => StopJoinsCleanup
  BY DEF StopInv
<1>4. QED
  BY <1>1, <1>2, <1>3, SessionInvariance, PTL DEF SessionSpec, sessionVars
=============================================================================
