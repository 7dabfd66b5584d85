---------------------------- MODULE SyncSession ----------------------------
(***************************************************************************)
(* SyncSession of the Dart SDK (dart/zed_sync/lib/src/session.dart): the   *)
(* lifecycle machine driven by start(), stop(), failRuntime() and          *)
(* setOnline(), around the platform's effects (transports, storage) that   *)
(* activate() brings up and deactivate() takes down.  Every call is        *)
(* suspended while one of the two runs, and the application calls whenever *)
(* it likes, from a listener in the middle of a dispatch too.              *)
(***************************************************************************)
EXTENDS AppLifecycle

CONSTANTS
  Calls,    \* calls that may be in flight at once
  NoCall

ASSUME CallsAssumption == NoCall \notin Calls

VARIABLES
  call,         \* per call: what it awaits, the token it was given, and
                \* whether what it awaits has had its effect
  pendingStop,  \* the call behind _stopFuture
  effects,      \* are the platform's effects up?
  leaked,       \* ghost: the last deactivate() that ended threw before its effect
  alone         \* ghost: nothing was in flight when the last session was accepted

session == <<call, pendingStop, effects, leaked, alone>>

Cleanups == {"cleaning", "stopping", "failing"}    \* awaiting deactivate()
Dispatching == {"requested", "confirming"}         \* between two statements

CallState == [pc : {"idle", "activating", "done"} \cup Cleanups \cup Dispatching,
              token : Nat, did : BOOLEAN]

Idle == [pc |-> "idle", token |-> None, did |-> FALSE]

(* Nothing awaits the platform. *)
AtRest == \A c \in Calls : call[c].pc \in {"idle", "done"}

SessionInit ==
  /\ Init
  /\ call = [c \in Calls |-> Idle]
  /\ pendingStop = NoCall
  /\ effects = FALSE
  /\ leaked = FALSE
  /\ alone = FALSE

Becomes(c, pc, token) == call' = [call EXCEPT ![c] = [pc |-> pc, token |-> token, did |-> FALSE]]

Returns(c) == call' = [call EXCEPT ![c] = Idle]

(* An await resumes only when no dispatch is under way; listeners call in  *)
(* the middle of one.                                                      *)
Resumes(c, pc) ==
  /\ call[c].pc = pc
  /\ \A d \in Calls : call[d].pc \notin Dispatching

-----------------------------------------------------------------------------
(* The platform. *)

ComesUp(c) ==
  /\ call[c].pc = "activating" /\ ~call[c].did
  /\ effects' = TRUE
  /\ call' = [call EXCEPT ![c].did = TRUE]
  /\ UNCHANGED <<vars, pendingStop, leaked, alone>>

GoesDown(c) ==
  /\ call[c].pc \in Cleanups /\ ~call[c].did
  /\ effects' = FALSE
  /\ leaked' = FALSE
  /\ call' = [call EXCEPT ![c].did = TRUE]
  /\ UNCHANGED <<vars, pendingStop, alone>>

(* deactivate() ends: resolved after its effect, thrown before or after.   *)
Deactivated(c) ==
  /\ leaked' = (leaked \/ ~call[c].did)
  /\ UNCHANGED <<effects, alone>>

-----------------------------------------------------------------------------
(* start() *)

(* Variant (a bug to be caught): a rejected start runs into the catch.     *)
StartCleansRejected(c) ==
  /\ call[c] = Idle
  /\ StartRequested
  /\ IF outcome' = "applied" THEN Becomes(c, "requested", None) /\ alone' = AtRest
     ELSE Becomes(c, "cleaning", None) /\ UNCHANGED alone
  /\ UNCHANGED <<pendingStop, effects, leaked>>

Start(c) ==
  /\ call[c] = Idle
  /\ StartRequested
  /\ IF outcome' = "applied" THEN Becomes(c, "requested", None) /\ alone' = AtRest
     ELSE UNCHANGED <<call, alone>>
  /\ UNCHANGED <<pendingStop, effects, leaked>>

(* Variant: the token is passed on without the null check.                 *)
ActivateUnchecked(c) ==
  /\ call[c].pc = "requested"
  /\ Becomes(c, "activating", snapshot.active_token)
  /\ UNCHANGED <<vars, pendingStop, effects, leaked, alone>>

(* The token is read after the dispatch, whose listeners may have stopped  *)
(* the session (the token is the cleanup's) or failed it (there is none,   *)
(* and start() throws).                                                    *)
Activate(c) ==
  /\ call[c].pc = "requested"
  /\ IF snapshot.active_token = None THEN Returns(c)
     ELSE Becomes(c, "activating", snapshot.active_token)
  /\ UNCHANGED <<vars, pendingStop, effects, leaked, alone>>

Activated(c, online) ==
  /\ Resumes(c, "activating") /\ call[c].did
  /\ ConnectivityChanged(call[c].token, online)
  /\ Becomes(c, "confirming", call[c].token)
  /\ UNCHANGED <<pendingStop, effects, leaked, alone>>

ActivateThrows(c) ==
  /\ Resumes(c, "activating")
  /\ Becomes(c, "cleaning", call[c].token)
  /\ UNCHANGED <<vars, pendingStop, effects, leaked, alone>>

(* Variant: a superseded start throws without the cleanup.                 *)
ConfirmOrThrow(c) ==
  /\ call[c].pc = "confirming"
  /\ StartSucceeded(call[c].token)
  /\ Returns(c)
  /\ UNCHANGED <<pendingStop, effects, leaked, alone>>

(* A start that was superseded cleans up what it brought up.               *)
Confirm(c) ==
  /\ call[c].pc = "confirming"
  /\ StartSucceeded(call[c].token)
  /\ IF outcome' = "applied" THEN Returns(c) ELSE Becomes(c, "cleaning", call[c].token)
  /\ UNCHANGED <<pendingStop, effects, leaked, alone>>

Cleaned(c) ==
  /\ Resumes(c, "cleaning")
  /\ StartFailed(call[c].token)
  /\ Returns(c)
  /\ Deactivated(c)
  /\ UNCHANGED pendingStop

-----------------------------------------------------------------------------
(* setOnline(), failRuntime() and stop() *)

SetOnline(online) ==
  /\ snapshot.active_token # None
  /\ ConnectivityChanged(snapshot.active_token, online)
  /\ UNCHANGED session

FailRuntime(c) ==
  /\ call[c] = Idle /\ snapshot.active_token # None
  /\ RuntimeFailed(snapshot.active_token)
  /\ IF outcome' = "applied" THEN Becomes(c, "failing", None) ELSE UNCHANGED call
  /\ UNCHANGED <<pendingStop, effects, leaked, alone>>

FailEnds(c) ==
  /\ Resumes(c, "failing")
  /\ Returns(c)
  /\ Deactivated(c)
  /\ UNCHANGED <<vars, pendingStop>>

(* A stop() that finds one pending gets its future and does nothing.       *)
Stop(c) ==
  /\ call[c] = Idle /\ pendingStop = NoCall
  /\ IF snapshot.phase = "failed" THEN ReconcileRequested ELSE StopRequested
  /\ IF outcome' = "applied"
     THEN Becomes(c, "stopping", snapshot'.active_token) /\ pendingStop' = c
     ELSE UNCHANGED <<call, pendingStop>>
  /\ UNCHANGED <<effects, leaked, alone>>

StopDone(c) ==
  /\ Resumes(c, "stopping") /\ call[c].did
  /\ StopSucceeded(call[c].token)
  /\ Becomes(c, "done", None)
  /\ Deactivated(c)
  /\ UNCHANGED pendingStop

(* Variant: then() in place of whenComplete(), which an error skips.       *)
StopThrowsForGood(c) ==
  /\ Resumes(c, "stopping")
  /\ StopFailed(call[c].token)
  /\ Returns(c)
  /\ Deactivated(c)
  /\ UNCHANGED pendingStop

StopThrows(c) ==
  /\ Resumes(c, "stopping")
  /\ StopFailed(call[c].token)
  /\ Becomes(c, "done", None)
  /\ Deactivated(c)
  /\ UNCHANGED pendingStop

(* The whenComplete() callback, in a microtask of its own.                 *)
StopClears(c) ==
  /\ Resumes(c, "done")
  /\ Returns(c)
  /\ pendingStop' = IF pendingStop = c THEN NoCall ELSE pendingStop
  /\ UNCHANGED <<vars, effects, leaked, alone>>

-----------------------------------------------------------------------------
CallStep(c) ==
  \/ ComesUp(c) \/ GoesDown(c)
  \/ Start(c) \/ Activate(c) \/ ActivateThrows(c) \/ Confirm(c) \/ Cleaned(c)
  \/ \E online \in BOOLEAN : Activated(c, online)
  \/ FailRuntime(c) \/ FailEnds(c)
  \/ Stop(c) \/ StopDone(c) \/ StopThrows(c) \/ StopClears(c)

SessionNext ==
  \/ \E c \in Calls : CallStep(c)
  \/ \E online \in BOOLEAN : SetOnline(online)

SessionSpec == SessionInit /\ [][SessionNext]_<<vars, session>>

-----------------------------------------------------------------------------
(* Every variable has its type; a call that awaits activate(), confirms it *)
(* or stops has a token (an int, not null).                                *)
SessionTypeOK ==
  /\ TypeOK
  /\ call \in [Calls -> CallState]
  /\ \A c \in Calls :
       call[c].pc \in {"activating", "confirming", "cleaning", "stopping"} => call[c].token # None
  /\ pendingStop \in Calls \cup {NoCall}
  /\ effects \in BOOLEAN /\ leaked \in BOOLEAN /\ alone \in BOOLEAN

(* A session is not online while its own activate() is under way: what     *)
(* completes late from a session that was stopped or replaced cannot put   *)
(* the next one online (src/lifecycle.rs:5-6).                             *)
OnlineAfterItsActivate ==
  \A c \in Calls :
    call[c].pc = "activating" /\ call[c].token = snapshot.active_token =>
      snapshot.phase \notin {"online", "offline"}

(* Once every call has ended, the platform's effects are up only in a      *)
(* running session, however late an activate() completed, unless the last  *)
(* deactivate() threw: "it is called again when a late startup completes   *)
(* after stop was already requested" (session.dart:12-13).                 *)
NothingLeftUp ==
  AtRest /\ effects /\ ~leaked => snapshot.phase \in {"online", "offline"}

(* A running session has its effects, if it was started with nothing else  *)
(* in flight.  Without that condition the late cleanup of an earlier       *)
(* session, its superseded start() or its failRuntime(), takes them down.  *)
RunningIsUp ==
  AtRest /\ alone /\ snapshot.phase \in {"online", "offline"} => effects

(* A stop() that joins a pending one gets the future of the cleanup under  *)
(* way; the only other one it can get is that of a cleanup that has ended  *)
(* and whose whenComplete() callback has not run yet.                      *)
StopJoinsCleanup ==
  pendingStop # NoCall =>
    LET stop == call[pendingStop]
    IN  \/ stop.pc = "done"
        \/ stop.pc = "stopping" /\ snapshot.phase = "stopping" /\ stop.token = snapshot.active_token
=============================================================================
