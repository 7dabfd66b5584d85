----------------------------- MODULE SyncLease -----------------------------
(***************************************************************************)
(* The single-flusher lease: the SyncLease object of sdk/src/lease.mjs in  *)
(* each instance of an actor, the lock service it acquires from (external, *)
(* as lease.mjs uses it) and the fence the server keeps (assert_fence of   *)
(* postgres/zed_sync.sql).                                                 *)
(*                                                                         *)
(* The grant in force carries the last token handed out.  Token 0 stands   *)
(* for no grant: a null handle, or a request without fencing headers.      *)
(***************************************************************************)
EXTENDS Integers

CONSTANTS
  Insts,              \* instances: one startSync() call each
  Nobody,             \* the lock has no owner
  RenewFailureLimit   \* consecutive transient failures before the lease is lost

ASSUME NobodyAssumption == Nobody \notin Insts
ASSUME LimitAssumption == RenewFailureLimit \in Nat \ {0}

VARIABLES
  owner,      \* lock service: the instance whose grant is in force
  lastToken,  \* lock service: the last fencing token handed out
  waiting,    \* lock service: instances queued in lock()
  reply,      \* tokens granted whose response has not arrived
  handle,     \* SyncLease._handle: the token of the grant held
  timer,      \* SyncLease._timer: is the next heartbeat scheduled?
  failures,   \* SyncLease._failures
  beat,       \* the renewal a heartbeat awaits
  leaving,    \* the release() a caller awaits: none, sent or done
  fence       \* server: the highest token that has written

lock == <<owner, lastToken, waiting, reply>>
lease == <<handle, timer, failures, beat, leaving>>

NoBeat == [token |-> 0, result |-> "none"]
BeatState == [token : Nat, result : {"none", "sent", "ok", "lost"}]

LeaseInit ==
  /\ owner = Nobody
  /\ lastToken = 0
  /\ waiting = {}
  /\ reply = [i \in Insts |-> 0]
  /\ handle = [i \in Insts |-> 0]
  /\ timer = [i \in Insts |-> FALSE]
  /\ failures = [i \in Insts |-> 0]
  /\ beat = [i \in Insts |-> NoBeat]
  /\ leaving = [i \in Insts |-> "none"]
  /\ fence = 0

LeaseTypeOK ==
  /\ owner \in Insts \cup {Nobody}
  /\ lastToken \in Nat /\ fence \in Nat
  /\ waiting \subseteq Insts
  /\ reply \in [Insts -> Nat] /\ handle \in [Insts -> Nat]
  /\ timer \in [Insts -> BOOLEAN]
  /\ failures \in [Insts -> 0 .. RenewFailureLimit - 1]
  /\ beat \in [Insts -> BeatState]
  /\ leaving \in [Insts -> {"none", "sent", "done"}]

Held(i) == handle[i] # 0

-----------------------------------------------------------------------------
(* The lock service *)

InForce(i, token) == owner = i /\ lastToken = token

Grant(i) ==
  /\ owner = Nobody /\ i \in waiting
  /\ owner' = i
  /\ lastToken' = lastToken + 1
  /\ waiting' = waiting \ {i}
  /\ reply' = [reply EXCEPT ![i] = lastToken + 1]
  /\ UNCHANGED lease

(* The TTL of the grant in force runs out. *)
Lapse ==
  /\ owner # Nobody
  /\ owner' = Nobody
  /\ UNCHANGED <<lastToken, waiting, reply, lease>>

ServeRenew(i) ==
  /\ beat[i].result = "sent"
  /\ beat' = [beat EXCEPT ![i].result = IF InForce(i, beat[i].token) THEN "ok" ELSE "lost"]
  /\ UNCHANGED <<lock, handle, timer, failures, leaving>>

(* The release arrives, or fails and is swallowed: the TTL is the backstop. *)
ServeRelease(i) ==
  /\ leaving[i] = "sent"
  /\ leaving' = [leaving EXCEPT ![i] = "done"]
  /\ owner' \in {owner, IF owner = i THEN Nobody ELSE owner}
  /\ UNCHANGED <<lastToken, waiting, reply, handle, timer, failures, beat>>

-----------------------------------------------------------------------------
(* SyncLease *)

(* acquire(): lock() again after every timed-out attempt. *)
Acquire(i) ==
  /\ waiting' = waiting \cup {i}
  /\ UNCHANGED <<owner, lastToken, reply, lease>>

(* _adopt *)
Adopt(i) ==
  /\ reply[i] # 0
  /\ handle' = [handle EXCEPT ![i] = reply[i]]
  /\ reply' = [reply EXCEPT ![i] = 0]
  /\ failures' = [failures EXCEPT ![i] = 0]
  /\ timer' = [timer EXCEPT ![i] = TRUE]
  /\ UNCHANGED <<owner, lastToken, waiting, beat, leaving>>

(* acquire() rejects: its budget is spent or the lock client fails.  A     *)
(* grant whose response is not awaited any more lives until its TTL.       *)
GiveUp(i) ==
  /\ waiting' = waiting \ {i}
  /\ reply' = [reply EXCEPT ![i] = 0]
  /\ UNCHANGED <<owner, lastToken, lease>>

(* _beat, up to the awaited renew(). *)
Beat(i) ==
  /\ timer[i]
  /\ timer' = [timer EXCEPT ![i] = FALSE]
  /\ beat' = [beat EXCEPT ![i] = [token |-> handle[i], result |-> "sent"]]
  /\ UNCHANGED <<lock, handle, failures, leaving>>

(* Variant (a bug to be caught): schedule whoever holds the grant now. *)
BeatAlwaysRearms(i) ==
  /\ beat[i].result = "ok"
  /\ beat' = [beat EXCEPT ![i] = NoBeat]
  /\ failures' = [failures EXCEPT ![i] = 0]
  /\ timer' = [timer EXCEPT ![i] = TRUE]
  /\ UNCHANGED <<lock, handle, leaving>>

(* The renewal succeeded: re-arm only while it is the live grant's.        *)
BeatReturns(i) ==
  /\ beat[i].result = "ok"
  /\ beat' = [beat EXCEPT ![i] = NoBeat]
  /\ IF handle[i] = beat[i].token
     THEN /\ failures' = [failures EXCEPT ![i] = 0]
          /\ timer' = [timer EXCEPT ![i] = TRUE]
     ELSE UNCHANGED <<failures, timer>>
  /\ UNCHANGED <<lock, handle, leaving>>

(* The renewal failed for a grant that was released meanwhile: stay quiet. *)
BeatQuiet(i) ==
  /\ beat[i].result # "none" /\ handle[i] # beat[i].token
  /\ beat' = [beat EXCEPT ![i] = NoBeat]
  /\ UNCHANGED <<lock, handle, timer, failures, leaving>>

(* A network failure, as long as the limit and the reported expiry allow.  *)
BeatRetries(i) ==
  /\ beat[i].result \in {"sent", "ok"} /\ handle[i] = beat[i].token
  /\ failures[i] + 1 < RenewFailureLimit
  /\ beat' = [beat EXCEPT ![i] = NoBeat]
  /\ failures' = [failures EXCEPT ![i] = @ + 1]
  /\ timer' = [timer EXCEPT ![i] = TRUE]
  /\ UNCHANGED <<lock, handle, leaving>>

(* Authority lost, the reported expiry passed, or one failure too many:    *)
(* _markLost; the caller of this action adds the effect of onLost.         *)
BeatLost(i) ==
  /\ beat[i].result # "none" /\ handle[i] = beat[i].token
  /\ \/ beat[i].result = "lost"
     \/ ~InForce(i, handle[i])
     \/ failures[i] + 1 >= RenewFailureLimit
  /\ beat' = [beat EXCEPT ![i] = NoBeat]
  /\ handle' = [handle EXCEPT ![i] = 0]
  /\ timer' = [timer EXCEPT ![i] = FALSE]
  /\ UNCHANGED <<lock, failures, leaving>>

(* release(), up to the awaited handle.release(). *)
Release(i) ==
  /\ handle' = [handle EXCEPT ![i] = 0]
  /\ timer' = [timer EXCEPT ![i] = FALSE]
  /\ leaving' = [leaving EXCEPT ![i] = IF Held(i) THEN "sent" ELSE "done"]
  /\ UNCHANGED <<lock, failures, beat>>

-----------------------------------------------------------------------------
(* assert_fence *)

(* Variant: the registry only remembers. *)
PassesAny(token) == TRUE

(* Same-or-higher tokens pass; a request without headers is not checked.   *)
PassesFence(token) == token = 0 \/ token >= fence

AssertFence(token) == fence' = IF token > fence THEN token ELSE fence

-----------------------------------------------------------------------------
(* A heartbeat is armed only for a live grant: release() and a loss during *)
(* an awaited renewal leave no timer behind that would renew a lease this  *)
(* instance gave up, against the next owner.                               *)
TimerHeld == \A i \in Insts : timer[i] => Held(i)
=============================================================================
