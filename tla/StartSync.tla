----------------------------- MODULE StartSync -----------------------------
(***************************************************************************)
(* startSync() of sdk/src/start.mjs: several instances of one actor (tabs, *)
(* worker processes) over one durable store.  Each waits for the lease,    *)
(* brings up its transports, hydrates, flushes the queue it inherits, and  *)
(* then serves the application's writes until it loses the lease, is       *)
(* stopped, or crashes.  The server commits keyed writes behind the fence. *)
(*                                                                         *)
(* lc[i] is the phase of the instance's AppLifecycleMachine.  Events carry *)
(* the session's token, which AppLifecycle shows current exactly in the    *)
(* running phases, so they are applied there and ignored elsewhere.        *)
(***************************************************************************)
EXTENDS SyncLease, Sequences, FiniteSets

CONSTANTS
  MaxCalls,   \* writes and flushes of the application, all instances together
  MaxFaults   \* crashes, pauses past the TTL, lost streams, failed renewals, calls and stops

ASSUME EnvironmentAssumption == {MaxCalls, MaxFaults} \subseteq Nat

VARIABLES
  ctl,      \* where startSync() or stop() stands
  lc,       \* the lifecycle's phase
  stream,   \* the backend stream; "leaked" when its stopper threw
  call,     \* the write() or flushQueue() in flight
  queue,    \* the shared store's queued writes, named in the order of their seq
  net,      \* requests under way, and whether their sender still waits
  log,      \* the server's outbox: key, sender and token of every commit
  grant,    \* ghost: the last token the instance held
  inherited, \* ghost: what was queued when it had hydrated
  broken,   \* ghost: instances one of whose calls failed
  used      \* how much of each bound is used up

session == <<ctl, lc, stream>>
traffic == <<call, queue, net, log>>
ghosts == <<grant, inherited, broken>>
vars == <<lock, lease, fence, session, traffic, ghosts, used>>

Writes == 1 .. MaxCalls
Running == {"starting", "online", "offline"}
MayWrite(i) == lc[i] \in {"online", "offline"}   \* canWrite

Idle == [pc |-> "idle", batch |-> {}]
CallState == [pc : {"idle", "send", "wait", "ok", "refused"}, batch : SUBSET Writes]
First(batch) == CHOOSE k \in batch : \A l \in batch : k <= l

Bounds == [writes : 0 .. MaxCalls, calls : 0 .. MaxCalls, faults : 0 .. MaxFaults]

Init ==
  /\ LeaseInit
  /\ ctl = [i \in Insts |-> "new"]
  /\ lc = [i \in Insts |-> "stopped"]
  /\ stream = [i \in Insts |-> "none"]
  /\ call = [i \in Insts |-> Idle]
  /\ queue = {} /\ net = {}
  /\ log = <<>>
  /\ grant = [i \in Insts |-> 0]
  /\ inherited = [i \in Insts |-> {}]
  /\ broken = {}
  /\ used = [writes |-> 0, calls |-> 0, faults |-> 0]

Committed(k) == \E n \in DOMAIN log : log[n].key = k

Fault == used.faults < MaxFaults /\ used' = [used EXCEPT !.faults = @ + 1]

Goes(i, where) == ctl' = [ctl EXCEPT ![i] = where]
Phase(i, phase) == lc' = [lc EXCEPT ![i] = phase]

-----------------------------------------------------------------------------
(* startSync *)

(* startRequested, the store opened, and acquire() waiting. *)
Start(i) ==
  /\ ctl[i] = "new"
  /\ Goes(i, "acquiring")
  /\ Phase(i, "starting")
  /\ Acquire(i)
  /\ UNCHANGED <<fence, stream, traffic, ghosts, used>>

(* The lease is ours: start the transports, then hydrate.                  *)
Acquired(i) ==
  /\ ctl[i] = "acquiring"
  /\ Adopt(i)
  /\ Goes(i, "hydrating")
  /\ stream' = [stream EXCEPT ![i] = "closed"]
  /\ grant' = [grant EXCEPT ![i] = reply[i]]
  /\ UNCHANGED <<fence, lc, traffic, inherited, broken, used>>

(* The catch of startSync: startFailed, and nothing was started yet.       *)
AcquireFails(i) ==
  /\ ctl[i] = "acquiring"
  /\ GiveUp(i)
  /\ Goes(i, "closed")
  /\ Phase(i, "failed")
  /\ UNCHANGED <<fence, stream, traffic, ghosts, used>>

(* Variant (a bug to be caught): startSucceeded is dispatched without the  *)
(* token, and undoes a loss of the lease while hydrating.                  *)
StartedPhaseAnyway(i) == IF stream[i] = "open" THEN "online" ELSE "offline"

StartedPhase(i) ==
  IF lc[i] # "starting" THEN lc[i]
  ELSE IF stream[i] = "open" THEN "online" ELSE "offline"

(* Variant (a bug to be caught): flush before startSucceeded, when the     *)
(* lifecycle does not allow it yet.                                        *)
HydratedFlushFirst(i) ==
  /\ ctl[i] = "hydrating"
  /\ Phase(i, StartedPhase(i))
  /\ IF queue # {} /\ MayWrite(i)
     THEN Goes(i, "flushing") /\ call' = [call EXCEPT ![i] = [pc |-> "send", batch |-> queue]]
     ELSE Goes(i, "ready") /\ UNCHANGED call
  /\ inherited' = [inherited EXCEPT ![i] = queue]
  /\ UNCHANGED <<lock, lease, fence, stream, queue, net, log, grant, broken, used>>

(* Hydrated (its failures are swallowed): startSucceeded, then flush what  *)
(* the last holder left, if the session may write.                         *)
Hydrated(i) ==
  /\ ctl[i] = "hydrating"
  /\ Phase(i, StartedPhase(i))
  /\ IF queue # {} /\ MayWrite(i)'
     THEN Goes(i, "flushing") /\ call' = [call EXCEPT ![i] = [pc |-> "send", batch |-> queue]]
     ELSE Goes(i, "ready") /\ UNCHANGED call
  /\ inherited' = [inherited EXCEPT ![i] = queue]
  /\ UNCHANGED <<lock, lease, fence, stream, queue, net, log, grant, broken, used>>

(* The backend stream opens: connectivityChanged and onReconnect, which    *)
(* hydrates and leaves the queue alone.                                    *)
StreamOpens(i) ==
  /\ stream[i] = "closed"
  /\ stream' = [stream EXCEPT ![i] = "open"]
  /\ Phase(i, IF lc[i] = "offline" THEN "online" ELSE lc[i])
  /\ UNCHANGED <<lock, lease, fence, ctl, traffic, ghosts, used>>

StreamCloses(i) ==
  /\ stream[i] = "open"
  /\ Fault
  /\ stream' = [stream EXCEPT ![i] = "closed"]
  /\ Phase(i, IF lc[i] = "online" THEN "offline" ELSE lc[i])
  /\ UNCHANGED <<lock, lease, fence, ctl, traffic, ghosts>>

StopTransports(i) == [stream EXCEPT ![i] = IF @ = "leaked" THEN @ ELSE "none"]

(* Variant: the application is told, the session goes on. *)
OnLostOnlyReports(i) == UNCHANGED session

(* onLost: stop the transports, then runtimeFailed.                        *)
OnLost(i) ==
  /\ stream' = StopTransports(i)
  /\ Phase(i, IF lc[i] \in Running THEN "failed" ELSE lc[i])
  /\ UNCHANGED ctl

LeaseLost(i) ==
  /\ BeatLost(i)
  /\ OnLost(i)
  /\ UNCHANGED <<fence, traffic, ghosts, used>>

-----------------------------------------------------------------------------
(* stop() *)

(* stopRequested, or reconcileRequested after a failure; the transports    *)
(* stop and the lease is released.                                         *)
Stop(i) ==
  /\ ctl[i] = "ready"
  /\ Goes(i, IF lc[i] = "failed" THEN "reconciling" ELSE "stopping")
  /\ Phase(i, "stopping")
  /\ stream' = StopTransports(i)
  /\ Release(i)
  /\ UNCHANGED <<fence, traffic, ghosts, used>>

(* A stopper throws: stopFailed.  The promise is kept, so stop() cannot be *)
(* tried again; the lease is not released.                                 *)
StopThrows(i) ==
  /\ ctl[i] = "ready" /\ stream[i] \in {"closed", "open"}
  /\ Fault
  /\ Goes(i, "closed")
  /\ Phase(i, "failed")
  /\ stream' = [stream EXCEPT ![i] = "leaked"]
  /\ UNCHANGED <<lock, lease, fence, traffic, ghosts>>

Stopped(i) ==
  /\ ctl[i] \in {"stopping", "reconciling"} /\ leaving[i] = "done"
  /\ Goes(i, "closed")
  /\ Phase(i, "stopped")
  /\ UNCHANGED <<lock, lease, fence, stream, traffic, ghosts, used>>

-----------------------------------------------------------------------------
(* write() and flushQueue().  What one client does to its own queue is     *)
(* SyncClient's business: coalescing, overflow, the conflicts that drop a  *)
(* queued write, and the acknowledgements that do not retire one.          *)

Write(i) ==
  /\ ctl[i] = "ready" /\ MayWrite(i) /\ call[i] = Idle
  /\ used.calls < MaxCalls
  /\ used' = [used EXCEPT !.calls = @ + 1, !.writes = @ + 1]
  /\ LET k == used.writes + 1
     IN  /\ queue' = queue \cup {k}
         /\ call' = [call EXCEPT ![i] = [pc |-> "send", batch |-> {k}]]
  /\ UNCHANGED <<lock, lease, fence, session, net, log, ghosts>>

Flush(i) ==
  /\ ctl[i] = "ready" /\ MayWrite(i) /\ call[i] = Idle
  /\ queue # {}
  /\ used.calls < MaxCalls
  /\ used' = [used EXCEPT !.calls = @ + 1]
  /\ call' = [call EXCEPT ![i] = [pc |-> "send", batch |-> queue]]
  /\ UNCHANGED <<lock, lease, fence, session, queue, net, log, ghosts>>

(* Variant: the headers are sent without asking whether there is a grant.  *)
RequestNullToken(i) ==
  [from |-> i, key |-> First(call[i].batch),
   token |-> IF Held(i) THEN handle[i] ELSE Nobody, awaited |-> TRUE]

Request(i) ==
  [from |-> i, key |-> First(call[i].batch), token |-> handle[i], awaited |-> TRUE]

(* The sender reads the lease for every request: the headers carry the     *)
(* grant's token while it is held, and are absent when it is not.          *)
Send(i) ==
  /\ call[i].pc = "send"
  /\ net' = net \cup {Request(i)}
  /\ call' = [call EXCEPT ![i].pc = "wait"]
  /\ UNCHANGED <<lock, lease, fence, session, queue, log, ghosts, used>>

(* The call's next entry, or its end, which is also the end of startSync   *)
(* when the call is the flush on promotion.                                *)
Proceeds(i, batch) ==
  /\ call' = [call EXCEPT ![i] = IF batch = {} THEN Idle ELSE [pc |-> "send", batch |-> batch]]
  /\ ctl' = [ctl EXCEPT ![i] = IF batch = {} /\ @ = "flushing" THEN "ready" ELSE @]

Acked(i) ==
  /\ call[i].pc = "ok"
  /\ LET k == First(call[i].batch)
     IN  queue' = queue \ {k} /\ Proceeds(i, call[i].batch \ {k})
  /\ UNCHANGED <<lock, lease, fence, lc, stream, net, log, ghosts, used>>

(* A fenced-off request (412) ends the call; the write stays queued.       *)
Refused(i) ==
  /\ call[i].pc = "refused"
  /\ Proceeds(i, {})
  /\ broken' = broken \cup {i}
  /\ UNCHANGED <<lock, lease, fence, lc, stream, queue, net, log, grant, inherited, used>>

Abandon(i) == {IF m.from = i THEN [m EXCEPT !.awaited = FALSE] ELSE m : m \in net}
Drop(i) == {m \in net : ~(m.from = i /\ m.awaited)}

(* So does a network failure: the request is lost, still under way, or     *)
(* served and its response lost.                                           *)
SendFails(i) ==
  /\ call[i].pc \in {"wait", "ok", "refused"}
  /\ Fault
  /\ net' \in {Abandon(i), Drop(i)}
  /\ Proceeds(i, {})
  /\ broken' = broken \cup {i}
  /\ UNCHANGED <<lock, lease, fence, lc, stream, queue, log, grant, inherited>>

Appends(m) == Append(log, [key |-> m.key, by |-> m.from, token |-> m.token])
Answer(m, pc) == call' = IF m.awaited THEN [call EXCEPT ![m.from].pc = pc] ELSE call

(* Variant: the status of the response is not looked at. *)
ServeAlwaysOk(m) ==
  /\ net' = net \ {m}
  /\ Answer(m, "ok")
  /\ IF PassesFence(m.token)
     THEN /\ AssertFence(m.token)
          /\ log' = IF Committed(m.key) THEN log ELSE Appends(m)
     ELSE UNCHANGED <<fence, log>>
  /\ UNCHANGED <<lock, lease, session, queue, ghosts, used>>

(* Variant: the idempotency key is not looked up. *)
ServeEveryRequest(m) ==
  /\ net' = net \ {m}
  /\ IF PassesFence(m.token)
     THEN Answer(m, "ok") /\ AssertFence(m.token) /\ log' = Appends(m)
     ELSE Answer(m, "refused") /\ UNCHANGED <<fence, log>>
  /\ UNCHANGED <<lock, lease, session, queue, ghosts, used>>

(* One transaction: assert the fence, then commit unless the key is known. *)
Serve(m) ==
  /\ net' = net \ {m}
  /\ IF PassesFence(m.token)
     THEN /\ Answer(m, "ok")
          /\ AssertFence(m.token)
          /\ log' = IF Committed(m.key) THEN log ELSE Appends(m)
     ELSE Answer(m, "refused") /\ UNCHANGED <<fence, log>>
  /\ UNCHANGED <<lock, lease, session, queue, ghosts, used>>

-----------------------------------------------------------------------------
(* The process dies; requests it sent and the grant in force outlive it.   *)
Crash(i) ==
  /\ ctl[i] \notin {"new", "dead"}
  /\ Fault
  /\ Goes(i, "dead")
  /\ Phase(i, "stopped")
  /\ stream' = [stream EXCEPT ![i] = "none"]
  /\ call' = [call EXCEPT ![i] = Idle]
  /\ waiting' = waiting \ {i}
  /\ reply' = [reply EXCEPT ![i] = 0]
  /\ handle' = [handle EXCEPT ![i] = 0]
  /\ timer' = [timer EXCEPT ![i] = FALSE]
  /\ beat' = [beat EXCEPT ![i] = NoBeat]
  /\ leaving' = [leaving EXCEPT ![i] = "none"]
  /\ net' = Abandon(i)
  /\ UNCHANGED <<owner, lastToken, failures, fence, queue, log, ghosts>>

(* Nobody renews the grant in force: its holder crashed, gave up or left. *)
Abandoned == owner # Nobody /\ ~Held(owner) /\ reply[owner] = 0

(* A grant that is being renewed lapses when its holder is paused.         *)
LapseOfAbandoned == Abandoned /\ Lapse /\ UNCHANGED used

LapseOfPaused ==
  /\ ~Abandoned /\ Lapse
  /\ Fault

(* A renewal fails on the network, and the heartbeat will try again.       *)
RenewFails(i) ==
  /\ BeatRetries(i)
  /\ Fault
  /\ UNCHANGED <<fence, session, traffic, ghosts>>

LeaseStep(i) == Grant(i) \/ ServeRenew(i) \/ ServeRelease(i)
                \/ Beat(i) \/ BeatReturns(i) \/ BeatQuiet(i)

Next ==
  \/ \E i \in Insts :
       \/ LeaseStep(i) /\ UNCHANGED <<fence, session, traffic, ghosts, used>>
       \/ Start(i) \/ Acquired(i) \/ AcquireFails(i) \/ Hydrated(i)
       \/ StreamOpens(i) \/ StreamCloses(i) \/ LeaseLost(i) \/ RenewFails(i)
       \/ Stop(i) \/ StopThrows(i) \/ Stopped(i)
       \/ Write(i) \/ Flush(i) \/ Send(i) \/ SendFails(i)
       \/ Acked(i) \/ Refused(i)
       \/ Crash(i)
  \/ \E m \in net : Serve(m)
  \/ (LapseOfAbandoned \/ LapseOfPaused)
       /\ UNCHANGED <<fence, session, traffic, ghosts>>

Spec == Init /\ [][Next]_vars

(* Every promise, timer and request of a living process ends, the server   *)
(* answers, and a closed stream reconnects.  Nothing makes the application *)
(* write, flush or stop, or an acquire() succeed.                          *)
Fairness ==
  /\ \A i \in Insts :
       /\ WF_vars(Acquired(i) \/ Hydrated(i) \/ Stopped(i))
       /\ WF_vars(Send(i) \/ Acked(i) \/ Refused(i))
       /\ WF_vars(\/ LeaseLost(i)
                  \/ /\ Beat(i) \/ ServeRenew(i) \/ BeatReturns(i) \/ BeatQuiet(i)
                     /\ UNCHANGED <<fence, session, traffic, ghosts, used>>)
       /\ WF_vars(StreamOpens(i))
       /\ WF_vars(\E m \in net : m.from = i /\ Serve(m))

FairSpec == Spec /\ Fairness

-----------------------------------------------------------------------------
(* Every variable has its type. *)
TypeOK ==
  /\ LeaseTypeOK
  /\ ctl \in [Insts -> {"new", "acquiring", "hydrating", "flushing", "ready", "stopping",
                        "reconciling", "closed", "dead"}]
  /\ lc \in [Insts -> {"stopped", "starting", "online", "offline", "stopping", "failed"}]
  /\ stream \in [Insts -> {"none", "closed", "open", "leaked"}]
  /\ call \in [Insts -> CallState]
  /\ queue \subseteq Writes
  /\ net \subseteq [from : Insts, key : Writes, token : Nat, awaited : BOOLEAN]
  /\ log \in Seq([key : Writes, by : Insts, token : Nat])
  /\ grant \in [Insts -> Nat]
  /\ inherited \in [Insts -> SUBSET Writes]
  /\ broken \subseteq Insts
  /\ used \in Bounds

(* onLost and stop(): whoever runs transports or may write believes it     *)
(* holds the lease; a loss noticed by a heartbeat closes both at once.     *)
TransportsHeld ==
  \A i \in Insts : stream[i] \in {"closed", "open"} \/ MayWrite(i) => Held(i)

(* assert_fence: commits of fenced requests are in the order of the grants *)
(* they were made under, whatever is delayed on the way.                   *)
FencedInOrder ==
  \A m, n \in DOMAIN log :
    m < n /\ log[m].token # 0 /\ log[n].token # 0 => log[m].token <= log[n].token

(* A write the store accepted is queued until the server has it: through   *)
(* fenced-off requests, failures, crashes and changes of the flusher       *)
(* ("a fenced-off write stays queued", sdk/test/e2e_fencing.test.mjs:68).  *)
(* A conflict or an overflow may still drop it, which is not modelled here.*)
NoWriteLost == \A k \in 1 .. used.writes : k \in queue \/ Committed(k)

(* "the successor inherits the shared queue and drains it"                 *)
(* (docs/leases.md:23): when startSync() resolves in a session that is     *)
(* running and saw no call fail, what it inherited is committed.           *)
TakeoverDrains ==
  \A i \in Insts :
    ctl[i] = "ready" /\ lc[i] \in Running /\ i \notin broken =>
      \A k \in inherited[i] : Committed(k)

(* All sessions, leases and requests of an actor together are the ledger   *)
(* of WriteLedger: whatever is retried, delayed past a takeover or refused *)
(* by the fence, a write is committed at most once and retired only then.  *)
Ledger == INSTANCE WriteLedger WITH
  Keys <- Writes,
  accepted <- 1 .. used.writes,
  pending <- queue,
  commits <- [n \in DOMAIN log |-> log[n].key]

ImplementsLedger == Ledger!Spec

(* What the instance's AppLifecycleMachine.snapshot is: a process has one   *)
(* session, whose token is 1, and its cleanup has token 2.                 *)
GenerationOf(where, phase, wire) ==
  IF phase = "stopped" /\ where # "closed" THEN 0
  ELSE IF phase \in {"stopping", "stopped"} \/ wire = "leaked" THEN 2 ELSE 1

OperationOf(where, phase) ==
  IF phase = "starting" THEN "start"
  ELSE IF phase # "stopping" THEN "none"
  ELSE IF where = "reconciling" THEN "reconcile" ELSE "stop"

FailureOf(where, phase, wire) ==
  IF phase # "failed" THEN "none"
  ELSE IF wire = "leaked" THEN "stop"
  ELSE IF where = "closed" THEN "start" ELSE "runtime"

MachineOf(where, phase, wire) ==
  [phase |-> phase,
   operation |-> OperationOf(where, phase),
   generation |-> GenerationOf(where, phase, wire),
   active_token |-> IF phase \in {"stopped", "failed"} THEN 0
                    ELSE GenerationOf(where, phase, wire),
   desired_running |-> phase \in Running,
   online |-> phase = "online" \/ (phase = "starting" /\ wire = "open"),
   failure |-> FailureOf(where, phase, wire)]

Machine(i) == MachineOf(ctl[i], lc[i], stream[i])

Life(i) == INSTANCE AppLifecycle WITH
  MAX_SAFE_GENERATION <- 2,
  snapshot <- Machine(i),
  outcome <- "applied",
  revoked <- (1 .. Machine(i).generation) \ {Machine(i).active_token}

(* stop() when a stopper throws: stopRequested and, before anyone else     *)
(* runs, stopFailed.                                                       *)
StopAndFail(i) ==
  /\ Machine(i).phase \in Running
  /\ Machine(i)' = [Life(i)!Stopped(2) EXCEPT !.phase = "failed", !.failure = "stop"]

(* The machine dies with its process. *)
MachineDies(i) == ctl'[i] = "dead" /\ Machine(i)' = Life(i)!Stopped(0)

(* startSync(), its callbacks and stop() drive the lifecycle only by the   *)
(* reducer's transitions (sdk/src/lifecycle.mjs): whatever order the lease, *)
(* the stream, hydration and stop() end in, a session that failed or was   *)
(* stopped is not brought up again, and a loss is not overwritten.         *)
DrivesLifecycle ==
  /\ \A i \in Insts : Life(i)!Init
  /\ [][\A i \in Insts : Machine(i)' # Machine(i) =>
          Life(i)!Next \/ StopAndFail(i) \/ MachineDies(i)]_session

(* "the fence is what stops a superseded holder from committing at all"    *)
(* (docs/leases.md:98): once a newer grant has written, an instance whose  *)
(* last grant is older commits nothing.                                    *)
SupersededNeverCommits ==
  \A m, n \in DOMAIN log : m < n => log[m].token <= grant[log[n].by]

(* "On reconnect, flushQueue re-sends everything still queued"             *)
(* (docs/protocol.md:67): what is queued while a session is idle and its   *)
(* stream down is retired once the stream is back, unless the session ends.*)
ReconnectFlushes ==
  \A i \in Insts, k \in Writes :
    (ctl[i] = "ready" /\ call[i] = Idle /\ stream[i] = "closed" /\ k \in queue)
      ~> (k \notin queue \/ lc[i] \notin Running)
=============================================================================
