--------------------------- MODULE StartSyncProofs ---------------------------
(***************************************************************************)
(* What startSync(), the lease and the fence guarantee for every number of *)
(* instances, writes, flushes and faults: its invariants, that the         *)
(* sessions implement WriteLedger, and that they drive AppLifecycle.       *)
(***************************************************************************)
EXTENDS StartSync, SequenceTheorems, WellFoundedInduction, TLAPS

-----------------------------------------------------------------------------
(* Operators *)

(* What a flush sends next is one of the writes of its batch.              *)
LEMMA FirstIn ==
  ASSUME NEW batch \in SUBSET Writes, batch # {}
  PROVE  First(batch) \in batch
<1>1. MaxCalls \in Nat
  BY EnvironmentAssumption
<1>2. batch \subseteq Nat
  BY <1>1 DEF Writes
<1>3. \E k \in batch : \A l \in batch : ~(<<l, k>> \in OpToRel(<, Nat))
  BY <1>2, NatLessThanWellFounded, WFMin
<1>4. \A k, l \in Nat : l < k => <<l, k>> \in OpToRel(<, Nat)
  BY DEF OpToRel
<1>5. \A k, l \in Nat : ~(l < k) => k <= l
  OBVIOUS
<1>6. \E k \in batch : \A l \in batch : k <= l
  BY <1>2, <1>3, <1>4, <1>5, Zenon
<1>7. QED
  BY <1>6 DEF First

(* What the server has committed, an append leaves committed, and it adds  *)
(* the request it is for.                                                  *)
LEMMA AppendCommits ==
  ASSUME TypeOK, NEW m \in net, log' = Appends(m)
  PROVE  /\ log' \in Seq([key : Writes, by : Insts, token : Nat])
         /\ DOMAIN log = 1 .. Len(log) /\ Len(log) \in Nat
         /\ DOMAIN log' = 1 .. (Len(log) + 1)
         /\ \A n \in DOMAIN log : n \in DOMAIN log' /\ log'[n] = log[n]
         /\ Len(log) + 1 \in DOMAIN log'
         /\ log'[Len(log) + 1].key = m.key
         /\ log'[Len(log) + 1].token = m.token
<1> DEFINE Entry == [key : Writes, by : Insts, token : Nat]
           entry == [key |-> m.key, by |-> m.from, token |-> m.token]
<1>1. log \in Seq(Entry) /\ entry \in Entry
  BY DEF TypeOK
<1> HIDE DEF Entry
<1>2. /\ Append(log, entry) \in Seq(Entry)
      /\ Len(Append(log, entry)) = Len(log) + 1
      /\ \A n \in 1 .. Len(log) : Append(log, entry)[n] = log[n]
      /\ Append(log, entry)[Len(log) + 1] = entry
  BY <1>1, AppendProperties
<1>3. DOMAIN log = 1 .. Len(log) /\ Len(log) \in Nat
  BY <1>1
<1>4. DOMAIN Append(log, entry) = 1 .. (Len(log) + 1)
  BY <1>2
<1>5. log' = Append(log, entry) /\ entry.key = m.key /\ entry.token = m.token
  BY DEF Appends
<1> HIDE DEF entry
<1>6. QED
  BY <1>2, <1>3, <1>4, <1>5 DEF Entry

-----------------------------------------------------------------------------
(* The lease's own steps *)

(* Every step of the lock service and of a SyncLease keeps its types.      *)
LEMMA LeaseTypes ==
  ASSUME LeaseTypeOK, fence' \in Nat, NEW i \in Insts,
         \/ LeaseStep(i) \/ BeatRetries(i) \/ Acquire(i) \/ Adopt(i) \/ GiveUp(i)
         \/ BeatLost(i) \/ Release(i) \/ Lapse
  PROVE  LeaseTypeOK'
<1> USE LimitAssumption DEF LeaseTypeOK
<1>1. CASE Grant(i)
  BY <1>1 DEF Grant, lease
<1>2. CASE ServeRenew(i)
  BY <1>2 DEF ServeRenew, lock, BeatState
<1>3. CASE ServeRelease(i)
  BY <1>3 DEF ServeRelease
<1>4. CASE Beat(i)
  BY <1>4 DEF Beat, lock, BeatState
<1>5. CASE BeatReturns(i)
  <2>1. beat' \in [Insts -> BeatState]
    BY <1>5 DEF BeatReturns, BeatState, NoBeat
  <2>2. failures' \in [Insts -> 0 .. RenewFailureLimit - 1] /\ timer' \in [Insts -> BOOLEAN]
    <3>1. 0 \in 0 .. RenewFailureLimit - 1
      OBVIOUS
    <3>2. QED
      BY <1>5, <3>1 DEF BeatReturns
  <2>3. QED
    BY <1>5, <2>1, <2>2 DEF BeatReturns, lock
<1>6. CASE BeatQuiet(i)
  BY <1>6 DEF BeatQuiet, lock, BeatState, NoBeat
<1>7. CASE BeatRetries(i)
  BY <1>7 DEF BeatRetries, lock, BeatState, NoBeat
<1>8. CASE Acquire(i)
  BY <1>8 DEF Acquire, lease
<1>9. CASE Adopt(i)
  BY <1>9 DEF Adopt
<1>10. CASE GiveUp(i)
  BY <1>10 DEF GiveUp, lease
<1>11. CASE BeatLost(i)
  BY <1>11 DEF BeatLost, lock, BeatState, NoBeat
<1>12. CASE Release(i)
  BY <1>12 DEF Release, lock
<1>13. CASE Lapse
  BY <1>13 DEF Lapse, lease
<1>14. QED
  BY <1>1, <1>2, <1>3, <1>4, <1>5, <1>6, <1>7, <1>8, <1>9, <1>10, <1>11, <1>12, <1>13
     DEF LeaseStep

(* A heartbeat that awaits its renewal awaits it for a real grant.         *)
BeatToken == \A i \in Insts : beat[i].result # "none" => beat[i].token # 0

Armed == TimerHeld /\ BeatToken

(* So a heartbeat is re-armed for a grant that is still held, or not at    *)
(* all, whatever happened while the renewal was awaited.                   *)
LEMMA LeaseArmed ==
  ASSUME LeaseTypeOK, Armed, NEW i \in Insts,
         \/ LeaseStep(i) \/ BeatRetries(i) \/ Acquire(i) \/ Adopt(i) \/ GiveUp(i)
         \/ BeatLost(i) \/ Release(i) \/ Lapse
  PROVE  Armed'
<1> USE DEF LeaseTypeOK, Armed, TimerHeld, BeatToken, Held
<1>1. CASE Grant(i)
  BY <1>1 DEF Grant, lease
<1>2. CASE ServeRenew(i)
  BY <1>2 DEF ServeRenew, lock, BeatState
<1>3. CASE ServeRelease(i)
  BY <1>3 DEF ServeRelease
<1>4. CASE Beat(i)
  BY <1>4 DEF Beat, lock, BeatState
<1>5. CASE BeatReturns(i)
  BY <1>5 DEF BeatReturns, lock, BeatState, NoBeat
<1>6. CASE BeatQuiet(i)
  BY <1>6 DEF BeatQuiet, lock, BeatState, NoBeat
<1>7. CASE BeatRetries(i)
  BY <1>7 DEF BeatRetries, lock, BeatState, NoBeat
<1>8. CASE Acquire(i)
  BY <1>8 DEF Acquire, lease
<1>9. CASE Adopt(i)
  BY <1>9 DEF Adopt
<1>10. CASE GiveUp(i)
  BY <1>10 DEF GiveUp, lease
<1>11. CASE BeatLost(i)
  BY <1>11 DEF BeatLost, lock, BeatState, NoBeat
<1>12. CASE Release(i)
  BY <1>12 DEF Release, lock
<1>13. CASE Lapse
  BY <1>13 DEF Lapse, lease
<1>14. QED
  BY <1>1, <1>2, <1>3, <1>4, <1>5, <1>6, <1>7, <1>8, <1>9, <1>10, <1>11, <1>12, <1>13
     DEF LeaseStep

-----------------------------------------------------------------------------
(* Types, and the requests a call waits for *)

(* A call that is not idle has something to send; it waits for at most one *)
(* request, the one for the first write of its batch.                      *)
CallsKnown ==
  /\ \A i \in Insts : call[i].pc = "idle" <=> call[i].batch = {}
  /\ \A m \in net : m.awaited => call[m.from].pc = "wait" /\ m.key = First(call[m.from].batch)
  /\ \A m, n \in net : m.awaited /\ n.awaited /\ m.from = n.from => m = n

Counted == used.writes <= used.calls

(* Nothing is written or flushed before the session has hydrated.          *)
NoEarlyCall ==
  \A i \in Insts : ctl[i] \in {"new", "acquiring", "hydrating"} => call[i].pc = "idle"

Known == TypeOK /\ CallsKnown /\ Counted /\ NoEarlyCall

(* Before anything has started. *)
LEMMA InitKnown == Init => Known
  BY EnvironmentAssumption, LimitAssumption, NobodyAssumption
     DEF Init, Known, TypeOK, CallsKnown, Counted, NoEarlyCall, LeaseInit, LeaseTypeOK, NoBeat, BeatState,
         CallState, Idle, Bounds

(* Spending a fault leaves the counters in their bounds.                   *)
LEMMA FaultCounted ==
  ASSUME used \in Bounds, Counted, Fault
  PROVE  used' \in Bounds /\ Counted'
<1>1. MaxFaults \in Nat
  BY EnvironmentAssumption
<1>2. used.faults + 1 \in 0 .. MaxFaults
  BY <1>1 DEF Fault, Bounds
<1>3. QED
  BY <1>2 DEF Fault, Bounds, Counted

(* Nor do the steps below change the counters otherwise.                   *)
LEMMA CallCounted ==
  ASSUME used \in Bounds, Counted, used.calls < MaxCalls,
         \/ used' = [used EXCEPT !.calls = @ + 1, !.writes = @ + 1]
         \/ used' = [used EXCEPT !.calls = @ + 1]
  PROVE  used' \in Bounds /\ Counted'
<1>1. MaxCalls \in Nat
  BY EnvironmentAssumption
<1>2. used.calls \in 0 .. MaxCalls /\ used.writes \in 0 .. MaxCalls
  BY DEF Bounds
<1>3. used.calls + 1 \in 0 .. MaxCalls /\ used.writes + 1 \in 0 .. MaxCalls
  BY <1>1, <1>2 DEF Counted
<1>4. used.faults \in 0 .. MaxFaults
  BY DEF Bounds
<1>5. CASE used' = [used EXCEPT !.calls = @ + 1, !.writes = @ + 1]
  <2>1. used' = [writes |-> used.writes + 1, calls |-> used.calls + 1, faults |-> used.faults]
    BY <1>5 DEF Bounds
  <2>2. QED
    BY <1>2, <1>3, <1>4, <2>1 DEF Bounds, Counted
<1>6. CASE used' = [used EXCEPT !.calls = @ + 1]
  <2>1. used' = [writes |-> used.writes, calls |-> used.calls + 1, faults |-> used.faults]
    BY <1>6 DEF Bounds
  <2>2. QED
    BY <1>2, <1>3, <1>4, <2>1 DEF Bounds, Counted
<1>7. QED
  BY <1>5, <1>6

(* A request that is served leaves the outbox well formed.                 *)
LEMMA ServeTypes ==
  ASSUME TypeOK, NEW m \in net, Serve(m)
  PROVE  fence' \in Nat /\ log' \in Seq([key : Writes, by : Insts, token : Nat])
<1>1. m.token \in Nat /\ fence \in Nat
  BY DEF TypeOK, LeaseTypeOK
<1>2. CASE log' = Appends(m) /\ AssertFence(m.token)
  BY <1>1, <1>2, AppendCommits DEF AssertFence
<1>3. CASE log' = log /\ (AssertFence(m.token) \/ fence' = fence)
  BY <1>1, <1>3 DEF TypeOK, AssertFence
<1>4. QED
  BY <1>2, <1>3 DEF Serve

(* The end of a call, or its next entry.                                   *)
LEMMA ProceedsKnown ==
  ASSUME TypeOK, CallsKnown, NEW i \in Insts, NEW batch \in SUBSET Writes, Proceeds(i, batch),
         \A m \in net' : m.awaited => m \in net /\ m.from # i
  PROVE  /\ call' \in [Insts -> CallState]
         /\ ctl' \in [Insts -> {"new", "acquiring", "hydrating", "flushing", "ready",
                                "stopping", "reconciling", "closed", "dead"}]
         /\ CallsKnown'
<1> DEFINE next == IF batch = {} THEN Idle ELSE [pc |-> "send", batch |-> batch]
<1>1. next \in CallState /\ (next.pc = "idle" <=> next.batch = {})
  BY DEF CallState, Idle
<1>2. call' = [call EXCEPT ![i] = next]
  BY DEF Proceeds
<1> HIDE DEF next
<1>3. call' \in [Insts -> CallState]
  BY <1>1, <1>2 DEF TypeOK
<1>4. ctl' \in [Insts -> {"new", "acquiring", "hydrating", "flushing", "ready",
                          "stopping", "reconciling", "closed", "dead"}]
  BY DEF Proceeds, TypeOK
<1>5. \A j \in Insts : call'[j].pc = "idle" <=> call'[j].batch = {}
  BY <1>1, <1>2 DEF TypeOK, CallsKnown
<1>6. \A m \in net' : m.awaited => call'[m.from] = call[m.from]
  BY <1>2 DEF TypeOK
<1>7. QED
  BY <1>3, <1>4, <1>5, <1>6 DEF CallsKnown

(* A failed call's request is no longer awaited.                           *)
LEMMA NoneAwaited ==
  ASSUME TypeOK, CallsKnown, NEW i \in Insts, net' \in {Abandon(i), Drop(i)}
  PROVE  /\ net' \subseteq [from : Insts, key : Writes, token : Nat, awaited : BOOLEAN]
         /\ \A m \in net' : m.awaited => m \in net /\ m.from # i
<1> DEFINE Requests == [from : Insts, key : Writes, token : Nat, awaited : BOOLEAN]
<1>1. net \subseteq Requests
  BY DEF TypeOK
<1>2. \A m \in net : LET left == [m EXCEPT !.awaited = FALSE] IN left \in Requests /\ ~left.awaited
  BY <1>1
<1>3. CASE net' = Abandon(i)
  <2>1. \A m \in net' : (m \in net /\ m.from # i) \/ (m \in Requests /\ ~m.awaited)
    BY <1>2, <1>3 DEF Abandon
  <2>2. QED
    BY <1>1, <2>1
<1>4. CASE net' = Drop(i)
  BY <1>1, <1>4 DEF Drop
<1>5. QED
  BY <1>3, <1>4

(* A request that is served ends the wait of its sender, if it still waits. *)
LEMMA AnswerKnown ==
  ASSUME TypeOK, CallsKnown, NEW m \in net, NEW pc \in {"ok", "refused"},
         net' = net \ {m}, Answer(m, pc)
  PROVE  call' \in [Insts -> CallState] /\ CallsKnown'
<1>1. CASE ~m.awaited
  BY <1>1 DEF Answer, TypeOK, CallsKnown
<1>2. CASE m.awaited
  <2>1. m.from \in Insts /\ call[m.from] \in CallState /\ call[m.from].pc = "wait"
    BY <1>2 DEF TypeOK, CallsKnown
  <2>2. call' = [call EXCEPT ![m.from] = [@ EXCEPT !.pc = pc]]
    BY <1>2 DEF Answer
  <2>3. [call[m.from] EXCEPT !.pc = pc] \in CallState
    BY <2>1 DEF CallState
  <2>4. call' \in [Insts -> CallState]
    BY <2>2, <2>3 DEF TypeOK
  <2>5. \A i \in Insts : call'[i].pc = "idle" <=> call'[i].batch = {}
    BY <2>1, <2>2 DEF TypeOK, CallsKnown, CallState
  <2>6. \A n \in net' : n.awaited => call'[n.from] = call[n.from]
    BY <1>2, <2>2 DEF TypeOK, CallsKnown
  <2>7. QED
    BY <2>4, <2>5, <2>6 DEF CallsKnown
<1>3. QED
  BY <1>1, <1>2

(* Steps that leave calls, requests and counters alone.                    *)
LEMMA CallsFramed ==
  ASSUME CallsKnown, Counted, UNCHANGED <<call, net, used>>
  PROVE  CallsKnown' /\ Counted'
  BY DEF CallsKnown, Counted

(* Calls start in a session that is ready, or with the flush of startSync. *)
LEMMA EarlyStep ==
  ASSUME TypeOK, CallsKnown, NoEarlyCall, [Next]_vars
  PROVE  NoEarlyCall'
<1> USE DEF traffic, session, NoEarlyCall
<1>1. ASSUME NEW i \in Insts,
             \/ Start(i) \/ Acquired(i) \/ AcquireFails(i) \/ Hydrated(i) \/ LeaseLost(i)
             \/ StreamOpens(i) \/ StreamCloses(i) \/ Stop(i) \/ StopThrows(i) \/ Stopped(i)
      PROVE  NoEarlyCall'
  BY <1>1 DEF TypeOK, Start, Acquired, AcquireFails, Hydrated, LeaseLost, OnLost, StreamOpens,
              StreamCloses, Stop, StopThrows, Stopped, Goes
<1>2. ASSUME NEW i \in Insts, Write(i) \/ Flush(i) \/ Send(i) \/ Crash(i)
      PROVE  NoEarlyCall'
  BY <1>2 DEF TypeOK, Write, Flush, Send, Crash, Goes, Idle
<1>3. ASSUME NEW i \in Insts, Acked(i) \/ Refused(i) \/ SendFails(i)
      PROVE  NoEarlyCall'
  <2>1. call[i].pc # "idle" /\ \E batch : Proceeds(i, batch)
    BY <1>3 DEF Acked, Refused, SendFails
  <2>2. QED
    BY <2>1 DEF Proceeds, TypeOK
<1>4. ASSUME NEW m \in net, Serve(m)
      PROVE  NoEarlyCall'
  <2>1. \E pc \in {"ok", "refused"} : Answer(m, pc)
    BY <1>4 DEF Serve
  <2>2. m.awaited => m.from \in Insts /\ call[m.from].pc = "wait"
    BY DEF TypeOK, CallsKnown
  <2>3. QED
    BY <1>4, <2>1, <2>2 DEF Serve, Answer, TypeOK
<1>5. CASE UNCHANGED <<session, traffic>>
  BY <1>5
<1>6. QED
  BY <1>1, <1>2, <1>3, <1>4, <1>5 DEF Next, vars, RenewFails

(* Every step of an instance, the lock service and the server keeps the     *)
(* types and what calls wait for.                                          *)
THEOREM KnownStep == Known /\ [Next]_vars => Known'
<1> SUFFICES ASSUME TypeOK, CallsKnown, Counted, NoEarlyCall, [Next]_vars
             PROVE  TypeOK' /\ CallsKnown' /\ Counted'
  BY EarlyStep DEF Known
<1>0. LeaseTypeOK /\ fence \in Nat
  BY DEF TypeOK, LeaseTypeOK
<1> USE DEF traffic, session, ghosts
<1>1. ASSUME NEW i \in Insts, LeaseStep(i), UNCHANGED <<fence, session, traffic, ghosts, used>>
      PROVE  TypeOK' /\ CallsKnown' /\ Counted'
  BY <1>0, <1>1, LeaseTypes, CallsFramed DEF TypeOK
<1>2. ASSUME NEW i \in Insts, Start(i) PROVE TypeOK' /\ CallsKnown' /\ Counted'
  BY <1>0, <1>2, LeaseTypes, CallsFramed DEF TypeOK, Start, Goes, Phase
<1>3. ASSUME NEW i \in Insts, Acquired(i) PROVE TypeOK' /\ CallsKnown' /\ Counted'
  <2>1. reply[i] \in Nat
    BY <1>0 DEF LeaseTypeOK
  <2>2. QED
    BY <1>0, <1>3, <2>1, LeaseTypes, CallsFramed DEF TypeOK, Acquired, Goes
<1>4. ASSUME NEW i \in Insts, AcquireFails(i) PROVE TypeOK' /\ CallsKnown' /\ Counted'
  BY <1>0, <1>4, LeaseTypes, CallsFramed DEF TypeOK, AcquireFails, Goes, Phase
<1>5. ASSUME NEW i \in Insts, Hydrated(i) PROVE TypeOK' /\ CallsKnown' /\ Counted'
  <2>1. LeaseTypeOK'
    BY <1>0, <1>5 DEF Hydrated, LeaseTypeOK, lock, lease
  <2>2. StartedPhase(i) \in {"stopped", "starting", "online", "offline", "stopping", "failed"}
    BY DEF StartedPhase, TypeOK
  <2>3. call[i].pc = "idle" /\ ~\E m \in net : m.awaited /\ m.from = i
    BY <1>5 DEF Hydrated, CallsKnown, NoEarlyCall
  <2>4. [pc |-> "send", batch |-> queue] \in CallState
    BY DEF TypeOK, CallState
  <2>5. call' \in [Insts -> CallState] /\ CallsKnown'
    <3>1. CASE queue # {} /\ MayWrite(i)'
      <4> DEFINE flush == [pc |-> "send", batch |-> queue]
      <4>1. call' = [call EXCEPT ![i] = flush] /\ net' = net
        BY <1>5, <3>1 DEF Hydrated
      <4>2. flush.pc # "idle" /\ flush.batch # {}
        BY <3>1
      <4> HIDE DEF flush
      <4>3. call' \in [Insts -> CallState]
        BY <2>4, <4>1 DEF TypeOK, flush
      <4>4. \A j \in Insts : call'[j].pc = "idle" <=> call'[j].batch = {}
        BY <4>1, <4>2 DEF TypeOK, CallsKnown
      <4>5. \A m \in net : m.awaited => call'[m.from] = call[m.from]
        BY <2>3, <4>1 DEF TypeOK
      <4>6. QED
        BY <4>1, <4>3, <4>4, <4>5 DEF CallsKnown
    <3>2. CASE ~(queue # {} /\ MayWrite(i)')
      BY <1>5, <3>2 DEF Hydrated, TypeOK, CallsKnown
    <3>3. QED
      BY <3>1, <3>2
  <2>6. lc' = [lc EXCEPT ![i] = StartedPhase(i)] /\ inherited' = [inherited EXCEPT ![i] = queue]
    BY <1>5 DEF Hydrated, Phase
  <2>7. ctl' = [ctl EXCEPT ![i] = "flushing"] \/ ctl' = [ctl EXCEPT ![i] = "ready"]
    BY <1>5 DEF Hydrated, Goes
  <2>8. QED
    BY <1>5, <2>1, <2>2, <2>5, <2>6, <2>7 DEF Hydrated, TypeOK, Counted
<1>6. ASSUME NEW i \in Insts, StreamOpens(i) PROVE TypeOK' /\ CallsKnown' /\ Counted'
  <2>1. LeaseTypeOK'
    BY <1>0, <1>6 DEF StreamOpens, LeaseTypeOK, lock, lease
  <2>2. QED
    BY <1>6, <2>1, CallsFramed DEF StreamOpens, TypeOK, Phase
<1>7. ASSUME NEW i \in Insts, StreamCloses(i) PROVE TypeOK' /\ CallsKnown' /\ Counted'
  <2>1. LeaseTypeOK'
    BY <1>0, <1>7 DEF StreamCloses, LeaseTypeOK, lock, lease
  <2>2. used' \in Bounds /\ Counted'
    BY <1>7, FaultCounted DEF StreamCloses, TypeOK
  <2>3. QED
    BY <1>7, <2>1, <2>2 DEF StreamCloses, TypeOK, CallsKnown, Phase
<1>8. ASSUME NEW i \in Insts, LeaseLost(i) PROVE TypeOK' /\ CallsKnown' /\ Counted'
  <2>1. LeaseTypeOK'
    BY <1>0, <1>8, LeaseTypes DEF LeaseLost
  <2>2. QED
    BY <1>8, <2>1, CallsFramed DEF LeaseLost, OnLost, StopTransports, TypeOK, Phase
<1>9. ASSUME NEW i \in Insts, Stop(i) PROVE TypeOK' /\ CallsKnown' /\ Counted'
  <2>1. LeaseTypeOK'
    BY <1>0, <1>9, LeaseTypes DEF Stop
  <2>2. QED
    BY <1>9, <2>1, CallsFramed DEF Stop, StopTransports, TypeOK, Goes, Phase
<1>10. ASSUME NEW i \in Insts, StopThrows(i) PROVE TypeOK' /\ CallsKnown' /\ Counted'
  <2>1. LeaseTypeOK'
    BY <1>0, <1>10 DEF StopThrows, LeaseTypeOK, lock, lease
  <2>2. used' \in Bounds /\ Counted'
    BY <1>10, FaultCounted DEF StopThrows, TypeOK
  <2>3. QED
    BY <1>10, <2>1, <2>2 DEF StopThrows, TypeOK, CallsKnown, Goes, Phase
<1>11. ASSUME NEW i \in Insts, Stopped(i) PROVE TypeOK' /\ CallsKnown' /\ Counted'
  <2>1. LeaseTypeOK'
    BY <1>0, <1>11 DEF Stopped, LeaseTypeOK, lock, lease
  <2>2. QED
    BY <1>11, <2>1, CallsFramed DEF Stopped, TypeOK, Goes, Phase
<1>12. ASSUME NEW i \in Insts, Write(i) PROVE TypeOK' /\ CallsKnown' /\ Counted'
  <2>1. LeaseTypeOK'
    BY <1>0, <1>12 DEF Write, LeaseTypeOK, lock, lease
  <2>2. used' \in Bounds /\ Counted'
    BY <1>12, CallCounted DEF Write, TypeOK
  <2>3. used.writes + 1 \in Writes
    <3>1. used.writes \in Nat /\ used.calls \in Nat /\ MaxCalls \in Nat
      BY EnvironmentAssumption DEF TypeOK, Bounds
    <3>2. used.writes <= used.calls /\ used.calls < MaxCalls
      BY <1>12 DEF Write, Counted
    <3>3. QED
      BY <3>1, <3>2 DEF Writes
  <2>4. ~\E m \in net : m.awaited /\ m.from = i
    BY <1>12 DEF Write, CallsKnown, Idle
  <2>5. QED
    BY <1>12, <2>1, <2>2, <2>3, <2>4 DEF Write, TypeOK, CallsKnown, CallState
<1>13. ASSUME NEW i \in Insts, Flush(i) PROVE TypeOK' /\ CallsKnown' /\ Counted'
  <2>1. LeaseTypeOK'
    BY <1>0, <1>13 DEF Flush, LeaseTypeOK, lock, lease
  <2>2. used' \in Bounds /\ Counted'
    BY <1>13, CallCounted DEF Flush, TypeOK
  <2>3. ~\E m \in net : m.awaited /\ m.from = i
    BY <1>13 DEF Flush, CallsKnown, Idle
  <2>4. QED
    BY <1>13, <2>1, <2>2, <2>3 DEF Flush, TypeOK, CallsKnown, CallState
<1>14. ASSUME NEW i \in Insts, Send(i) PROVE TypeOK' /\ CallsKnown' /\ Counted'
  <2>1. LeaseTypeOK'
    BY <1>0, <1>14 DEF Send, LeaseTypeOK, lock, lease
  <2>2. call[i] \in CallState /\ call[i].batch \in SUBSET Writes /\ call[i].batch # {}
    BY <1>14 DEF Send, TypeOK, CallsKnown, CallState
  <2>3. First(call[i].batch) \in Writes
    BY <2>2, FirstIn
  <2>4. handle[i] \in Nat
    BY <1>0 DEF LeaseTypeOK
  <2>5. Request(i) \in [from : Insts, key : Writes, token : Nat, awaited : BOOLEAN]
    BY <2>3, <2>4 DEF Request
  <2>6. call' = [call EXCEPT ![i] = [@ EXCEPT !.pc = "wait"]]
        /\ [call[i] EXCEPT !.pc = "wait"] \in CallState
    BY <1>14, <2>2 DEF Send, CallState
  <2>7. ~\E m \in net : m.awaited /\ m.from = i
    BY <1>14 DEF Send, CallsKnown
  <2>8. Request(i).from = i /\ Request(i).key = First(call[i].batch)
    BY DEF Request
  <2>9. CallsKnown'
    <3>1. \A j \in Insts : call'[j].pc = "idle" <=> call'[j].batch = {}
      BY <2>2, <2>6 DEF TypeOK, CallsKnown, CallState
    <3>2. net' = net \cup {Request(i)}
      BY <1>14 DEF Send
    <3>3. call'[i].pc = "wait" /\ call'[i].batch = call[i].batch
      BY <2>2, <2>6 DEF TypeOK, CallState
    <3>4. \A m \in net : m.awaited => call'[m.from] = call[m.from]
      BY <2>6, <2>7 DEF TypeOK
    <3>5. QED
      BY <2>7, <2>8, <3>1, <3>2, <3>3, <3>4 DEF CallsKnown
  <2>10. TypeOK'
    BY <1>14, <2>1, <2>5, <2>6 DEF Send, TypeOK
  <2>11. QED
    BY <1>14, <2>9, <2>10 DEF Send, Counted
<1>15. ASSUME NEW i \in Insts, SendFails(i) PROVE TypeOK' /\ CallsKnown' /\ Counted'
  <2>1. LeaseTypeOK'
    BY <1>0, <1>15 DEF SendFails, LeaseTypeOK, lock, lease
  <2>2. used' \in Bounds /\ Counted'
    BY <1>15, FaultCounted DEF SendFails, TypeOK
  <2>3. net' \in {Abandon(i), Drop(i)} /\ Proceeds(i, {}) /\ {} \in SUBSET Writes
    BY <1>15 DEF SendFails
  <2>4. QED
    BY <1>15, <2>1, <2>2, <2>3, NoneAwaited, ProceedsKnown DEF SendFails, TypeOK
<1>16. ASSUME NEW i \in Insts, Acked(i) PROVE TypeOK' /\ CallsKnown' /\ Counted'
  <2> DEFINE rest == call[i].batch \ {First(call[i].batch)}
  <2>1. LeaseTypeOK'
    BY <1>0, <1>16 DEF Acked, LeaseTypeOK, lock, lease
  <2>2. rest \in SUBSET Writes
    BY DEF TypeOK, CallState
  <2>3. \A m \in net' : m.awaited => m \in net /\ m.from # i
    BY <1>16 DEF Acked, CallsKnown
  <2>4. Proceeds(i, rest) /\ queue' \subseteq queue
    BY <1>16 DEF Acked
  <2> HIDE DEF rest
  <2>5. QED
    BY <1>16, <2>1, <2>2, <2>3, <2>4, ProceedsKnown DEF Acked, TypeOK, Counted
<1>17. ASSUME NEW i \in Insts, Refused(i) PROVE TypeOK' /\ CallsKnown' /\ Counted'
  <2>1. LeaseTypeOK'
    BY <1>0, <1>17 DEF Refused, LeaseTypeOK, lock, lease
  <2>2. \A m \in net' : m.awaited => m \in net /\ m.from # i
    BY <1>17 DEF Refused, CallsKnown
  <2>3. Proceeds(i, {}) /\ {} \in SUBSET Writes
    BY <1>17 DEF Refused
  <2>4. QED
    BY <1>17, <2>1, <2>2, <2>3, ProceedsKnown DEF Refused, TypeOK, Counted
<1>18. ASSUME NEW i \in Insts, Crash(i) PROVE TypeOK' /\ CallsKnown' /\ Counted'
  <2>1. LeaseTypeOK'
    BY <1>0, <1>18 DEF Crash, LeaseTypeOK, BeatState, NoBeat
  <2>2. used' \in Bounds /\ Counted'
    BY <1>18, FaultCounted DEF Crash, TypeOK
  <2>3. /\ net' \subseteq [from : Insts, key : Writes, token : Nat, awaited : BOOLEAN]
        /\ \A m \in net' : m.awaited => m \in net /\ m.from # i
    BY <1>18, NoneAwaited DEF Crash
  <2>4. QED
    BY <1>18, <2>1, <2>2, <2>3 DEF Crash, TypeOK, CallsKnown, CallState, Idle, Goes, Phase
<1>19. ASSUME NEW m \in net, Serve(m) PROVE TypeOK' /\ CallsKnown' /\ Counted'
  <2>1. fence' \in Nat /\ log' \in Seq([key : Writes, by : Insts, token : Nat])
    BY <1>19, ServeTypes
  <2>2. LeaseTypeOK'
    BY <1>0, <1>19, <2>1 DEF Serve, LeaseTypeOK, lock, lease
  <2>3. call' \in [Insts -> CallState] /\ CallsKnown'
    <3>1. net' = net \ {m} /\ \E pc \in {"ok", "refused"} : Answer(m, pc)
      BY <1>19 DEF Serve
    <3>2. QED
      BY <3>1, AnswerKnown
  <2>4. QED
    BY <1>19, <2>1, <2>2, <2>3 DEF Serve, TypeOK, Counted
<1>20. ASSUME LapseOfAbandoned \/ LapseOfPaused, UNCHANGED <<fence, session, traffic, ghosts>>
       PROVE  TypeOK' /\ CallsKnown' /\ Counted'
  <2>1. LeaseTypeOK'
    BY <1>0, <1>20 DEF LapseOfAbandoned, LapseOfPaused, Lapse, LeaseTypeOK, lease
  <2>2. used' \in Bounds /\ Counted'
    BY <1>20, FaultCounted DEF LapseOfAbandoned, LapseOfPaused, TypeOK, Counted
  <2>3. QED
    BY <1>20, <2>1, <2>2 DEF TypeOK, CallsKnown
<1>21. ASSUME NEW i \in Insts, RenewFails(i) PROVE TypeOK' /\ CallsKnown' /\ Counted'
  <2>1. LeaseTypeOK'
    BY <1>0, <1>21, LeaseTypes DEF RenewFails
  <2>2. used' \in Bounds /\ Counted'
    BY <1>21, FaultCounted DEF RenewFails, TypeOK, Counted
  <2>3. QED
    BY <1>21, <2>1, <2>2 DEF RenewFails, TypeOK, CallsKnown
<1>22. CASE UNCHANGED vars
  BY <1>0, <1>22 DEF vars, lock, lease, TypeOK, LeaseTypeOK, CallsKnown, Counted
<1>23. QED
  BY <1>1, <1>2, <1>3, <1>4, <1>5, <1>6, <1>7, <1>8, <1>9, <1>10, <1>11, <1>12, <1>13, <1>14,
     <1>15, <1>16, <1>17, <1>18, <1>19, <1>20, <1>21, <1>22 DEF Next

(* Every instance, the lock service, the requests under way and the outbox *)
(* keep their types; a call waits for one request at most.                 *)
THEOREM Typed == Spec => []Known
<1>1. Init => Known
  BY InitKnown
<1>2. Known /\ [Next]_vars => Known'
  BY KnownStep
<1>3. QED
  BY <1>1, <1>2, PTL DEF Spec

(* The type invariant, by itself.                                          *)
THEOREM TypeCorrect == Spec => []TypeOK
  BY Typed, PTL DEF Known

-----------------------------------------------------------------------------
(* The lease and the right to act *)

(* A crash disarms the heartbeat together with the grant it is for.        *)
LEMMA ArmedStep == TypeOK /\ Armed /\ [Next]_vars => Armed'
<1> SUFFICES ASSUME TypeOK, Armed, [Next]_vars PROVE Armed'
  OBVIOUS
<1>0. LeaseTypeOK
  BY DEF TypeOK
<1>1. ASSUME NEW i \in Insts,
             \/ LeaseStep(i) \/ Start(i) \/ Acquired(i) \/ AcquireFails(i) \/ LeaseLost(i)
             \/ Stop(i) \/ RenewFails(i)
      PROVE  Armed'
  BY <1>0, <1>1, LeaseArmed DEF Start, Acquired, AcquireFails, LeaseLost, Stop, RenewFails
<1>2. CASE UNCHANGED lease
  BY <1>2 DEF lease, Armed, TimerHeld, BeatToken, Held
<1>3. ASSUME NEW i \in Insts, Crash(i) PROVE Armed'
  BY <1>0, <1>3 DEF Crash, LeaseTypeOK, Armed, TimerHeld, BeatToken, Held, NoBeat
<1>4. ASSUME NEW i \in Insts,
             \/ Hydrated(i) \/ StreamOpens(i) \/ StreamCloses(i) \/ StopThrows(i) \/ Stopped(i)
             \/ Write(i) \/ Flush(i) \/ Send(i) \/ SendFails(i) \/ Acked(i) \/ Refused(i)
      PROVE  UNCHANGED lease
  BY <1>4 DEF Hydrated, StreamOpens, StreamCloses, StopThrows, Stopped, Write, Flush, Send,
              SendFails, Acked, Refused
<1>5. ASSUME NEW m \in net, Serve(m) PROVE UNCHANGED lease
  BY <1>5 DEF Serve
<1>6. ASSUME LapseOfAbandoned \/ LapseOfPaused PROVE UNCHANGED lease
  BY <1>6 DEF LapseOfAbandoned, LapseOfPaused, Lapse
<1>7. QED
  BY <1>1, <1>2, <1>3, <1>4, <1>5, <1>6 DEF Next, vars

(* No heartbeat outlives the grant it renews: whatever is released or lost *)
(* while a renewal is awaited, no timer is left behind.                    *)
THEOREM HeartbeatsOfHolders == Spec => []TimerHeld
<1>1. Init => Armed
  BY DEF Init, LeaseInit, Armed, TimerHeld, BeatToken, NoBeat
<1>2. TypeOK /\ Armed /\ [Next]_vars => Armed'
  BY ArmedStep
<1>3. Armed => TimerHeld
  BY DEF Armed
<1>4. QED
  BY <1>1, <1>2, <1>3, TypeCorrect, PTL DEF Spec

(* A session that left acquire() and is still starting holds the lease;    *)
(* completing the start, or a stream that opens, then gives it a right it  *)
(* holds the lease for.                                                    *)
StartedHeld == \A i \in Insts : lc[i] = "starting" /\ ctl[i] # "acquiring" => Held(i)

ActsHeld == TransportsHeld /\ StartedHeld

(* Every step, the lifecycle's failure on a lost lease included, keeps it. *)
LEMMA ActsHeldStep == TypeOK /\ ActsHeld /\ [Next]_vars => ActsHeld'
<1> SUFFICES ASSUME TypeOK, ActsHeld, [Next]_vars PROVE ActsHeld'
  OBVIOUS
<1> USE DEF ActsHeld, TransportsHeld, StartedHeld, MayWrite, Held, session, TypeOK, LeaseTypeOK,
            Goes, Phase
<1>1. ASSUME NEW i \in Insts, LeaseStep(i), UNCHANGED <<fence, session, traffic, ghosts, used>>
      PROVE  ActsHeld'
  <2>1. handle' = handle
    BY <1>1 DEF LeaseStep, Grant, ServeRenew, ServeRelease, Beat, BeatReturns, BeatQuiet, lease
  <2>2. QED
    BY <1>1, <2>1
<1>2. ASSUME NEW i \in Insts, Start(i) PROVE ActsHeld'
  BY <1>2 DEF Start, Acquire, lease
<1>3. ASSUME NEW i \in Insts, Acquired(i) PROVE ActsHeld'
  BY <1>3 DEF Acquired, Adopt
<1>4. ASSUME NEW i \in Insts, AcquireFails(i) PROVE ActsHeld'
  BY <1>4 DEF AcquireFails, GiveUp, lease
<1>5. ASSUME NEW i \in Insts, Hydrated(i) PROVE ActsHeld'
  <2>1. ctl[i] # "acquiring" /\ handle' = handle /\ stream' = stream
        /\ lc' = [lc EXCEPT ![i] = StartedPhase(i)]
        /\ \A j \in Insts : j # i => ctl'[j] = ctl[j]
    BY <1>5 DEF Hydrated, lease
  <2>2. StartedPhase(i) # "starting"
    BY DEF StartedPhase
  <2>3. StartedPhase(i) \in {"online", "offline"} => handle[i] # 0
    BY <2>1 DEF StartedPhase
  <2>4. QED
    BY <2>1, <2>2, <2>3
<1>6. ASSUME NEW i \in Insts, StreamOpens(i) \/ StreamCloses(i) PROVE ActsHeld'
  BY <1>6 DEF StreamOpens, StreamCloses, lease
<1>7. ASSUME NEW i \in Insts, LeaseLost(i) PROVE ActsHeld'
  BY <1>7 DEF LeaseLost, BeatLost, OnLost, StopTransports, Running
<1>8. ASSUME NEW i \in Insts, Stop(i) PROVE ActsHeld'
  BY <1>8 DEF Stop, Release, StopTransports
<1>9. ASSUME NEW i \in Insts, StopThrows(i) \/ Stopped(i) PROVE ActsHeld'
  BY <1>9 DEF StopThrows, Stopped, lease
<1>10. ASSUME NEW i \in Insts, Write(i) \/ Flush(i) \/ Send(i) PROVE ActsHeld'
  BY <1>10 DEF Write, Flush, Send, lease
<1>11. ASSUME NEW i \in Insts, SendFails(i) \/ Acked(i) \/ Refused(i) PROVE ActsHeld'
  BY <1>11 DEF SendFails, Acked, Refused, Proceeds, lease
<1>12. ASSUME NEW i \in Insts, Crash(i) PROVE ActsHeld'
  BY <1>12 DEF Crash
<1>13. ASSUME NEW m \in net, Serve(m) PROVE ActsHeld'
  BY <1>13 DEF Serve, lease
<1>14. ASSUME LapseOfAbandoned \/ LapseOfPaused, UNCHANGED <<fence, session, traffic, ghosts>>
       PROVE  ActsHeld'
  BY <1>14 DEF LapseOfAbandoned, LapseOfPaused, Lapse, lease
<1>15. ASSUME NEW i \in Insts, RenewFails(i) PROVE ActsHeld'
  BY <1>15 DEF RenewFails, BeatRetries
<1>16. CASE UNCHANGED vars
  BY <1>16 DEF vars, lease
<1>17. QED
  BY <1>1, <1>2, <1>3, <1>4, <1>5, <1>6, <1>7, <1>8, <1>9, <1>10, <1>11, <1>12, <1>13, <1>14,
     <1>15, <1>16 DEF Next

(* Whoever runs transports or may write believes it holds the lease; the   *)
(* loss a heartbeat notices takes both away in the same step.              *)
THEOREM OnlyHoldersAct == Spec => []TransportsHeld
<1>1. Init => ActsHeld
  BY DEF Init, ActsHeld, TransportsHeld, StartedHeld, MayWrite
<1>2. TypeOK /\ ActsHeld /\ [Next]_vars => ActsHeld'
  BY ActsHeldStep
<1>3. ActsHeld => TransportsHeld
  BY DEF ActsHeld
<1>4. QED
  BY <1>1, <1>2, <1>3, TypeCorrect, PTL DEF Spec

-----------------------------------------------------------------------------
(* The outbox *)

(* Only a request that is served writes the outbox or moves the fence.     *)
LEMMA OnlyServeCommits ==
  ASSUME [Next]_vars
  PROVE  UNCHANGED <<fence, log>> \/ \E m \in net : Serve(m)
<1> USE DEF traffic
<1>1. ASSUME NEW i \in Insts,
             \/ Start(i) \/ Acquired(i) \/ AcquireFails(i) \/ Hydrated(i) \/ LeaseLost(i)
             \/ StreamOpens(i) \/ StreamCloses(i) \/ Stop(i) \/ StopThrows(i) \/ Stopped(i)
      PROVE  UNCHANGED <<fence, log>>
  BY <1>1 DEF Start, Acquired, AcquireFails, Hydrated, LeaseLost, StreamOpens, StreamCloses,
              Stop, StopThrows, Stopped
<1>2. ASSUME NEW i \in Insts,
             Write(i) \/ Flush(i) \/ Send(i) \/ SendFails(i) \/ Acked(i) \/ Refused(i) \/ Crash(i)
      PROVE  UNCHANGED <<fence, log>>
  BY <1>2 DEF Write, Flush, Send, SendFails, Acked, Refused, Crash
<1>3. QED
  BY <1>1, <1>2 DEF Next, vars, RenewFails

(* What was committed stays committed.                                     *)
LEMMA CommittedStays ==
  ASSUME TypeOK, [Next]_vars, NEW k, Committed(k)
  PROVE  Committed(k)'
<1>1. CASE UNCHANGED <<fence, log>>
  BY <1>1 DEF Committed
<1>2. ASSUME NEW m \in net, Serve(m) PROVE Committed(k)'
  <2>1. CASE log' = log
    BY <2>1 DEF Committed
  <2>2. CASE log' = Appends(m)
    BY <2>2, AppendCommits DEF Committed
  <2>3. QED
    BY <1>2, <2>1, <2>2 DEF Serve
<1>3. QED
  BY <1>1, <1>2, OnlyServeCommits

(* A served request that passes the fence is committed, whether this       *)
(* delivery of it is the first or not.                                     *)
LEMMA ServeCommits ==
  ASSUME TypeOK, NEW m \in net, Serve(m), PassesFence(m.token)
  PROVE  Committed(m.key)'
<1>1. CASE Committed(m.key)
  BY <1>1 DEF Serve, Committed
<1>2. CASE ~Committed(m.key)
  <2>1. log' = Appends(m)
    BY <1>2 DEF Serve
  <2>2. Len(log) + 1 \in DOMAIN log' /\ log'[Len(log) + 1].key = m.key
    BY <2>1, AppendCommits
  <2>3. QED
    BY <2>2 DEF Committed
<1>3. QED
  BY <1>1, <1>2

(* Tokens in the outbox are numbers.                                       *)
LEMMA TokenTypes ==
  ASSUME TypeOK
  PROVE  \A n \in DOMAIN log : log[n].token \in Nat
<1> DEFINE Entry == [key : Writes, by : Insts, token : Nat]
<1>1. log \in Seq(Entry) /\ \A e \in Entry : e.token \in Nat
  BY DEF TypeOK
<1> HIDE DEF Entry
<1>2. \A n \in DOMAIN log : log[n] \in Entry
  BY <1>1
<1>3. QED
  BY <1>1, <1>2

(* The fence is at least every token it let pass.                          *)
TokensFenced == \A n \in DOMAIN log : log[n].token <= fence

Ordered == FencedInOrder /\ TokensFenced

(* A request below the fence is refused; one that passes raises it.        *)
LEMMA OrderedStep == TypeOK /\ Ordered /\ [Next]_vars => Ordered'
<1> SUFFICES ASSUME TypeOK, Ordered, [Next]_vars PROVE Ordered'
  OBVIOUS
<1>1. CASE UNCHANGED <<fence, log>>
  BY <1>1 DEF Ordered, FencedInOrder, TokensFenced
<1>2. ASSUME NEW m \in net, Serve(m) PROVE Ordered'
  <2>1. fence \in Nat /\ m.token \in Nat
    BY DEF TypeOK, LeaseTypeOK
  <2>2. \A n \in DOMAIN log : log[n].token \in Nat
    BY TokenTypes
  <2>3. fence' \in Nat /\ fence' >= fence
    BY <1>2, <2>1 DEF Serve, AssertFence
  <2>4. CASE log' = log
    BY <2>1, <2>2, <2>3, <2>4 DEF Ordered, FencedInOrder, TokensFenced
  <2>5. CASE log' = Appends(m) /\ log' # log
    <3> DEFINE last == Len(log) + 1
    <3>1. /\ DOMAIN log = 1 .. Len(log) /\ Len(log) \in Nat
          /\ DOMAIN log' = 1 .. last
          /\ \A n \in DOMAIN log : log'[n] = log[n]
          /\ log'[last].token = m.token
      BY <2>5, AppendCommits
    <3>2. m.token = 0 \/ m.token >= fence
      BY <1>2, <2>5 DEF Serve, PassesFence
    <3>3. m.token <= fence'
      BY <1>2, <2>1, <2>5 DEF Serve, AssertFence
    <3>4. \A n \in DOMAIN log' : n = last \/ n \in DOMAIN log
      <4>1. \A len \in Nat : \A n \in 1 .. (len + 1) : n = len + 1 \/ n \in 1 .. len
        OBVIOUS
      <4>2. QED
        BY <3>1, <4>1
    <3>5. TokensFenced'
      BY <2>1, <2>2, <2>3, <3>1, <3>3, <3>4 DEF Ordered, TokensFenced
    <3>6. FencedInOrder'
      <4> SUFFICES ASSUME NEW n \in DOMAIN log', NEW o \in DOMAIN log', n < o,
                          log'[n].token # 0, log'[o].token # 0
                   PROVE  log'[n].token <= log'[o].token
        BY DEF FencedInOrder
      <4>1. n \in DOMAIN log
        <5>1. o \in 1 .. last /\ Len(log) \in Nat
          BY <3>1
        <5>2. n # last
          BY <5>1
        <5>3. QED
          BY <3>4, <5>2
      <4>2. CASE o \in DOMAIN log
        BY <3>1, <4>1, <4>2 DEF Ordered, FencedInOrder
      <4>3. CASE o = last
        BY <2>1, <2>2, <3>1, <3>2, <4>1, <4>3 DEF Ordered, TokensFenced
      <4>4. QED
        BY <3>4, <4>2, <4>3
    <3>7. QED
      BY <3>5, <3>6 DEF Ordered
  <2>6. QED
    BY <1>2, <2>4, <2>5 DEF Serve
<1>3. QED
  BY <1>1, <1>2, OnlyServeCommits

(* Commits of fenced requests are in the order of the grants they were     *)
(* made under, however long a request of an old grant is delayed.          *)
THEOREM CommitsInGrantOrder == Spec => []FencedInOrder
<1>1. Init => Ordered
  BY DEF Init, Ordered, FencedInOrder, TokensFenced
<1>2. TypeOK /\ Ordered /\ [Next]_vars => Ordered'
  BY OrderedStep
<1>3. Ordered => FencedInOrder
  BY DEF Ordered
<1>4. QED
  BY <1>1, <1>2, <1>3, TypeCorrect, PTL DEF Spec

-----------------------------------------------------------------------------
(* The shared queue *)

(* A call is told that its request was served only when it was committed.  *)
OkCommitted == \A i \in Insts : call[i].pc = "ok" => Committed(First(call[i].batch))

(* It is told by the transaction that committed, or saw the key committed. *)
LEMMA OkCommittedStep == Known /\ OkCommitted /\ [Next]_vars => OkCommitted'
<1> SUFFICES ASSUME TypeOK, CallsKnown, OkCommitted, [Next]_vars,
                    NEW j \in Insts, call'[j].pc = "ok", NEW k, k = First(call'[j].batch)
             PROVE  Committed(k)'
  BY DEF Known, OkCommitted, Committed
<1> USE DEF traffic
<1>1. CASE call'[j] = call[j]
  <2>1. Committed(k)
    BY <1>1 DEF OkCommitted
  <2>2. QED
    BY <2>1, CommittedStays
<1>2. ASSUME NEW i \in Insts, \/ Write(i) \/ Flush(i) \/ Send(i) \/ Crash(i) \/ Hydrated(i)
      PROVE  call'[j] = call[j]
  BY <1>2 DEF TypeOK, Write, Flush, Send, Crash, Hydrated, Idle, CallState
<1>3. ASSUME NEW i \in Insts, \/ SendFails(i) \/ Acked(i) \/ Refused(i)
      PROVE  call'[j] = call[j]
  <2>1. PICK batch : Proceeds(i, batch)
    BY <1>3 DEF SendFails, Acked, Refused
  <2>2. QED
    BY <2>1 DEF Proceeds, TypeOK, Idle
<1>4. ASSUME NEW m \in net, Serve(m), call'[j] # call[j]
      PROVE  Committed(k)'
  <2>1. m.awaited /\ m.from = j
    BY <1>4 DEF Serve, Answer, TypeOK
  <2>2. call'[j].batch = call[j].batch /\ PassesFence(m.token)
    BY <1>4, <2>1 DEF Serve, Answer, TypeOK, CallState
  <2>3. m.key = k
    BY <2>1, <2>2 DEF CallsKnown
  <2>4. QED
    BY <1>4, <2>2, <2>3, ServeCommits
<1>5. CASE UNCHANGED traffic
  BY <1>1, <1>5
<1>6. ASSUME NEW i \in Insts,
             \/ Start(i) \/ Acquired(i) \/ AcquireFails(i) \/ LeaseLost(i)
             \/ StreamOpens(i) \/ StreamCloses(i) \/ Stop(i) \/ StopThrows(i) \/ Stopped(i)
      PROVE  UNCHANGED traffic
  BY <1>6 DEF Start, Acquired, AcquireFails, LeaseLost, StreamOpens, StreamCloses, Stop,
              StopThrows, Stopped
<1>7. QED
  BY <1>1, <1>2, <1>3, <1>4, <1>5, <1>6 DEF Next, vars, RenewFails

(* What a session may no longer send it has committed or leaves queued.    *)
LEMMA NoWriteLostStep == TypeOK /\ OkCommitted /\ NoWriteLost /\ [Next]_vars => NoWriteLost'
<1> SUFFICES ASSUME TypeOK, OkCommitted, NoWriteLost, [Next]_vars,
                    NEW k \in 1 .. used'.writes
             PROVE  k \in queue' \/ Committed(k)'
  BY DEF NoWriteLost
<1> USE DEF traffic
<1>1. CASE queue \subseteq queue' /\ k \in 1 .. used.writes
  BY <1>1, CommittedStays DEF NoWriteLost
<1>2. ASSUME NEW i \in Insts, Acked(i) PROVE k \in queue' \/ Committed(k)'
  <2>1. queue' = queue \ {First(call[i].batch)} /\ used' = used
    BY <1>2 DEF Acked
  <2>2. Committed(First(call[i].batch))
    BY <1>2 DEF Acked, OkCommitted
  <2>3. QED
    BY <2>1, <2>2, CommittedStays DEF NoWriteLost
<1>3. ASSUME NEW i \in Insts, Write(i) PROVE k \in queue' \/ Committed(k)'
  <2>1. queue' = queue \cup {used.writes + 1} /\ used'.writes = used.writes + 1
    BY <1>3 DEF Write, TypeOK, Bounds
  <2>2. used.writes \in Nat
    BY EnvironmentAssumption DEF TypeOK, Bounds
  <2>3. k = used.writes + 1 \/ k \in 1 .. used.writes
    BY <2>1, <2>2
  <2>4. QED
    BY <2>1, <2>3, CommittedStays DEF NoWriteLost
<1>4. CASE queue' = queue /\ used'.writes = used.writes
  BY <1>1, <1>4
<1>5. ASSUME NEW i \in Insts,
             \/ StreamCloses(i) \/ StopThrows(i) \/ SendFails(i) \/ Crash(i) \/ Flush(i)
             \/ RenewFails(i)
      PROVE  queue' = queue /\ used'.writes = used.writes
  BY <1>5 DEF StreamCloses, StopThrows, SendFails, Crash, Flush, RenewFails, Fault, TypeOK, Bounds
<1>6. ASSUME NEW i \in Insts,
             \/ Start(i) \/ Acquired(i) \/ AcquireFails(i) \/ Hydrated(i) \/ LeaseLost(i)
             \/ StreamOpens(i) \/ Stop(i) \/ Stopped(i) \/ Send(i) \/ Refused(i)
      PROVE  queue' = queue /\ used' = used
  BY <1>6 DEF Start, Acquired, AcquireFails, Hydrated, LeaseLost, StreamOpens, Stop, Stopped,
              Send, Refused
<1>7. ASSUME NEW m \in net, Serve(m) PROVE queue' = queue /\ used' = used
  BY <1>7 DEF Serve
<1>8. ASSUME LapseOfAbandoned \/ LapseOfPaused PROVE used'.writes = used.writes
  BY <1>8 DEF LapseOfAbandoned, LapseOfPaused, Fault, TypeOK, Bounds
<1>9. QED
  BY <1>1, <1>2, <1>3, <1>4, <1>5, <1>6, <1>7, <1>8 DEF Next, vars

(* Whatever is fenced off, fails or crashes: a write the store accepted is *)
(* queued until the server has committed it.                               *)
THEOREM QueuedUntilCommitted == Spec => []NoWriteLost
<1>1. Init => OkCommitted /\ NoWriteLost
  BY DEF Init, OkCommitted, NoWriteLost, Idle
<1>2. Known /\ OkCommitted /\ NoWriteLost /\ [Next]_vars => OkCommitted' /\ NoWriteLost'
  BY OkCommittedStep, NoWriteLostStep DEF Known
<1>3. QED
  BY <1>1, <1>2, Typed, PTL DEF Spec

-----------------------------------------------------------------------------
(* Taking over *)

(* While startSync() flushes, what it inherited and has not committed yet  *)
(* is still in the flush's batch.                                          *)
Drains ==
  \A i \in Insts :
    ctl[i] \in {"flushing", "ready"} /\ lc[i] \in Running /\ i \notin broken =>
      \A k \in inherited[i] : Committed(k) \/ (ctl[i] = "flushing" /\ k \in call[i].batch)

(* Hydrating fills the batch, and an entry leaves it only once committed.  *)
LEMMA DrainsStep == TypeOK /\ CallsKnown /\ OkCommitted /\ Drains /\ [Next]_vars => Drains'
<1> SUFFICES ASSUME TypeOK, CallsKnown, OkCommitted, Drains, [Next]_vars,
                    NEW j \in Insts, ctl'[j] \in {"flushing", "ready"}, lc'[j] \in Running,
                    j \notin broken', NEW k \in inherited'[j]
             PROVE  Committed(k)' \/ (ctl'[j] = "flushing" /\ k \in call'[j].batch)
  BY DEF Drains
<1> USE DEF traffic, session, ghosts, Goes, Phase
<1>1. CASE /\ ctl'[j] = ctl[j] /\ lc[j] \in Running /\ broken' = broken
           /\ inherited'[j] = inherited[j]
           /\ ctl[j] = "flushing" => call'[j].batch = call[j].batch
  <2>1. Committed(k) \/ (ctl[j] = "flushing" /\ k \in call[j].batch)
    BY <1>1 DEF Drains
  <2>2. CASE Committed(k)
    BY <2>2, CommittedStays
  <2>3. CASE ctl[j] = "flushing" /\ k \in call[j].batch
    BY <1>1, <2>3
  <2>4. QED
    BY <2>1, <2>2, <2>3
<1>2. ASSUME NEW i \in Insts, Hydrated(i)
      PROVE  Committed(k)' \/ (ctl'[j] = "flushing" /\ k \in call'[j].batch)
  <2>1. CASE i # j
    BY <1>1, <1>2, <2>1 DEF Hydrated, TypeOK
  <2>2. CASE i = j
    <3>1. lc'[j] # "starting" /\ inherited'[j] = queue
      BY <1>2, <2>2 DEF Hydrated, StartedPhase, TypeOK
    <3>2. MayWrite(j)'
      BY <3>1 DEF MayWrite, Running
    <3>3. ctl' = [ctl EXCEPT ![j] = "flushing"]
          /\ call' = [call EXCEPT ![j] = [pc |-> "send", batch |-> queue]]
      BY <1>2, <2>2, <3>1, <3>2 DEF Hydrated
    <3>4. QED
      BY <3>1, <3>3 DEF TypeOK
  <2>3. QED
    BY <2>1, <2>2
<1>3. ASSUME NEW i \in Insts, Acked(i)
      PROVE  Committed(k)' \/ (ctl'[j] = "flushing" /\ k \in call'[j].batch)
  <2> DEFINE sent == First(call[i].batch)
             rest == call[i].batch \ {sent}
  <2>1. Proceeds(i, rest) /\ Committed(sent) /\ UNCHANGED <<lc, broken, inherited>>
    BY <1>3 DEF Acked, OkCommitted
  <2> HIDE DEF sent
  <2>2. CASE i # j
    BY <1>1, <2>1, <2>2 DEF Proceeds, TypeOK
  <2>3. CASE i = j
    <3>1. ctl[j] \in {"flushing", "ready"}
      BY <2>1, <2>3 DEF Proceeds, TypeOK
    <3>2. Committed(k) \/ (ctl[j] = "flushing" /\ k \in call[j].batch)
      BY <2>1, <3>1 DEF Drains
    <3>3. CASE Committed(k) \/ k = sent
      <4>1. Committed(k)
        BY <2>1, <3>3
      <4>2. QED
        BY <4>1, CommittedStays
    <3>4. CASE ctl[j] = "flushing" /\ k \in rest
      BY <2>1, <2>3, <3>4 DEF Proceeds, TypeOK
    <3>5. QED
      BY <2>3, <3>2, <3>3, <3>4
  <2>4. QED
    BY <2>2, <2>3
<1>4. ASSUME NEW i \in Insts, Refused(i) \/ SendFails(i)
      PROVE  Committed(k)' \/ (ctl'[j] = "flushing" /\ k \in call'[j].batch)
  <2>1. i # j /\ j \notin broken /\ Proceeds(i, {}) /\ UNCHANGED <<lc, inherited>>
    BY <1>4 DEF Refused, SendFails
  <2>2. ctl'[j] = ctl[j] /\ call'[j] = call[j]
    BY <2>1 DEF Proceeds, TypeOK
  <2>3. QED
    BY <2>1, <2>2, CommittedStays DEF Drains
<1>5. ASSUME NEW i \in Insts, Write(i) \/ Flush(i) \/ Send(i)
      PROVE  Committed(k)' \/ (ctl'[j] = "flushing" /\ k \in call'[j].batch)
  <2>1. UNCHANGED <<ctl, lc, broken, inherited>>
    BY <1>5 DEF Write, Flush, Send
  <2>2. ctl[j] = "flushing" => call'[j].batch = call[j].batch
    <3>1. CASE Write(i) \/ Flush(i)
      BY <3>1 DEF Write, Flush, TypeOK
    <3>2. CASE Send(i)
      <4>1. call' = [call EXCEPT ![i] = [@ EXCEPT !.pc = "wait"]] /\ call[i] \in CallState
        BY <3>2 DEF Send, TypeOK
      <4>2. QED
        BY <4>1 DEF TypeOK, CallState
    <3>3. QED
      BY <1>5, <3>1, <3>2
  <2>3. QED
    BY <1>1, <2>1, <2>2
<1>6. ASSUME NEW i \in Insts, \/ Start(i) \/ Acquired(i) \/ AcquireFails(i) \/ StopThrows(i)
                              \/ Stop(i) \/ Stopped(i) \/ Crash(i)
      PROVE  Committed(k)' \/ (ctl'[j] = "flushing" /\ k \in call'[j].batch)
  <2>1. i # j
    BY <1>6 DEF Start, Acquired, AcquireFails, StopThrows, Stop, Stopped, Crash, TypeOK
  <2>2. ctl'[j] = ctl[j] /\ lc'[j] = lc[j] /\ call'[j] = call[j]
    BY <1>6, <2>1 DEF Start, Acquired, AcquireFails, StopThrows, Stop, Stopped, Crash, TypeOK
  <2>3. UNCHANGED <<broken, inherited>>
    BY <1>6 DEF Start, Acquired, AcquireFails, StopThrows, Stop, Stopped, Crash
  <2>4. QED
    BY <1>1, <2>2, <2>3
<1>7. ASSUME NEW i \in Insts, StreamOpens(i) \/ StreamCloses(i) \/ LeaseLost(i)
      PROVE  Committed(k)' \/ (ctl'[j] = "flushing" /\ k \in call'[j].batch)
  <2>1. UNCHANGED <<ctl, call, broken, inherited>>
    BY <1>7 DEF StreamOpens, StreamCloses, LeaseLost, OnLost
  <2>2. lc[j] \in Running
    BY <1>7 DEF StreamOpens, StreamCloses, LeaseLost, OnLost, Running, TypeOK
  <2>3. QED
    BY <1>1, <2>1, <2>2
<1>8. ASSUME NEW m \in net, Serve(m)
      PROVE  Committed(k)' \/ (ctl'[j] = "flushing" /\ k \in call'[j].batch)
  <2>1. UNCHANGED <<ctl, lc, broken, inherited>> /\ \E pc : Answer(m, pc)
    BY <1>8 DEF Serve
  <2>2. call'[j].batch = call[j].batch
    BY <2>1 DEF Answer, TypeOK, CallState
  <2>3. QED
    BY <1>1, <2>1, <2>2
<1>9. CASE UNCHANGED <<session, traffic, ghosts>>
  BY <1>1, <1>9
<1>10. QED
  BY <1>2, <1>3, <1>4, <1>5, <1>6, <1>7, <1>8, <1>9 DEF Next, vars, RenewFails

(* A session that was promoted, runs and saw no call fail has committed    *)
(* everything the last holder of the lease left queued.                    *)
THEOREM SuccessorDrains == Spec => []TakeoverDrains
<1>1. Init => OkCommitted /\ Drains
  BY DEF Init, OkCommitted, Drains, Idle
<1>2. Known /\ OkCommitted /\ Drains /\ [Next]_vars => OkCommitted' /\ Drains'
  BY OkCommittedStep, DrainsStep DEF Known
<1>3. Drains => TakeoverDrains
  BY DEF Drains, TakeoverDrains
<1>4. QED
  BY <1>1, <1>2, <1>3, Typed, PTL DEF Spec

-----------------------------------------------------------------------------
(* The ledger of WriteLedger                                               *)

(* Calls and requests are for writes the store accepted.                   *)
Owed ==
  /\ queue \subseteq 1 .. used.writes
  /\ \A i \in Insts : call[i].batch \subseteq 1 .. used.writes
  /\ \A m \in net : m.key \in 1 .. used.writes

(* A batch is taken from the queue, and a request from a batch.            *)
LEMMA OwedStep == TypeOK /\ CallsKnown /\ Owed /\ [Next]_vars => Owed'
<1> SUFFICES ASSUME TypeOK, CallsKnown, Owed, [Next]_vars PROVE Owed'
  OBVIOUS
<1> USE DEF traffic
<1>0. used.writes \in Nat /\ MaxCalls \in Nat
  BY EnvironmentAssumption DEF TypeOK, Bounds
<1>1. CASE UNCHANGED traffic /\ used'.writes = used.writes
  BY <1>1 DEF Owed
<1>2. ASSUME NEW i \in Insts, Write(i) PROVE Owed'
  <2>1. used'.writes = used.writes + 1
    BY <1>2 DEF Write, TypeOK, Bounds
  <2>2. \A k \in 1 .. used.writes : k \in 1 .. used'.writes
    BY <1>0, <2>1
  <2>3. used.writes + 1 \in 1 .. used'.writes
    BY <1>0, <2>1
  <2>4. queue' = queue \cup {used.writes + 1} /\ net' = net
        /\ call' = [call EXCEPT ![i] = [pc |-> "send", batch |-> {used.writes + 1}]]
    BY <1>2 DEF Write
  <2>5. QED
    BY <2>2, <2>3, <2>4 DEF Owed, TypeOK
<1>3. ASSUME NEW i \in Insts, Flush(i) \/ Hydrated(i) PROVE Owed'
  <2>1. queue' = queue /\ net' = net /\ used'.writes = used.writes
    BY <1>3 DEF Flush, Hydrated, TypeOK, Bounds
  <2>2. call' = call \/ call' = [call EXCEPT ![i] = [pc |-> "send", batch |-> queue]]
    BY <1>3 DEF Flush, Hydrated
  <2>3. \A j \in Insts : call'[j].batch = call[j].batch \/ call'[j].batch = queue
    <3>1. CASE call' = [call EXCEPT ![i] = [pc |-> "send", batch |-> queue]]
      BY <3>1 DEF TypeOK
    <3>2. QED
      BY <2>2, <3>1
  <2>4. QED
    BY <2>1, <2>3 DEF Owed
<1>4. ASSUME NEW i \in Insts, Send(i) PROVE Owed'
  <2>1. call[i].batch \in SUBSET Writes /\ call[i].batch # {}
    BY <1>4 DEF Send, TypeOK, CallState, CallsKnown
  <2>2. Request(i).key \in call[i].batch
    BY <2>1, FirstIn DEF Request
  <2>3. queue' = queue /\ used' = used /\ net' = net \cup {Request(i)}
        /\ call' = [call EXCEPT ![i] = [@ EXCEPT !.pc = "wait"]]
    BY <1>4 DEF Send
  <2>4. \A j \in Insts : call'[j].batch = call[j].batch
    BY <2>3 DEF TypeOK, CallState
  <2>5. Request(i).key \in 1 .. used.writes
    BY <2>2 DEF Owed
  <2>6. \A m \in net' : m \in net \/ m = Request(i)
    BY <2>3
  <2>7. \A m \in net' : m.key \in 1 .. used'.writes
    BY <2>3, <2>5, <2>6 DEF Owed
  <2>8. QED
    BY <2>3, <2>4, <2>7 DEF Owed
<1>5. ASSUME NEW i \in Insts, Acked(i) \/ Refused(i) \/ SendFails(i) PROVE Owed'
  <2>1. PICK batch \in SUBSET call[i].batch : Proceeds(i, batch)
    BY <1>5 DEF Acked, Refused, SendFails
  <2>2. \A j \in Insts : call'[j].batch \subseteq call[j].batch
    BY <2>1 DEF Proceeds, Idle, TypeOK
  <2>3. queue' \subseteq queue /\ used'.writes = used.writes
    BY <1>5 DEF Acked, Refused, SendFails, Fault, TypeOK, Bounds
  <2>4. \A m \in net' : \E l \in net : l.key = m.key
    <3>1. net' \in {net, Abandon(i), Drop(i)}
      BY <1>5 DEF Acked, Refused, SendFails
    <3>2. \A m \in Abandon(i) : \E l \in net : l.key = m.key
      BY DEF Abandon, TypeOK
    <3>3. QED
      BY <3>1, <3>2 DEF Drop
  <2>5. QED
    BY <2>2, <2>3, <2>4 DEF Owed
<1>6. ASSUME NEW i \in Insts, Crash(i) PROVE Owed'
  <2>1. queue' = queue /\ used'.writes = used.writes
    BY <1>6 DEF Crash, Fault, TypeOK, Bounds
  <2>2. \A j \in Insts : call'[j].batch \subseteq call[j].batch
    BY <1>6 DEF Crash, Idle, TypeOK
  <2>3. \A m \in net' : \E l \in net : l.key = m.key
    <3>1. net' = Abandon(i)
      BY <1>6 DEF Crash
    <3>2. QED
      BY <3>1 DEF Abandon, TypeOK
  <2>4. QED
    BY <2>1, <2>2, <2>3 DEF Owed
<1>7. ASSUME NEW m \in net, Serve(m) PROVE Owed'
  <2>1. queue' = queue /\ used' = used /\ net' \subseteq net /\ \E pc : Answer(m, pc)
    BY <1>7 DEF Serve
  <2>2. \A j \in Insts : call'[j].batch = call[j].batch
    BY <2>1 DEF Answer, TypeOK, CallState
  <2>3. QED
    BY <2>1, <2>2 DEF Owed
<1>8. ASSUME NEW i \in Insts,
             \/ Start(i) \/ Acquired(i) \/ AcquireFails(i) \/ LeaseLost(i) \/ RenewFails(i)
             \/ StreamOpens(i) \/ StreamCloses(i) \/ Stop(i) \/ StopThrows(i) \/ Stopped(i)
      PROVE  UNCHANGED traffic /\ used'.writes = used.writes
  BY <1>8 DEF Start, Acquired, AcquireFails, LeaseLost, RenewFails, StreamOpens, StreamCloses,
              Stop, StopThrows, Stopped, Fault, TypeOK, Bounds
<1>9. ASSUME LapseOfAbandoned \/ LapseOfPaused PROVE used'.writes = used.writes
  BY <1>9 DEF LapseOfAbandoned, LapseOfPaused, Fault, TypeOK, Bounds
<1>10. QED
  BY <1>1, <1>2, <1>3, <1>4, <1>5, <1>6, <1>7, <1>8, <1>9 DEF Next, vars

(* The outbox's keys, and what an append does to them.                     *)
Keys(entries) == [n \in DOMAIN entries |-> entries[n].key]

LEMMA KeysAppend ==
  ASSUME TypeOK, NEW m \in net, log' = Appends(m)
  PROVE  Keys(log)' = Append(Keys(log), m.key)
<1> DEFINE len == Len(log)
           keys == Keys(log)
<1>1. /\ DOMAIN log = 1 .. len /\ len \in Nat
      /\ DOMAIN log' = 1 .. (len + 1)
      /\ \A n \in DOMAIN log : n \in DOMAIN log' /\ log'[n] = log[n]
      /\ log'[len + 1].key = m.key
  BY AppendCommits
<1>2. \A n \in 1 .. len : log[n].key \in Writes
  <2>1. log \in Seq([key : Writes, by : Insts, token : Nat])
    BY DEF TypeOK
  <2>2. \A n \in 1 .. len : log[n] \in [key : Writes, by : Insts, token : Nat]
    BY <2>1, ElementOfSeq
  <2>3. QED
    BY <2>2
<1> HIDE DEF len
<1>3. keys \in Seq(Writes) /\ DOMAIN keys = 1 .. len
  BY <1>1, <1>2 DEF Keys
<1>4. m.key \in Writes
  BY DEF TypeOK
<1> HIDE DEF keys
<1>5. Len(keys) = len
  BY <1>1, <1>3
<1>6. /\ Append(keys, m.key) \in Seq(Writes) /\ Len(Append(keys, m.key)) = len + 1
      /\ \A n \in 1 .. len : Append(keys, m.key)[n] = keys[n]
      /\ Append(keys, m.key)[len + 1] = m.key
  BY <1>3, <1>4, <1>5, AppendProperties
<1>7. Append(keys, m.key) = [n \in 1 .. (len + 1) |-> Append(keys, m.key)[n]]
  BY <1>1, <1>6
<1>8. \A n \in 1 .. (len + 1) : n \in 1 .. len \/ n = len + 1
  BY <1>1
<1>9. \A n \in 1 .. (len + 1) : Append(keys, m.key)[n] = log'[n].key
  BY <1>1, <1>6, <1>8 DEF keys, Keys
<1>10. Keys(log)' = [n \in 1 .. (len + 1) |-> log'[n].key]
  BY <1>1 DEF Keys
<1>11. QED
  BY <1>7, <1>9, <1>10 DEF keys

(* Every step of the sessions is a step of the ledger, or none.            *)
LEMMA LedgerStep ==
  TypeOK /\ CallsKnown /\ Counted /\ OkCommitted /\ NoWriteLost /\ Owed /\ [Next]_vars
    => [Ledger!Next]_(Ledger!vars)
<1> SUFFICES ASSUME TypeOK, CallsKnown, Counted, OkCommitted, NoWriteLost, Owed, [Next]_vars
             PROVE  Ledger!Next \/ UNCHANGED Ledger!vars
  OBVIOUS
<1> USE DEF traffic
<1>0. used.writes \in Nat /\ used.calls \in Nat /\ MaxCalls \in Nat
  BY EnvironmentAssumption DEF TypeOK, Bounds
<1>1. \A k : Ledger!Known(k) <=> Committed(k)
  BY DEF Ledger!Known, Committed
<1>2. CASE queue' = queue /\ used'.writes = used.writes /\ log' = log
  BY <1>2 DEF Ledger!vars
<1>3. ASSUME NEW i \in Insts, Write(i) PROVE Ledger!Next
  <2> DEFINE k == used.writes + 1
  <2>1. k \in Writes /\ k \notin 1 .. used.writes
    BY <1>0, <1>3 DEF Write, Writes, Counted
  <2>2. used'.writes = k /\ queue' = queue \cup {k} /\ log' = log
    BY <1>3 DEF Write, TypeOK, Bounds
  <2>3. 1 .. used'.writes = (1 .. used.writes) \cup {k}
    BY <1>0, <2>2
  <2>4. Ledger!Accept(k)
    BY <2>1, <2>2, <2>3 DEF Ledger!Accept
  <2>5. QED
    BY <2>1, <2>4 DEF Ledger!Next
<1>4. ASSUME NEW i \in Insts, Acked(i) PROVE Ledger!Next \/ UNCHANGED Ledger!vars
  <2> DEFINE k == First(call[i].batch)
  <2>1. queue' = queue \ {k} /\ used' = used /\ log' = log
    BY <1>4 DEF Acked
  <2>2. Committed(k)
    BY <1>4 DEF Acked, OkCommitted
  <2> HIDE DEF k
  <2>3. CASE k \in queue
    <3>1. Ledger!Retire(k)
      BY <1>1, <2>1, <2>2, <2>3 DEF Ledger!Retire
    <3>2. QED
      BY <2>3, <3>1 DEF Ledger!Next, TypeOK
  <2>4. CASE k \notin queue
    BY <2>1, <2>4 DEF Ledger!vars
  <2>5. QED
    BY <2>3, <2>4
<1>5. ASSUME NEW m \in net, Serve(m) PROVE Ledger!Next \/ UNCHANGED Ledger!vars
  <2>1. queue' = queue /\ used' = used
    BY <1>5 DEF Serve
  <2>2. CASE log' = log
    BY <1>2, <2>1, <2>2
  <2>3. CASE log' # log
    <3>1. log' = Appends(m) /\ ~Committed(m.key)
      BY <1>5, <2>3 DEF Serve
    <3>2. m.key \in Writes /\ m.key \in 1 .. used.writes
      BY DEF TypeOK, Owed
    <3>3. m.key \in queue
      BY <3>1, <3>2 DEF NoWriteLost
    <3>4. Keys(log)' = Append(Keys(log), m.key)
      BY <3>1, KeysAppend
    <3>5. Ledger!Commit(m.key)
      BY <1>1, <2>1, <3>1, <3>3, <3>4 DEF Ledger!Commit, Keys
    <3>6. QED
      BY <3>2, <3>5 DEF Ledger!Next
  <2>4. QED
    BY <2>2, <2>3
<1>6. ASSUME NEW i \in Insts,
             \/ StreamCloses(i) \/ StopThrows(i) \/ SendFails(i) \/ Crash(i) \/ Flush(i)
             \/ RenewFails(i)
      PROVE  queue' = queue /\ used'.writes = used.writes /\ log' = log
  BY <1>6 DEF StreamCloses, StopThrows, SendFails, Crash, Flush, RenewFails, Fault, TypeOK, Bounds
<1>7. ASSUME NEW i \in Insts,
             \/ Start(i) \/ Acquired(i) \/ AcquireFails(i) \/ Hydrated(i) \/ LeaseLost(i)
             \/ StreamOpens(i) \/ Stop(i) \/ Stopped(i) \/ Send(i) \/ Refused(i)
      PROVE  queue' = queue /\ used'.writes = used.writes /\ log' = log
  BY <1>7 DEF Start, Acquired, AcquireFails, Hydrated, LeaseLost, StreamOpens, Stop, Stopped,
              Send, Refused
<1>8. ASSUME LapseOfAbandoned \/ LapseOfPaused PROVE used'.writes = used.writes
  BY <1>8 DEF LapseOfAbandoned, LapseOfPaused, Fault, TypeOK, Bounds
<1>9. QED
  BY <1>2, <1>3, <1>4, <1>5, <1>6, <1>7, <1>8 DEF Next, vars

(* The sessions of an actor implement the ledger: whatever is retried,     *)
(* refused, delayed past a takeover or cut off by a crash, each accepted   *)
(* write is committed at most once, and forgotten only then.               *)
THEOREM SessionsImplementLedger == Spec => ImplementsLedger
<1>1. Init => Ledger!Init /\ OkCommitted /\ NoWriteLost /\ Owed
  <2> SUFFICES ASSUME Init PROVE Ledger!Init /\ OkCommitted /\ NoWriteLost /\ Owed
    OBVIOUS
  <2>1. used.writes = 0 /\ queue = {} /\ net = {} /\ log = <<>>
        /\ \A i \in Insts : call[i] = [pc |-> "idle", batch |-> {}]
    BY DEF Init, Idle
  <2>2. 1 .. used.writes = {}
    BY <2>1
  <2>3. [n \in DOMAIN log |-> log[n].key] = <<>>
    BY <2>1
  <2>4. Ledger!Init
    BY <2>1, <2>2, <2>3 DEF Ledger!Init
  <2>5. QED
    BY <2>1, <2>2, <2>4 DEF OkCommitted, NoWriteLost, Owed
<1>2. Known /\ OkCommitted /\ NoWriteLost /\ Owed /\ [Next]_vars
        => OkCommitted' /\ NoWriteLost' /\ Owed' /\ [Ledger!Next]_(Ledger!vars)
  BY OkCommittedStep, NoWriteLostStep, OwedStep, LedgerStep DEF Known
<1>3. QED
  BY <1>1, <1>2, Typed, PTL DEF Spec, ImplementsLedger, Ledger!Spec

-----------------------------------------------------------------------------
(* The lifecycle machine of an instance                                    *)

(* The two kinds of snapshots: without a token, and under one.             *)
Ended(phase, generation, failure) ==
  [phase |-> phase, operation |-> "none", generation |-> generation, active_token |-> 0,
   desired_running |-> FALSE, online |-> FALSE, failure |-> failure]
Under(phase, operation, token, running, online) ==
  [phase |-> phase, operation |-> operation, generation |-> token, active_token |-> token,
   desired_running |-> running, online |-> online, failure |-> "none"]

(* The snapshot of a session that ended or failed has no token.            *)
LEMMA QuietMachine ==
  ASSUME NEW where, NEW wire, NEW phase \in {"stopped", "failed"}
  PROVE  MachineOf(where, phase, wire)
           = Ended(phase, GenerationOf(where, phase, wire), FailureOf(where, phase, wire))
<1>1. /\ (phase \in Running) = FALSE
      /\ (phase = "online" \/ (phase = "starting" /\ wire = "open")) = FALSE
  BY DEF Running
<1>2. OperationOf(where, phase) = "none"
  BY DEF OperationOf
<1>3. QED
  BY <1>1, <1>2, Zenon DEF MachineOf, Ended

(* A cleanup runs under the second token.                                  *)
LEMMA StoppingMachine ==
  ASSUME NEW where, NEW wire
  PROVE  MachineOf(where, "stopping", wire)
           = Under("stopping", OperationOf(where, "stopping"), 2, FALSE, FALSE)
<1>1. /\ ("stopping" \in Running) = FALSE
      /\ ("stopping" = "online" \/ ("stopping" = "starting" /\ wire = "open")) = FALSE
  BY DEF Running
<1>2. /\ GenerationOf(where, "stopping", wire) = 2 /\ FailureOf(where, "stopping", wire) = "none"
      /\ (IF "stopping" \in {"stopped", "failed"} THEN 0
          ELSE GenerationOf(where, "stopping", wire)) = 2
  BY DEF GenerationOf, FailureOf
<1>3. QED
  BY <1>1, <1>2, Zenon DEF MachineOf, Under

(* The snapshots of startSync() and stop(), by the phase they are in.      *)
LEMMA EndedValues ==
  ASSUME NEW where, NEW wire
  PROVE  /\ where # "closed" => MachineOf(where, "stopped", wire) = Ended("stopped", 0, "none")
         /\ MachineOf("closed", "stopped", wire) = Ended("stopped", 2, "none")
         /\ MachineOf(where, "failed", "leaked") = Ended("failed", 2, "stop")
         /\ wire # "leaked" => MachineOf("closed", "failed", wire) = Ended("failed", 1, "start")
         /\ where # "closed" /\ wire # "leaked"
              => MachineOf(where, "failed", wire) = Ended("failed", 1, "runtime")
<1>1. /\ where # "closed" => GenerationOf(where, "stopped", wire) = 0
      /\ GenerationOf("closed", "stopped", wire) = 2
      /\ FailureOf(where, "stopped", wire) = "none" /\ FailureOf("closed", "stopped", wire) = "none"
  BY DEF GenerationOf, FailureOf
<1>2. /\ GenerationOf(where, "failed", "leaked") = 2 /\ FailureOf(where, "failed", "leaked") = "stop"
      /\ wire # "leaked" =>
           /\ GenerationOf("closed", "failed", wire) = 1 /\ GenerationOf(where, "failed", wire) = 1
           /\ FailureOf("closed", "failed", wire) = "start"
           /\ where # "closed" => FailureOf(where, "failed", wire) = "runtime"
  BY DEF GenerationOf, FailureOf
<1>3. MachineOf(where, "failed", "leaked")
        = Ended("failed", GenerationOf(where, "failed", "leaked"), FailureOf(where, "failed", "leaked"))
  BY QuietMachine
<1>4. QED
  BY QuietMachine, <1>1, <1>2, <1>3

(* A session that runs holds the first token, and knows its connectivity.  *)
LEMMA RunningValues ==
  ASSUME NEW where, NEW wire, wire # "leaked"
  PROVE  /\ MachineOf(where, "starting", "open") = Under("starting", "start", 1, TRUE, TRUE)
         /\ wire # "open" =>
              MachineOf(where, "starting", wire) = Under("starting", "start", 1, TRUE, FALSE)
         /\ MachineOf(where, "online", wire) = Under("online", "none", 1, TRUE, TRUE)
         /\ MachineOf(where, "offline", wire) = Under("offline", "none", 1, TRUE, FALSE)
  BY DEF MachineOf, Running, GenerationOf, OperationOf, FailureOf, Under

(* A cleanup is a stop, or a reconciliation after a failure.               *)
LEMMA StoppingValues ==
  ASSUME NEW where, NEW wire
  PROVE  /\ MachineOf("reconciling", "stopping", wire) = Under("stopping", "reconcile", 2, FALSE, FALSE)
         /\ where # "reconciling" =>
              MachineOf(where, "stopping", wire) = Under("stopping", "stop", 2, FALSE, FALSE)
  BY StoppingMachine DEF OperationOf

(* The reducer's transitions between these values, one lemma per event.    *)
LEMMA Requested ==
  ASSUME NEW i, NEW online \in BOOLEAN,
         \/ /\ Machine(i) = Ended("stopped", 0, "none")
            /\ Machine(i)' = Under("starting", "start", 1, TRUE, FALSE)
         \/ /\ \E phase \in {"online", "offline"} :
                  Machine(i) = Under(phase, "none", 1, TRUE, online)
            /\ Machine(i)' = Under("stopping", "stop", 2, FALSE, FALSE)
         \/ /\ Machine(i) = Ended("failed", 1, "runtime")
            /\ Machine(i)' = Under("stopping", "reconcile", 2, FALSE, FALSE)
  PROVE  Life(i)!Next
<1> USE DEF Life!Next, Life!Apply, Life!None, Ended, Under
<1>1. CASE /\ Machine(i) = Ended("stopped", 0, "none")
           /\ Machine(i)' = Under("starting", "start", 1, TRUE, FALSE)
  BY <1>1 DEF Life!StartRequested
<1>2. CASE /\ \E phase \in {"online", "offline"} :
                 Machine(i) = Under(phase, "none", 1, TRUE, online)
           /\ Machine(i)' = Under("stopping", "stop", 2, FALSE, FALSE)
  <2>1. Life(i)!BeginStop("stop") /\ Machine(i).phase \in {"online", "offline"}
    BY <1>2 DEF Life!BeginStop
  <2> HIDE DEF Life!Apply
  <2>2. Life(i)!StopRequested
    BY <2>1 DEF Life!StopRequested, Life!Running
  <2>3. QED
    BY <2>2
<1>3. CASE /\ Machine(i) = Ended("failed", 1, "runtime")
           /\ Machine(i)' = Under("stopping", "reconcile", 2, FALSE, FALSE)
  <2>1. Life(i)!BeginStop("reconcile")
    BY <1>3 DEF Life!BeginStop
  <2>2. QED
    BY <1>3, <2>1 DEF Life!ReconcileRequested
<1>4. QED
  BY <1>1, <1>2, <1>3

(* The token of the session in force is current.                           *)
LEMMA Current ==
  ASSUME NEW i, NEW token \in {1, 2}, Machine(i).active_token = token, Machine(i).generation = token
  PROVE  Life(i)!Relation(token) = "current" /\ token \in Life(i)!Tokens
  BY DEF Life!Relation, Life!Tokens

(* Completing the start: the stream decides between online and offline.    *)
LEMMA StartSucceeds ==
  ASSUME NEW i, NEW online \in BOOLEAN,
         Machine(i) = Under("starting", "start", 1, TRUE, online),
         Machine(i)' = Under(IF online THEN "online" ELSE "offline", "none", 1, TRUE, online)
  PROVE  Life(i)!Next
<1> DEFINE next == IF online THEN "online" ELSE "offline"
           started == [Machine(i) EXCEPT !.phase = next, !.operation = "none"]
<1>1. Life(i)!Relation(1) = "current" /\ 1 \in Life(i)!Tokens
  BY Current DEF Under
<1>2. Life(i)!Apply(Machine(i)')
  BY DEF Life!Apply, Life!None, Under
<1>3. Machine(i).phase = "starting" /\ Machine(i).online = online
  BY DEF Under
<1>4. started = Machine(i)'
  <2> DEFINE moved == [Machine(i) EXCEPT !.phase = next]
  <2>1. PICK running : running = TRUE
    OBVIOUS
  <2>2. Machine(i) = Under("starting", "start", 1, running, online)
    BY <2>1
  <2> HIDE DEF next
  <2>3. moved = Under(next, "start", 1, running, online)
    BY ONLY <2>2 DEF Under
  <2> HIDE DEF moved
  <2>4. [moved EXCEPT !.operation = "none"] = Under(next, "none", 1, running, online)
    BY <2>3 DEF Under
  <2>5. QED
    BY <2>1, <2>4, Zenon DEF moved, next
<1>5. Life(i)!Apply(started)
  BY <1>2, <1>4, Zenon
<1>6. Life(i)!StartSucceeded(1)
  BY <1>1, <1>3, <1>5 DEF Life!StartSucceeded, Life!WithToken
<1>7. QED
  BY <1>1, <1>6 DEF Life!Next, Life!TokenEvent

(* A stream that opens or closes.                                          *)
LEMMA Connects ==
  ASSUME NEW i, NEW phase \in {"starting", "online", "offline"}, NEW operation,
         NEW next, NEW before, NEW online \in BOOLEAN,
         next = IF phase = "starting" THEN "starting" ELSE IF online THEN "online" ELSE "offline",
         before # online,
         Machine(i) = Under(phase, operation, 1, TRUE, before),
         Machine(i)' = Under(next, operation, 1, TRUE, online)
  PROVE  Life(i)!Next
<1> DEFINE rewired == [Machine(i) EXCEPT !.online = online, !.phase = next]
<1>1. Life(i)!Relation(1) = "current" /\ 1 \in Life(i)!Tokens
  BY Current DEF Under
<1>2. Life(i)!Apply(Machine(i)')
  BY DEF Life!Apply, Life!None, Under
<1>3. Machine(i).phase = phase /\ Machine(i).online = before
  BY DEF Under
<1>4. rewired = Machine(i)'
  <2> DEFINE wired == [Machine(i) EXCEPT !.online = online]
  <2>1. PICK running : running = TRUE
    OBVIOUS
  <2>2. Machine(i) = Under(phase, operation, 1, running, before)
    BY <2>1
  <2>3. wired = Under(phase, operation, 1, running, online)
    BY ONLY <2>2 DEF Under
  <2> HIDE DEF wired
  <2>4. [wired EXCEPT !.phase = next] = Under(next, operation, 1, running, online)
    BY <2>3 DEF Under
  <2>5. QED
    BY <2>1, <2>4, Zenon DEF wired
<1>5. Life(i)!Apply(rewired)
  BY <1>2, <1>4, Zenon
<1>6. Life(i)!ConnectivityChanged(1, online)
  BY <1>1, <1>3, <1>5 DEF Life!ConnectivityChanged, Life!WithToken, Life!Running
<1>7. QED
  BY <1>1, <1>6 DEF Life!Next, Life!TokenEvent

Failed(i, generation, failure) ==
  [Life(i)!Stopped(generation) EXCEPT !.phase = "failed", !.failure = failure]

(* What fail() leaves.                                                     *)
LEMMA Failing ==
  ASSUME NEW i, NEW generation, NEW failure
  PROVE  Failed(i, generation, failure) = Ended("failed", generation, failure)
<1> DEFINE Quiet(quiet, phase, why) ==
             [phase |-> phase, operation |-> "none", generation |-> generation, active_token |-> 0,
              desired_running |-> quiet, online |-> quiet, failure |-> why]
           stopped == Life(i)!Stopped(generation)
           failed == [stopped EXCEPT !.phase = "failed"]
<1>1. PICK quiet : quiet = FALSE
  OBVIOUS
<1>2. stopped = Quiet(quiet, "stopped", "none")
  BY <1>1, Zenon DEF Life!Stopped, Life!None
<1> HIDE DEF stopped
<1>3. failed = Quiet(quiet, "failed", "none")
  BY <1>2
<1> HIDE DEF failed
<1>4. [failed EXCEPT !.failure = failure] = Quiet(quiet, "failed", failure)
  BY <1>3
<1>5. QED
  BY <1>1, <1>4, Zenon DEF failed, stopped, Ended, Failed

(* A start that fails, and a lease lost in any running phase.              *)
LEMMA Fails ==
  ASSUME NEW i, NEW online \in BOOLEAN, NEW phase \in {"starting", "online", "offline"},
         NEW operation, NEW failure,
         failure = "runtime" \/ (phase = "starting" /\ failure = "start"),
         Machine(i) = Under(phase, operation, 1, TRUE, online),
         Machine(i)' = Ended("failed", 1, failure)
  PROVE  Life(i)!Next
<1>1. Life(i)!Relation(1) = "current" /\ 1 \in Life(i)!Tokens
  BY Current DEF Under
<1>2. Life(i)!Apply(Ended("failed", 1, failure)) /\ Machine(i).generation = 1 /\ Machine(i).phase = phase
  BY DEF Life!Apply, Life!None, Under, Ended
<1>3. Failed(i, Machine(i).generation, failure) = Ended("failed", 1, failure)
  BY <1>2, Failing
<1>4. Life(i)!Fail(failure)
  BY <1>2, <1>3, Zenon DEF Life!Fail, Failed
<1>5. failure = "runtime" => Life(i)!RuntimeFailed(1)
  BY <1>1, <1>2, <1>4 DEF Life!RuntimeFailed, Life!WithToken, Life!Running
<1>6. failure = "start" => Life(i)!StartFailed(1)
  BY <1>1, <1>2, <1>4 DEF Life!StartFailed, Life!WithToken
<1>7. QED
  BY <1>1, <1>5, <1>6 DEF Life!Next, Life!TokenEvent

(* The end of a cleanup.                                                   *)
LEMMA StopSucceeds ==
  ASSUME NEW i, NEW operation, Machine(i) = Under("stopping", operation, 2, FALSE, FALSE),
         Machine(i)' = Ended("stopped", 2, "none")
  PROVE  Life(i)!Next
<1>1. Life(i)!Relation(2) = "current" /\ 2 \in Life(i)!Tokens
  BY Current DEF Under
<1>2. Life(i)!Apply(Ended("stopped", 2, "none"))
  BY DEF Life!Apply, Life!None, Under, Ended
<1>3. Life(i)!Stopped(Machine(i).generation) = Ended("stopped", 2, "none") /\ Machine(i).phase = "stopping"
  BY DEF Under, Ended, Life!Stopped, Life!None
<1>4. Life(i)!StopSucceeded(2)
  BY <1>1, <1>2, <1>3 DEF Life!StopSucceeded, Life!WithToken
<1>5. QED
  BY <1>1, <1>4 DEF Life!Next, Life!TokenEvent

(* What startSync() and stop() have reached tells what the machine and the *)
(* stream can be.                                                          *)
Stages(i) ==
  /\ ctl[i] \in {"new", "dead"} => lc[i] = "stopped" /\ stream[i] = "none"
  /\ ctl[i] = "acquiring" => lc[i] = "starting" /\ stream[i] = "none"
  /\ ctl[i] = "hydrating" => lc[i] \in {"starting", "failed"}
  /\ ctl[i] \in {"flushing", "ready"} => lc[i] \in {"online", "offline", "failed"}
  /\ ctl[i] \in {"stopping", "reconciling"} => lc[i] = "stopping" /\ stream[i] = "none"
  /\ ctl[i] = "closed" =>
       /\ lc[i] \in {"stopped", "failed"} /\ stream[i] \in {"none", "leaked"}
       /\ stream[i] = "leaked" => lc[i] = "failed"
  /\ stream[i] = "leaked" => ctl[i] = "closed"
  /\ stream[i] \in {"closed", "open"} => lc[i] \in Running
  /\ ctl[i] \in {"new", "acquiring", "stopping", "reconciling", "dead"} => handle[i] = 0

Staged == \A i \in Insts : Stages(i)

(* A heartbeat that fails is for a grant, so its session has started.      *)
LEMMA StagedStep == Known /\ Armed /\ Staged /\ [Next]_vars => Staged'
<1> SUFFICES ASSUME Known, Armed, Staged, [Next]_vars PROVE Staged'
  OBVIOUS
<1>0. /\ ctl \in [Insts -> {"new", "acquiring", "hydrating", "flushing", "ready", "stopping",
                            "reconciling", "closed", "dead"}]
      /\ lc \in [Insts -> {"stopped", "starting", "online", "offline", "stopping", "failed"}]
      /\ stream \in [Insts -> {"none", "closed", "open", "leaked"}]
      /\ handle \in [Insts -> Nat]
  BY DEF Known, TypeOK, LeaseTypeOK
<1> USE DEF Staged, Stages, Goes, Phase, Running
<1>1. CASE UNCHANGED <<ctl, lc, stream, handle>>
  BY <1>1
<1>2. ASSUME NEW i \in Insts, Start(i) \/ AcquireFails(i) \/ Stopped(i) PROVE Staged'
  BY <1>0, <1>2 DEF Start, AcquireFails, Stopped, Acquire, GiveUp, lease
<1>3. ASSUME NEW i \in Insts, Acquired(i) PROVE Staged'
  BY <1>0, <1>3 DEF Acquired, Adopt
<1>4. ASSUME NEW i \in Insts, Hydrated(i) PROVE Staged'
  BY <1>0, <1>4 DEF Hydrated, StartedPhase, lease
<1>5. ASSUME NEW i \in Insts, StreamOpens(i) \/ StreamCloses(i) PROVE Staged'
  BY <1>0, <1>5 DEF StreamOpens, StreamCloses, lease
<1>6. ASSUME NEW i \in Insts, LeaseLost(i) PROVE Staged'
  <2>1. handle[i] # 0
    BY <1>6 DEF LeaseLost, BeatLost, Armed, BeatToken
  <2>2. QED
    BY <1>0, <1>6, <2>1 DEF LeaseLost, BeatLost, OnLost, StopTransports
<1>7. ASSUME NEW i \in Insts, Stop(i) PROVE Staged'
  BY <1>0, <1>7 DEF Stop, StopTransports, Release
<1>8. ASSUME NEW i \in Insts, StopThrows(i) \/ Crash(i) PROVE Staged'
  BY <1>0, <1>8 DEF StopThrows, Crash, lease
<1>9. ASSUME NEW i \in Insts, Acked(i) \/ Refused(i) \/ SendFails(i) PROVE Staged'
  <2>1. UNCHANGED <<lc, stream, handle>> /\ \E batch : Proceeds(i, batch)
    BY <1>9 DEF Acked, Refused, SendFails, lease
  <2>2. QED
    BY <1>0, <2>1 DEF Proceeds
<1>10. ASSUME NEW i \in Insts, Write(i) \/ Flush(i) \/ Send(i) \/ RenewFails(i)
       PROVE  UNCHANGED <<ctl, lc, stream, handle>>
  BY <1>10 DEF Write, Flush, Send, RenewFails, BeatRetries, session, lease
<1>11. ASSUME NEW i \in Insts, LeaseStep(i), UNCHANGED session
       PROVE  UNCHANGED <<ctl, lc, stream, handle>>
  BY <1>11 DEF LeaseStep, Grant, ServeRenew, ServeRelease, Beat, BeatReturns, BeatQuiet, session, lease
<1>12. ASSUME NEW m \in net, Serve(m) PROVE UNCHANGED <<ctl, lc, stream, handle>>
  BY <1>12 DEF Serve, session, lease
<1>13. ASSUME LapseOfAbandoned \/ LapseOfPaused, UNCHANGED session
       PROVE  UNCHANGED <<ctl, lc, stream, handle>>
  BY <1>13 DEF LapseOfAbandoned, LapseOfPaused, Lapse, session, lease
<1>14. QED
  BY <1>1, <1>2, <1>3, <1>4, <1>5, <1>6, <1>7, <1>8, <1>9, <1>10, <1>11, <1>12, <1>13
     DEF Next, vars, session, lease

(* What an instance's machine may do in a step.                            *)
Moves(i) == Machine(i)' # Machine(i) => Life(i)!Next \/ StopAndFail(i) \/ MachineDies(i)

(* It moves only with its own session.                                     *)
LEMMA MachineFramed ==
  ASSUME NEW i, ctl'[i] = ctl[i], lc'[i] = lc[i], stream'[i] = stream[i]
  PROVE  Moves(i)
  BY DEF Moves, Machine

(* Start, its failure and its success, on top of whatever the stream did   *)
(* and the loss of the lease, which may have come first.                   *)
LEMMA StartMoves ==
  ASSUME Known, Staged, NEW i \in Insts,
         Start(i) \/ Acquired(i) \/ AcquireFails(i) \/ Hydrated(i)
  PROVE  Moves(i)
<1>0. /\ ctl \in [Insts -> {"new", "acquiring", "hydrating", "flushing", "ready", "stopping",
                            "reconciling", "closed", "dead"}]
      /\ lc \in [Insts -> {"stopped", "starting", "online", "offline", "stopping", "failed"}]
      /\ stream \in [Insts -> {"none", "closed", "open", "leaked"}]
  BY DEF Known, TypeOK
<1>1. Stages(i)
  BY DEF Staged
<1> USE DEF Stages, Goes, Phase, Running
<1>2. CASE Start(i)
  <2>1. /\ ctl[i] = "new" /\ lc[i] = "stopped" /\ stream[i] = "none"
        /\ ctl'[i] = "acquiring" /\ lc'[i] = "starting" /\ stream'[i] = "none"
    BY <1>0, <1>1, <1>2 DEF Start
  <2>2. Machine(i) = Ended("stopped", 0, "none")
    BY <2>1, EndedValues DEF Machine
  <2>3. Machine(i)' = Under("starting", "start", 1, TRUE, FALSE)
    BY <2>1, RunningValues DEF Machine
  <2>4. QED
    BY <2>2, <2>3, Requested DEF Moves
<1>3. CASE Acquired(i)
  <2>1. /\ ctl[i] = "acquiring" /\ lc[i] = "starting" /\ stream[i] = "none"
        /\ ctl'[i] = "hydrating" /\ lc'[i] = "starting" /\ stream'[i] = "closed"
    BY <1>0, <1>1, <1>3 DEF Acquired
  <2>2. Machine(i) = Under("starting", "start", 1, TRUE, FALSE)
    BY <2>1, RunningValues DEF Machine
  <2>3. Machine(i)' = Under("starting", "start", 1, TRUE, FALSE)
    BY <2>1, RunningValues DEF Machine
  <2>4. QED
    BY <2>2, <2>3 DEF Moves
<1>4. CASE AcquireFails(i)
  <2>1. /\ ctl[i] = "acquiring" /\ lc[i] = "starting" /\ stream[i] = "none"
        /\ ctl'[i] = "closed" /\ lc'[i] = "failed" /\ stream'[i] = "none"
    BY <1>0, <1>1, <1>4 DEF AcquireFails
  <2>2. Machine(i) = Under("starting", "start", 1, TRUE, FALSE)
    BY <2>1, RunningValues DEF Machine
  <2>3. Machine(i)' = Ended("failed", 1, "start")
    BY <2>1, EndedValues DEF Machine
  <2>4. QED
    BY <2>2, <2>3, Fails DEF Moves
<1>5. CASE Hydrated(i)
  <2>1. /\ ctl[i] = "hydrating" /\ lc[i] \in {"starting", "failed"} /\ stream[i] # "leaked"
        /\ ctl'[i] \in {"flushing", "ready"} /\ stream'[i] = stream[i]
        /\ lc'[i] = StartedPhase(i)
    BY <1>0, <1>1, <1>5 DEF Hydrated
  <2>2. CASE lc[i] = "failed"
    <3>1. lc'[i] = "failed"
      BY <2>1, <2>2 DEF StartedPhase
    <3>2. Machine(i) = Ended("failed", 1, "runtime") /\ Machine(i)' = Ended("failed", 1, "runtime")
      BY <2>1, <2>2, <3>1, EndedValues DEF Machine
    <3>3. QED
      BY <3>2 DEF Moves
  <2>3. CASE lc[i] = "starting"
    <3>1. CASE stream[i] = "open"
      <4>1. Machine(i) = Under("starting", "start", 1, TRUE, TRUE)
        BY <2>1, <2>3, <3>1, RunningValues DEF Machine
      <4>2. lc'[i] = "online"
        BY <2>1, <2>3, <3>1 DEF StartedPhase
      <4>3. Machine(i)' = Under("online", "none", 1, TRUE, TRUE)
        BY <2>1, <4>2, RunningValues DEF Machine
      <4>4. QED
        BY <4>1, <4>3, StartSucceeds DEF Moves
    <3>2. CASE stream[i] # "open"
      <4>1. Machine(i) = Under("starting", "start", 1, TRUE, FALSE)
        BY <2>1, <2>3, <3>2, RunningValues DEF Machine
      <4>2. lc'[i] = "offline"
        BY <2>1, <2>3, <3>2 DEF StartedPhase
      <4>3. Machine(i)' = Under("offline", "none", 1, TRUE, FALSE)
        BY <2>1, <4>2, RunningValues DEF Machine
      <4>4. QED
        BY <4>1, <4>3, StartSucceeds DEF Moves
    <3>3. QED
      BY <3>1, <3>2
  <2>4. QED
    BY <2>1, <2>2, <2>3
<1>6. QED
  BY <1>2, <1>3, <1>4, <1>5

(* The stream, and the loss of the lease.                                  *)
LEMMA RuntimeMoves ==
  ASSUME Known, Armed, Staged, NEW i \in Insts,
         StreamOpens(i) \/ StreamCloses(i) \/ LeaseLost(i)
  PROVE  Moves(i)
<1>0. /\ ctl \in [Insts -> {"new", "acquiring", "hydrating", "flushing", "ready", "stopping",
                            "reconciling", "closed", "dead"}]
      /\ lc \in [Insts -> {"stopped", "starting", "online", "offline", "stopping", "failed"}]
      /\ stream \in [Insts -> {"none", "closed", "open", "leaked"}]
  BY DEF Known, TypeOK
<1>1. Stages(i)
  BY DEF Staged
<1> USE DEF Stages, Goes, Phase, Running
<1>2. CASE StreamOpens(i) \/ StreamCloses(i)
  <2>1. /\ ctl'[i] = ctl[i] /\ lc[i] \in Running
        /\ stream[i] \in {"closed", "open"} /\ stream'[i] \in {"closed", "open"} /\ stream'[i] # stream[i]
        /\ lc'[i] = IF lc[i] = "starting" THEN "starting"
                    ELSE IF stream'[i] = "open" THEN "online" ELSE "offline"
    BY <1>0, <1>1, <1>2 DEF StreamOpens, StreamCloses
  <2>2. CASE lc[i] = "starting" /\ stream[i] = "closed"
    <3>1. Machine(i) = Under("starting", "start", 1, TRUE, FALSE)
      BY <2>2, RunningValues DEF Machine
    <3>2. Machine(i)' = Under("starting", "start", 1, TRUE, TRUE)
      BY <2>1, <2>2, RunningValues DEF Machine
    <3>3. QED
      BY <3>1, <3>2, Connects DEF Moves
  <2>3. CASE lc[i] = "starting" /\ stream[i] = "open"
    <3>1. Machine(i) = Under("starting", "start", 1, TRUE, TRUE)
      BY <2>3, RunningValues DEF Machine
    <3>2. Machine(i)' = Under("starting", "start", 1, TRUE, FALSE)
      BY <2>1, <2>3, RunningValues DEF Machine
    <3>3. QED
      BY <3>1, <3>2, Connects DEF Moves
  <2>4. CASE lc[i] = "offline" /\ lc'[i] = "online"
    <3>1. Machine(i) = Under("offline", "none", 1, TRUE, FALSE)
      BY <2>1, <2>4, RunningValues DEF Machine
    <3>2. Machine(i)' = Under("online", "none", 1, TRUE, TRUE)
      BY <2>1, <2>4, RunningValues DEF Machine
    <3>3. QED
      BY <3>1, <3>2, Connects DEF Moves
  <2>5. CASE lc[i] = "online" /\ lc'[i] = "offline"
    <3>1. Machine(i) = Under("online", "none", 1, TRUE, TRUE)
      BY <2>1, <2>5, RunningValues DEF Machine
    <3>2. Machine(i)' = Under("offline", "none", 1, TRUE, FALSE)
      BY <2>1, <2>5, RunningValues DEF Machine
    <3>3. QED
      BY <3>1, <3>2, Connects DEF Moves
  <2>6. CASE lc[i] \in {"online", "offline"} /\ lc'[i] = lc[i]
    <3>1. Machine(i)' = Machine(i)
      BY <2>1, <2>6, RunningValues DEF Machine
    <3>2. QED
      BY <3>1 DEF Moves
  <2>7. QED
    BY <2>1, <2>2, <2>3, <2>4, <2>5, <2>6
<1>3. CASE LeaseLost(i)
  <2>1. handle[i] # 0
    BY <1>3 DEF LeaseLost, BeatLost, Armed, BeatToken
  <2>2. /\ ctl'[i] = ctl[i] /\ stream'[i] = (IF stream[i] = "leaked" THEN "leaked" ELSE "none")
        /\ lc'[i] = IF lc[i] \in Running THEN "failed" ELSE lc[i]
        /\ ctl[i] \in {"hydrating", "flushing", "ready", "closed"}
    BY <1>0, <1>1, <1>3, <2>1 DEF LeaseLost, OnLost, StopTransports
  <2>3. CASE lc[i] \in Running
    <3>1. ctl[i] # "closed" /\ stream[i] # "leaked" /\ stream'[i] = "none" /\ lc'[i] = "failed"
      BY <1>1, <2>2, <2>3
    <3>2. Machine(i)' = Ended("failed", 1, "runtime")
      BY <2>2, <3>1, EndedValues DEF Machine
    <3>3. \E operation : \E online \in BOOLEAN : Machine(i) = Under(lc[i], operation, 1, TRUE, online)
      <4>1. CASE lc[i] = "starting" /\ stream[i] = "open"
        <5>1. Machine(i) = Under("starting", "start", 1, TRUE, TRUE)
          BY <4>1, RunningValues DEF Machine
        <5>2. QED
          BY <4>1, <5>1
      <4>2. CASE lc[i] = "starting" /\ stream[i] # "open"
        <5>1. Machine(i) = Under("starting", "start", 1, TRUE, FALSE)
          BY <3>1, <4>2, RunningValues DEF Machine
        <5>2. QED
          BY <4>2, <5>1
      <4>3. CASE lc[i] # "starting"
        <5>1. \/ lc[i] = "online" /\ Machine(i) = Under("online", "none", 1, TRUE, TRUE)
              \/ lc[i] = "offline" /\ Machine(i) = Under("offline", "none", 1, TRUE, FALSE)
          BY <2>3, <3>1, <4>3, RunningValues DEF Machine
        <5>2. QED
          BY <5>1
      <4>4. QED
        BY <4>1, <4>2, <4>3
    <3>4. QED
      BY <2>3, <3>2, <3>3, Fails DEF Moves
  <2>4. CASE lc[i] \notin Running
    <3>1. lc'[i] = lc[i] /\ stream'[i] = stream[i]
      BY <1>0, <1>1, <2>2, <2>4
    <3>2. QED
      BY <2>2, <3>1, MachineFramed
  <2>5. QED
    BY <2>3, <2>4
<1>4. QED
  BY <1>2, <1>3

(* stop(), its failure and its completion, and the end of the process.     *)
LEMMA StopMoves ==
  ASSUME Known, Staged, NEW i \in Insts,
         Stop(i) \/ StopThrows(i) \/ Stopped(i) \/ Crash(i)
  PROVE  Moves(i)
<1>0. /\ ctl \in [Insts -> {"new", "acquiring", "hydrating", "flushing", "ready", "stopping",
                            "reconciling", "closed", "dead"}]
      /\ lc \in [Insts -> {"stopped", "starting", "online", "offline", "stopping", "failed"}]
      /\ stream \in [Insts -> {"none", "closed", "open", "leaked"}]
  BY DEF Known, TypeOK
<1>1. Stages(i)
  BY DEF Staged
<1> USE DEF Stages, Goes, Phase, Running
<1>2. CASE Stop(i)
  <2>1. /\ ctl[i] = "ready" /\ lc[i] \in {"online", "offline", "failed"} /\ stream[i] # "leaked"
        /\ ctl'[i] = (IF lc[i] = "failed" THEN "reconciling" ELSE "stopping")
        /\ lc'[i] = "stopping"
    BY <1>0, <1>1, <1>2 DEF Stop
  <2>2. CASE lc[i] = "failed"
    <3>1. Machine(i) = Ended("failed", 1, "runtime")
      BY <2>1, <2>2, EndedValues DEF Machine
    <3>2. Machine(i)' = Under("stopping", "reconcile", 2, FALSE, FALSE)
      BY <2>1, <2>2, StoppingValues DEF Machine
    <3>3. QED
      BY <3>1, <3>2, Requested DEF Moves
  <2>3. CASE lc[i] # "failed"
    <3>1. \E phase \in {"online", "offline"}, online \in BOOLEAN :
            Machine(i) = Under(phase, "none", 1, TRUE, online)
      BY <2>1, <2>3, RunningValues DEF Machine
    <3>2. Machine(i)' = Under("stopping", "stop", 2, FALSE, FALSE)
      BY <2>1, <2>3, StoppingValues DEF Machine
    <3>3. QED
      BY <2>1, <2>3, <3>1, <3>2, Requested DEF Moves
  <2>4. QED
    BY <2>2, <2>3
<1>3. CASE StopThrows(i)
  <2>1. /\ ctl'[i] = "closed" /\ lc'[i] = "failed" /\ stream'[i] = "leaked" /\ lc[i] \in Running
    BY <1>0, <1>1, <1>3 DEF StopThrows
  <2>2. Machine(i)' = Ended("failed", 2, "stop")
    BY <2>1, EndedValues DEF Machine
  <2>3. Machine(i).phase \in Running
    BY <2>1 DEF Machine, MachineOf
  <2>4. Failed(i, 2, "stop") = Ended("failed", 2, "stop")
    BY Failing
  <2>5. Machine(i)' = Failed(i, 2, "stop")
    BY <2>2, <2>4
  <2>6. StopAndFail(i)
    BY <2>3, <2>5, Zenon DEF StopAndFail, Failed
  <2>7. QED
    BY <2>6 DEF Moves
<1>4. CASE Stopped(i)
  <2>1. /\ ctl[i] \in {"stopping", "reconciling"} /\ lc[i] = "stopping"
        /\ ctl'[i] = "closed" /\ lc'[i] = "stopped"
    BY <1>0, <1>1, <1>4 DEF Stopped
  <2>2. Machine(i)' = Ended("stopped", 2, "none")
    BY <2>1, EndedValues DEF Machine
  <2>3. \E operation : Machine(i) = Under("stopping", operation, 2, FALSE, FALSE)
    BY <2>1, StoppingValues DEF Machine
  <2>4. QED
    BY <2>2, <2>3, StopSucceeds DEF Moves
<1>5. CASE Crash(i)
  <2>1. ctl'[i] = "dead" /\ lc'[i] = "stopped"
    BY <1>0, <1>5 DEF Crash
  <2>2. Machine(i)' = Ended("stopped", 0, "none")
    BY <2>1, EndedValues DEF Machine
  <2>3. Machine(i)' = Life(i)!Stopped(0)
    BY <2>2 DEF Life!Stopped, Life!None, Ended
  <2>4. QED
    BY <2>1, <2>3 DEF Moves, MachineDies
<1>6. QED
  BY <1>2, <1>3, <1>4, <1>5

(* Every step of the sessions, of the lock service and of the server moves *)
(* each machine by the reducer, or not at all.                             *)
LEMMA MovesStep ==
  Known /\ Armed /\ Staged /\ [Next]_vars => \A j \in Insts : Moves(j)
<1> SUFFICES ASSUME Known, Armed, Staged, [Next]_vars, NEW j \in Insts PROVE Moves(j)
  OBVIOUS
<1>0. Insts = DOMAIN ctl /\ Insts = DOMAIN lc /\ Insts = DOMAIN stream
  BY DEF Known, TypeOK
<1>1. CASE ctl'[j] = ctl[j] /\ lc'[j] = lc[j] /\ stream'[j] = stream[j]
  BY <1>1, MachineFramed
<1>2. ASSUME NEW i \in Insts, Start(i) \/ Acquired(i) \/ AcquireFails(i) \/ Hydrated(i)
      PROVE  Moves(j)
  <2>1. i = j \/ (ctl'[j] = ctl[j] /\ lc'[j] = lc[j] /\ stream'[j] = stream[j])
    BY <1>0, <1>2 DEF Start, Acquired, AcquireFails, Hydrated, Goes, Phase
  <2>2. QED
    BY <1>1, <1>2, <2>1, StartMoves
<1>3. ASSUME NEW i \in Insts, StreamOpens(i) \/ StreamCloses(i) \/ LeaseLost(i)
      PROVE  Moves(j)
  <2>1. i = j \/ (ctl'[j] = ctl[j] /\ lc'[j] = lc[j] /\ stream'[j] = stream[j])
    BY <1>0, <1>3 DEF StreamOpens, StreamCloses, LeaseLost, OnLost, StopTransports, Goes, Phase
  <2>2. QED
    BY <1>1, <1>3, <2>1, RuntimeMoves
<1>4. ASSUME NEW i \in Insts, Stop(i) \/ StopThrows(i) \/ Stopped(i) \/ Crash(i)
      PROVE  Moves(j)
  <2>1. i = j \/ (ctl'[j] = ctl[j] /\ lc'[j] = lc[j] /\ stream'[j] = stream[j])
    BY <1>0, <1>4 DEF Stop, StopThrows, Stopped, Crash, StopTransports, Goes, Phase
  <2>2. QED
    BY <1>1, <1>4, <2>1, StopMoves
<1>5. ASSUME NEW i \in Insts, Acked(i) \/ Refused(i) \/ SendFails(i) PROVE Moves(j)
  <2>1. UNCHANGED <<lc, stream>> /\ \E batch : Proceeds(i, batch)
    BY <1>5 DEF Acked, Refused, SendFails
  <2>2. CASE ctl'[j] = ctl[j]
    BY <1>1, <2>1, <2>2
  <2>3. CASE ctl'[j] # ctl[j]
    <3>1. ctl[j] = "flushing" /\ ctl'[j] = "ready"
      BY <1>0, <2>1, <2>3 DEF Proceeds
    <3>2. /\ GenerationOf("ready", lc[j], stream[j]) = GenerationOf("flushing", lc[j], stream[j])
          /\ OperationOf("ready", lc[j]) = OperationOf("flushing", lc[j])
          /\ FailureOf("ready", lc[j], stream[j]) = FailureOf("flushing", lc[j], stream[j])
      BY DEF GenerationOf, OperationOf, FailureOf
    <3>3. MachineOf("ready", lc[j], stream[j]) = MachineOf("flushing", lc[j], stream[j])
      BY <3>2, Zenon DEF MachineOf
    <3>4. Machine(j)' = Machine(j)
      BY <2>1, <3>1, <3>3 DEF Machine
    <3>5. QED
      BY <3>4 DEF Moves
  <2>4. QED
    BY <2>2, <2>3
<1>6. ASSUME NEW i \in Insts, Write(i) \/ Flush(i) \/ Send(i) \/ RenewFails(i)
      PROVE  UNCHANGED session
  BY <1>6 DEF Write, Flush, Send, RenewFails
<1>7. ASSUME NEW m \in net, Serve(m) PROVE UNCHANGED session
  BY <1>7 DEF Serve
<1>8. CASE UNCHANGED session
  BY <1>1, <1>8 DEF session
<1>9. QED
  BY <1>2, <1>3, <1>4, <1>5, <1>6, <1>7, <1>8 DEF Next, vars

(* Sessions drive the lifecycle by the reducer's transitions only: neither *)
(* a late success of the start, nor a stream that opens, nor a heartbeat   *)
(* that fails after stop() brings a machine where it may not be.           *)
THEOREM SessionsDriveLifecycle == Spec => DrivesLifecycle
<1>1. Init => Armed /\ Staged /\ \A i \in Insts : Life(i)!Init
  <2> SUFFICES ASSUME Init PROVE Armed /\ Staged /\ \A i \in Insts : Life(i)!Init
    OBVIOUS
  <2>1. Armed /\ Staged
    BY DEF Init, LeaseInit, Armed, TimerHeld, BeatToken, NoBeat, Staged, Stages
  <2>2. ASSUME NEW i \in Insts PROVE Life(i)!Init
    <3>1. ctl[i] = "new" /\ lc[i] = "stopped"
      BY DEF Init
    <3>2. Machine(i) = Ended("stopped", 0, "none")
      BY <3>1, EndedValues DEF Machine
    <3>3. Machine(i) = Life(i)!Stopped(0)
      BY <3>2 DEF Life!Stopped, Life!None, Ended
    <3>4. Machine(i).generation = 0
      BY <3>2 DEF Ended
    <3>5. QED
      BY <3>3, <3>4 DEF Life!Init
  <2>3. QED
    BY <2>1, <2>2
<1>2. Known /\ Armed /\ Staged /\ [Next]_vars
        => /\ Armed' /\ Staged'
           /\ [\A i \in Insts : Machine(i)' # Machine(i) =>
                 Life(i)!Next \/ StopAndFail(i) \/ MachineDies(i)]_session
  BY ArmedStep, StagedStep, MovesStep DEF Known, Moves
<1>3. QED
  BY <1>1, <1>2, Typed, PTL DEF Spec, DrivesLifecycle

=============================================================================
