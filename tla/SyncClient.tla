----------------------------- MODULE SyncClient -----------------------------
(***************************************************************************)
(* One replica: the SyncClient of sdk/src/client.mjs over its store        *)
(* (sdk/src/store.mjs), the network it sends writes through, and the       *)
(* server that commits them and other replicas' writes.                    *)
(*                                                                         *)
(* write(), applyChange() and flushQueue() are asynchronous: each runs as  *)
(* a task whose steps are the code between two awaits.  A task is inside a *)
(* store section while it awaits one of its own store calls; Overlap says  *)
(* whether another task may run there.  IndexedDbStore's calls take turns  *)
(* of the event loop: its tasks overlap, and pending() copies the queue.   *)
(* MemoryStore's are settled before the next event is handled, so that     *)
(* tasks started by separate events do not overlap, and pending() hands    *)
(* out the queue's own objects (SharedQueue).                              *)
(***************************************************************************)
EXTENDS SyncCore, FiniteSets

CONSTANTS
  Ids,            \* row ids, all in one table
  Tasks,          \* asynchronous calls that may be in flight at once
  Modes,          \* the WriteModes the application uses
  Ops,            \* the kinds of write it makes: upsert, merge, delete
  RemoteOps,      \* the kinds of write the other replicas make
  Resolution,     \* the client's ConflictResolution
  ClientActor, ServerActor,   \* ranks of the two HLC actor ids
  ClientSkew,     \* client wall clock minus server wall clock
  StartMs,        \* server wall clock at the start
  Seeded,         \* does the replica start hydrated with every row?
  Overlap,        \* may tasks overlap between two store calls?
  SharedQueue,    \* does pending() hand out the queue's own objects?
  Durable,        \* does the store survive a restart (IndexedDbStore)?
  ThrowOnOverflow,\* does the ErrorPolicy make a queue overflow throw?
  MaxQueue,       \* maxQueueLength
  MaxWrites, MaxRemote, MaxDeliver, MaxFaults   \* bounds on the environment

ASSUME ModesAssumption ==
  Modes \subseteq {"local_only", "optimistic_queue", "server_first", "server_only"}
ASSUME OpsAssumption == Ops \cup RemoteOps \subseteq {"upsert", "merge", "delete"}
ASSUME ResolutionAssumption == Resolution \in Resolutions
ASSUME ActorsAssumption == ClientActor \in Nat /\ ServerActor \in Nat
ASSUME SkewAssumption == ClientSkew \in Int /\ StartMs \in Nat /\ StartMs + ClientSkew \in Nat
ASSUME SwitchAssumption == {Seeded, Overlap, SharedQueue, Durable, ThrowOnOverflow} \subseteq BOOLEAN
ASSUME BoundsAssumption == {MaxQueue, MaxWrites, MaxRemote, MaxDeliver, MaxFaults} \subseteq Nat

VARIABLES
  now,        \* the server's wall clock, in milliseconds
  clock,      \* SyncClient.clock
  rows,       \* store.rows: row and meta
  queue,      \* store.queue: its slots, in the order of their seq
  lastSeq,    \* store.seq
  lastKey,    \* number of write keys handed out
  task,       \* the calls in flight
  net,        \* requests sent and not yet processed
  srv,        \* the server's current row per id
  outbox,     \* the server's outbox: every committed change
  delivered,  \* deliveries so far (bounded)
  seen,       \* ghost: changes whose applyChange has completed
  settled,    \* ghost: keys of the slots that acknowledgements retired
  rejected,   \* ghost: slots retired by conflict resolution, with the change
  faults

storeVars == <<rows, queue, lastSeq>>
serverVars == <<now, srv, outbox>>
ghosts == <<seen, settled, rejected>>
vars == <<clock, lastKey, task, net, delivered, faults, storeVars, serverVars, ghosts>>

-----------------------------------------------------------------------------
(* Data.  A payload is the set of writes whose fields it holds: an upsert  *)
(* holds its own key, a merge adds it to the row it was read from, and a   *)
(* deleted row holds none.  Column(k) stands for the columns the server    *)
(* sets when it commits write k (id, created_at, updated_at, sync_version).*)

LocalKeys == 1 .. MaxWrites
SeedKey == 0
Keys == SeedKey .. (MaxWrites + MaxRemote)
Column(k) == -(k + 1)
Columns == {Column(k) : k \in Keys}
Fields == Keys \cup Columns
Zero == [wall_ms |-> 0, counter |-> 0, actor |-> ClientActor]

Row == [present : BOOLEAN, version : Stamp, dirty : BOOLEAN, val : SUBSET Fields]
NoRow == [present |-> FALSE, version |-> Zero, dirty |-> FALSE, val |-> {}]
StoredRow(version, dirty, val) ==
  [present |-> TRUE, version |-> version, dirty |-> dirty, val |-> val]

Slot == [seq : Nat, id : Ids, op : {"upsert", "delete"}, val : SUBSET Fields,
         base : Stamp, key : Keys]
Request == [id : Ids, op : {"upsert", "delete"}, val : SUBSET Fields, key : Keys]
Change == [id : Ids, op : {"upsert", "delete"}, val : SUBSET Fields, key : Keys,
           version : Stamp]

Idle == [pc |-> "idle"]
Writing == [pc : {"put", "enqueue", "ack", "direct"}, w : Slot, mode : Modes]
Applying == [pc : {"decide", "drop"}, ev : Change, old : Row]
Dropping == [pc : {"retire"}, ev : Change, batch : SUBSET Slot]
Flushing == [pc : {"send", "wait"}, batch : SUBSET Slot, sent : Keys]
TaskState == {Idle} \cup Writing \cup Applying \cup Dropping \cup Flushing

Section == {"put", "enqueue", "decide", "drop", "retire"}

ClientWall == now + ClientSkew

Committed(k) == \E e \in outbox : e.key = k
CommittedVersion(k) == (CHOOSE e \in outbox : e.key = k).version

(* The canonical row: what the server makes of a payload when it commits it. *)
Normalized(val, key) == (val \ Columns) \cup {Column(key)}

(* The row every id has from the start when the replica is hydrated, a     *)
(* millisecond before the session starts.                                  *)
SeedVersion == [wall_ms |-> StartMs, counter |-> 0, actor |-> ServerActor]
SeedVal == Normalized({SeedKey}, SeedKey)
SeedRow == IF Seeded THEN StoredRow(SeedVersion, FALSE, SeedVal) ELSE NoRow
SeedChange(i) == [id |-> i, op |-> "upsert", val |-> SeedVal, key |-> SeedKey,
                  version |-> SeedVersion]

Init ==
  /\ now = StartMs + 1
  /\ clock = IF Seeded THEN JsObserve(Zero, SeedVersion, StartMs + 1 + ClientSkew) ELSE Zero
  /\ rows = [i \in Ids |-> SeedRow]
  /\ queue = {}
  /\ lastSeq = 0
  /\ lastKey = 0
  /\ task = [t \in Tasks |-> Idle]
  /\ net = {}
  /\ srv = [i \in Ids |-> SeedRow]
  /\ outbox = IF Seeded THEN {SeedChange(i) : i \in Ids} ELSE {}
  /\ delivered = 0
  /\ seen = outbox
  /\ settled = {}
  /\ rejected = {}
  /\ faults = 0

MayRun(t) == Overlap \/ \A u \in Tasks \ {t} : task[u].pc \notin Section

Becomes(t, r) == task' = [task EXCEPT ![t] = r]
Finish(t) == Becomes(t, Idle)

-----------------------------------------------------------------------------
(* Store operations (MemoryStore; IndexedDbStore runs each of them in one  *)
(* transaction).                                                           *)

(* putRow and removeRow: the latter stores a null row under the same meta. *)
PutRow(id, row) == rows' = [rows EXCEPT ![id] = row]

Oldest(slots) == CHOOSE s \in slots : \A u \in slots : s.seq <= u.seq

QueuedFor(id) == {s \in queue : s.id = id}

(* The seq of the slot a write goes to: that of the slot already queued    *)
(* for its row, or a new one.                                              *)
SlotSeq(w) == IF QueuedFor(w.id) = {} THEN lastSeq + 1 ELSE Oldest(QueuedFor(w.id)).seq

Overflows(w) == QueuedFor(w.id) = {} /\ Cardinality(queue) >= MaxQueue

(* Variants (bugs to be caught): no coalescing, and no cap. *)
EnqueueAppends(w) ==
  /\ queue' = queue \cup {[w EXCEPT !.seq = lastSeq + 1]}
  /\ lastSeq' = lastSeq + 1

EnqueueUncapped(w) ==
  LET slot == [w EXCEPT !.seq = SlotSeq(w)]
  IN  /\ queue' = {s \in queue : s.id # w.id} \cup {slot}
      /\ lastSeq' = IF QueuedFor(w.id) = {} THEN lastSeq + 1 ELSE lastSeq

(* enqueue: fold the write into the slot already queued for its row, or    *)
(* append a slot and drop the oldest one beyond the cap.                   *)
Enqueue(w) ==
  LET slot == [w EXCEPT !.seq = SlotSeq(w)]
  IN  IF QueuedFor(w.id) # {}
      THEN /\ queue' = (queue \ {Oldest(QueuedFor(w.id))}) \cup {slot}
           /\ UNCHANGED lastSeq
      ELSE /\ queue' = IF Overflows(w)
                       THEN (queue \cup {slot}) \ {Oldest(queue \cup {slot})}
                       ELSE queue \cup {slot}
           /\ lastSeq' = lastSeq + 1

(* A coalescing enqueue assigns into the queued object itself, so a flush  *)
(* that holds the same object sees the newer write.                        *)
Shared(w, batch) ==
  IF SharedQueue /\ QueuedFor(w.id) # {}
  THEN {IF s.seq = SlotSeq(w) THEN [w EXCEPT !.seq = s.seq] ELSE s : s \in batch}
  ELSE batch

Retire(seq) == queue' = {s \in queue : s.seq # seq}

(* settleAck: retire the slot and clean the row when the core says so.     *)
SettleAck(id, seq, key, base, committed) ==
  IF \E s \in queue :
       /\ s.seq = seq
       /\ rows[id].present
       /\ SettleQueuedAck(rows[id], s, id, key, base, committed)
  THEN /\ Retire(seq)
       /\ PutRow(id, [rows[id] EXCEPT !.version = committed, !.dirty = FALSE])
       /\ settled' = settled \cup {s.key : s \in {u \in queue : u.seq = seq}}
       /\ UNCHANGED lastSeq
  ELSE UNCHANGED <<storeVars, settled>>

-----------------------------------------------------------------------------
(* write() *)

Content(op, key, existing) ==
  CASE op = "delete" -> {}
    [] op = "upsert" -> {key}
    [] op = "merge"  -> {key} \cup existing.val

(* Variant: the option goes out as it was given. *)
RawOp(op) == op

WireOp(op) == IF op = "delete" THEN "delete" ELSE "upsert"

Transmit(w) == net' = net \cup {[id |-> w.id, op |-> w.op, val |-> w.val, key |-> w.key]}

(* The call up to its first await: stamp, key, and the read of the row     *)
(* that a merge builds on; server_first and server_only send right away.   *)
WriteStart(t, id, op, mode) ==
  /\ task[t].pc = "idle" /\ MayRun(t)
  /\ lastKey < MaxWrites
  /\ lastKey' = lastKey + 1
  /\ clock' = JsTick(clock, ClientWall)
  /\ LET direct == mode \in {"server_first", "server_only"}
         w == [seq |-> 0, id |-> id, op |-> WireOp(op), key |-> lastKey + 1, base |-> clock',
               val |-> Content(IF direct /\ op = "merge" THEN "upsert" ELSE op,
                               lastKey + 1, rows[id])]
     IN  /\ Becomes(t, [pc |-> IF direct THEN "direct" ELSE "put", w |-> w, mode |-> mode])
         /\ IF direct THEN Transmit(w) ELSE UNCHANGED net
  /\ UNCHANGED <<storeVars, serverVars, ghosts, delivered, faults>>

WritePut(t) ==
  /\ task[t].pc = "put" /\ MayRun(t)
  /\ PutRow(task[t].w.id, StoredRow(task[t].w.base, TRUE, task[t].w.val))
  /\ Becomes(t, [task[t] EXCEPT !.pc = "enqueue"])
  /\ UNCHANGED <<clock, queue, lastSeq, lastKey, net, serverVars, ghosts, delivered, faults>>

(* enqueue, then send unless the mode or a throwing overflow ends the call. *)
WriteEnqueue(t) ==
  /\ task[t].pc = "enqueue" /\ MayRun(t)
  /\ LET w     == task[t].w
         stops == task[t].mode = "local_only" \/ (ThrowOnOverflow /\ Overflows(w))
         mine  == IF stops THEN Idle
                  ELSE [task[t] EXCEPT !.pc = "ack", !.w = [w EXCEPT !.seq = SlotSeq(w)]]
     IN  /\ Enqueue(w)
         /\ IF stops THEN UNCHANGED net ELSE Transmit(w)
         /\ task' = [u \in Tasks |->
                       IF u = t THEN mine
                       ELSE IF task[u].pc \in {"send", "wait"}
                            THEN [task[u] EXCEPT !.batch = Shared(w, @)]
                            ELSE task[u]]
  /\ UNCHANGED <<clock, rows, lastKey, serverVars, ghosts, delivered, faults>>

(* The response of an optimistic write. *)
WriteAck(t) ==
  /\ task[t].pc = "ack" /\ MayRun(t)
  /\ Committed(task[t].w.key)
  /\ LET w == task[t].w
     IN  SettleAck(w.id, w.seq, w.key, w.base, CommittedVersion(w.key))
  /\ Finish(t)
  /\ UNCHANGED <<clock, lastKey, net, serverVars, seen, rejected, delivered, faults>>

(* The response of a server_first or server_only write. *)
DirectAck(t) ==
  /\ task[t].pc = "direct" /\ MayRun(t)
  /\ Committed(task[t].w.key)
  /\ LET w == task[t].w
     IN  IF task[t].mode = "server_first"
         THEN PutRow(w.id, StoredRow(CommittedVersion(w.key), FALSE, w.val))
         ELSE UNCHANGED rows
  /\ Finish(t)
  /\ UNCHANGED <<clock, queue, lastSeq, lastKey, net, serverVars, ghosts, delivered, faults>>

(* The send rejects: offline, a lost request or response, a server error.  *)
(* A write stays queued; a flush stops.                                    *)
SendFails(t) ==
  /\ task[t].pc \in {"ack", "direct", "wait"} /\ MayRun(t)
  /\ Finish(t)
  /\ UNCHANGED <<clock, lastKey, net, storeVars, serverVars, ghosts, delivered, faults>>

-----------------------------------------------------------------------------
(* applyChange() *)

(* Variant: the change's stamp is not folded into the clock. *)
ApplyUnobserved(t, ev) ==
  /\ task[t].pc = "idle" /\ MayRun(t)
  /\ delivered < MaxDeliver
  /\ delivered' = delivered + 1
  /\ Becomes(t, [pc |-> "decide", ev |-> ev, old |-> rows[ev.id]])
  /\ UNCHANGED <<clock, lastKey, net, storeVars, serverVars, ghosts, faults>>

(* A change of the outbox arrives on either transport or in a catch-up, in *)
(* any order and any number of times: observe its stamp, read the row.     *)
ApplyStart(t, ev) ==
  /\ task[t].pc = "idle" /\ MayRun(t)
  /\ delivered < MaxDeliver
  /\ delivered' = delivered + 1
  /\ clock' = JsObserve(clock, ev.version, ClientWall)
  /\ Becomes(t, [pc |-> "decide", ev |-> ev, old |-> rows[ev.id]])
  /\ UNCHANGED <<lastKey, net, storeVars, serverVars, ghosts, faults>>

(* Variant: the dirty flag survives the adoption. *)
AdoptKeepsDirty(ev) == PutRow(ev.id, StoredRow(ev.version, rows[ev.id].dirty, ev.val))

Adopt(ev) == PutRow(ev.id, StoredRow(ev.version, FALSE, ev.val))

(* Reconcile against the row as read: adopt, adopt and go on to drop the   *)
(* queued write, refresh an equal-version clean row, or ignore.            *)
ApplyDecide(t) ==
  /\ task[t].pc = "decide" /\ MayRun(t)
  /\ LET ev       == task[t].ev
         old      == task[t].old
         decision == Reconcile(old, ev)
         conflict == decision = "Conflict" /\ ResolveConflict(Resolution, old, ev)
         refresh  == decision = "AlreadyApplied" /\ old.present /\ ~old.dirty
     IN  /\ IF decision = "Apply" \/ conflict \/ refresh THEN Adopt(ev) ELSE UNCHANGED rows
         /\ IF conflict
            THEN Becomes(t, [task[t] EXCEPT !.pc = "drop"]) /\ UNCHANGED seen
            ELSE Finish(t) /\ seen' = seen \cup {ev}
  /\ UNCHANGED <<clock, queue, lastSeq, lastKey, net, serverVars, settled, rejected,
                 delivered, faults>>

(* #dropQueuedFor: list the row's queued writes, then retire them by seq.  *)
DropList(t) ==
  /\ task[t].pc = "drop" /\ MayRun(t)
  /\ LET ev    == task[t].ev
         batch == QueuedFor(ev.id)
     IN  IF batch = {}
         THEN Finish(t) /\ seen' = seen \cup {ev}
         ELSE Becomes(t, [pc |-> "retire", ev |-> ev, batch |-> batch]) /\ UNCHANGED seen
  /\ UNCHANGED <<clock, lastKey, net, storeVars, serverVars, settled, rejected,
                 delivered, faults>>

DropRetire(t) ==
  /\ task[t].pc = "retire" /\ MayRun(t)
  /\ LET ev   == task[t].ev
         next == Oldest(task[t].batch)
         rest == task[t].batch \ {next}
     IN  /\ Retire(next.seq)
         /\ rejected' = rejected \cup
              {[slot |-> s, by |-> ev] : s \in {u \in queue : u.seq = next.seq}}
         /\ IF rest = {}
            THEN Finish(t) /\ seen' = seen \cup {ev}
            ELSE Becomes(t, [task[t] EXCEPT !.batch = rest]) /\ UNCHANGED seen
  /\ UNCHANGED <<clock, rows, lastSeq, lastKey, net, serverVars, settled, delivered, faults>>

-----------------------------------------------------------------------------
(* flushQueue() *)

FlushStart(t) ==
  /\ task[t].pc = "idle" /\ MayRun(t)
  /\ queue # {}
  /\ Becomes(t, [pc |-> "send", batch |-> queue, sent |-> Oldest(queue).key])
  /\ UNCHANGED <<clock, lastKey, net, storeVars, serverVars, ghosts, delivered, faults>>

FlushSend(t) ==
  /\ task[t].pc = "send" /\ MayRun(t)
  /\ Transmit(Oldest(task[t].batch))
  /\ Becomes(t, [task[t] EXCEPT !.pc = "wait", !.sent = Oldest(task[t].batch).key])
  /\ UNCHANGED <<clock, lastKey, storeVars, serverVars, ghosts, delivered, faults>>

(* The response settles with the key and base version that the flush's     *)
(* entry holds now, after the await; then the next entry's turn comes.     *)
FlushAck(t) ==
  /\ task[t].pc = "wait" /\ MayRun(t)
  /\ Committed(task[t].sent)
  /\ LET w    == Oldest(task[t].batch)
         rest == task[t].batch \ {w}
     IN  /\ SettleAck(w.id, w.seq, w.key, w.base, CommittedVersion(task[t].sent))
         /\ IF rest = {} THEN Finish(t)
            ELSE Becomes(t, [task[t] EXCEPT !.pc = "send", !.batch = rest])
  /\ UNCHANGED <<clock, lastKey, net, serverVars, seen, rejected, delivered, faults>>

-----------------------------------------------------------------------------
(* The server and the network (as the simulated server of the end-to-end   *)
(* tests implements them).  Every commit has a millisecond of its own.     *)

ServerStamp(id, op) ==
  IF op = "delete"
  THEN IF srv[id].present
       THEN [srv[id].version EXCEPT !.counter = @ + 1]
       ELSE [wall_ms |-> now + 1, counter |-> 1, actor |-> ServerActor]
  ELSE [wall_ms |-> now + 1, counter |-> 0, actor |-> ServerActor]

Commit(id, op, sent, key) ==
  LET version == ServerStamp(id, op)
      val     == IF op = "delete" THEN {} ELSE Normalized(sent, key)
  IN  /\ now' = now + 1
      /\ srv' = [srv EXCEPT ![id] =
                   IF op = "delete" THEN NoRow ELSE StoredRow(version, FALSE, val)]
      /\ outbox' = outbox \cup
           {[id |-> id, op |-> op, val |-> val, key |-> key, version |-> version]}

(* A request reaches the server; a key it knows already changes nothing.   *)
ServerCommit(r) ==
  /\ net' = net \ {r}
  /\ IF Committed(r.key) THEN UNCHANGED serverVars ELSE Commit(r.id, r.op, r.val, r.key)
  /\ UNCHANGED <<clock, lastKey, task, storeVars, ghosts, delivered, faults>>

NetLose(r) ==
  /\ net' = net \ {r}
  /\ UNCHANGED <<clock, lastKey, task, storeVars, serverVars, ghosts, delivered, faults>>

RemoteKeys == {e.key : e \in outbox} \ (LocalKeys \cup {SeedKey})

RemoteCommit(id, op) ==
  /\ Cardinality(RemoteKeys) < MaxRemote
  /\ op = "delete" => srv[id].present
  /\ LET key == MaxWrites + 1 + Cardinality(RemoteKeys)
     IN  Commit(id, WireOp(op), Content(op, key, srv[id]), key)
  /\ UNCHANGED <<clock, lastKey, task, net, storeVars, ghosts, delivered, faults>>

-----------------------------------------------------------------------------
(* Faults *)

(* A store call rejects (quota, a closed database): the task ends there.   *)
StoreFault(t) ==
  /\ faults < MaxFaults
  /\ task[t].pc \in Section
  /\ faults' = faults + 1
  /\ Finish(t)
  /\ UNCHANGED <<clock, lastKey, net, storeVars, serverVars, ghosts, delivered>>

(* The process dies and starts again over the durable store: the calls in  *)
(* flight are gone and the Clock is new.  A restart takes a millisecond.   *)
Restart ==
  /\ Durable
  /\ faults < MaxFaults
  /\ faults' = faults + 1
  /\ task' = [t \in Tasks |-> Idle]
  /\ clock' = Zero
  /\ now' = now + 1
  /\ UNCHANGED <<lastKey, net, storeVars, srv, outbox, ghosts, delivered>>

TaskStep(t) ==
  \/ WritePut(t) \/ WriteEnqueue(t) \/ WriteAck(t) \/ DirectAck(t) \/ SendFails(t)
  \/ ApplyDecide(t) \/ DropList(t) \/ DropRetire(t)
  \/ FlushSend(t) \/ FlushAck(t)

Next ==
  \/ \E t \in Tasks :
       \/ \E id \in Ids, op \in Ops, mode \in Modes : WriteStart(t, id, op, mode)
       \/ \E ev \in outbox : ApplyStart(t, ev)
       \/ FlushStart(t)
       \/ WritePut(t)
       \/ WriteEnqueue(t)
       \/ WriteAck(t)
       \/ DirectAck(t)
       \/ SendFails(t)
       \/ ApplyDecide(t)
       \/ DropList(t)
       \/ DropRetire(t)
       \/ FlushSend(t)
       \/ FlushAck(t)
       \/ StoreFault(t)
  \/ \E r \in net : ServerCommit(r) \/ NetLose(r)
  \/ \E id \in Ids, op \in RemoteOps : RemoteCommit(id, op)
  \/ Restart

Spec == Init /\ [][Next]_vars

(* A response or an error eventually ends every request, and no request of *)
(* a key that keeps being sent is lost or left waiting for ever.  Nothing  *)
(* makes the application call flushQueue().                                *)
Fairness ==
  /\ \A t \in Tasks : WF_vars(TaskStep(t)) /\ SF_vars(WriteAck(t) \/ FlushAck(t))
  /\ \A k \in LocalKeys : SF_vars(\E r \in net : r.key = k /\ ServerCommit(r))

FairSpec == Spec /\ Fairness

-----------------------------------------------------------------------------
(* Every variable has its type. *)
TypeOK ==
  /\ now \in Nat /\ clock \in Stamp
  /\ rows \in [Ids -> Row]
  /\ queue \subseteq Slot
  /\ lastSeq \in Nat
  /\ lastKey \in 0 .. MaxWrites
  /\ task \in [Tasks -> TaskState]
  /\ net \subseteq Request
  /\ srv \in [Ids -> Row]
  /\ outbox \subseteq Change /\ seen \subseteq outbox
  /\ settled \subseteq Keys
  /\ rejected \subseteq [slot : Slot, by : Change]
  /\ delivered \in Nat /\ faults \in Nat

InSection == \E t \in Tasks : task[t].pc \in Section

(* settleAck: an acknowledgement retires the slot only of a write the      *)
(* server has committed, although slots are coalesced and re-sent while    *)
(* requests for them are in flight.                                        *)
AckRetiresCommitted == \A k \in settled : Committed(k)

(* A clean row's version and domain fields belong to one commit: adoption, *)
(* refresh and settlement keep meta and payload together.  Only the        *)
(* server's own columns may lag, from an acknowledgement to the echo.      *)
CleanIsCommitted ==
  \A i \in Ids : rows[i].present /\ ~rows[i].dirty =>
    \E e \in outbox : /\ e.id = i /\ e.version = rows[i].version
                     /\ e.val \ Columns = rows[i].val \ Columns

(* Once a change has been applied, the clean row at its version is the     *)
(* canonical row, server columns included: "a server-normalized echo       *)
(* cannot be hidden by a racing ack" (client.mjs:141-142).                 *)
EchoNotHidden ==
  \A e \in seen :
    LET row == rows[e.id]
    IN  row.present /\ ~row.dirty /\ row.version = e.version => row.val = e.val

(* enqueue coalesces: a row never has two slots, so a flush cannot send an *)
(* older write of the row after a newer one.                               *)
OneSlotPerRow ==
  \A s, u \in queue : s.id = u.id \/ s.seq = u.seq => s = u

(* The queue never outgrows its cap, whatever the calls in flight: the     *)
(* oldest write goes, not the newest.                                      *)
QueueBounded == Cardinality(queue) <= MaxQueue

(* Between store sections a queued write is the dirty content of its row:  *)
(* "a queued write remains dirty and retryable" (formal/README.md:55).     *)
QueuedIsDirty ==
  InSection \/ \A s \in queue :
    rows[s.id].dirty /\ rows[s.id].version = s.base /\ rows[s.id].val = s.val

(* ... and a dirty row has its write queued, so that a flush will send it. *)
DirtyIsQueued ==
  InSection \/ \A i \in Ids : rows[i].dirty => \E s \in queue : s.id = i

(* #dropQueuedFor drops an edit only for a change of another replica: the  *)
(* echo of an own earlier write does not displace a later edit.            *)
DropsOnlyForOthers ==
  \A r \in rejected : r.by.key \notin LocalKeys \/ IsOwnEcho(r.slot, r.by)

(* Whenever no store section is open, a row without a queued write whose    *)
(* changes have all been applied, in any order and any number of times,     *)
(* shows the newest of them, whatever requests are still in flight.  A      *)
(* replica that starts empty may hear of a delete before the insert, and    *)
(* reconcile keeps nothing of a delete of an unknown row.                    *)
AtRest(i) ==
  /\ ~InSection
  /\ QueuedFor(i) = {}
  /\ \A e \in outbox : e.id = i => e \in seen

Newest(i) ==
  {e \in outbox : e.id = i /\ \A f \in outbox : f.id = i => HlcLeq(f.version, e.version)}

Converges ==
  \A i \in Ids : AtRest(i) => \A e \in Newest(i) :
    IF e.op = "delete" /\ (~rows[i].present \/ ~Seeded) THEN TRUE
    ELSE rows[i].present /\ rows[i].version = e.version /\ rows[i].val = e.val

(* The row shows a commit that the clock has not observed: an               *)
(* acknowledgement stores its version without clock.observe, and the        *)
(* change itself has not been applied yet.                                  *)
Unobserved(i) == \E e \in outbox \ seen : e.id = i /\ e.version = rows[i].version

(* A row's version never goes back, whether the device's clock is level     *)
(* with the server's or behind it, but for one case: a local write over an  *)
(* acknowledged version whose echo has not arrived.                         *)
VersionMonotone ==
  [][\A i \in Ids :
       \/ ~rows[i].present
       \/ HlcLeq(rows[i].version, rows'[i].version)
       \/ Unobserved(i) /\ rows'[i].dirty]_rows

(* The application keeps calling flushQueue() for as long as writes wait.   *)
KeepsFlushing == []<>(queue = {}) \/ []<><<\E t \in Tasks : FlushStart(t)>>_vars

(* If it does, every queued write is eventually acknowledged, dropped or    *)
(* surfaced: the queue drains.                                               *)
QueueDrains == KeepsFlushing => <>[](queue = {})

(* What is still queued in the end, however often it is flushed, is only    *)
(* what the server has committed below the write's own stamp: a device      *)
(* whose clock is ahead never adopts such an acknowledgement                *)
(* (core.mjs:37-41), and every resend gets the same one.                     *)
Superseded(s) == \E e \in outbox : e.key = s.key /\ HlcLess(e.version, s.base)

OnlySupersededStay == KeepsFlushing => <>[](\A s \in queue : Superseded(s))
=============================================================================
