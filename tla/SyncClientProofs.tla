-------------------------- MODULE SyncClientProofs --------------------------
(***************************************************************************)
(* What SyncClient guarantees for every number of rows, tasks, writes and  *)
(* faults: the types, and three facts about the write queue that no        *)
(* interleaving of write(), applyChange() and flushQueue() may break.      *)
(***************************************************************************)
EXTENDS SyncClient, FiniteSetTheorems, WellFoundedInduction, TLAPS

-----------------------------------------------------------------------------
(* Operators *)

(* What a batch of a flush or of #dropQueuedFor works through first.       *)
LEMMA OldestIn ==
  ASSUME NEW slots, \A s \in slots : s.seq \in Nat, slots # {}
  PROVE  Oldest(slots) \in slots /\ \A u \in slots : Oldest(slots).seq <= u.seq
<1> DEFINE seqs == {s.seq : s \in slots}
<1>1. seqs \subseteq Nat /\ seqs # {}
  OBVIOUS
<1>2. \E m \in seqs : \A n \in seqs : m <= n
  <2> HIDE DEF seqs
  <2>1. \E m \in seqs : \A n \in seqs : ~(<<n, m>> \in OpToRel(<, Nat))
    BY <1>1, NatLessThanWellFounded, WFMin
  <2>2. \A n, m \in Nat : n < m => <<n, m>> \in OpToRel(<, Nat)
    BY DEF OpToRel
  <2>3. \A n, m \in Nat : ~(n < m) => m <= n
    OBVIOUS
  <2>4. QED
    BY <1>1, <2>1, <2>2, <2>3, Zenon
<1> DEFINE First(s) == \A u \in slots : s.seq <= u.seq
<1>3. \E s \in slots : First(s)
  BY <1>2
<1>4. Oldest(slots) = CHOOSE s \in slots : First(s)
  BY DEF Oldest
<1> HIDE DEF First
<1>5. Oldest(slots) \in slots /\ First(Oldest(slots))
  BY <1>3, <1>4
<1>6. QED
  BY <1>5 DEF First

(* The oldest of a set of slots is one of them.                            *)
LEMMA OldestSlot ==
  ASSUME NEW slots \in SUBSET Slot, slots # {}
  PROVE  Oldest(slots) \in slots /\ Oldest(slots) \in Slot
  BY OldestIn DEF Slot

(* Both clock updates return stamps of the clock's own actor.              *)
LEMMA ClockTypes ==
  ASSUME NEW c \in Stamp, NEW r \in Stamp, NEW n \in Int
  PROVE  JsTick(c, n) \in Stamp /\ JsObserve(c, r, n) \in Stamp
<1>1. c.wall_ms \in Nat /\ c.counter \in Nat /\ c.actor \in Nat /\ r.wall_ms \in Nat /\ r.counter \in Nat
  BY DEF Stamp
<1>2. JsTick(c, n) \in Stamp
  <2>1. CASE n > c.wall_ms
    <3>1. JsTick(c, n) = [wall_ms |-> n, counter |-> 0, actor |-> c.actor]
      BY <2>1 DEF JsTick, Stamp
    <3>2. n \in Nat
      BY <1>1, <2>1
    <3>3. QED
      BY <1>1, <3>1, <3>2 DEF Stamp
  <2>2. CASE ~(n > c.wall_ms)
    BY <1>1, <2>2 DEF JsTick, Stamp
  <2>3. QED
    BY <2>1, <2>2
<1>3. JsObserve(c, r, n) \in Stamp
  <2> DEFINE ok   == r.wall_ms <= n + MAX_DRIFT_MS
             wall == IF ok THEN HlcMax(HlcMax(n, c.wall_ms), r.wall_ms) ELSE HlcMax(n, c.wall_ms)
             ctr  == IF ok /\ wall = c.wall_ms /\ wall = r.wall_ms
                     THEN HlcMax(c.counter, r.counter) + 1
                     ELSE IF wall = c.wall_ms THEN c.counter + 1
                     ELSE IF ok /\ wall = r.wall_ms THEN r.counter + 1
                     ELSE 0
  <2>1. wall \in Nat
    BY <1>1 DEF HlcMax
  <2>2. ctr \in Nat
    <3> HIDE DEF ok, wall
    <3>1. HlcMax(c.counter, r.counter) \in Nat
      BY <1>1 DEF HlcMax
    <3>2. QED
      BY <1>1, <3>1
  <2>3. JsObserve(c, r, n) = [c EXCEPT !.wall_ms = wall, !.counter = ctr]
    BY DEF JsObserve
  <2> HIDE DEF wall, ctr
  <2>4. QED
    BY <1>1, <2>1, <2>2, <2>3 DEF Stamp
<1>4. QED
  BY <1>2, <1>3

(* A task's program counter says what its record holds.                    *)
LEMMA TaskKinds ==
  ASSUME NEW r \in TaskState
  PROVE  /\ r.pc \in {"put", "enqueue", "ack", "direct"} => r \in Writing
         /\ r.pc \in {"decide", "drop"} => r \in Applying
         /\ r.pc = "retire" => r \in Dropping
         /\ r.pc \in {"send", "wait"} => r \in Flushing
  BY DEF TaskState, Idle, Writing, Applying, Dropping, Flushing

(* The keys of local, seeded and remote writes are keys.                   *)
LEMMA KeyTypes ==
  /\ Keys \subseteq Nat /\ SeedKey \in Keys
  /\ IsFiniteSet(Keys)
  /\ \A k \in LocalKeys : k \in Keys
<1>1. MaxWrites \in Nat /\ MaxRemote \in Nat
  BY BoundsAssumption
<1>2. IsFiniteSet(0 .. (MaxWrites + MaxRemote))
  BY <1>1, FS_Interval
<1>3. QED
  BY <1>1, <1>2 DEF Keys, SeedKey, LocalKeys

(* The server's row has fields, and its own column.                        *)
LEMMA FieldTypes ==
  /\ Keys \subseteq Fields
  /\ \A val \in SUBSET Fields, key \in Keys : Normalized(val, key) \in SUBSET Fields
BY DEF Fields, Columns, Normalized

(* Every stored row has its type.                                          *)
LEMMA RowTypes ==
  ASSUME NEW version \in Stamp, NEW dirty \in BOOLEAN, NEW val \in SUBSET Fields
  PROVE  StoredRow(version, dirty, val) \in Row
  BY DEF StoredRow, Row

(* ... and the seeded row's payload.                                       *)
LEMMA SeedVals == SeedVal \in SUBSET Fields
BY KeyTypes, FieldTypes DEF SeedVal

(* The rows a replica starts with have their types.                        *)
LEMMA SeedTypes == Zero \in Stamp /\ NoRow \in Row /\ SeedVersion \in Stamp /\ SeedRow \in Row
<1>1. Zero \in Stamp /\ SeedVersion \in Stamp
  BY ActorsAssumption, SkewAssumption DEF Zero, SeedVersion, Stamp
<1>2. NoRow \in Row
  BY <1>1 DEF NoRow, Row
<1>3. StoredRow(SeedVersion, FALSE, SeedVal) \in Row
  BY <1>1, SeedVals, RowTypes
<1>4. QED
  BY <1>1, <1>2, <1>3 DEF SeedRow

-----------------------------------------------------------------------------
(* Parts of the handlers *)

(* The version an acknowledgement carries is a stamp.                      *)
LEMMA CommittedStamp ==
  ASSUME TypeOK, NEW k, Committed(k)
  PROVE  CommittedVersion(k) \in Stamp
<1>1. (CHOOSE e \in outbox : e.key = k) \in outbox
  BY DEF Committed
<1>2. QED
  BY <1>1 DEF CommittedVersion, TypeOK, Change

(* enqueue leaves a queue of slots.                                        *)
LEMMA EnqueueTypes ==
  ASSUME TypeOK, NEW w \in Slot
  PROVE  /\ SlotSeq(w) \in Nat
         /\ [w EXCEPT !.seq = SlotSeq(w)] \in Slot
         /\ Enqueue(w) => queue' \subseteq Slot /\ lastSeq' \in Nat
<1>1. SlotSeq(w) \in Nat
  <2>1. QueuedFor(w.id) # {} => Oldest(QueuedFor(w.id)) \in Slot
    BY OldestSlot DEF TypeOK, QueuedFor
  <2>2. QED
    BY <2>1 DEF SlotSeq, TypeOK, Slot
<1>2. [w EXCEPT !.seq = SlotSeq(w)] \in Slot
  BY <1>1 DEF Slot
<1>3. ASSUME Enqueue(w) PROVE queue' \subseteq Slot /\ lastSeq' \in Nat
  BY <1>2, <1>3 DEF Enqueue, TypeOK
<1>4. QED
  BY <1>1, <1>2, <1>3

(* A batch whose objects a coalescing enqueue wrote into still holds slots. *)
LEMMA SharedTypes ==
  ASSUME TypeOK, NEW w \in Slot, NEW batch \in SUBSET Slot, batch # {}
  PROVE  Shared(w, batch) \in SUBSET Slot /\ Shared(w, batch) # {}
<1>1. \A s \in batch : [w EXCEPT !.seq = s.seq] \in Slot
  BY DEF Slot
<1>2. QED
  BY <1>1 DEF Shared

(* settleAck leaves well-formed rows and slots.                            *)
LEMMA SettleTypes ==
  ASSUME TypeOK, NEW id \in Ids, NEW seq, NEW key, NEW base, NEW committed \in Stamp,
         SettleAck(id, seq, key, base, committed)
  PROVE  /\ queue' \subseteq queue /\ lastSeq' = lastSeq
         /\ rows' \in [Ids -> Row]
         /\ settled' \subseteq Keys
<1>1. [rows[id] EXCEPT !.version = committed, !.dirty = FALSE] \in Row
  BY DEF TypeOK, Row
<1>2. \A s \in queue : s.key \in Keys
  BY DEF TypeOK, Slot
<1>3. QED
  BY <1>1, <1>2 DEF SettleAck, Retire, PutRow, TypeOK, storeVars

(* A commit leaves well-formed server rows and changes.                    *)
LEMMA CommitTypes ==
  ASSUME TypeOK, NEW id \in Ids, NEW op \in {"upsert", "delete"}, NEW sent \in SUBSET Fields,
         NEW key \in Keys, Commit(id, op, sent, key)
  PROVE  /\ now' \in Nat /\ srv' \in [Ids -> Row]
         /\ outbox' \subseteq Change /\ outbox \subseteq outbox'
<1> DEFINE val == IF op = "delete" THEN {} ELSE Normalized(sent, key)
<1>1. ServerStamp(id, op) \in Stamp /\ val \in SUBSET Fields
  <2>1. now + 1 \in Nat /\ ServerActor \in Nat /\ srv[id].version \in Stamp
    BY ActorsAssumption DEF TypeOK, Row
  <2>2. [srv[id].version EXCEPT !.counter = @ + 1] \in Stamp
    BY <2>1 DEF Stamp
  <2>3. QED
    BY <2>1, <2>2, FieldTypes DEF ServerStamp, Stamp
<1> DEFINE e == [id |-> id, op |-> op, val |-> val, key |-> key, version |-> ServerStamp(id, op)]
<1>2. now' = now + 1 /\ outbox' = outbox \cup {e}
  BY DEF Commit
<1>3. srv' = [srv EXCEPT ![id] = IF op = "delete" THEN NoRow
                                 ELSE StoredRow(ServerStamp(id, op), FALSE, val)]
  BY DEF Commit
<1> HIDE DEF val
<1>4. e \in Change
  BY <1>1 DEF Change
<1>5. NoRow \in Row /\ StoredRow(ServerStamp(id, op), FALSE, val) \in Row
  BY <1>1, SeedTypes, RowTypes
<1>6. (IF op = "delete" THEN NoRow ELSE StoredRow(ServerStamp(id, op), FALSE, val)) \in Row
  BY <1>5
<1> HIDE DEF e
<1>7. srv' \in [Ids -> Row]
  BY <1>3, <1>6 DEF TypeOK
<1>8. QED
  BY <1>2, <1>4, <1>7 DEF TypeOK

-----------------------------------------------------------------------------
(* Types *)

(* TypeOK is not inductive: the step that finishes a delivery records its  *)
(* change as seen, and must know that it came from the outbox; the step    *)
(* that takes the oldest of a batch must know that there is one.           *)
TasksOK ==
  \A t \in Tasks :
    /\ task[t].pc \in {"decide", "drop", "retire"} => task[t].ev \in outbox
    /\ task[t].pc \in {"retire", "send", "wait"} => task[t].batch # {}

Typed == TypeOK /\ TasksOK

(* The initial state is well formed.                                       *)
LEMMA InitTyped == Init => Typed
<1> SUFFICES ASSUME Init PROVE Typed
  OBVIOUS
<1>1. \A i \in Ids : SeedChange(i) \in Change
  BY SeedTypes, SeedVals, KeyTypes DEF SeedChange, Change
<1>2. outbox \subseteq Change /\ seen = outbox
  BY <1>1 DEF Init
<1>3. Idle \in TaskState
  BY DEF TaskState
<1>4. now \in Nat /\ clock \in Stamp
  <2>1. JsObserve(Zero, SeedVersion, StartMs + 1 + ClientSkew) \in Stamp
    BY SeedTypes, SkewAssumption, ClockTypes
  <2>2. QED
    BY <2>1, SeedTypes, SkewAssumption DEF Init
<1>5. rows \in [Ids -> Row] /\ srv \in [Ids -> Row]
  BY SeedTypes DEF Init
<1>6. lastKey \in 0 .. MaxWrites
  BY BoundsAssumption DEF Init
<1>7. TypeOK
  <2>1. task \in [Tasks -> TaskState]
    BY <1>3 DEF Init
  <2>2. queue = {} /\ lastSeq = 0 /\ net = {} /\ delivered = 0 /\ settled = {} /\ rejected = {} /\ faults = 0
    BY DEF Init
  <2>3. QED
    BY <1>2, <1>4, <1>5, <1>6, <2>1, <2>2 DEF TypeOK
<1>8. TasksOK
  BY DEF Init, TasksOK, Idle
<1>9. QED
  BY <1>7, <1>8 DEF Typed

(* A task that moves on to a well-formed record keeps the tasks' part.     *)
LEMMA BecomesTyped ==
  ASSUME Typed, NEW t \in Tasks, NEW r \in TaskState, Becomes(t, r), outbox \subseteq outbox',
         r.pc \in {"decide", "drop", "retire"} => r.ev \in outbox,
         r.pc \in {"retire", "send", "wait"} => r.batch # {}
  PROVE  task' \in [Tasks -> TaskState] /\ TasksOK'
<1>1. task' = [task EXCEPT ![t] = r] /\ task \in [Tasks -> TaskState]
  BY DEF Becomes, Typed, TypeOK
<1>2. task' \in [Tasks -> TaskState]
  BY <1>1
<1>3. ASSUME NEW u \in Tasks
      PROVE  /\ task'[u].pc \in {"decide", "drop", "retire"} => task'[u].ev \in outbox'
             /\ task'[u].pc \in {"retire", "send", "wait"} => task'[u].batch # {}
  <2>1. CASE u = t
    BY <1>1, <2>1
  <2>2. CASE u # t
    BY <1>1, <2>2 DEF Typed, TasksOK
  <2>3. QED
    BY <2>1, <2>2
<1>4. QED
  BY <1>2, <1>3 DEF TasksOK

(* So does a task that ends.                                               *)
LEMMA FinishTyped ==
  ASSUME Typed, NEW t \in Tasks, Finish(t), outbox \subseteq outbox'
  PROVE  task' \in [Tasks -> TaskState] /\ TasksOK'
<1>1. Idle \in TaskState /\ Idle.pc = "idle"
  BY DEF TaskState, Idle
<1>2. QED
  BY <1>1, BecomesTyped DEF Finish

(* write(), up to its first await. *)
LEMMA WriteStartTyped ==
  ASSUME Typed, NEW t \in Tasks, NEW id \in Ids, NEW op \in Ops, NEW mode \in Modes,
         WriteStart(t, id, op, mode)
  PROVE  Typed'
<1> DEFINE direct == mode \in {"server_first", "server_only"}
           w == [seq |-> 0, id |-> id, op |-> WireOp(op), key |-> lastKey + 1, base |-> clock',
                 val |-> Content(IF direct /\ op = "merge" THEN "upsert" ELSE op,
                                 lastKey + 1, rows[id])]
           r == [pc |-> IF direct THEN "direct" ELSE "put", w |-> w, mode |-> mode]
<1>1. clock' \in Stamp
  BY SkewAssumption, ClockTypes DEF WriteStart, Typed, TypeOK, ClientWall
<1>2. lastKey + 1 \in Keys /\ lastKey + 1 \in 0 .. MaxWrites /\ lastKey' = lastKey + 1
  BY BoundsAssumption DEF WriteStart, Typed, TypeOK, Keys, SeedKey
<1>3. rows[id].val \in SUBSET Fields
  BY DEF Typed, TypeOK, Row
<1>4. w.val \in SUBSET Fields
  BY <1>2, <1>3, OpsAssumption, FieldTypes DEF Content
<1>5. WireOp(op) \in {"upsert", "delete"}
  BY DEF WireOp
<1>6. w \in Slot
  <2>1. w = [seq |-> 0, id |-> id, op |-> WireOp(op), key |-> lastKey + 1, base |-> clock',
             val |-> w.val]
    OBVIOUS
  <2> HIDE DEF w
  <2>2. QED
    BY <1>1, <1>2, <1>4, <1>5, <2>1 DEF Slot
<1>7. r \in Writing
  <2> HIDE DEF w
  <2>1. QED
    BY <1>6 DEF Writing
<1>8. net' \subseteq Request
  <2>1. [id |-> w.id, op |-> w.op, val |-> w.val, key |-> w.key] \in Request
    <3> HIDE DEF w
    <3>1. QED
      BY <1>6 DEF Slot, Request
  <2>2. net' \subseteq net \cup {[id |-> w.id, op |-> w.op, val |-> w.val, key |-> w.key]}
    BY DEF WriteStart, Transmit
  <2> HIDE DEF w
  <2>3. QED
    BY <2>1, <2>2 DEF Typed, TypeOK
<1>9. Becomes(t, r)
  BY DEF WriteStart
<1> HIDE DEF w
<1>10. UNCHANGED <<storeVars, serverVars, ghosts, delivered, faults>>
  BY DEF WriteStart
<1>11. r \in TaskState /\ r.pc \in {"direct", "put"}
  BY <1>7 DEF TaskState
<1> HIDE DEF r
<1>12. task' \in [Tasks -> TaskState] /\ TasksOK'
  BY <1>9, <1>10, <1>11, BecomesTyped DEF serverVars
<1>13. QED
  BY <1>1, <1>2, <1>8, <1>10, <1>12 DEF Typed, TypeOK, storeVars, serverVars, ghosts

(* write(): the optimistic row.                                            *)
LEMMA WritePutTyped ==
  ASSUME Typed, NEW t \in Tasks, WritePut(t)
  PROVE  Typed'
<1>1. task[t] \in Writing
  BY TaskKinds DEF WritePut, Typed, TypeOK
<1>2. [task[t] EXCEPT !.pc = "enqueue"] \in Writing
  BY <1>1 DEF Writing
<1>3. task' \in [Tasks -> TaskState] /\ TasksOK'
  <2> DEFINE r == [task[t] EXCEPT !.pc = "enqueue"]
  <2>1. r \in TaskState /\ r.pc = "enqueue"
    BY <1>1, <1>2 DEF TaskState, Writing
  <2>2. Becomes(t, r) /\ outbox' = outbox
    BY DEF WritePut, serverVars
  <2> HIDE DEF r
  <2>3. QED
    BY <2>1, <2>2, BecomesTyped
<1>4. rows' \in [Ids -> Row]
  <2>1. task[t].w.id \in Ids /\ StoredRow(task[t].w.base, TRUE, task[t].w.val) \in Row
    BY <1>1, RowTypes DEF Writing, Slot
  <2>2. QED
    BY <2>1 DEF WritePut, PutRow, Typed, TypeOK
<1>5. QED
  BY <1>3, <1>4 DEF WritePut, Typed, TypeOK, serverVars, ghosts

(* write(): enqueue and send.                                              *)
LEMMA WriteEnqueueTyped ==
  ASSUME Typed, NEW t \in Tasks, WriteEnqueue(t)
  PROVE  Typed'
<1> DEFINE w     == task[t].w
           stops == task[t].mode = "local_only" \/ (ThrowOnOverflow /\ Overflows(w))
           sent  == [w EXCEPT !.seq = SlotSeq(w)]
           mine  == IF stops THEN Idle ELSE [task[t] EXCEPT !.pc = "ack", !.w = sent]
<1>1. task[t] \in Writing /\ w \in Slot
  BY TaskKinds DEF WriteEnqueue, Typed, TypeOK, Writing
<1>2. SlotSeq(w) \in Nat /\ [w EXCEPT !.seq = SlotSeq(w)] \in Slot
      /\ queue' \subseteq Slot /\ lastSeq' \in Nat
  BY <1>1, EnqueueTypes DEF WriteEnqueue, Typed
<1>3. mine \in TaskState /\ mine.pc \in {"idle", "ack"}
  <2>1. sent \in Slot
    BY <1>2
  <2> HIDE DEF sent, w
  <2>2. [task[t] EXCEPT !.pc = "ack", !.w = sent] \in Writing
        /\ [task[t] EXCEPT !.pc = "ack", !.w = sent].pc = "ack"
    BY <1>1, <2>1 DEF Writing
  <2>3. CASE stops
    BY <2>3 DEF TaskState, Idle
  <2>4. CASE ~stops
    BY <2>2, <2>4 DEF TaskState
  <2>5. QED
    BY <2>3, <2>4
<1>4. net' \subseteq Request
  <2>1. [id |-> w.id, op |-> w.op, val |-> w.val, key |-> w.key] \in Request
    BY <1>1 DEF Slot, Request
  <2>2. net' \subseteq net \cup {[id |-> w.id, op |-> w.op, val |-> w.val, key |-> w.key]}
    BY DEF WriteEnqueue, Transmit
  <2>3. QED
    BY <2>1, <2>2 DEF Typed, TypeOK
<1>5. task' = [u \in Tasks |->
                 IF u = t THEN mine
                 ELSE IF task[u].pc \in {"send", "wait"}
                      THEN [task[u] EXCEPT !.batch = Shared(w, @)]
                      ELSE task[u]]
  BY DEF WriteEnqueue
<1>6. UNCHANGED <<clock, rows, lastKey, serverVars, ghosts, delivered, faults>>
  BY DEF WriteEnqueue
<1> HIDE DEF mine
<1>7. ASSUME NEW u \in Tasks, u # t, task[u].pc \in {"send", "wait"}
      PROVE  /\ task'[u] \in TaskState /\ task'[u].pc = task[u].pc
             /\ task'[u].batch # {}
  <2>1. task[u] \in Flushing /\ task[u].batch # {}
    BY <1>7, TaskKinds DEF Typed, TypeOK, TasksOK
  <2>2. Shared(w, task[u].batch) \in SUBSET Slot /\ Shared(w, task[u].batch) # {}
    BY <1>1, <2>1, SharedTypes DEF Typed, Flushing
  <2>3. task'[u] = [pc |-> task[u].pc, batch |-> Shared(w, task[u].batch), sent |-> task[u].sent]
    BY <1>5, <1>7, <2>1 DEF Flushing
  <2>4. QED
    BY <1>7, <2>1, <2>2, <2>3 DEF TaskState, Flushing
<1>8. ASSUME NEW u \in Tasks
      PROVE  /\ task'[u] \in TaskState
             /\ task'[u].pc \in {"decide", "drop", "retire"} => task'[u].ev \in outbox'
             /\ task'[u].pc \in {"retire", "send", "wait"} => task'[u].batch # {}
  <2>1. CASE u = t
    BY <1>3, <1>5, <2>1
  <2>2. CASE u # t /\ task[u].pc \in {"send", "wait"}
    BY <1>7, <2>2
  <2>3. CASE u # t /\ task[u].pc \notin {"send", "wait"}
    BY <1>5, <1>6, <2>3 DEF Typed, TypeOK, TasksOK, serverVars
  <2>4. QED
    BY <2>1, <2>2, <2>3
<1>9. task' \in [Tasks -> TaskState] /\ TasksOK'
  BY <1>5, <1>8 DEF TasksOK
<1>10. QED
  BY <1>2, <1>4, <1>6, <1>9 DEF Typed, TypeOK, serverVars, ghosts

(* The ways a request ends. *)
LEMMA WriteAckTyped ==
  ASSUME Typed, NEW t \in Tasks, WriteAck(t)
  PROVE  Typed'
<1>1. task[t] \in Writing
  BY TaskKinds DEF WriteAck, Typed, TypeOK
<1>2. CommittedVersion(task[t].w.key) \in Stamp
  BY CommittedStamp DEF WriteAck, Typed
<1>3. task[t].w.id \in Ids
  BY <1>1 DEF Writing, Slot
<1>4. /\ queue' \subseteq queue /\ lastSeq' = lastSeq
      /\ rows' \in [Ids -> Row] /\ settled' \subseteq Keys
  BY <1>2, <1>3, SettleTypes DEF WriteAck, Typed
<1>5. task' \in [Tasks -> TaskState] /\ TasksOK'
  BY FinishTyped DEF WriteAck, serverVars
<1>6. QED
  BY <1>4, <1>5 DEF WriteAck, Typed, TypeOK, serverVars

(* The response of a server_first or server_only write.                    *)
LEMMA DirectAckTyped ==
  ASSUME Typed, NEW t \in Tasks, DirectAck(t)
  PROVE  Typed'
<1>1. task[t] \in Writing
  BY TaskKinds DEF DirectAck, Typed, TypeOK
<1>2. CommittedVersion(task[t].w.key) \in Stamp
  BY CommittedStamp DEF DirectAck, Typed
<1>3. StoredRow(CommittedVersion(task[t].w.key), FALSE, task[t].w.val) \in Row
  BY <1>1, <1>2, RowTypes DEF Writing, Slot
<1>4. rows' \in [Ids -> Row]
  BY <1>3 DEF DirectAck, PutRow, Typed, TypeOK
<1>5. task' \in [Tasks -> TaskState] /\ TasksOK'
  BY FinishTyped DEF DirectAck, serverVars
<1>6. QED
  BY <1>4, <1>5 DEF DirectAck, Typed, TypeOK, serverVars, ghosts

(* A send that rejects.                                                    *)
LEMMA SendFailsTyped ==
  ASSUME Typed, NEW t \in Tasks, SendFails(t)
  PROVE  Typed'
<1>1. task' \in [Tasks -> TaskState] /\ TasksOK'
  BY FinishTyped DEF SendFails, serverVars
<1>2. QED
  BY <1>1 DEF SendFails, Typed, TypeOK, storeVars, serverVars, ghosts

(* applyChange() *)
LEMMA ApplyStartTyped ==
  ASSUME Typed, NEW t \in Tasks, NEW ev \in outbox, ApplyStart(t, ev)
  PROVE  Typed'
<1> DEFINE r == [pc |-> "decide", ev |-> ev, old |-> rows[ev.id]]
<1>1. ev \in Change /\ ev.id \in Ids /\ ev.version \in Stamp
  BY DEF Typed, TypeOK, Change
<1>2. clock' \in Stamp
  <2>1. ClientWall \in Int /\ clock \in Stamp
    BY SkewAssumption DEF Typed, TypeOK, ClientWall
  <2>2. clock' = JsObserve(clock, ev.version, ClientWall)
    BY DEF ApplyStart
  <2>3. QED
    BY <1>1, <2>1, <2>2, ClockTypes
<1>3. r \in TaskState /\ r.pc = "decide" /\ r.ev \in outbox
  BY <1>1 DEF Applying, TaskState, Typed, TypeOK
<1>4. Becomes(t, r) /\ outbox' = outbox
  BY DEF ApplyStart, serverVars
<1> HIDE DEF r
<1>5. task' \in [Tasks -> TaskState] /\ TasksOK'
  BY <1>3, <1>4, BecomesTyped
<1>6. QED
  BY <1>2, <1>5 DEF ApplyStart, Typed, TypeOK, storeVars, serverVars, ghosts

(* applyChange(): reconcile and adopt.                                     *)
LEMMA ApplyDecideTyped ==
  ASSUME Typed, NEW t \in Tasks, ApplyDecide(t)
  PROVE  Typed'
<1> DEFINE ev == task[t].ev
           r  == [task[t] EXCEPT !.pc = "drop"]
<1>1. task[t] \in Applying /\ ev \in outbox /\ ev \in Change
  BY TaskKinds DEF ApplyDecide, Typed, TypeOK, TasksOK, Applying
<1>2. rows' \in [Ids -> Row]
  <2>1. StoredRow(ev.version, FALSE, ev.val) \in Row /\ ev.id \in Ids
    BY <1>1, RowTypes DEF Change
  <2>2. Adopt(ev) \/ UNCHANGED rows
    BY DEF ApplyDecide
  <2> HIDE DEF ev
  <2>3. QED
    BY <2>1, <2>2 DEF Adopt, PutRow, Typed, TypeOK
<1>3. r \in TaskState /\ r.pc = "drop" /\ r.ev \in outbox
  BY <1>1 DEF TaskState, Applying
<1>4. (Becomes(t, r) /\ UNCHANGED seen) \/ (Finish(t) /\ seen' = seen \cup {ev})
  BY DEF ApplyDecide
<1>5. outbox' = outbox
  BY DEF ApplyDecide, serverVars
<1> HIDE DEF r, ev
<1>6. task' \in [Tasks -> TaskState] /\ TasksOK'
  BY <1>3, <1>4, <1>5, BecomesTyped, FinishTyped
<1>7. seen' \subseteq outbox'
  BY <1>1, <1>4, <1>5 DEF Typed, TypeOK
<1>8. QED
  BY <1>2, <1>6, <1>7 DEF ApplyDecide, Typed, TypeOK, serverVars

(* #dropQueuedFor: list the queued writes.                                 *)
LEMMA DropListTyped ==
  ASSUME Typed, NEW t \in Tasks, DropList(t)
  PROVE  Typed'
<1> DEFINE ev    == task[t].ev
           batch == QueuedFor(ev.id)
           r     == [pc |-> "retire", ev |-> ev, batch |-> batch]
<1>1. task[t] \in Applying /\ ev \in outbox /\ ev \in Change
  BY TaskKinds DEF DropList, Typed, TypeOK, TasksOK, Applying
<1>2. batch \in SUBSET Slot
  BY DEF QueuedFor, Typed, TypeOK
<1>3. \/ Finish(t) /\ seen' = seen \cup {ev}
      \/ batch # {} /\ Becomes(t, r) /\ UNCHANGED seen
  BY DEF DropList
<1>4. outbox' = outbox
  BY DEF DropList, serverVars
<1> HIDE DEF ev, batch
<1>5. r \in TaskState /\ r.pc = "retire" /\ r.ev = ev /\ r.batch = batch
  BY <1>1, <1>2 DEF TaskState, Dropping
<1> HIDE DEF r
<1>6. task' \in [Tasks -> TaskState] /\ TasksOK'
  BY <1>1, <1>3, <1>4, <1>5, BecomesTyped, FinishTyped
<1>7. seen' \subseteq outbox'
  BY <1>1, <1>3, <1>4 DEF Typed, TypeOK
<1>8. QED
  BY <1>6, <1>7 DEF DropList, Typed, TypeOK, storeVars, serverVars

(* #dropQueuedFor: retire one of them.                                     *)
LEMMA DropRetireTyped ==
  ASSUME Typed, NEW t \in Tasks, DropRetire(t)
  PROVE  Typed'
<1> DEFINE ev   == task[t].ev
           rest == task[t].batch \ {Oldest(task[t].batch)}
           r    == [task[t] EXCEPT !.batch = rest]
<1>1. task[t] \in Dropping /\ ev \in outbox /\ ev \in Change
  BY TaskKinds DEF DropRetire, Typed, TypeOK, TasksOK, Dropping
<1>2. \/ Finish(t) /\ seen' = seen \cup {ev}
      \/ rest # {} /\ Becomes(t, r) /\ UNCHANGED seen
  BY DEF DropRetire
<1>3. outbox' = outbox /\ queue' \subseteq queue
  BY DEF DropRetire, serverVars, Retire
<1>4. rejected' \subseteq [slot : Slot, by : Change]
  <2>1. rejected' \subseteq rejected \cup {[slot |-> s, by |-> ev] : s \in queue}
    BY DEF DropRetire
  <2> HIDE DEF ev
  <2>2. QED
    BY <1>1, <2>1 DEF Typed, TypeOK
<1>5. rest \in SUBSET Slot
  BY <1>1 DEF Dropping
<1> HIDE DEF rest
<1>6. r \in TaskState /\ r.pc = "retire" /\ r.ev = ev /\ r.batch = rest
  BY <1>1, <1>5 DEF TaskState, Dropping
<1> HIDE DEF ev, r
<1>7. task' \in [Tasks -> TaskState] /\ TasksOK'
  BY <1>1, <1>2, <1>3, <1>6, BecomesTyped, FinishTyped
<1>8. seen' \subseteq outbox'
  BY <1>1, <1>2, <1>3 DEF Typed, TypeOK
<1>9. QED
  BY <1>3, <1>4, <1>7, <1>8 DEF DropRetire, Typed, TypeOK, serverVars

(* flushQueue() *)
LEMMA FlushStartTyped ==
  ASSUME Typed, NEW t \in Tasks, FlushStart(t)
  PROVE  Typed'
<1> DEFINE r == [pc |-> "send", batch |-> queue, sent |-> Oldest(queue).key]
<1>1. queue \in SUBSET Slot /\ queue # {} /\ Oldest(queue) \in Slot
  BY OldestSlot DEF FlushStart, Typed, TypeOK
<1>2. r \in TaskState /\ r.pc = "send" /\ r.batch # {}
  BY <1>1 DEF TaskState, Flushing, Slot
<1>3. Becomes(t, r) /\ outbox' = outbox
  BY DEF FlushStart, serverVars
<1> HIDE DEF r
<1>4. task' \in [Tasks -> TaskState] /\ TasksOK'
  BY <1>2, <1>3, BecomesTyped
<1>5. QED
  BY <1>4 DEF FlushStart, Typed, TypeOK, storeVars, serverVars, ghosts

(* flushQueue(): send the next entry.                                      *)
LEMMA FlushSendTyped ==
  ASSUME Typed, NEW t \in Tasks, FlushSend(t)
  PROVE  Typed'
<1> DEFINE w == Oldest(task[t].batch)
           r == [task[t] EXCEPT !.pc = "wait", !.sent = w.key]
<1>1. task[t] \in Flushing /\ task[t].batch # {} /\ w \in Slot
  BY TaskKinds, OldestSlot DEF FlushSend, Typed, TypeOK, TasksOK, Flushing
<1>2. net' = net \cup {[id |-> w.id, op |-> w.op, val |-> w.val, key |-> w.key]}
  BY DEF FlushSend, Transmit
<1>3. Becomes(t, r) /\ outbox' = outbox
  BY DEF FlushSend, serverVars
<1> HIDE DEF w
<1>4. r \in TaskState /\ r.pc = "wait" /\ r.batch # {}
  BY <1>1 DEF TaskState, Flushing, Slot
<1>5. net' \subseteq Request
  BY <1>1, <1>2 DEF Slot, Request, Typed, TypeOK
<1> HIDE DEF r
<1>6. task' \in [Tasks -> TaskState] /\ TasksOK'
  BY <1>3, <1>4, BecomesTyped
<1>7. QED
  BY <1>5, <1>6 DEF FlushSend, Typed, TypeOK, storeVars, serverVars, ghosts

(* flushQueue(): settle it and go on.                                      *)
LEMMA FlushAckTyped ==
  ASSUME Typed, NEW t \in Tasks, FlushAck(t)
  PROVE  Typed'
<1> DEFINE w    == Oldest(task[t].batch)
           rest == task[t].batch \ {w}
           r    == [task[t] EXCEPT !.pc = "send", !.batch = rest]
<1>1. task[t] \in Flushing /\ task[t].batch # {} /\ w \in Slot
  BY TaskKinds, OldestSlot DEF FlushAck, Typed, TypeOK, TasksOK, Flushing
<1>2. CommittedVersion(task[t].sent) \in Stamp
  BY CommittedStamp DEF FlushAck, Typed
<1>3. SettleAck(w.id, w.seq, w.key, w.base, CommittedVersion(task[t].sent))
  BY DEF FlushAck
<1>4. Finish(t) \/ (rest # {} /\ Becomes(t, r))
  BY DEF FlushAck
<1>5. rest \in SUBSET Slot
  BY <1>1 DEF Flushing
<1> HIDE DEF w
<1>6. /\ queue' \subseteq queue /\ lastSeq' = lastSeq
      /\ rows' \in [Ids -> Row] /\ settled' \subseteq Keys
  <2>1. w.id \in Ids
    BY <1>1 DEF Slot
  <2>2. QED
    BY <1>2, <1>3, <2>1, SettleTypes DEF Typed
<1> HIDE DEF rest
<1>7. r \in TaskState /\ r.pc = "send" /\ r.batch = rest
  BY <1>1, <1>5 DEF TaskState, Flushing
<1>8. outbox' = outbox
  BY DEF FlushAck, serverVars
<1> HIDE DEF r
<1>9. task' \in [Tasks -> TaskState] /\ TasksOK'
  BY <1>4, <1>7, <1>8, BecomesTyped, FinishTyped
<1>10. QED
  BY <1>6, <1>9 DEF FlushAck, Typed, TypeOK, serverVars

(* The network and the server. *)
LEMMA TasksKept ==
  ASSUME Typed, UNCHANGED task, outbox \subseteq outbox'
  PROVE  TasksOK'
  BY DEF Typed, TasksOK

(* A request reaches the server.                                           *)
LEMMA ServerCommitTyped ==
  ASSUME Typed, NEW req \in net, ServerCommit(req)
  PROVE  Typed'
<1>1. req \in Request /\ req.id \in Ids /\ req.op \in {"upsert", "delete"}
      /\ req.val \in SUBSET Fields /\ req.key \in Keys
  BY DEF Typed, TypeOK, Request
<1>2. /\ now' \in Nat /\ srv' \in [Ids -> Row]
      /\ outbox' \subseteq Change /\ outbox \subseteq outbox'
  <2>1. CASE Committed(req.key)
    BY <2>1 DEF ServerCommit, Typed, TypeOK, serverVars
  <2>2. CASE ~Committed(req.key)
    BY <1>1, <2>2, CommitTypes DEF ServerCommit, Typed
  <2>3. QED
    BY <2>1, <2>2
<1>3. TasksOK'
  BY <1>2, TasksKept DEF ServerCommit
<1>4. QED
  BY <1>2, <1>3 DEF ServerCommit, Typed, TypeOK, storeVars, ghosts

(* Another replica's write is committed.                                   *)
LEMMA RemoteCommitTyped ==
  ASSUME Typed, NEW id \in Ids, NEW op \in RemoteOps, RemoteCommit(id, op)
  PROVE  Typed'
<1> DEFINE key == MaxWrites + 1 + Cardinality(RemoteKeys)
<1>1. key \in Keys
  <2>1. RemoteKeys \in SUBSET Keys
    BY DEF RemoteKeys, Typed, TypeOK, Change
  <2>2. Cardinality(RemoteKeys) \in Nat
    BY <2>1, KeyTypes, FS_Subset, FS_CardinalityType
  <2>3. QED
    BY <2>2, BoundsAssumption DEF RemoteCommit, Keys, SeedKey
<1>2. WireOp(op) \in {"upsert", "delete"}
  BY DEF WireOp
<1>3. Content(op, key, srv[id]) \in SUBSET Fields
  <2>1. srv[id].val \in SUBSET Fields
    BY DEF Typed, TypeOK, Row
  <2> HIDE DEF key
  <2>2. QED
    BY <1>1, <2>1, OpsAssumption, FieldTypes DEF Content
<1>4. Commit(id, WireOp(op), Content(op, key, srv[id]), key)
  BY DEF RemoteCommit
<1> HIDE DEF key
<1>5. /\ now' \in Nat /\ srv' \in [Ids -> Row]
      /\ outbox' \subseteq Change /\ outbox \subseteq outbox'
  BY <1>1, <1>2, <1>3, <1>4, CommitTypes DEF Typed
<1>6. TasksOK'
  BY <1>5, TasksKept DEF RemoteCommit
<1>7. QED
  BY <1>5, <1>6 DEF RemoteCommit, Typed, TypeOK, storeVars, ghosts

(* A request is lost.                                                      *)
LEMMA NetLoseTyped ==
  ASSUME Typed, NEW req \in net, NetLose(req)
  PROVE  Typed'
  BY DEF NetLose, Typed, TypeOK, TasksOK, storeVars, serverVars, ghosts

(* Faults. *)
LEMMA StoreFaultTyped ==
  ASSUME Typed, NEW t \in Tasks, StoreFault(t)
  PROVE  Typed'
<1>1. task' \in [Tasks -> TaskState] /\ TasksOK'
  BY FinishTyped DEF StoreFault, serverVars
<1>2. QED
  BY <1>1 DEF StoreFault, Typed, TypeOK, storeVars, serverVars, ghosts

(* The process dies and starts again.                                      *)
LEMMA RestartTyped ==
  ASSUME Typed, Restart
  PROVE  Typed'
<1>1. Idle \in TaskState
  BY DEF TaskState
<1>2. task' \in [Tasks -> TaskState] /\ TasksOK'
  BY <1>1 DEF Restart, TasksOK, Idle
<1>3. QED
  BY <1>2, SeedTypes DEF Restart, Typed, TypeOK, storeVars, ghosts

(* Every step keeps the types. *)
LEMMA NextTyped == Typed /\ [Next]_vars => Typed'
<1> SUFFICES ASSUME Typed, [Next]_vars PROVE Typed'
  OBVIOUS
<1>1. ASSUME NEW t \in Tasks, NEW id \in Ids, NEW op \in Ops, NEW mode \in Modes,
             WriteStart(t, id, op, mode)
      PROVE  Typed'
  BY <1>1, WriteStartTyped
<1>2. ASSUME NEW t \in Tasks, NEW ev \in outbox, ApplyStart(t, ev) PROVE Typed'
  BY <1>2, ApplyStartTyped
<1>3. ASSUME NEW t \in Tasks, FlushStart(t) \/ StoreFault(t) \/ TaskStep(t) PROVE Typed'
  BY <1>3, FlushStartTyped, StoreFaultTyped, WritePutTyped, WriteEnqueueTyped, WriteAckTyped,
     DirectAckTyped, SendFailsTyped, ApplyDecideTyped, DropListTyped, DropRetireTyped,
     FlushSendTyped, FlushAckTyped DEF TaskStep
<1>4. ASSUME NEW req \in net, ServerCommit(req) \/ NetLose(req) PROVE Typed'
  BY <1>4, ServerCommitTyped, NetLoseTyped
<1>5. ASSUME NEW id \in Ids, NEW op \in RemoteOps, RemoteCommit(id, op) PROVE Typed'
  BY <1>5, RemoteCommitTyped
<1>6. CASE Restart
  BY <1>6, RestartTyped
<1>7. CASE UNCHANGED vars
  BY <1>7 DEF vars, Typed, TypeOK, TasksOK, storeVars, serverVars, ghosts
<1>8. QED
  BY <1>1, <1>2, <1>3, <1>4, <1>5, <1>6, <1>7 DEF Next, TaskStep

(* Types and task records are right in every reachable state.              *)
THEOREM TypedInvariance == Spec => []Typed
  BY InitTyped, NextTyped, PTL DEF Spec

(* Every variable has its type in every reachable state, whatever the      *)
(* overlap of the calls, the faults and the bounds.                        *)
THEOREM TypeCorrect == Spec => []TypeOK
  BY TypedInvariance, PTL DEF Typed

-----------------------------------------------------------------------------
(* The queue *)

(* OneSlotPerRow is inductive only together with the range of the seqs     *)
(* handed out, QueueBounded only together with the queue's finiteness.     *)
QueueOK ==
  /\ OneSlotPerRow
  /\ \A s \in queue : s.seq <= lastSeq
  /\ IsFiniteSet(queue)
  /\ QueueBounded

(* The queue starts empty.                                                 *)
LEMMA InitQueue == Init => QueueOK
  BY FS_EmptySet, BoundsAssumption DEF Init, QueueOK, OneSlotPerRow, QueueBounded

(* Retiring slots keeps it. *)
LEMMA RetireKeeps ==
  ASSUME QueueOK, queue' \subseteq queue, lastSeq' = lastSeq
  PROVE  QueueOK'
<1>1. IsFiniteSet(queue') /\ Cardinality(queue') <= Cardinality(queue)
      /\ Cardinality(queue) \in Nat /\ Cardinality(queue') \in Nat
  BY FS_Subset, FS_CardinalityType DEF QueueOK
<1>2. QED
  BY <1>1, BoundsAssumption DEF QueueOK, OneSlotPerRow, QueueBounded

(* A coalescing enqueue replaces the row's only slot. *)
LEMMA CoalesceKeeps ==
  ASSUME Typed, QueueOK, NEW w \in Slot, Enqueue(w), QueuedFor(w.id) # {}
  PROVE  QueueOK'
<1> DEFINE old  == Oldest(QueuedFor(w.id))
           slot == [w EXCEPT !.seq = old.seq]
<1>1. old \in queue /\ old \in Slot /\ old.id = w.id
  <2>1. QueuedFor(w.id) \in SUBSET Slot
    BY DEF QueuedFor, Typed, TypeOK
  <2>2. QED
    BY <2>1, OldestSlot DEF QueuedFor
<1>2. queue' = (queue \ {old}) \cup {slot} /\ lastSeq' = lastSeq
  BY DEF Enqueue, SlotSeq
<1> HIDE DEF old
<1>3. slot.seq = old.seq /\ slot.id = old.id
  BY <1>1 DEF Slot
<1> HIDE DEF slot
<1>4. \A s \in queue \ {old} : s.id # slot.id /\ s.seq # slot.seq
  BY <1>1, <1>3 DEF QueueOK, OneSlotPerRow
<1>5. OneSlotPerRow'
  BY <1>2, <1>4 DEF QueueOK, OneSlotPerRow
<1>6. \A s \in queue' : s.seq <= lastSeq'
  BY <1>1, <1>2, <1>3 DEF QueueOK
<1>7. IsFiniteSet(queue') /\ Cardinality(queue') <= MaxQueue
  <2>1. IsFiniteSet(queue \ {old}) /\ Cardinality(queue \ {old}) = Cardinality(queue) - 1
    BY <1>1, FS_RemoveElement DEF QueueOK
  <2>2. /\ IsFiniteSet((queue \ {old}) \cup {slot})
        /\ Cardinality((queue \ {old}) \cup {slot}) = Cardinality(queue \ {old}) + 1
    <3>1. slot \notin queue \ {old}
      BY <1>4
    <3>2. QED
      BY <2>1, <3>1, FS_AddElement
  <2>3. QED
    BY <1>2, <2>1, <2>2, FS_CardinalityType, BoundsAssumption DEF QueueOK, QueueBounded
<1>8. QED
  BY <1>5, <1>6, <1>7 DEF QueueOK, QueueBounded

(* An appending enqueue drops the oldest slot beyond the cap. *)
LEMMA AppendKeeps ==
  ASSUME Typed, QueueOK, NEW w \in Slot, Enqueue(w), QueuedFor(w.id) = {}
  PROVE  QueueOK'
<1> DEFINE slot == [w EXCEPT !.seq = lastSeq + 1]
           all  == queue \cup {slot}
<1>1. slot.seq = lastSeq + 1 /\ slot.id = w.id /\ slot \in Slot /\ lastSeq \in Nat
  BY DEF Slot, Typed, TypeOK
<1>2. /\ queue' = IF Overflows(w) THEN all \ {Oldest(all)} ELSE all
      /\ lastSeq' = lastSeq + 1
  BY DEF Enqueue, SlotSeq
<1> HIDE DEF slot
<1>3. \A s \in queue : s.id # slot.id /\ s.seq # slot.seq /\ s.seq \in Nat
  BY <1>1 DEF QueuedFor, QueueOK, Typed, TypeOK, Slot
<1>4. OneSlotPerRow'
  BY <1>2, <1>3 DEF QueueOK, OneSlotPerRow
<1>5. \A s \in queue' : s.seq <= lastSeq'
  BY <1>1, <1>2, <1>3 DEF QueueOK
<1>6. /\ IsFiniteSet(all) /\ Cardinality(all) = Cardinality(queue) + 1
      /\ Cardinality(queue) \in Nat
  BY <1>3, FS_AddElement, FS_CardinalityType DEF QueueOK
<1>7. IsFiniteSet(queue') /\ Cardinality(queue') <= MaxQueue
  <2>1. CASE Overflows(w)
    <3>1. Oldest(all) \in all
      BY <1>1, OldestSlot DEF Typed, TypeOK
    <3> HIDE DEF all
    <3>2. IsFiniteSet(all \ {Oldest(all)}) /\ Cardinality(all \ {Oldest(all)}) = Cardinality(queue)
      BY <1>6, <3>1, FS_RemoveElement
    <3>3. QED
      BY <1>2, <2>1, <3>2 DEF QueueOK, QueueBounded
  <2>2. CASE ~Overflows(w)
    <3> HIDE DEF all
    <3>1. Cardinality(queue) < MaxQueue
      BY <1>6, <2>2, BoundsAssumption DEF Overflows
    <3>2. QED
      BY <1>2, <1>6, <2>2, <3>1, BoundsAssumption
  <2>3. QED
    BY <2>1, <2>2
<1>8. QED
  BY <1>4, <1>5, <1>7 DEF QueueOK, QueueBounded

(* A settlement only retires, whatever it decides. *)
LEMMA SettleOnlyRetires ==
  ASSUME NEW id, NEW seq, NEW key, NEW base, NEW committed,
         SettleAck(id, seq, key, base, committed)
  PROVE  queue' \subseteq queue /\ lastSeq' = lastSeq
  BY DEF SettleAck, Retire, storeVars

(* Every step either enqueues one write or only retires slots. *)
LEMMA QueueSteps ==
  ASSUME Typed, [Next]_vars
  PROVE  \/ \E w \in Slot : Enqueue(w)
         \/ queue' \subseteq queue /\ lastSeq' = lastSeq
<1> DEFINE Retires == queue' \subseteq queue /\ lastSeq' = lastSeq
<1>1. ASSUME NEW t \in Tasks, WriteEnqueue(t) PROVE \E w \in Slot : Enqueue(w)
  <2>1. task[t].w \in Slot
    BY <1>1, TaskKinds DEF WriteEnqueue, Typed, TypeOK, Writing
  <2>2. QED
    BY <1>1, <2>1 DEF WriteEnqueue
<1>2. ASSUME NEW t \in Tasks, WriteAck(t) \/ FlushAck(t) PROVE Retires
  BY <1>2, SettleOnlyRetires DEF WriteAck, FlushAck
<1>3. ASSUME NEW t \in Tasks, DropRetire(t) PROVE Retires
  BY <1>3 DEF DropRetire, Retire
<1>4. ASSUME NEW t \in Tasks,
             WritePut(t) \/ DirectAck(t) \/ SendFails(t) \/ ApplyDecide(t) \/ DropList(t)
             \/ FlushStart(t) \/ FlushSend(t) \/ StoreFault(t)
      PROVE  Retires
  BY <1>4 DEF WritePut, DirectAck, SendFails, ApplyDecide, DropList, FlushStart, FlushSend,
     StoreFault, storeVars
<1>5. ASSUME NEW t \in Tasks, \/ \E id \in Ids, op \in Ops, mode \in Modes : WriteStart(t, id, op, mode)
                              \/ \E ev \in outbox : ApplyStart(t, ev)
      PROVE  Retires
  BY <1>5 DEF WriteStart, ApplyStart, storeVars
<1>6. CASE \/ \E req \in net : ServerCommit(req) \/ NetLose(req)
           \/ \E id \in Ids, op \in RemoteOps : RemoteCommit(id, op)
           \/ Restart \/ UNCHANGED vars
  BY <1>6 DEF ServerCommit, NetLose, RemoteCommit, Restart, storeVars, vars
<1>7. QED
  BY <1>1, <1>2, <1>3, <1>4, <1>5, <1>6 DEF Next

(* Every step keeps the queue's invariant.                                 *)
LEMMA NextQueue == Typed /\ QueueOK /\ [Next]_vars => QueueOK'
<1> SUFFICES ASSUME Typed, QueueOK, [Next]_vars PROVE QueueOK'
  OBVIOUS
<1>1. CASE \E w \in Slot : Enqueue(w)
  BY <1>1, CoalesceKeeps, AppendKeeps
<1>2. CASE queue' \subseteq queue /\ lastSeq' = lastSeq
  BY <1>2, RetireKeeps
<1>3. QED
  BY <1>1, <1>2, QueueSteps

(* One slot per row, ordered by seq and below the cap, in every reachable  *)
(* state of every instance, Overlap, SharedQueue and faults included.      *)
THEOREM QueueInvariance == Spec => []QueueOK
  BY TypedInvariance, InitQueue, NextQueue, PTL DEF Spec

(* enqueue coalesces under every interleaving of writes, settlements,      *)
(* flushes and conflict drops: no row ever has two slots.                  *)
THEOREM OneSlotAlways == Spec => []OneSlotPerRow
  BY QueueInvariance, PTL DEF QueueOK

(* The queue never outgrows maxQueueLength, for every cap.                 *)
THEOREM QueueBoundedAlways == Spec => []QueueBounded
  BY QueueInvariance, PTL DEF QueueOK

-----------------------------------------------------------------------------
(* Acknowledgements *)

(* When pending() hands out copies, the entry a flush waits for is still   *)
(* the one it sent: this is what the settlement after the await relies on. *)
WaitSent ==
  \A t \in Tasks : task[t].pc = "wait" => task[t].sent = Oldest(task[t].batch).key

AckOK == WaitSent /\ AckRetiresCommitted

(* No slot is settled at the start.                                        *)
LEMMA InitAck == Init => AckOK
  BY DEF Init, AckOK, WaitSent, AckRetiresCommitted, Idle

(* The server never forgets a committed change.                            *)
LEMMA OutboxGrows ==
  ASSUME [Next]_vars
  PROVE  outbox \subseteq outbox'
<1>1. ASSUME NEW t \in Tasks, TaskStep(t) \/ FlushStart(t) \/ StoreFault(t)
      PROVE  outbox' = outbox
  BY <1>1 DEF TaskStep, WritePut, WriteEnqueue, WriteAck, DirectAck, SendFails, ApplyDecide,
     DropList, DropRetire, FlushStart, FlushSend, FlushAck, StoreFault, serverVars
<1>2. ASSUME NEW t \in Tasks, \/ \E id \in Ids, op \in Ops, mode \in Modes : WriteStart(t, id, op, mode)
                              \/ \E ev \in outbox : ApplyStart(t, ev)
      PROVE  outbox' = outbox
  BY <1>2 DEF WriteStart, ApplyStart, serverVars
<1>3. CASE \E req \in net : ServerCommit(req) \/ NetLose(req)
  BY <1>3 DEF ServerCommit, NetLose, Commit, serverVars
<1>4. CASE \E id \in Ids, op \in RemoteOps : RemoteCommit(id, op)
  BY <1>4 DEF RemoteCommit, Commit
<1>5. CASE Restart \/ UNCHANGED vars
  BY <1>5 DEF Restart, vars, serverVars
<1>6. QED
  BY <1>1, <1>2, <1>3, <1>4, <1>5 DEF Next, TaskStep

(* A settlement retires the slot of the key it was given, and no other.    *)
LEMMA SettleCommitted ==
  ASSUME QueueOK, AckRetiresCommitted, NEW id, NEW seq, NEW key, NEW base, NEW committed,
         Committed(key), SettleAck(id, seq, key, base, committed)
  PROVE  \A k \in settled' : Committed(k)
<1>1. \/ settled' = settled
      \/ /\ \E s \in queue : s.seq = seq /\ s.key = key
         /\ settled' = settled \cup {s.key : s \in {u \in queue : u.seq = seq}}
  BY DEF SettleAck, SettleQueuedAck
<1>2. ASSUME NEW s \in queue, s.seq = seq, s.key = key
      PROVE  \A u \in queue : u.seq = seq => u.key = key
  BY <1>2 DEF QueueOK, OneSlotPerRow
<1>3. QED
  BY <1>1, <1>2 DEF AckRetiresCommitted

(* A step that leaves the waiting flushes alone keeps their invariant.     *)
LEMMA WaitKept ==
  ASSUME Typed, WaitSent, NEW t \in Tasks, NEW r, Becomes(t, r),
         r.pc = "wait" => r.sent = Oldest(r.batch).key
  PROVE  WaitSent'
<1>1. task' = [task EXCEPT ![t] = r] /\ task \in [Tasks -> TaskState]
  BY DEF Becomes, Typed, TypeOK
<1>2. ASSUME NEW u \in Tasks, task'[u].pc = "wait"
      PROVE  task'[u].sent = Oldest(task'[u].batch).key
  <2>1. CASE u = t
    BY <1>1, <1>2, <2>1
  <2>2. CASE u # t
    BY <1>1, <1>2, <2>2 DEF WaitSent
  <2>3. QED
    BY <2>1, <2>2
<1>3. QED
  BY <1>2 DEF WaitSent

(* A task that ends, or goes on to another step than waiting for a         *)
(* response, keeps it.                                                     *)
LEMMA WaitMoves ==
  ASSUME Typed, WaitSent, NEW t \in Tasks,
         \/ Finish(t)
         \/ \E r \in TaskState : Becomes(t, r) /\ r.pc # "wait"
  PROVE  WaitSent'
<1>1. Idle.pc # "wait"
  BY DEF Idle
<1>2. QED
  BY <1>1, WaitKept DEF Finish

(* Every step keeps the invariant of the waiting flushes.                  *)
LEMMA WaitSteps ==
  ASSUME Typed, WaitSent, [Next]_vars, SharedQueue = FALSE
  PROVE  WaitSent'
<1>1. ASSUME NEW t \in Tasks, NEW id \in Ids, NEW op \in Ops, NEW mode \in Modes,
             WriteStart(t, id, op, mode)
      PROVE  WaitSent'
  <2>1. PICK w : Becomes(t, [pc |-> IF mode \in {"server_first", "server_only"} THEN "direct" ELSE "put",
                             w |-> w, mode |-> mode])
    BY <1>1 DEF WriteStart
  <2> DEFINE r == [pc |-> IF mode \in {"server_first", "server_only"} THEN "direct" ELSE "put",
                   w |-> w, mode |-> mode]
  <2>2. Becomes(t, r) /\ r.pc # "wait"
    BY <2>1
  <2> HIDE DEF r
  <2>3. QED
    BY <2>2, WaitKept
<1>2. ASSUME NEW t \in Tasks, NEW ev \in outbox, ApplyStart(t, ev)
      PROVE  WaitSent'
  <2> DEFINE r == [pc |-> "decide", ev |-> ev, old |-> rows[ev.id]]
  <2>1. Becomes(t, r) /\ r.pc # "wait"
    BY <1>2 DEF ApplyStart
  <2> HIDE DEF r
  <2>2. QED
    BY <2>1, WaitKept
<1>3. ASSUME NEW t \in Tasks, WritePut(t)
      PROVE  WaitSent'
  <2> DEFINE r == [task[t] EXCEPT !.pc = "enqueue"]
  <2>1. task[t] \in Writing
    BY <1>3, TaskKinds DEF WritePut, Typed, TypeOK
  <2>2. Becomes(t, r) /\ r.pc # "wait"
    BY <1>3, <2>1 DEF WritePut, Writing
  <2> HIDE DEF r
  <2>3. QED
    BY <2>2, WaitKept
<1>4. ASSUME NEW t \in Tasks, WriteEnqueue(t)
      PROVE  WaitSent'
  <2>1. task[t] \in Writing
    BY <1>4, TaskKinds DEF WriteEnqueue, Typed, TypeOK
  <2>2. task'[t].pc # "wait"
    BY <1>4, <2>1 DEF WriteEnqueue, Writing, Idle
  <2>3. ASSUME NEW u \in Tasks, u # t, task[u].pc \in {"send", "wait"}
        PROVE  task'[u] = task[u]
    <3>1. task[u] \in Flushing
      BY <2>3, TaskKinds DEF Typed, TypeOK
    <3>2. task'[u] = [task[u] EXCEPT !.batch = task[u].batch]
      BY <1>4, <2>3 DEF WriteEnqueue, Shared
    <3>3. QED
      BY <3>1, <3>2 DEF Flushing
  <2>4. ASSUME NEW u \in Tasks, u # t, task[u].pc \notin {"send", "wait"}
        PROVE  task'[u] = task[u]
    BY <1>4, <2>4 DEF WriteEnqueue
  <2>5. QED
    BY <2>2, <2>3, <2>4 DEF WaitSent
<1>5. ASSUME NEW t \in Tasks,
             WriteAck(t) \/ DirectAck(t) \/ SendFails(t) \/ StoreFault(t)
      PROVE  WaitSent'
  BY <1>5, WaitMoves DEF WriteAck, DirectAck, SendFails, StoreFault
<1>6. ASSUME NEW t \in Tasks, ApplyDecide(t)
      PROVE  WaitSent'
  <2> DEFINE r == [task[t] EXCEPT !.pc = "drop"]
  <2>1. task[t] \in Applying
    BY <1>6, TaskKinds DEF ApplyDecide, Typed, TypeOK
  <2>2. r.pc # "wait" /\ (Becomes(t, r) \/ Finish(t))
    BY <1>6, <2>1 DEF ApplyDecide, Applying
  <2> HIDE DEF r
  <2>3. QED
    BY <2>2, WaitKept, WaitMoves
<1>7. ASSUME NEW t \in Tasks, DropList(t)
      PROVE  WaitSent'
  <2> DEFINE r == [pc |-> "retire", ev |-> task[t].ev, batch |-> QueuedFor(task[t].ev.id)]
  <2>1. r.pc # "wait" /\ (Becomes(t, r) \/ Finish(t))
    BY <1>7 DEF DropList
  <2> HIDE DEF r
  <2>2. QED
    BY <2>1, WaitKept, WaitMoves
<1>8. ASSUME NEW t \in Tasks, DropRetire(t)
      PROVE  WaitSent'
  <2> DEFINE r == [task[t] EXCEPT !.batch = task[t].batch \ {Oldest(task[t].batch)}]
  <2>1. task[t] \in Dropping
    BY <1>8, TaskKinds DEF DropRetire, Typed, TypeOK
  <2>2. r.pc # "wait" /\ (Becomes(t, r) \/ Finish(t))
    BY <1>8, <2>1 DEF DropRetire, Dropping
  <2> HIDE DEF r
  <2>3. QED
    BY <2>2, WaitKept, WaitMoves
<1>9. ASSUME NEW t \in Tasks, FlushStart(t)
      PROVE  WaitSent'
  <2> DEFINE r == [pc |-> "send", batch |-> queue, sent |-> Oldest(queue).key]
  <2>1. r.pc # "wait" /\ Becomes(t, r)
    BY <1>9 DEF FlushStart
  <2> HIDE DEF r
  <2>2. QED
    BY <2>1, WaitKept
<1>10. ASSUME NEW t \in Tasks, FlushSend(t)
       PROVE  WaitSent'
  <2> DEFINE r == [task[t] EXCEPT !.pc = "wait", !.sent = Oldest(task[t].batch).key]
  <2>1. task[t] \in Flushing
    BY <1>10, TaskKinds DEF FlushSend, Typed, TypeOK
  <2>2. r.sent = Oldest(r.batch).key /\ Becomes(t, r)
    BY <1>10, <2>1 DEF FlushSend, Flushing
  <2> HIDE DEF r
  <2>3. QED
    BY <2>2, WaitKept
<1>11. ASSUME NEW t \in Tasks, FlushAck(t)
       PROVE  WaitSent'
  <2> DEFINE r == [task[t] EXCEPT !.pc = "send",
                                  !.batch = task[t].batch \ {Oldest(task[t].batch)}]
  <2>1. task[t] \in Flushing
    BY <1>11, TaskKinds DEF FlushAck, Typed, TypeOK
  <2>2. r.pc # "wait" /\ (Becomes(t, r) \/ Finish(t))
    BY <1>11, <2>1 DEF FlushAck, Flushing
  <2> HIDE DEF r
  <2>3. QED
    BY <2>2, WaitKept, WaitMoves
<1>12. CASE \/ \E req \in net : ServerCommit(req) \/ NetLose(req)
            \/ \E id \in Ids, op \in RemoteOps : RemoteCommit(id, op)
            \/ UNCHANGED vars
  BY <1>12 DEF ServerCommit, NetLose, RemoteCommit, vars, WaitSent
<1>13. CASE Restart
  BY <1>13 DEF Restart, WaitSent, Idle
<1>14. QED
  BY <1>1, <1>2, <1>3, <1>4, <1>5, <1>6, <1>7, <1>8, <1>9, <1>10, <1>11, <1>12, <1>13 DEF Next

(* Every step keeps acknowledgements safe.                                 *)
LEMMA NextAck ==
  ASSUME SharedQueue = FALSE
  PROVE  Typed /\ QueueOK /\ AckOK /\ [Next]_vars => AckOK'
<1> SUFFICES ASSUME Typed, QueueOK, AckOK, [Next]_vars PROVE AckOK'
  OBVIOUS
<1>1. WaitSent'
  BY WaitSteps DEF AckOK
<1>2. \A k : Committed(k) => Committed(k)'
  BY OutboxGrows DEF Committed
<1>3. ASSUME NEW t \in Tasks, WriteAck(t)
      PROVE  \A k \in settled' : Committed(k)
  BY <1>3, SettleCommitted DEF WriteAck, AckOK
<1>4. ASSUME NEW t \in Tasks, FlushAck(t)
      PROVE  \A k \in settled' : Committed(k)
  <2> DEFINE w == Oldest(task[t].batch)
  <2>1. w.key = task[t].sent /\ Committed(task[t].sent)
    BY <1>4 DEF FlushAck, AckOK, WaitSent
  <2>2. SettleAck(w.id, w.seq, w.key, w.base, CommittedVersion(task[t].sent))
    BY <1>4 DEF FlushAck
  <2> HIDE DEF w
  <2>3. QED
    BY <2>1, <2>2, SettleCommitted DEF AckOK
<1>5. ASSUME \A t \in Tasks : ~WriteAck(t) /\ ~FlushAck(t)
      PROVE  settled' = settled
  <2>1. ASSUME NEW t \in Tasks,
               WritePut(t) \/ WriteEnqueue(t) \/ DirectAck(t) \/ SendFails(t) \/ ApplyDecide(t)
               \/ DropList(t) \/ DropRetire(t) \/ FlushStart(t) \/ FlushSend(t) \/ StoreFault(t)
        PROVE  settled' = settled
    BY <2>1 DEF WritePut, WriteEnqueue, DirectAck, SendFails, ApplyDecide, DropList, DropRetire,
       FlushStart, FlushSend, StoreFault, ghosts
  <2>2. ASSUME NEW t \in Tasks, \/ \E id \in Ids, op \in Ops, mode \in Modes : WriteStart(t, id, op, mode)
                                \/ \E ev \in outbox : ApplyStart(t, ev)
        PROVE  settled' = settled
    BY <2>2 DEF WriteStart, ApplyStart, ghosts
  <2>3. CASE \/ \E req \in net : ServerCommit(req) \/ NetLose(req)
             \/ \E id \in Ids, op \in RemoteOps : RemoteCommit(id, op)
             \/ Restart \/ UNCHANGED vars
    BY <2>3 DEF ServerCommit, NetLose, RemoteCommit, Restart, vars, ghosts
  <2>4. QED
    BY <1>5, <2>1, <2>2, <2>3 DEF Next
<1>6. AckRetiresCommitted'
  BY <1>2, <1>3, <1>4, <1>5 DEF AckOK, AckRetiresCommitted
<1>7. QED
  BY <1>1, <1>6 DEF AckOK

(* With a store whose pending() returns copies (IndexedDbStore), an        *)
(* acknowledgement only ever retires a write the server has committed,     *)
(* however writes, flushes, conflicts, losses and restarts interleave.     *)
THEOREM AckSafety ==
  ASSUME SharedQueue = FALSE
  PROVE  Spec => []AckRetiresCommitted
<1>1. Typed /\ QueueOK /\ AckOK /\ [Next]_vars => AckOK'
  BY NextAck
<1>2. AckOK => AckRetiresCommitted
  BY DEF AckOK
<1>3. QED
  BY <1>1, <1>2, InitAck, TypedInvariance, QueueInvariance, PTL DEF Spec
=============================================================================
