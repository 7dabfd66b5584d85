------------------------ MODULE SyncClientRowProofs ------------------------
(***************************************************************************)
(* What SyncClient's rows show, for every number of rows, tasks, writes    *)
(* and deliveries: CleanIsCommitted under every interleaving, and (for     *)
(* calls that run one store section at a time, as MemoryStore's do) that   *)
(* the queue and the dirty rows are each other's, that an echo is not      *)
(* hidden by an acknowledgement, that replicas converge and that no row    *)
(* goes back to an older version; and that deliveries commute and repeat   *)
(* harmlessly.                                                             *)
(***************************************************************************)
EXTENDS SyncClientProofs

-----------------------------------------------------------------------------
(* What a row shows *)

(* What the replica still holds of its own writes: the queue, and what the *)
(* calls in flight carry.                                                  *)
HeldBy(r) ==
  IF r.pc \in {"put", "enqueue", "ack", "direct"} THEN {r.w}
  ELSE IF r.pc \in {"send", "wait"} THEN r.batch
  ELSE {}
LocalWrites == queue \cup UNION {HeldBy(task[t]) : t \in Tasks}

(* A stamp the clock cannot hand out any more, not even after a restart    *)
(* that starts it again from the wall clock.                               *)
Spent(v) ==
  \/ v.wall_ms < ClientWall
  \/ v.wall_ms < clock.wall_ms
  \/ v.wall_ms = clock.wall_ms /\ v.counter <= clock.counter

(* A restart, which starts the clock again, finds it behind the wall clock. *)
MayRestart == Durable /\ MaxFaults # 0
RestartClock == MayRestart => ClientSkew >= 0
ClockOwn == clock.actor = ClientActor /\ (MayRestart => clock.wall_ms <= ClientWall)

(* A payload without the columns that the server sets. *)
Domain(val) == val \ Columns

(* A local write's key and stamp are its own: no two writes share either.  *)
WritesMade ==
  \A x \in LocalWrites : /\ x.key <= lastKey /\ x.base.actor = ClientActor /\ Spent(x.base)
                         /\ x.op = "delete" => x.val = {}
WritesDistinct ==
  \A x, y \in LocalWrites :
    x.key = y.key \/ x.base = y.base => x.id = y.id /\ x.val = y.val

(* A request, and what the server logged, is the write its key names.      *)
Requested ==
  \A q \in net : /\ q.key <= lastKey /\ (q.op = "delete" => q.val = {})
                 /\ \A x \in LocalWrites : q.key = x.key => q.id = x.id /\ q.val = x.val
Logged ==
  \A e \in outbox :
    /\ e.key <= lastKey \/ e.key > MaxWrites
    /\ e.version.actor = ServerActor /\ e.version.wall_ms <= now
    /\ \A x \in LocalWrites : e.key = x.key => e.id = x.id /\ Domain(e.val) = Domain(x.val)
ServerStamped ==
  \A i \in Ids : srv[i].present => srv[i].version.actor = ServerActor /\ srv[i].version.wall_ms <= now

(* A row that carries a local write's stamp shows that write, a clean one  *)
(* carries a version that was committed for it, and what was committed     *)
(* there unless a flush may settle an object that was coalesced under it.  *)
RowShows(i) ==
  \A x \in LocalWrites :
    x.id = i /\ rows[i].present /\ rows[i].version = x.base => rows[i].val = x.val
RowOwn(i) ==
  rows[i].present /\ rows[i].dirty => rows[i].version.actor = ClientActor /\ Spent(rows[i].version)
Matches(e, row) ==
  e.version = row.version /\ (SharedQueue = FALSE => Domain(e.val) = Domain(row.val))
RowClean(i) ==
  rows[i].present /\ ~rows[i].dirty => \E e \in outbox : e.id = i /\ Matches(e, rows[i])
RowsTrue == \A i \in Ids : RowShows(i) /\ RowOwn(i) /\ RowClean(i)

TrueInv ==
  ClockOwn /\ WritesMade /\ WritesDistinct /\ Requested /\ Logged /\ ServerStamped /\ RowsTrue

(* A key of a write of row i, as far as anybody still knows it.            *)
Named(key, i) ==
  /\ \A x \in LocalWrites : x.key = key => x.id = i
  /\ \A q \in net : q.key = key => q.id = i
  /\ \A e \in outbox : e.key = key => e.id = i

(* The entries a flush holds are slots of the queue or were: a coalescing  *)
(* enqueue writes a later write of the same row into one.                  *)
BatchOK(t) ==
  task[t].pc \in {"send", "wait"} =>
    \A s \in task[t].batch :
      /\ s.seq <= lastSeq
      /\ \A u \in task[t].batch : u.seq = s.seq => u = s
      /\ \A u \in queue : u.seq = s.seq => u.id = s.id

(* So that the response it waits for is one to a write of the entry's row. *)
SentOK(t) ==
  task[t].pc = "wait" =>
    task[t].sent <= lastKey /\ Named(task[t].sent, Oldest(task[t].batch).id)

FlushOK ==
  /\ SharedQueue = FALSE => WaitSent
  /\ \A t \in Tasks : BatchOK(t) /\ SentOK(t)

-----------------------------------------------------------------------------
(* Stamps and keys are not handed out twice *)

(* The wall clock and the clock's components are integers.                 *)
LEMMA WallTypes ==
  ASSUME TypeOK
  PROVE  /\ ClientWall \in Int /\ now \in Nat
         /\ clock.wall_ms \in Nat /\ clock.counter \in Nat
  BY SkewAssumption DEF TypeOK, ClientWall, Stamp

(* tick: later stamps are fresh, spent ones stay spent.                    *)
LEMMA TickSpends ==
  ASSUME NEW c \in Stamp, NEW d \in Stamp, NEW n \in Int, NEW v \in Stamp, d = JsTick(c, n),
         v.wall_ms < n \/ v.wall_ms < c.wall_ms \/ (v.wall_ms = c.wall_ms /\ v.counter <= c.counter)
  PROVE  /\ v # d /\ d.actor = c.actor /\ (c.wall_ms <= n => d.wall_ms <= n)
         /\ v.wall_ms < n \/ v.wall_ms < d.wall_ms \/ (v.wall_ms = d.wall_ms /\ v.counter <= d.counter)
<1>1. CASE n > c.wall_ms
  <2>1. d.wall_ms = n /\ d.counter = 0 /\ d.actor = c.actor
    BY <1>1 DEF JsTick, Stamp
  <2>2. QED
    BY <1>1, <2>1 DEF Stamp
<1>2. CASE ~(n > c.wall_ms)
  <2>1. d.wall_ms = c.wall_ms /\ d.counter = c.counter + 1 /\ d.actor = c.actor
    BY <1>2 DEF JsTick, Stamp
  <2>2. QED
    BY <1>2, <2>1 DEF Stamp
<1>3. QED
  BY <1>1, <1>2

(* observe only moves the clock on, no further than the two walls.         *)
LEMMA ObserveSpends ==
  ASSUME NEW c \in Stamp, NEW r \in Stamp, NEW n \in Int, NEW v \in Stamp
  PROVE  LET d == JsObserve(c, r, n)
         IN  /\ d.actor = c.actor
             /\ c.wall_ms <= n /\ r.wall_ms <= n => d.wall_ms <= n
             /\ v.wall_ms < c.wall_ms \/ (v.wall_ms = c.wall_ms /\ v.counter <= c.counter)
                => v.wall_ms < d.wall_ms \/ (v.wall_ms = d.wall_ms /\ v.counter <= d.counter)
<1> DEFINE ok   == r.wall_ms <= n + MAX_DRIFT_MS
           wall == IF ok THEN HlcMax(HlcMax(n, c.wall_ms), r.wall_ms) ELSE HlcMax(n, c.wall_ms)
           ctr  == IF ok /\ wall = c.wall_ms /\ wall = r.wall_ms
                   THEN HlcMax(c.counter, r.counter) + 1
                   ELSE IF wall = c.wall_ms THEN c.counter + 1
                   ELSE IF ok /\ wall = r.wall_ms THEN r.counter + 1
                   ELSE 0
           d    == JsObserve(c, r, n)
<1>1. /\ c.wall_ms \in Nat /\ c.counter \in Nat /\ r.wall_ms \in Nat /\ r.counter \in Nat
      /\ v.wall_ms \in Nat /\ v.counter \in Nat
  BY DEF Stamp
<1>2. wall \in Nat /\ wall >= c.wall_ms /\ (c.wall_ms <= n /\ r.wall_ms <= n => wall <= n)
  BY <1>1 DEF HlcMax
<1>3. wall = c.wall_ms => ctr >= c.counter
  <2>1. HlcMax(c.counter, r.counter) + 1 >= c.counter
    BY <1>1 DEF HlcMax
  <2> HIDE DEF ok, wall
  <2>2. QED
    BY <1>1, <2>1
<1>4. ctr \in Nat
  <2>1. HlcMax(c.counter, r.counter) + 1 \in Nat
    BY <1>1 DEF HlcMax
  <2> HIDE DEF ok, wall
  <2>2. QED
    BY <1>1, <2>1
<1>5. d = [c EXCEPT !.wall_ms = wall, !.counter = ctr]
  BY DEF JsObserve
<1> HIDE DEF wall, ctr, d
<1>6. d.wall_ms = wall /\ d.counter = ctr /\ d.actor = c.actor
  BY <1>5 DEF Stamp
<1>7. QED
  BY <1>1, <1>2, <1>3, <1>4, <1>6 DEF d

-----------------------------------------------------------------------------
(* How the local writes change *)

(* Two records of one write.                                               *)
Same(x, y) ==
  x.key = y.key /\ x.base = y.base /\ x.id = y.id /\ x.op = y.op /\ x.val = y.val
Descend == \A x \in LocalWrites' : \E y \in LocalWrites : Same(x, y)

(* The local writes are slots.                                             *)
LEMMA WritesAreSlots == Typed => LocalWrites \subseteq Slot
<1> SUFFICES ASSUME Typed PROVE LocalWrites \subseteq Slot
  OBVIOUS
<1>1. ASSUME NEW t \in Tasks PROVE HeldBy(task[t]) \subseteq Slot
  <2>1. task[t] \in TaskState
    BY DEF Typed, TypeOK
  <2>2. QED
    BY <2>1, TaskKinds DEF HeldBy, Writing, Flushing
<1>2. QED
  BY <1>1 DEF LocalWrites, Typed, TypeOK

(* A task that moves on with writes it or the queue already held.          *)
LEMMA MoveDescends ==
  ASSUME Typed, NEW t \in Tasks, NEW r, Becomes(t, r),
         \A x \in HeldBy(r) : \E y \in LocalWrites : Same(x, y),
         \A x \in queue' : \E y \in LocalWrites : Same(x, y)
  PROVE  Descend
<1>1. task' = [task EXCEPT ![t] = r] /\ task \in [Tasks -> TaskState]
  BY DEF Becomes, Typed, TypeOK
<1>2. ASSUME NEW u \in Tasks, NEW x \in HeldBy(task'[u])
      PROVE  \E y \in LocalWrites : Same(x, y)
  <2>1. CASE u = t
    BY <1>1, <1>2, <2>1
  <2>2. CASE u # t
    <3>1. x \in LocalWrites
      BY <1>1, <1>2, <2>2 DEF LocalWrites
    <3>2. QED
      BY <3>1 DEF Same
  <2>3. QED
    BY <2>1, <2>2
<1>3. LocalWrites' = queue' \cup UNION {HeldBy(task'[u]) : u \in Tasks}
  BY DEF LocalWrites, HeldBy
<1>4. QED
  BY <1>2, <1>3 DEF Descend

(* A task that ends holds nothing.                                         *)
LEMMA FinishDescends ==
  ASSUME Typed, NEW t \in Tasks, Finish(t), queue' \subseteq queue
  PROVE  Descend
<1>1. HeldBy(Idle) = {}
  BY DEF HeldBy, Idle
<1>2. \A x \in queue' : x \in LocalWrites /\ Same(x, x)
  BY DEF LocalWrites, Same
<1>3. QED
  BY <1>1, <1>2, MoveDescends DEF Finish

(* A task that goes on with what it holds, over a queue that only shrinks. *)
LEMMA NarrowDescends ==
  ASSUME Typed, NEW t \in Tasks, NEW r, Becomes(t, r), queue' \subseteq queue,
         HeldBy(r) \subseteq HeldBy(task[t]) \cup queue
  PROVE  Descend
<1>1. \A x \in queue' : x \in LocalWrites /\ Same(x, x)
  BY DEF LocalWrites, Same
<1>2. \A x \in HeldBy(r) : x \in LocalWrites /\ Same(x, x)
  BY DEF LocalWrites, Same
<1>3. QED
  BY <1>1, <1>2, MoveDescends

-----------------------------------------------------------------------------
(* The steps of the replica's own calls *)

(* What a call's step may do to one row: show a committed change, or a     *)
(* local write.                                                            *)
RowStep ==
  \/ rows' = rows
  \/ \E i \in Ids, new \in Row :
       /\ rows' = [rows EXCEPT ![i] = new]
       /\ \/ ~new.dirty /\ \E e \in outbox : e.id = i /\ Matches(e, new)
          \/ new.dirty /\ \E x \in LocalWrites : x.id = i /\ x.base = new.version /\ x.val = new.val

RequestOf(x) == [id |-> x.id, op |-> x.op, val |-> x.val, key |-> x.key]

(* What every step of a call keeps of the clock, the server and the wire.  *)
CallStep ==
  /\ Descend
  /\ UNCHANGED <<lastKey, now, srv, outbox>>
  /\ \A q \in net' : q \in net \/ \E x \in LocalWrites : q = RequestOf(x)
  /\ RowStep
  /\ ClockOwn'
  /\ \A v \in Stamp : Spent(v) => Spent(v)'

(* A step of that kind keeps the invariant.                                *)
LEMMA CallKeeps ==
  ASSUME Typed, Typed', TrueInv, CallStep, ClientActor # ServerActor
  PROVE  TrueInv'
<1>1. LocalWrites \subseteq Slot
  BY WritesAreSlots
<1>2. \A x \in LocalWrites' : \E y \in LocalWrites : Same(x, y)
  BY DEF CallStep, Descend
<1>3. WritesMade'
  <2>1. \A y \in LocalWrites : y.base \in Stamp
    BY <1>1 DEF Slot
  <2>2. ASSUME NEW x \in LocalWrites' 
      PROVE  x.key <= lastKey' /\ x.base.actor = ClientActor /\ Spent(x.base)' /\ (x.op = "delete" => x.val = {})
    <3>1. PICK y \in LocalWrites : Same(x, y)
      BY <1>2
    <3>2. y.key <= lastKey /\ y.base.actor = ClientActor /\ Spent(y.base)' /\ (y.op = "delete" => y.val = {})
      BY <2>1 DEF TrueInv, WritesMade, CallStep
    <3>3. QED
      BY <3>1, <3>2 DEF Same, CallStep
  <2>3. QED
    BY <2>2 DEF WritesMade
<1>4. WritesDistinct'
  <2> SUFFICES ASSUME NEW x \in LocalWrites', NEW y \in LocalWrites', x.key = y.key \/ x.base = y.base
               PROVE  x.id = y.id /\ x.val = y.val
    BY DEF WritesDistinct
  <2>1. PICK a \in LocalWrites : Same(x, a)
    BY <1>2
  <2>2. PICK b \in LocalWrites : Same(y, b)
    BY <1>2
  <2>3. a.id = b.id /\ a.val = b.val
    BY <2>1, <2>2 DEF TrueInv, WritesDistinct, Same
  <2>4. QED
    BY <2>1, <2>2, <2>3 DEF Same
<1>5. Requested'
  <2> SUFFICES ASSUME NEW q \in net'
               PROVE  /\ q.key <= lastKey' /\ (q.op = "delete" => q.val = {})
                      /\ \A x \in LocalWrites' : q.key = x.key => q.id = x.id /\ q.val = x.val
    BY DEF Requested
  <2>1. /\ q.key <= lastKey /\ (q.op = "delete" => q.val = {})
        /\ \A y \in LocalWrites : q.key = y.key => q.id = y.id /\ q.val = y.val
    <3>1. CASE q \in net
      BY <3>1 DEF TrueInv, Requested
    <3>2. ASSUME NEW x \in LocalWrites, q = RequestOf(x)
          PROVE  /\ q.key <= lastKey /\ (q.op = "delete" => q.val = {})
                 /\ \A y \in LocalWrites : q.key = y.key => q.id = y.id /\ q.val = y.val
      BY <3>2 DEF TrueInv, WritesMade, WritesDistinct, RequestOf
    <3>3. QED
      BY <3>1, <3>2 DEF CallStep
  <2>2. QED
    BY <1>2, <2>1 DEF Same, CallStep
<1>6. Logged'
  <2> SUFFICES ASSUME NEW e \in outbox
               PROVE  /\ e.key <= lastKey' \/ e.key > MaxWrites
                      /\ e.version.actor = ServerActor /\ e.version.wall_ms <= now'
                      /\ \A x \in LocalWrites' : e.key = x.key => e.id = x.id /\ Domain(e.val) = Domain(x.val)
    BY DEF Logged, CallStep
  <2>1. /\ e.key <= lastKey \/ e.key > MaxWrites
        /\ e.version.actor = ServerActor /\ e.version.wall_ms <= now
        /\ \A x \in LocalWrites : e.key = x.key => e.id = x.id /\ Domain(e.val) = Domain(x.val)
    BY DEF TrueInv, Logged
  <2>2. QED
    BY <1>2, <2>1 DEF Same, CallStep
<1>7. ServerStamped'
  BY DEF TrueInv, ServerStamped, CallStep
<1>8. RowsTrue'
  <2> SUFFICES ASSUME NEW i \in Ids PROVE RowShows(i)' /\ RowOwn(i)' /\ RowClean(i)'
    BY DEF RowsTrue
  <2>1. CASE rows'[i] = rows[i]
    <3>1. RowShows(i) /\ RowOwn(i) /\ RowClean(i) /\ rows[i].version \in Stamp
      BY DEF TrueInv, RowsTrue, Typed, TypeOK, Row
    <3>2. RowShows(i)'
      BY <1>2, <2>1, <3>1 DEF RowShows, Same
    <3>3. RowOwn(i)' /\ RowClean(i)'
      BY <2>1, <3>1 DEF RowOwn, RowClean, CallStep
    <3>4. QED
      BY <3>2, <3>3
  <2>2. ASSUME NEW e \in outbox, ~rows'[i].dirty, e.id = i, Matches(e, rows'[i])
        PROVE  RowShows(i)' /\ RowOwn(i)' /\ RowClean(i)'
    <3>1. rows'[i].version.actor = ServerActor
      BY <2>2 DEF TrueInv, Logged, Matches
    <3>2. \A x \in LocalWrites' : x.base.actor = ClientActor
      BY <1>3 DEF WritesMade
    <3>3. QED
      BY <2>2, <3>1, <3>2 DEF RowShows, RowOwn, RowClean, CallStep
  <2>3. ASSUME NEW x \in LocalWrites, rows'[i].dirty, x.id = i, x.base = rows'[i].version, x.val = rows'[i].val
        PROVE  RowShows(i)' /\ RowOwn(i)' /\ RowClean(i)'
    <3>1. RowShows(i)'
      <4> SUFFICES ASSUME NEW y \in LocalWrites', y.id = i, rows'[i].version = y.base
                   PROVE  rows'[i].val = y.val
        BY DEF RowShows
      <4>1. PICK a \in LocalWrites : Same(y, a)
        BY <1>2
      <4>2. a.base = x.base
        BY <2>3, <4>1 DEF Same
      <4>3. QED
        BY <2>3, <4>1, <4>2 DEF Same, TrueInv, WritesDistinct
    <3>2. x.base.actor = ClientActor /\ Spent(x.base)'
      BY <1>1 DEF TrueInv, WritesMade, CallStep, Slot
    <3>3. RowOwn(i)'
      BY <2>3, <3>2 DEF RowOwn
    <3>4. RowClean(i)'
      BY <2>3 DEF RowClean
    <3>5. QED
      BY <3>1, <3>3, <3>4
  <2>4. QED
    BY <2>1, <2>2, <2>3 DEF CallStep, RowStep, Typed, TypeOK
<1>9. QED
  BY <1>3, <1>4, <1>5, <1>6, <1>7, <1>8 DEF TrueInv, CallStep

(* A step that leaves the wall clock and the clock alone spends no stamp.  *)
LEMMA StillClock ==
  ASSUME TrueInv, UNCHANGED <<clock, now>>
  PROVE  ClockOwn' /\ \A v \in Stamp : Spent(v) => Spent(v)'
  BY DEF TrueInv, ClockOwn, Spent, ClientWall

(* write(): the optimistic row shows the write.                            *)
LEMMA WritePutIs ==
  ASSUME Typed, TrueInv, NEW t \in Tasks, WritePut(t)
  PROVE  CallStep
<1> DEFINE r == [task[t] EXCEPT !.pc = "enqueue"]
           w == task[t].w
<1>1. task[t] \in Writing /\ w \in Slot /\ task[t].pc = "put"
  BY TaskKinds DEF WritePut, Typed, TypeOK, Writing
<1>2. Descend
  <2>1. HeldBy(r) = {w} /\ HeldBy(task[t]) = {w}
    BY <1>1 DEF HeldBy, Writing
  <2>2. Becomes(t, r) /\ queue' = queue
    BY DEF WritePut
  <2> HIDE DEF r, w
  <2>3. QED
    BY <2>1, <2>2, NarrowDescends
<1>3. RowStep
  <2>1. w \in LocalWrites
    BY <1>1 DEF LocalWrites, HeldBy
  <2> DEFINE new == StoredRow(w.base, TRUE, w.val)
  <2>2. new \in Row /\ w.id \in Ids
    BY <1>1, RowTypes DEF Slot
  <2>3. new.dirty /\ new.version = w.base /\ new.val = w.val
    BY DEF StoredRow
  <2>4. rows' = [rows EXCEPT ![w.id] = new]
    BY DEF WritePut, PutRow
  <2> HIDE DEF new, w
  <2>5. QED
    BY <2>1, <2>2, <2>3, <2>4 DEF RowStep
<1>4. UNCHANGED <<clock, now, lastKey, srv, outbox, net>>
  BY DEF WritePut, serverVars
<1>5. QED
  BY <1>2, <1>3, <1>4, StillClock DEF CallStep

(* write(): the slot and the request are the write.                        *)
LEMMA WriteEnqueueIs ==
  ASSUME Typed, TrueInv, NEW t \in Tasks, WriteEnqueue(t)
  PROVE  CallStep
<1> DEFINE w    == task[t].w
           slot == [w EXCEPT !.seq = SlotSeq(w)]
           stops == task[t].mode = "local_only" \/ (ThrowOnOverflow /\ Overflows(w))
           mine == IF stops THEN Idle ELSE [task[t] EXCEPT !.pc = "ack", !.w = slot]
<1>1. task[t] \in Writing /\ w \in Slot /\ task[t].pc = "enqueue"
  BY TaskKinds DEF WriteEnqueue, Typed, TypeOK, Writing
<1>2. w \in LocalWrites
  BY <1>1 DEF LocalWrites, HeldBy
<1>3. Same(slot, w)
  BY <1>1 DEF Same, Slot
<1>4. \A x \in queue' : x \in queue \/ x = slot
  BY DEF WriteEnqueue, Enqueue
<1>5. HeldBy(mine) \subseteq {slot}
  BY <1>1 DEF HeldBy, Idle, Writing
<1>6. task' = [u \in Tasks |->
                 IF u = t THEN mine
                 ELSE IF task[u].pc \in {"send", "wait"}
                      THEN [task[u] EXCEPT !.batch = Shared(w, @)]
                      ELSE task[u]]
  BY DEF WriteEnqueue
<1>7. net' = net \/ net' = net \cup {RequestOf(w)}
  BY DEF WriteEnqueue, Transmit, RequestOf
<1>8. UNCHANGED <<clock, now, lastKey, srv, outbox, rows>>
  BY DEF WriteEnqueue, serverVars
<1> HIDE DEF w, slot, mine
<1>9. ASSUME NEW u \in Tasks, u # t, NEW x \in HeldBy(task'[u])
      PROVE  x \in HeldBy(task[u]) \/ Same(x, w)
  <2>1. CASE task[u].pc \in {"send", "wait"}
    <3>1. task[u] \in Flushing
      BY <2>1, TaskKinds DEF Typed, TypeOK
    <3>2. task'[u] = [task[u] EXCEPT !.batch = Shared(w, task[u].batch)]
      BY <1>6, <1>9, <2>1
    <3>3. task'[u].pc = task[u].pc /\ task'[u].batch = Shared(w, task[u].batch)
      BY <3>1, <3>2 DEF Flushing
    <3>4. x \in Shared(w, task[u].batch) /\ HeldBy(task[u]) = task[u].batch
      BY <1>9, <2>1, <3>3 DEF HeldBy
    <3>5. \A n : Same([w EXCEPT !.seq = n], w)
      BY <1>1 DEF Same, Slot, w
    <3>6. QED
      BY <3>4, <3>5 DEF Shared
  <2>2. CASE task[u].pc \notin {"send", "wait"}
    BY <1>6, <1>9, <2>2
  <2>3. QED
    BY <2>1, <2>2
<1>10. task'[t] = mine
  BY <1>6
<1>11. Descend
  <2> SUFFICES ASSUME NEW x \in LocalWrites' PROVE \E y \in LocalWrites : Same(x, y)
    BY DEF Descend
  <2>1. x \in queue' \/ \E u \in Tasks : x \in HeldBy(task'[u])
    BY DEF LocalWrites, HeldBy
  <2>2. x = slot \/ x \in queue \/ Same(x, w) \/ \E u \in Tasks \ {t} : x \in HeldBy(task[u])
    BY <1>4, <1>5, <1>9, <1>10, <2>1
  <2>3. x = slot \/ Same(x, w) \/ x \in LocalWrites
    BY <2>2 DEF LocalWrites
  <2>4. QED
    BY <1>2, <1>3, <2>3 DEF Same
<1>12. QED
  BY <1>2, <1>7, <1>8, <1>11, StillClock DEF CallStep, RowStep

(* The acknowledgement of a local write shows what the server committed.   *)
LEMMA SettleShows ==
  ASSUME Typed, TrueInv, NEW x \in LocalWrites, NEW seq, NEW key, Committed(key),
         \A c \in outbox : c.key = key => c.id = x.id, SharedQueue = FALSE => key = x.key,
         SettleAck(x.id, seq, x.key, x.base, CommittedVersion(key))
  PROVE  RowStep /\ queue' \subseteq queue
<1> DEFINE e   == CHOOSE c \in outbox : c.key = key
           new == [rows[x.id] EXCEPT !.version = e.version, !.dirty = FALSE]
<1>1. e \in outbox /\ e.key = key
  BY DEF Committed
<1>2. CommittedVersion(key) = e.version
  BY DEF CommittedVersion
<1> HIDE DEF e
<1>3. e.id = x.id /\ e.version \in Stamp /\ (SharedQueue = FALSE => Domain(e.val) = Domain(x.val))
  BY <1>1 DEF TrueInv, Logged, Typed, TypeOK, Change
<1>4. x.id \in Ids /\ rows[x.id] \in Row
  BY WritesAreSlots DEF Slot, Typed, TypeOK
<1>5. \/ rows' = rows
      \/ /\ rows[x.id].present /\ rows[x.id].version = x.base
         /\ rows' = [rows EXCEPT ![x.id] = new]
  BY <1>2 DEF SettleAck, SettleQueuedAck, PutRow, storeVars
<1>6. new \in Row /\ ~new.dirty /\ new.version = e.version /\ new.val = rows[x.id].val
  BY <1>3, <1>4 DEF Row
<1> HIDE DEF new
<1>7. RowStep
  <2>1. CASE rows' = rows
    BY <2>1 DEF RowStep
  <2>2. CASE /\ rows[x.id].present /\ rows[x.id].version = x.base
             /\ rows' = [rows EXCEPT ![x.id] = new]
    <3>1. rows[x.id].val = x.val
      BY <1>4, <2>2 DEF TrueInv, RowsTrue, RowShows
    <3>2. ~new.dirty /\ e \in outbox /\ e.id = x.id /\ Matches(e, new)
      BY <1>1, <1>3, <1>6, <3>1 DEF Matches
    <3>3. QED
      BY <1>4, <1>6, <2>2, <3>2, Zenon DEF RowStep
  <2>3. QED
    BY <1>5, <2>1, <2>2
<1>8. QED
  BY <1>7, SettleOnlyRetires

(* The response of an optimistic write.                                    *)
LEMMA WriteAckIs ==
  ASSUME Typed, TrueInv, NEW t \in Tasks, WriteAck(t)
  PROVE  CallStep
<1> DEFINE w == task[t].w
<1>1. w \in LocalWrites
  BY DEF WriteAck, LocalWrites, HeldBy
<1>2. Committed(w.key) /\ SettleAck(w.id, w.seq, w.key, w.base, CommittedVersion(w.key))
  BY DEF WriteAck
<1> HIDE DEF w
<1>21. \A c \in outbox : c.key = w.key => c.id = w.id
  BY <1>1 DEF TrueInv, Logged
<1>3. RowStep /\ queue' \subseteq queue
  BY <1>1, <1>2, <1>21, SettleShows
<1>4. Descend
  BY <1>3, FinishDescends DEF WriteAck
<1>5. UNCHANGED <<clock, now, lastKey, srv, outbox, net>>
  BY DEF WriteAck, serverVars
<1>6. QED
  BY <1>3, <1>4, <1>5, StillClock DEF CallStep

(* The response of a server_first or server_only write.                    *)
LEMMA DirectAckIs ==
  ASSUME Typed, TrueInv, NEW t \in Tasks, DirectAck(t)
  PROVE  CallStep
<1> DEFINE w   == task[t].w
           e   == CHOOSE c \in outbox : c.key = w.key
           new == StoredRow(e.version, FALSE, w.val)
<1>1. w \in LocalWrites
  BY DEF DirectAck, LocalWrites, HeldBy
<1>2. e \in outbox /\ e.key = w.key
  BY DEF DirectAck, Committed
<1>3. rows' = rows \/ rows' = [rows EXCEPT ![w.id] = new]
  BY DEF DirectAck, PutRow, CommittedVersion
<1> HIDE DEF e
<1>4. e.id = w.id /\ Domain(e.val) = Domain(w.val) /\ e.version \in Stamp
  BY <1>1, <1>2 DEF TrueInv, Logged, Typed, TypeOK, Change
<1>5. w \in Slot
  BY <1>1, WritesAreSlots
<1>6. new \in Row /\ ~new.dirty /\ new.version = e.version /\ new.val = w.val /\ w.id \in Ids
  <2>1. w.val \in SUBSET Fields /\ w.id \in Ids
    BY <1>5 DEF Slot
  <2>2. QED
    BY <1>4, <2>1, RowTypes DEF StoredRow
<1> HIDE DEF w, new
<1>7. RowStep
  BY <1>2, <1>3, <1>4, <1>6 DEF RowStep, Matches
<1>8. Descend
  BY FinishDescends DEF DirectAck
<1>9. UNCHANGED <<clock, now, lastKey, srv, outbox, net>>
  BY DEF DirectAck, serverVars
<1>10. QED
  BY <1>7, <1>8, <1>9, StillClock DEF CallStep

(* applyChange(): a delivery moves the clock on, not past the wall clock.  *)
LEMMA ApplyStartIs ==
  ASSUME Typed, TrueInv, NEW t \in Tasks, NEW ev \in outbox, ApplyStart(t, ev),
         RestartClock
  PROVE  CallStep
<1> DEFINE r == [pc |-> "decide", ev |-> ev, old |-> rows[ev.id]]
<1>1. Descend
  <2>1. HeldBy(r) = {} /\ Becomes(t, r) /\ queue' = queue
    BY DEF HeldBy, ApplyStart, storeVars
  <2> HIDE DEF r
  <2>2. QED
    BY <2>1, NarrowDescends
<1>2. UNCHANGED <<now, lastKey, srv, outbox, net, rows>>
  BY DEF ApplyStart, serverVars, storeVars
<1>3. /\ clock \in Stamp /\ ev.version \in Stamp /\ ClientWall \in Int
      /\ now \in Nat /\ ev.version.wall_ms <= now /\ clock' = JsObserve(clock, ev.version, ClientWall)
  BY WallTypes DEF Typed, TypeOK, Change, TrueInv, Logged, ApplyStart
<1>4. ClockOwn'
  <2>1. /\ clock'.actor = clock.actor
        /\ clock.wall_ms <= ClientWall /\ ev.version.wall_ms <= ClientWall
           => clock'.wall_ms <= ClientWall
    BY <1>3, ObserveSpends
  <2>2. ClientWall' = ClientWall
    BY <1>2 DEF ClientWall
  <2>3. MayRestart => ev.version.wall_ms <= ClientWall
    BY <1>3, SkewAssumption DEF RestartClock, ClientWall, Stamp
  <2>4. QED
    BY <2>1, <2>2, <2>3 DEF TrueInv, ClockOwn
<1>5. ASSUME NEW v \in Stamp, Spent(v) PROVE Spent(v)'
  <2>1. ClientWall' = ClientWall
    BY <1>2 DEF ClientWall
  <2>2. v.wall_ms < clock.wall_ms \/ (v.wall_ms = clock.wall_ms /\ v.counter <= clock.counter)
        => v.wall_ms < clock'.wall_ms \/ (v.wall_ms = clock'.wall_ms /\ v.counter <= clock'.counter)
    BY <1>3, ObserveSpends
  <2>3. QED
    BY <1>5, <2>1, <2>2 DEF Spent
<1>6. QED
  BY <1>1, <1>2, <1>4, <1>5 DEF CallStep, RowStep

(* applyChange(): what is adopted was committed.                           *)
LEMMA ApplyDecideIs ==
  ASSUME Typed, TrueInv, NEW t \in Tasks, ApplyDecide(t)
  PROVE  CallStep
<1> DEFINE ev  == task[t].ev
           new == StoredRow(ev.version, FALSE, ev.val)
           r   == [task[t] EXCEPT !.pc = "drop"]
<1>1. task[t] \in Applying /\ ev \in outbox /\ ev \in Change
  BY TaskKinds DEF ApplyDecide, Typed, TypeOK, TasksOK, Applying
<1>2. rows' = rows \/ rows' = [rows EXCEPT ![ev.id] = new]
  BY DEF ApplyDecide, Adopt, PutRow
<1>3. new \in Row /\ ~new.dirty /\ new.version = ev.version /\ new.val = ev.val /\ ev.id \in Ids
  BY <1>1, RowTypes DEF StoredRow, Change
<1>4. HeldBy(r) = {} /\ (Becomes(t, r) \/ Finish(t)) /\ queue' = queue
  BY <1>1 DEF HeldBy, ApplyDecide, Applying
<1> HIDE DEF ev, new, r
<1>5. RowStep
  BY <1>1, <1>2, <1>3 DEF RowStep, Matches
<1>6. Descend
  BY <1>4, NarrowDescends, FinishDescends
<1>7. UNCHANGED <<clock, now, lastKey, srv, outbox, net>>
  BY DEF ApplyDecide, serverVars
<1>8. QED
  BY <1>5, <1>6, <1>7, StillClock DEF CallStep

(* #dropQueuedFor holds no write and retires slots.                        *)
LEMMA DropsAre ==
  ASSUME Typed, TrueInv, NEW t \in Tasks, DropList(t) \/ DropRetire(t)
  PROVE  CallStep
<1>1. Descend
  <2>1. CASE DropList(t)
    <3> DEFINE r == [pc |-> "retire", ev |-> task[t].ev, batch |-> QueuedFor(task[t].ev.id)]
    <3>1. HeldBy(r) = {} /\ (Becomes(t, r) \/ Finish(t)) /\ queue' = queue
      BY <2>1 DEF HeldBy, DropList, storeVars
    <3> HIDE DEF r
    <3>2. QED
      BY <3>1, NarrowDescends, FinishDescends
  <2>2. CASE DropRetire(t)
    <3> DEFINE r == [task[t] EXCEPT !.batch = task[t].batch \ {Oldest(task[t].batch)}]
    <3>1. task[t] \in Dropping
      BY <2>2, TaskKinds DEF DropRetire, Typed, TypeOK
    <3>2. HeldBy(r) = {} /\ (Becomes(t, r) \/ Finish(t)) /\ queue' \subseteq queue
      BY <2>2, <3>1 DEF HeldBy, DropRetire, Dropping, Retire
    <3> HIDE DEF r
    <3>3. QED
      BY <3>2, NarrowDescends, FinishDescends
  <2>3. QED
    BY <2>1, <2>2
<1>2. UNCHANGED <<clock, now, lastKey, srv, outbox, net, rows>>
  BY DEF DropList, DropRetire, serverVars, storeVars
<1>3. QED
  BY <1>1, <1>2, StillClock DEF CallStep, RowStep

(* flushQueue(): its batch is the queue, its requests are the batch's.     *)
LEMMA FlushesAre ==
  ASSUME Typed, TrueInv, NEW t \in Tasks, FlushStart(t) \/ FlushSend(t)
  PROVE  CallStep
<1>1. UNCHANGED <<clock, now, lastKey, srv, outbox, rows, queue>>
  BY DEF FlushStart, FlushSend, serverVars, storeVars
<1>2. CASE FlushStart(t)
  <2> DEFINE r == [pc |-> "send", batch |-> queue, sent |-> Oldest(queue).key]
  <2>1. HeldBy(r) = queue /\ Becomes(t, r) /\ net' = net
    BY <1>2 DEF HeldBy, FlushStart
  <2> HIDE DEF r
  <2>2. Descend
    BY <1>1, <2>1, NarrowDescends
  <2>3. QED
    BY <1>1, <2>1, <2>2, StillClock DEF CallStep, RowStep
<1>3. CASE FlushSend(t)
  <2> DEFINE w == Oldest(task[t].batch)
             r == [task[t] EXCEPT !.pc = "wait", !.sent = w.key]
  <2>1. task[t] \in Flushing /\ task[t].pc = "send" /\ w \in task[t].batch
    BY <1>3, TaskKinds, OldestSlot DEF FlushSend, Typed, TypeOK, TasksOK, Flushing
  <2>2. Becomes(t, r) /\ net' = net \cup {RequestOf(w)}
    BY <1>3 DEF FlushSend, Transmit, RequestOf
  <2> HIDE DEF w
  <2>3. HeldBy(r) = task[t].batch /\ HeldBy(task[t]) = task[t].batch
    BY <2>1 DEF HeldBy, Flushing
  <2> HIDE DEF r
  <2>4. Descend
    BY <1>1, <2>2, <2>3, NarrowDescends
  <2>5. w \in LocalWrites
    BY <2>1, <2>3 DEF LocalWrites
  <2>6. QED
    BY <1>1, <2>2, <2>4, <2>5, StillClock DEF CallStep, RowStep
<1>4. QED
  BY <1>2, <1>3

(* flushQueue(): the entry it settles is of the row it sent a write of.    *)
LEMMA FlushAckIs ==
  ASSUME Typed, TrueInv, FlushOK, NEW t \in Tasks, FlushAck(t)
  PROVE  CallStep
<1> DEFINE w == Oldest(task[t].batch)
           r == [task[t] EXCEPT !.pc = "send", !.batch = task[t].batch \ {w}]
<1>1. task[t] \in Flushing /\ task[t].pc = "wait" /\ w \in task[t].batch
  BY TaskKinds, OldestSlot DEF FlushAck, Typed, TypeOK, TasksOK, Flushing
<1> DEFINE key == task[t].sent
<1>2. /\ SharedQueue = FALSE => key = w.key
      /\ \A c \in outbox : c.key = key => c.id = w.id
  BY <1>1 DEF FlushOK, WaitSent, SentOK, Named
<1>3. Committed(key) /\ SettleAck(w.id, w.seq, w.key, w.base, CommittedVersion(key))
  BY DEF FlushAck
<1>4. Becomes(t, r) \/ Finish(t)
  BY DEF FlushAck
<1>5. w \in LocalWrites
  BY <1>1 DEF LocalWrites, HeldBy
<1> HIDE DEF w, key
<1>6. RowStep /\ queue' \subseteq queue
  BY <1>2, <1>3, <1>5, SettleShows
<1>7. HeldBy(r) \subseteq HeldBy(task[t])
  BY <1>1 DEF HeldBy, Flushing
<1> HIDE DEF r
<1>8. Descend
  BY <1>4, <1>6, <1>7, NarrowDescends, FinishDescends
<1>9. UNCHANGED <<clock, now, lastKey, srv, outbox, net>>
  BY DEF FlushAck, serverVars
<1>10. QED
  BY <1>6, <1>8, <1>9, StillClock DEF CallStep

(* A call that ends in an error holds nothing any more.                    *)
LEMMA FailuresAre ==
  ASSUME Typed, TrueInv, NEW t \in Tasks, SendFails(t) \/ StoreFault(t)
  PROVE  CallStep
<1>1. UNCHANGED <<clock, now, lastKey, srv, outbox, net, rows, queue>> /\ Finish(t)
  BY DEF SendFails, StoreFault, serverVars, storeVars
<1>2. Descend
  BY <1>1, FinishDescends
<1>3. QED
  BY <1>1, <1>2, StillClock DEF CallStep, RowStep

-----------------------------------------------------------------------------
(* A new write, the server, the network and restarts *)

(* Keys are integers.                                                      *)
LEMMA KeyInts == \A k \in Keys : k \in Int
  BY BoundsAssumption DEF Keys, SeedKey

(* write(): the write it makes joins the local ones.                       *)
LEMMA WriteStartMakes ==
  ASSUME Typed, NEW t \in Tasks, NEW id \in Ids, NEW op \in Ops, NEW mode \in Modes,
         WriteStart(t, id, op, mode)
  PROVE  \E w, r : /\ w.key = lastKey + 1 /\ w.base = clock' /\ w.id = id
                   /\ w.op = "delete" => w.val = {}
                   /\ Becomes(t, r) /\ r.pc \in {"put", "direct"} /\ r.w = w
                   /\ net' = net \/ net' = net \cup {RequestOf(w)}
                   /\ \A x \in LocalWrites' : x \in LocalWrites \/ x = w
<1> DEFINE direct == mode \in {"server_first", "server_only"}
           made == [seq |-> 0, id |-> id, op |-> WireOp(op), key |-> lastKey + 1, base |-> clock',
                    val |-> Content(IF direct /\ op = "merge" THEN "upsert" ELSE op,
                                    lastKey + 1, rows[id])]
<1>1. PICK w : w = made
  OBVIOUS
<1> DEFINE r == [pc |-> IF direct THEN "direct" ELSE "put", w |-> w, mode |-> mode]
<1>2. Becomes(t, r) /\ HeldBy(r) = {w} /\ (net' = net \/ net' = net \cup {RequestOf(w)})
  <2>1. HeldBy(r) = {w}
    BY DEF HeldBy
  <2>2. Becomes(t, [pc |-> IF direct THEN "direct" ELSE "put", w |-> made, mode |-> mode])
        /\ IF direct THEN Transmit(made) ELSE UNCHANGED net
    BY DEF WriteStart
  <2> HIDE DEF made
  <2>3. QED
    BY <1>1, <2>1, <2>2 DEF Transmit, RequestOf
<1>3. w.key = lastKey + 1 /\ w.base = clock' /\ w.id = id /\ (w.op = "delete" => w.val = {})
  BY <1>1 DEF WireOp, Content
<1>4. r.pc \in {"put", "direct"} /\ r.w = w
  OBVIOUS
<1> HIDE DEF made, r
<1>5. ASSUME NEW x \in LocalWrites' PROVE x \in LocalWrites \/ x = w
  <2>1. task' = [task EXCEPT ![t] = r] /\ task \in [Tasks -> TaskState] /\ queue' = queue
    BY <1>2 DEF Becomes, Typed, TypeOK, WriteStart, storeVars
  <2>2. x \in queue' \/ \E u \in Tasks : x \in HeldBy(task'[u])
    BY DEF LocalWrites, HeldBy
  <2>3. ASSUME NEW u \in Tasks, x \in HeldBy(task'[u]) PROVE x = w \/ x \in HeldBy(task[u])
    BY <1>2, <2>1, <2>3
  <2>4. QED
    BY <2>1, <2>2, <2>3 DEF LocalWrites
<1>6. QED
  BY <1>2, <1>3, <1>4, <1>5

(* write(): its key and its stamp are new.                                 *)
LEMMA WriteStartKeeps ==
  ASSUME Typed, Typed', TrueInv, ClientActor # ServerActor,
         NEW t \in Tasks, NEW id \in Ids, NEW op \in Ops, NEW mode \in Modes,
         WriteStart(t, id, op, mode)
  PROVE  TrueInv'
<1>1. PICK w, r : /\ w.key = lastKey + 1 /\ w.base = clock' /\ w.id = id
                  /\ w.op = "delete" => w.val = {}
                  /\ Becomes(t, r) /\ r.pc \in {"put", "direct"} /\ r.w = w
                  /\ net' = net \/ net' = net \cup {RequestOf(w)}
                  /\ \A x \in LocalWrites' : x \in LocalWrites \/ x = w
  BY WriteStartMakes
<1>2. net' = net \/ net' = net \cup {RequestOf(w)}
  BY <1>1
<1>3. w.key = lastKey + 1 /\ w.base = clock' /\ w.id = id /\ (w.op = "delete" => w.val = {})
  BY <1>1
<1>4. /\ clock' = JsTick(clock, ClientWall) /\ lastKey' = lastKey + 1 /\ lastKey < MaxWrites
      /\ UNCHANGED <<rows, queue, now, srv, outbox>>
  BY DEF WriteStart, storeVars, serverVars
<1>5. ClientWall' = ClientWall
  BY <1>4 DEF ClientWall
<1>6. clock \in Stamp /\ clock' \in Stamp /\ ClientWall \in Int /\ lastKey \in Int /\ MaxWrites \in Int
  BY WallTypes, BoundsAssumption DEF Typed, TypeOK
<1>7. ASSUME NEW v \in Stamp, Spent(v) PROVE Spent(v)' /\ v # clock'
  BY <1>4, <1>5, <1>6, <1>7, TickSpends DEF Spent
<1>8. ClockOwn' /\ Spent(w.base)'
  <2>1. Spent(w.base)'
    BY <1>3, <1>6 DEF Spent, Stamp
  <2>2. ClockOwn'
    <3>1. clock'.actor = clock.actor /\ (clock.wall_ms <= ClientWall => clock'.wall_ms <= ClientWall)
      BY <1>4, <1>6 DEF JsTick, Stamp
    <3>2. QED
      BY <1>5, <3>1 DEF TrueInv, ClockOwn
  <2>3. QED
    BY <2>1, <2>2
<1>9. \A x \in LocalWrites' : x \in LocalWrites \/ x = w
  BY <1>1
<1>10. ASSUME NEW x \in LocalWrites
       PROVE  /\ x.key <= lastKey /\ x.key # w.key /\ x.base # w.base
              /\ x.key \in Int /\ x.base.actor = ClientActor /\ Spent(x.base)'
              /\ x.op = "delete" => x.val = {}
  <2>1. x.base \in Stamp /\ x.key \in Int
    BY WritesAreSlots, KeyInts DEF Slot
  <2>2. x.key <= lastKey /\ x.base.actor = ClientActor /\ Spent(x.base) /\ (x.op = "delete" => x.val = {})
    BY DEF TrueInv, WritesMade
  <2>3. QED
    BY <1>3, <1>6, <1>7, <2>1, <2>2
<1>11. WritesMade'
  <2>1. w.key <= lastKey' /\ w.base.actor = ClientActor /\ Spent(w.base)'
    BY <1>3, <1>4, <1>6, <1>8 DEF ClockOwn
  <2>2. QED
    BY <1>3, <1>4, <1>6, <1>9, <1>10, <2>1 DEF WritesMade
<1>12. WritesDistinct'
  BY <1>9, <1>10 DEF TrueInv, WritesDistinct
<1>13. Requested'
  <2> SUFFICES ASSUME NEW q \in net'
               PROVE  /\ q.key <= lastKey' /\ (q.op = "delete" => q.val = {})
                      /\ \A x \in LocalWrites' : q.key = x.key => q.id = x.id /\ q.val = x.val
    BY DEF Requested
  <2>1. CASE q \in net
    <3>1. q.key <= lastKey /\ q.key \in Int
      BY <2>1, KeyInts DEF TrueInv, Requested, Typed, TypeOK, Request
    <3>2. q.key # w.key /\ q.key <= lastKey'
      BY <1>3, <1>4, <1>6, <3>1
    <3>3. QED
      BY <1>9, <2>1, <3>2 DEF TrueInv, Requested
  <2>2. CASE q = RequestOf(w)
    BY <1>3, <1>4, <1>6, <1>9, <1>10, <2>2 DEF RequestOf
  <2>3. QED
    BY <1>2, <2>1, <2>2
<1>14. Logged'
  <2> SUFFICES ASSUME NEW e \in outbox
               PROVE  /\ e.key <= lastKey' \/ e.key > MaxWrites
                      /\ e.version.actor = ServerActor /\ e.version.wall_ms <= now'
                      /\ \A x \in LocalWrites' : e.key = x.key => e.id = x.id /\ Domain(e.val) = Domain(x.val)
    BY <1>4 DEF Logged
  <2>1. e.key \in Int
    BY KeyInts DEF Typed, TypeOK, Change
  <2>2. /\ e.key <= lastKey \/ e.key > MaxWrites
        /\ e.version.actor = ServerActor /\ e.version.wall_ms <= now
        /\ \A x \in LocalWrites : e.key = x.key => e.id = x.id /\ Domain(e.val) = Domain(x.val)
    BY DEF TrueInv, Logged
  <2>3. e.key # w.key
    BY <1>3, <1>4, <1>6, <2>1, <2>2
  <2>4. QED
    BY <1>4, <1>6, <1>9, <2>1, <2>2, <2>3
<1>15. ServerStamped'
  BY <1>4 DEF TrueInv, ServerStamped
<1>16. RowsTrue'
  <2> SUFFICES ASSUME NEW i \in Ids PROVE RowShows(i)' /\ RowOwn(i)' /\ RowClean(i)'
    BY DEF RowsTrue
  <2>1. RowShows(i) /\ RowOwn(i) /\ RowClean(i) /\ rows[i].version \in Stamp /\ rows[i].dirty \in BOOLEAN
    BY DEF TrueInv, RowsTrue, Typed, TypeOK, Row
  <2>2. RowOwn(i)' /\ RowClean(i)'
    BY <1>4, <1>7, <2>1 DEF RowOwn, RowClean
  <2>3. rows[i].present => rows[i].version # w.base
    <3>1. CASE rows[i].dirty
      BY <1>3, <1>7, <2>1, <3>1 DEF RowOwn
    <3>2. ASSUME rows[i].present, ~rows[i].dirty PROVE rows[i].version # w.base
      <4>1. rows[i].version.actor = ServerActor
        BY <2>1, <3>2 DEF RowClean, Matches, TrueInv, Logged
      <4>2. w.base.actor = ClientActor
        BY <1>3, <1>8 DEF ClockOwn
      <4>3. QED
        BY <4>1, <4>2
    <3>3. QED
      BY <3>1, <3>2
  <2>4. RowShows(i)'
    BY <1>4, <1>9, <2>1, <2>3 DEF RowShows
  <2>5. QED
    BY <2>2, <2>4
<1>17. QED
  BY <1>8, <1>11, <1>12, <1>13, <1>14, <1>15, <1>16 DEF TrueInv

(* What a change the server logs must be.                                  *)
LogEntry(e) ==
  /\ e.key <= lastKey \/ e.key > MaxWrites
  /\ e.version.actor = ServerActor /\ e.version.wall_ms <= now'
  /\ \A x \in LocalWrites : e.key = x.key => e.id = x.id /\ Domain(e.val) = Domain(x.val)

(* A step outside the replica's calls: the server and the network may move *)
(* on, and the replica may forget its calls.                               *)
LEMMA OutsideKeeps ==
  ASSUME Typed, TrueInv, LocalWrites' \subseteq LocalWrites, UNCHANGED <<rows, lastKey>>,
         net' \subseteq net, now \in Int, now' \in Int, now <= now',
         ClockOwn', \A v \in Stamp : Spent(v) => Spent(v)',
         outbox \subseteq outbox', \A e \in outbox' : e \in outbox \/ LogEntry(e),
         ServerStamped'
  PROVE  TrueInv'
<1>1. ASSUME NEW e \in outbox PROVE LogEntry(e)
  <2>1. e.version.wall_ms \in Int /\ e.version.wall_ms <= now
    BY DEF Typed, TypeOK, Change, Stamp, TrueInv, Logged
  <2>2. e.version.wall_ms <= now'
    BY <2>1
  <2>3. QED
    BY <2>2 DEF TrueInv, Logged, LogEntry
<1>2. Logged'
  BY <1>1 DEF Logged, LogEntry
<1>3. WritesMade'
  <2>1. \A x \in LocalWrites : x.base \in Stamp
    BY WritesAreSlots DEF Slot
  <2>2. QED
    BY <2>1 DEF TrueInv, WritesMade
<1>4. WritesDistinct' /\ Requested'
  BY DEF TrueInv, WritesDistinct, Requested
<1>5. RowsTrue'
  <2> SUFFICES ASSUME NEW i \in Ids PROVE RowShows(i)' /\ RowOwn(i)' /\ RowClean(i)'
    BY DEF RowsTrue
  <2>1. RowShows(i) /\ RowOwn(i) /\ RowClean(i) /\ rows[i].version \in Stamp
    BY DEF TrueInv, RowsTrue, Typed, TypeOK, Row
  <2>2. QED
    BY <2>1 DEF RowShows, RowOwn, RowClean
<1>6. QED
  BY <1>2, <1>3, <1>4, <1>5 DEF TrueInv

(* A later wall clock spends no fewer stamps.                              *)
LEMMA LaterSpends ==
  ASSUME Typed, TrueInv, clock' = clock, now' = now + 1
  PROVE  ClockOwn' /\ \A v \in Stamp : Spent(v) => Spent(v)'
<1>1. now \in Nat /\ ClientSkew \in Int /\ clock.wall_ms \in Nat
  BY SkewAssumption DEF Typed, TypeOK, Stamp
<1>2. \A v \in Stamp : v.wall_ms \in Nat
  BY DEF Stamp
<1>3. QED
  BY <1>1, <1>2 DEF TrueInv, ClockOwn, Spent, ClientWall

(* A commit logs the change under a stamp of the server's own.             *)
LEMMA CommitLogs ==
  ASSUME Typed, TrueInv, NEW id \in Ids, NEW op, NEW sent, NEW key \in Keys, Commit(id, op, sent, key),
         key <= lastKey \/ key > MaxWrites, op = "delete" => sent = {},
         \A x \in LocalWrites : key = x.key => id = x.id /\ sent = x.val
  PROVE  /\ now' = now + 1 /\ outbox \subseteq outbox' /\ ServerStamped'
         /\ \A e \in outbox' : e \in outbox \/ LogEntry(e)
<1> DEFINE version == ServerStamp(id, op)
           val == IF op = "delete" THEN {} ELSE Normalized(sent, key)
           e == [id |-> id, op |-> op, val |-> val, key |-> key, version |-> version]
<1>1. now \in Nat /\ now' = now + 1
  BY DEF Typed, TypeOK, Commit
<1>2. version.actor = ServerActor /\ version.wall_ms <= now'
  <2>1. CASE op = "delete" /\ srv[id].present
    <3>1. version = [srv[id].version EXCEPT !.counter = @ + 1] /\ srv[id].version \in Stamp
      BY <2>1 DEF ServerStamp, Typed, TypeOK, Row
    <3>2. srv[id].version.actor = ServerActor /\ srv[id].version.wall_ms <= now
      BY <2>1 DEF TrueInv, ServerStamped
    <3> HIDE DEF version
    <3>3. QED
      BY <1>1, <3>1, <3>2 DEF Stamp
  <2>2. CASE ~(op = "delete" /\ srv[id].present)
    BY <1>1, <2>2 DEF ServerStamp
  <2>3. QED
    BY <2>1, <2>2
<1>3. outbox' = outbox \cup {e}
  BY DEF Commit
<1>4. srv' = [srv EXCEPT ![id] = IF op = "delete" THEN NoRow ELSE StoredRow(version, FALSE, val)]
  BY DEF Commit
<1> HIDE DEF version
<1>8. Domain(val) = Domain(sent)
  <2>1. Column(key) \in Columns
    BY DEF Columns
  <2>2. CASE op = "delete"
    BY <2>2
  <2>3. CASE op # "delete"
    BY <2>1, <2>3 DEF Normalized, Domain
  <2>4. QED
    BY <2>2, <2>3
<1> HIDE DEF val
<1>5. LogEntry(e)
  BY <1>2, <1>8 DEF LogEntry
<1> HIDE DEF e
<1>6. ServerStamped'
  <2> SUFFICES ASSUME NEW i \in Ids, srv'[i].present
               PROVE  srv'[i].version.actor = ServerActor /\ srv'[i].version.wall_ms <= now'
    BY DEF ServerStamped
  <2>1. CASE i = id
    BY <1>2, <1>4, <2>1 DEF NoRow, StoredRow, Typed, TypeOK
  <2>2. CASE i # id
    <3>1. srv'[i] = srv[i] /\ srv[i].version.wall_ms \in Nat
      BY <1>4, <2>2 DEF Typed, TypeOK, Row, Stamp
    <3>2. QED
      BY <1>1, <3>1 DEF TrueInv, ServerStamped
  <2>3. QED
    BY <2>1, <2>2
<1>7. QED
  BY <1>1, <1>3, <1>5, <1>6

(* The server, the network and a restart keep the invariant. *)
LEMMA EnvironmentKeeps ==
  ASSUME Typed, TrueInv,
         \/ \E req \in net : ServerCommit(req) \/ NetLose(req)
         \/ \E id \in Ids, op \in RemoteOps : RemoteCommit(id, op)
         \/ Restart \/ UNCHANGED vars
  PROVE  TrueInv'
<1>1. now \in Int /\ now + 1 \in Int /\ now <= now + 1 /\ now <= now
  BY DEF Typed, TypeOK
<1>2. ASSUME NEW req \in net, ServerCommit(req) PROVE TrueInv'
  <2>1. UNCHANGED <<rows, queue, task, clock, lastKey>> /\ net' \subseteq net
    BY <1>2 DEF ServerCommit, storeVars
  <2>2. LocalWrites' = LocalWrites
    BY <2>1 DEF LocalWrites, HeldBy
  <2>3. CASE Committed(req.key)
    <3>1. UNCHANGED <<now, srv, outbox>>
      BY <1>2, <2>3 DEF ServerCommit, serverVars
    <3>2. ClockOwn' /\ \A v \in Stamp : Spent(v) => Spent(v)'
      BY <2>1, <3>1, StillClock
    <3>3. ServerStamped'
      BY <3>1 DEF TrueInv, ServerStamped
    <3>4. QED
      BY <1>1, <2>1, <2>2, <3>1, <3>2, <3>3, OutsideKeeps
  <2>4. CASE ~Committed(req.key)
    <3>1. Commit(req.id, req.op, req.val, req.key)
      BY <1>2, <2>4 DEF ServerCommit
    <3>2. /\ req.id \in Ids /\ req.key \in Keys /\ req.key <= lastKey /\ (req.op = "delete" => req.val = {})
          /\ \A x \in LocalWrites : req.key = x.key => req.id = x.id /\ req.val = x.val
      BY DEF Typed, TypeOK, Request, TrueInv, Requested
    <3>3. /\ now' = now + 1 /\ outbox \subseteq outbox' /\ ServerStamped'
          /\ \A e \in outbox' : e \in outbox \/ LogEntry(e)
      BY <3>1, <3>2, CommitLogs
    <3>4. ClockOwn' /\ \A v \in Stamp : Spent(v) => Spent(v)'
      BY <2>1, <3>3, LaterSpends
    <3>5. QED
      BY <1>1, <2>1, <2>2, <3>3, <3>4, OutsideKeeps
  <2>5. QED
    BY <2>3, <2>4
<1>3. ASSUME NEW id \in Ids, NEW op \in RemoteOps, RemoteCommit(id, op) PROVE TrueInv'
  <2> DEFINE key == MaxWrites + 1 + Cardinality(RemoteKeys)
  <2>1. UNCHANGED <<rows, queue, task, clock, lastKey, net>>
    BY <1>3 DEF RemoteCommit, storeVars
  <2>2. LocalWrites' = LocalWrites
    BY <2>1 DEF LocalWrites, HeldBy
  <2>3. Cardinality(RemoteKeys) \in Nat
    <3>1. RemoteKeys \in SUBSET Keys
      BY DEF RemoteKeys, Typed, TypeOK, Change
    <3>2. QED
      BY <3>1, KeyTypes, FS_Subset, FS_CardinalityType
  <2>4. key > MaxWrites /\ lastKey <= MaxWrites /\ key \in Int /\ MaxWrites \in Int /\ lastKey \in Int
    BY <2>3, BoundsAssumption DEF Typed, TypeOK
  <2> DEFINE sent == Content(op, key, srv[id])
  <2>5. Commit(id, WireOp(op), sent, key) /\ (WireOp(op) = "delete" => sent = {})
    BY <1>3 DEF RemoteCommit, WireOp, Content
  <2>51. key \in Keys
    BY <1>3, <2>3, BoundsAssumption DEF RemoteCommit, Keys, SeedKey
  <2> HIDE DEF key, sent
  <2>6. \A x \in LocalWrites : key # x.key
    <3>1. \A x \in LocalWrites : x.key <= lastKey /\ x.key \in Int
      BY WritesAreSlots, KeyInts DEF TrueInv, WritesMade, Slot
    <3>2. QED
      BY <2>4, <3>1
  <2>7. /\ now' = now + 1 /\ outbox \subseteq outbox' /\ ServerStamped'
        /\ \A e \in outbox' : e \in outbox \/ LogEntry(e)
    BY <2>4, <2>5, <2>51, <2>6, CommitLogs
  <2>8. ClockOwn' /\ \A v \in Stamp : Spent(v) => Spent(v)'
    BY <2>1, <2>7, LaterSpends
  <2>9. QED
    BY <1>1, <2>1, <2>2, <2>7, <2>8, OutsideKeeps
<1>4. CASE (\E req \in net : NetLose(req)) \/ UNCHANGED vars
  <2>1. UNCHANGED <<rows, queue, task, clock, lastKey, now, srv, outbox>> /\ net' \subseteq net
    BY <1>4 DEF NetLose, vars, storeVars, serverVars
  <2>2. LocalWrites' = LocalWrites
    BY <2>1 DEF LocalWrites, HeldBy
  <2>3. ClockOwn' /\ \A v \in Stamp : Spent(v) => Spent(v)'
    BY <2>1, StillClock
  <2>4. ServerStamped'
    BY <2>1 DEF TrueInv, ServerStamped
  <2>5. QED
    BY <1>1, <2>1, <2>2, <2>3, <2>4, OutsideKeeps
<1>5. CASE Restart
  <2>1. /\ UNCHANGED <<rows, queue, lastKey, net, srv, outbox>> /\ now' = now + 1
        /\ clock' = Zero /\ task' = [t \in Tasks |-> Idle] /\ faults < MaxFaults /\ Durable
    BY <1>5 DEF Restart, storeVars
  <2>2. LocalWrites' \subseteq LocalWrites
    BY <2>1 DEF LocalWrites, HeldBy, Idle
  <2>3. /\ now \in Nat /\ ClientSkew \in Int /\ StartMs + ClientSkew \in Nat
        /\ clock.wall_ms \in Nat /\ clock.counter \in Nat /\ MaxFaults # 0 /\ faults \in Nat
    BY <2>1, SkewAssumption, BoundsAssumption DEF Typed, TypeOK, Stamp
  <2>4. clock.wall_ms <= ClientWall
    BY <2>1, <2>3 DEF TrueInv, ClockOwn, MayRestart
  <2>5. ASSUME NEW v \in Stamp, Spent(v) PROVE Spent(v)'
    <3>1. v.wall_ms \in Nat /\ v.counter \in Nat
      BY DEF Stamp
    <3>2. v.wall_ms <= ClientWall
      BY <2>3, <2>4, <2>5, <3>1 DEF Spent, ClientWall
    <3>3. QED
      BY <2>1, <2>3, <3>1, <3>2 DEF Spent, ClientWall
  <2>6. ClockOwn'
    BY <2>1, <2>3, <2>4 DEF ClockOwn, Zero, ClientWall
  <2>7. ServerStamped'
    <3>1. \A i \in Ids : srv[i].version.wall_ms \in Nat
      BY DEF Typed, TypeOK, Row, Stamp
    <3>2. QED
      BY <2>1, <2>3, <3>1 DEF TrueInv, ServerStamped
  <2>8. QED
    BY <1>1, <2>1, <2>2, <2>5, <2>6, <2>7, OutsideKeeps
<1>6. QED
  BY <1>2, <1>3, <1>4, <1>5

-----------------------------------------------------------------------------
(* The entries a flush holds, and the responses it waits for *)

(* What a step may do to a flush: end it, leave it, start it with the      *)
(* queue, send the oldest entry, go on to the next one, or write into one. *)
FlushMove(u) ==
  \/ task'[u].pc \notin {"send", "wait"}
  \/ task'[u] = task[u]
  \/ /\ task'[u].pc = "send" /\ task'[u].batch = queue
     /\ UNCHANGED <<queue, lastSeq>>
  \/ /\ task[u].pc = "send" /\ task'[u].batch = task[u].batch
     /\ task'[u].sent = Oldest(task[u].batch).key
  \/ /\ task[u].pc = "wait" /\ task'[u].pc = "send" /\ task'[u].batch \subseteq task[u].batch
  \/ /\ task[u].pc \in {"send", "wait"} /\ task'[u].pc = task[u].pc /\ task'[u].sent = task[u].sent
     /\ \E w \in Slot : Enqueue(w) /\ task'[u].batch = Shared(w, task[u].batch)

(* A call that moves on leaves the others' entries alone.                  *)
LEMMA OneMoves ==
  ASSUME Typed, NEW t \in Tasks, NEW r, Becomes(t, r)
  PROVE  task'[t] = r /\ \A u \in Tasks \ {t} : task'[u] = task[u]
  BY DEF Becomes, Typed, TypeOK

LEMMA FlushMoves == Typed /\ [Next]_vars => \A u \in Tasks : FlushMove(u)
<1> SUFFICES ASSUME Typed, [Next]_vars, NEW u \in Tasks PROVE FlushMove(u)
  OBVIOUS
<1>1. ASSUME NEW t \in Tasks, NEW r, Becomes(t, r), r.pc \notin {"send", "wait"} PROVE FlushMove(u)
  BY <1>1, OneMoves DEF FlushMove
<1>2. ASSUME NEW t \in Tasks, NEW id \in Ids, NEW op \in Ops, NEW mode \in Modes,
             WriteStart(t, id, op, mode)
      PROVE  FlushMove(u)
  BY <1>1, <1>2, WriteStartMakes
<1>3. ASSUME NEW t \in Tasks, NEW ev \in outbox, ApplyStart(t, ev) PROVE FlushMove(u)
  <2> DEFINE r == [pc |-> "decide", ev |-> ev, old |-> rows[ev.id]]
  <2>1. Becomes(t, r) /\ r.pc \notin {"send", "wait"}
    BY <1>3 DEF ApplyStart
  <2> HIDE DEF r
  <2>2. QED
    BY <1>1, <2>1
<1>4. ASSUME NEW t \in Tasks,
             WriteAck(t) \/ DirectAck(t) \/ SendFails(t) \/ StoreFault(t) \/ WritePut(t)
      PROVE  FlushMove(u)
  <2>1. \E r : Becomes(t, r) /\ r.pc \notin {"send", "wait"}
    <3>1. CASE WritePut(t)
      <4> DEFINE r == [task[t] EXCEPT !.pc = "enqueue"]
      <4>1. task[t] \in Writing
        BY <3>1, TaskKinds DEF WritePut, Typed, TypeOK
      <4>2. Becomes(t, r) /\ r.pc \notin {"send", "wait"}
        BY <3>1, <4>1 DEF WritePut, Writing
      <4> HIDE DEF r
      <4>3. QED
        BY <4>2
    <3>2. CASE ~WritePut(t)
      <4>1. Becomes(t, Idle) /\ Idle.pc \notin {"send", "wait"}
        BY <1>4, <3>2 DEF WriteAck, DirectAck, SendFails, StoreFault, Finish, Idle
      <4>2. QED
        BY <4>1
    <3>3. QED
      BY <3>1, <3>2
  <2>2. QED
    BY <1>1, <2>1
<1>5. ASSUME NEW t \in Tasks, ApplyDecide(t) \/ DropList(t) \/ DropRetire(t) PROVE FlushMove(u)
  <2>1. \E r : Becomes(t, r) /\ r.pc \notin {"send", "wait"}
    <3>1. Idle.pc \notin {"send", "wait"}
      BY DEF Idle
    <3>2. CASE ApplyDecide(t)
      <4> DEFINE r == [task[t] EXCEPT !.pc = "drop"]
      <4>1. task[t] \in Applying
        BY <3>2, TaskKinds DEF ApplyDecide, Typed, TypeOK
      <4>2. r.pc \notin {"send", "wait"} /\ (Becomes(t, r) \/ Becomes(t, Idle))
        BY <3>2, <4>1 DEF ApplyDecide, Applying, Finish
      <4> HIDE DEF r
      <4>3. QED
        BY <3>1, <4>2
    <3>3. CASE DropList(t)
      <4> DEFINE r == [pc |-> "retire", ev |-> task[t].ev, batch |-> QueuedFor(task[t].ev.id)]
      <4>1. r.pc \notin {"send", "wait"} /\ (Becomes(t, r) \/ Becomes(t, Idle))
        BY <3>3 DEF DropList, Finish
      <4> HIDE DEF r
      <4>2. QED
        BY <3>1, <4>1
    <3>4. CASE DropRetire(t)
      <4> DEFINE r == [task[t] EXCEPT !.batch = task[t].batch \ {Oldest(task[t].batch)}]
      <4>1. task[t] \in Dropping
        BY <3>4, TaskKinds DEF DropRetire, Typed, TypeOK
      <4>2. r.pc \notin {"send", "wait"} /\ (Becomes(t, r) \/ Becomes(t, Idle))
        BY <3>4, <4>1 DEF DropRetire, Dropping, Finish
      <4> HIDE DEF r
      <4>3. QED
        BY <3>1, <4>2
    <3>5. QED
      BY <1>5, <3>2, <3>3, <3>4
  <2>2. QED
    BY <1>1, <2>1
<1>6. ASSUME NEW t \in Tasks, FlushStart(t) PROVE FlushMove(u)
  <2> DEFINE r == [pc |-> "send", batch |-> queue, sent |-> Oldest(queue).key]
  <2>1. Becomes(t, r) /\ r.pc = "send" /\ r.batch = queue /\ UNCHANGED <<queue, lastSeq>>
    BY <1>6 DEF FlushStart, storeVars
  <2> HIDE DEF r
  <2>2. QED
    BY <2>1, OneMoves DEF FlushMove
<1>7. ASSUME NEW t \in Tasks, FlushSend(t) PROVE FlushMove(u)
  <2> DEFINE r == [task[t] EXCEPT !.pc = "wait", !.sent = Oldest(task[t].batch).key]
  <2>1. task[t] \in Flushing /\ task[t].pc = "send"
    BY <1>7, TaskKinds DEF FlushSend, Typed, TypeOK
  <2>2. Becomes(t, r) /\ r.batch = task[t].batch /\ r.sent = Oldest(task[t].batch).key
    BY <1>7, <2>1 DEF FlushSend, Flushing
  <2> HIDE DEF r
  <2>3. QED
    BY <2>1, <2>2, OneMoves DEF FlushMove
<1>8. ASSUME NEW t \in Tasks, FlushAck(t) PROVE FlushMove(u)
  <2> DEFINE r == [task[t] EXCEPT !.pc = "send", !.batch = task[t].batch \ {Oldest(task[t].batch)}]
  <2>1. task[t] \in Flushing /\ task[t].pc = "wait"
    BY <1>8, TaskKinds DEF FlushAck, Typed, TypeOK
  <2>2. /\ r.pc = "send" /\ r.batch \subseteq task[t].batch
        /\ Becomes(t, r) \/ Becomes(t, Idle)
    BY <1>8, <2>1 DEF FlushAck, Flushing, Finish
  <2>3. Idle.pc \notin {"send", "wait"}
    BY DEF Idle
  <2> HIDE DEF r
  <2>4. QED
    BY <2>1, <2>2, <2>3, OneMoves DEF FlushMove
<1>9. ASSUME NEW t \in Tasks, WriteEnqueue(t) PROVE FlushMove(u)
  <2> DEFINE w == task[t].w
             stops == task[t].mode = "local_only" \/ (ThrowOnOverflow /\ Overflows(w))
             mine == IF stops THEN Idle ELSE [task[t] EXCEPT !.pc = "ack", !.w = [w EXCEPT !.seq = SlotSeq(w)]]
  <2>1. task[t] \in Writing /\ w \in Slot /\ Enqueue(w)
    BY <1>9, TaskKinds DEF WriteEnqueue, Typed, TypeOK, Writing
  <2>2. mine.pc \notin {"send", "wait"}
    BY <2>1 DEF Writing, Idle
  <2>3. task' = [v \in Tasks |->
                   IF v = t THEN mine
                   ELSE IF task[v].pc \in {"send", "wait"}
                        THEN [task[v] EXCEPT !.batch = Shared(w, @)]
                        ELSE task[v]]
    BY <1>9 DEF WriteEnqueue
  <2> HIDE DEF w, mine
  <2>4. CASE u = t
    BY <2>2, <2>3, <2>4 DEF FlushMove
  <2>5. CASE u # t /\ task[u].pc \in {"send", "wait"}
    <3>1. task[u] \in Flushing
      BY <2>5, TaskKinds DEF Typed, TypeOK
    <3>2. task'[u] = [task[u] EXCEPT !.batch = Shared(w, task[u].batch)]
      BY <2>3, <2>5
    <3>3. task'[u].pc = task[u].pc /\ task'[u].sent = task[u].sent /\ task'[u].batch = Shared(w, task[u].batch)
      BY <3>1, <3>2 DEF Flushing
    <3>4. QED
      BY <2>1, <2>5, <3>3 DEF FlushMove
  <2>6. CASE u # t /\ task[u].pc \notin {"send", "wait"}
    BY <2>3, <2>6 DEF FlushMove
  <2>7. QED
    BY <2>4, <2>5, <2>6
<1>10. CASE \/ \E req \in net : ServerCommit(req) \/ NetLose(req)
            \/ \E id \in Ids, op \in RemoteOps : RemoteCommit(id, op)
            \/ UNCHANGED vars
  BY <1>10 DEF ServerCommit, NetLose, RemoteCommit, vars, FlushMove
<1>11. CASE Restart
  BY <1>11 DEF Restart, Idle, FlushMove
<1>12. QED
  BY <1>2, <1>3, <1>4, <1>5, <1>6, <1>7, <1>8, <1>9, <1>10, <1>11 DEF Next

(* A slot of the queue keeps its row, and a new slot has a new seq.        *)
LEMMA QueueRows ==
  ASSUME Typed, QueueOK, [Next]_vars
  PROVE  /\ lastSeq <= lastSeq'
         /\ \A q \in queue' : (\E p \in queue : p.seq = q.seq /\ p.id = q.id) \/ q.seq > lastSeq
<1>1. lastSeq \in Nat
  BY DEF Typed, TypeOK
<1>2. CASE queue' \subseteq queue /\ lastSeq' = lastSeq
  BY <1>1, <1>2
<1>3. ASSUME NEW w \in Slot, Enqueue(w)
      PROVE  /\ lastSeq <= lastSeq'
             /\ \A q \in queue' : (\E p \in queue : p.seq = q.seq /\ p.id = q.id) \/ q.seq > lastSeq
  <2> DEFINE slot == [w EXCEPT !.seq = SlotSeq(w)]
  <2>1. slot.seq = SlotSeq(w) /\ slot.id = w.id
    BY DEF Slot
  <2>2. \A q \in queue' : q \in queue \/ q = slot
    BY <1>3 DEF Enqueue
  <2>3. CASE QueuedFor(w.id) # {}
    <3>1. Oldest(QueuedFor(w.id)) \in QueuedFor(w.id)
      BY <2>3, OldestSlot DEF QueuedFor, Typed, TypeOK
    <3>2. lastSeq' = lastSeq /\ SlotSeq(w) = Oldest(QueuedFor(w.id)).seq
      BY <1>3, <2>3 DEF Enqueue, SlotSeq
    <3> HIDE DEF slot
    <3>3. \E p \in queue : p.seq = slot.seq /\ p.id = slot.id
      BY <2>1, <3>1, <3>2 DEF QueuedFor
    <3>4. QED
      BY <1>1, <2>2, <3>2, <3>3
  <2>4. CASE QueuedFor(w.id) = {}
    <3>1. lastSeq' = lastSeq + 1 /\ SlotSeq(w) = lastSeq + 1
      BY <1>3, <2>4 DEF Enqueue, SlotSeq
    <3> HIDE DEF slot
    <3>2. QED
      BY <1>1, <2>1, <2>2, <3>1
  <2>5. QED
    BY <2>3, <2>4
<1>4. QED
  BY <1>2, <1>3, QueueSteps

(* A coalescing enqueue that writes into an entry leaves it its place and  *)
(* its row.                                                                *)
LEMMA SharedKeeps ==
  ASSUME Typed, NEW t \in Tasks, task[t].pc \in {"send", "wait"}, BatchOK(t), NEW w \in Slot
  PROVE  LET old == task[t].batch
             new == Shared(w, old)
         IN  /\ \A s \in old : \E u \in new : u.seq = s.seq /\ u.id = s.id
             /\ \A u \in new : \E s \in old : u.seq = s.seq /\ u.id = s.id
             /\ \A u, v \in new : u.seq = v.seq => u = v
<1> DEFINE old == task[t].batch
           Put(s) == IF s.seq = SlotSeq(w) THEN [w EXCEPT !.seq = s.seq] ELSE s
<1>1. old \in SUBSET Slot
  BY TaskKinds DEF Typed, TypeOK, Flushing
<1>2. CASE SharedQueue /\ QueuedFor(w.id) # {}
  <2>1. Oldest(QueuedFor(w.id)) \in queue /\ Oldest(QueuedFor(w.id)).id = w.id
        /\ SlotSeq(w) = Oldest(QueuedFor(w.id)).seq
    BY <1>2, OldestSlot DEF QueuedFor, Typed, TypeOK, SlotSeq
  <2>2. ASSUME NEW s \in old PROVE Put(s).seq = s.seq /\ Put(s).id = s.id
    <3>1. CASE s.seq = SlotSeq(w)
      <4>1. s.id = w.id
        BY <2>1, <3>1 DEF BatchOK
      <4>2. QED
        BY <3>1, <4>1 DEF Slot
    <3>2. CASE s.seq # SlotSeq(w)
      BY <3>2
    <3>3. QED
      BY <3>1, <3>2
  <2>3. Shared(w, old) = {Put(s) : s \in old}
    BY <1>2 DEF Shared
  <2>4. \A s, u \in old : s.seq = u.seq => s = u
    BY DEF BatchOK
  <2> HIDE DEF Put, old
  <2>5. \A s \in old : \E u \in Shared(w, old) : u.seq = s.seq /\ u.id = s.id
    BY <2>2, <2>3
  <2>6. \A u \in Shared(w, old) : \E s \in old : u = Put(s) /\ u.seq = s.seq /\ u.id = s.id
    BY <2>2, <2>3
  <2>7. QED
    BY <2>4, <2>5, <2>6 DEF old
<1>3. CASE ~(SharedQueue /\ QueuedFor(w.id) # {})
  <2>1. Shared(w, old) = old
    BY <1>3 DEF Shared
  <2>2. QED
    BY <2>1 DEF BatchOK
<1>4. QED
  BY <1>2, <1>3

(* The entries stay slots that are, or were, the queue's.                  *)
LEMMA BatchKept ==
  ASSUME Typed, QueueOK, [Next]_vars, NEW u \in Tasks, BatchOK(u)
  PROVE  BatchOK(u)'
<1> SUFFICES ASSUME task'[u].pc \in {"send", "wait"}, NEW s \in task'[u].batch
             PROVE  /\ s.seq <= lastSeq'
                    /\ \A v \in task'[u].batch : v.seq = s.seq => v = s
                    /\ \A v \in queue' : v.seq = s.seq => v.id = s.id
  BY DEF BatchOK
<1>1. /\ lastSeq \in Nat /\ lastSeq' \in Nat /\ lastSeq <= lastSeq'
      /\ \A q \in queue' : (\E p \in queue : p.seq = q.seq /\ p.id = q.id) \/ q.seq > lastSeq
  BY QueueRows, NextTyped DEF Typed, TypeOK
<1>2. CASE task'[u].batch = queue /\ UNCHANGED <<queue, lastSeq>>
  BY <1>2 DEF QueueOK, OneSlotPerRow
<1>3. ASSUME task[u].pc \in {"send", "wait"}, NEW o \in task[u].batch, o.seq = s.seq, o.id = s.id
      PROVE  s.seq <= lastSeq' /\ \A v \in queue' : v.seq = s.seq => v.id = s.id
  <2>1. o.seq \in Nat /\ o.seq <= lastSeq /\ \A v \in queue : v.seq = o.seq => v.id = o.id
    BY <1>3, TaskKinds DEF BatchOK, Typed, TypeOK, Flushing, Slot
  <2>2. ASSUME NEW v \in queue', v.seq = s.seq PROVE v.id = s.id
    <3>1. ~(v.seq > lastSeq)
      BY <1>1, <1>3, <2>1, <2>2
    <3>2. PICK p \in queue : p.seq = v.seq /\ p.id = v.id
      BY <1>1, <3>1
    <3>3. QED
      BY <1>3, <2>1, <2>2, <3>2
  <2>3. QED
    BY <1>1, <1>3, <2>1, <2>2
<1>4. CASE task[u].pc \in {"send", "wait"} /\ task'[u].batch \subseteq task[u].batch
  BY <1>3, <1>4 DEF BatchOK
<1>5. ASSUME task[u].pc \in {"send", "wait"}, NEW w \in Slot, task'[u].batch = Shared(w, task[u].batch)
      PROVE  /\ \E o \in task[u].batch : o.seq = s.seq /\ o.id = s.id
             /\ \A v \in task'[u].batch : v.seq = s.seq => v = s
  BY <1>5, SharedKeeps
<1>6. QED
  BY <1>2, <1>3, <1>4, <1>5, FlushMoves DEF FlushMove

(* What a step keeps of the row a key is of.                               *)
LEMMA CallNames ==
  ASSUME CallStep, NEW key, NEW i, Named(key, i)
  PROVE  Named(key, i)'
<1>1. \A x \in LocalWrites' : x.key = key => x.id = i
  BY DEF CallStep, Descend, Same, Named
<1>2. \A q \in net' : q.key = key => q.id = i
  BY DEF CallStep, RequestOf, Named
<1>3. QED
  BY <1>1, <1>2 DEF Named, CallStep

(* A new write's key is new; the server logs a request under its key, and  *)
(* other replicas' changes under other keys.                               *)
LEMMA OtherNames ==
  ASSUME Typed, TrueInv, NEW key \in Keys, key <= lastKey, NEW i, Named(key, i),
         \/ \E t \in Tasks, id \in Ids, op \in Ops, mode \in Modes : WriteStart(t, id, op, mode)
         \/ \E req \in net : ServerCommit(req) \/ NetLose(req)
         \/ \E id \in Ids, op \in RemoteOps : RemoteCommit(id, op)
         \/ UNCHANGED vars
  PROVE  Named(key, i)'
<1>1. key \in Int /\ lastKey \in Int /\ lastKey <= MaxWrites /\ MaxWrites \in Int
  BY KeyInts, BoundsAssumption DEF Typed, TypeOK
<1>2. ASSUME NEW t \in Tasks, NEW id \in Ids, NEW op \in Ops, NEW mode \in Modes,
             WriteStart(t, id, op, mode)
      PROVE  Named(key, i)'
  <2>1. PICK w, r : /\ w.key = lastKey + 1 /\ w.base = clock' /\ w.id = id
                    /\ w.op = "delete" => w.val = {}
                    /\ Becomes(t, r) /\ r.pc \in {"put", "direct"} /\ r.w = w
                    /\ net' = net \/ net' = net \cup {RequestOf(w)}
                    /\ \A x \in LocalWrites' : x \in LocalWrites \/ x = w
    BY <1>2, WriteStartMakes
  <2>2. w.key # key /\ RequestOf(w).key # key /\ outbox' = outbox
    BY <1>1, <1>2, <2>1 DEF RequestOf, WriteStart, serverVars
  <2>3. QED
    BY <2>1, <2>2 DEF Named
<1>3. ASSUME UNCHANGED <<queue, task>> PROVE LocalWrites' = LocalWrites
  BY <1>3 DEF LocalWrites, HeldBy
<1>4. ASSUME NEW req \in net, ServerCommit(req) PROVE Named(key, i)'
  <2>1. UNCHANGED <<queue, task>> /\ net' \subseteq net
    BY <1>4 DEF ServerCommit, storeVars
  <2>2. \A e \in outbox' : e \in outbox \/ (e.key = req.key /\ e.id = req.id)
    <3>1. CASE Committed(req.key)
      BY <1>4, <3>1 DEF ServerCommit, serverVars
    <3>2. CASE ~Committed(req.key)
      <4> DEFINE val == IF req.op = "delete" THEN {} ELSE Normalized(req.val, req.key)
                 version == ServerStamp(req.id, req.op)
                 change == [id |-> req.id, op |-> req.op, val |-> val, key |-> req.key,
                            version |-> version]
      <4>1. outbox' = outbox \cup {change}
        BY <1>4, <3>2 DEF ServerCommit, Commit
      <4>2. change.key = req.key /\ change.id = req.id
        OBVIOUS
      <4> HIDE DEF change
      <4>3. QED
        BY <4>1, <4>2
    <3>3. QED
      BY <3>1, <3>2
  <2>3. QED
    BY <1>3, <2>1, <2>2 DEF Named
<1>5. ASSUME NEW id \in Ids, NEW op \in RemoteOps, RemoteCommit(id, op) PROVE Named(key, i)'
  <2>1. UNCHANGED <<queue, task, net>>
    BY <1>5 DEF RemoteCommit, storeVars
  <2>2. Cardinality(RemoteKeys) \in Nat
    <3>1. RemoteKeys \in SUBSET Keys
      BY DEF RemoteKeys, Typed, TypeOK, Change
    <3>2. QED
      BY <3>1, KeyTypes, FS_Subset, FS_CardinalityType
  <2>3. \A e \in outbox' : e \in outbox \/ e.key = MaxWrites + 1 + Cardinality(RemoteKeys)
    BY <1>5 DEF RemoteCommit, Commit
  <2>4. \A e \in outbox' : e \in outbox \/ e.key # key
    BY <1>1, <2>2, <2>3
  <2>5. QED
    BY <1>3, <2>1, <2>4 DEF Named
<1>6. CASE (\E req \in net : NetLose(req)) \/ UNCHANGED vars
  <2>1. UNCHANGED <<queue, task, outbox>> /\ net' \subseteq net
    BY <1>6 DEF NetLose, vars, storeVars, serverVars
  <2>2. QED
    BY <1>3, <2>1 DEF Named
<1>7. QED
  BY <1>2, <1>4, <1>5, <1>6

(* The steps of the replica's calls. *)
LEMMA CallSteps ==
  ASSUME Typed, TrueInv, FlushOK, RestartClock, NEW t \in Tasks,
         FlushStart(t) \/ StoreFault(t) \/ TaskStep(t) \/ \E ev \in outbox : ApplyStart(t, ev)
  PROVE  CallStep
  BY FlushesAre, FailuresAre, WritePutIs, WriteEnqueueIs, WriteAckIs, DirectAckIs,
     ApplyStartIs, ApplyDecideIs, DropsAre, FlushAckIs DEF TaskStep

(* Every step keeps what a flush relies on after its awaits.               *)
LEMMA NextFlush ==
  ASSUME RestartClock
  PROVE  Typed /\ QueueOK /\ TrueInv /\ FlushOK /\ [Next]_vars => FlushOK'
<1> SUFFICES ASSUME Typed, QueueOK, TrueInv, FlushOK, [Next]_vars PROVE FlushOK'
  OBVIOUS
<1>1. SharedQueue = FALSE => WaitSent'
  BY WaitSteps DEF FlushOK
<1>2. \A u \in Tasks : BatchOK(u)'
  BY BatchKept DEF FlushOK
<1>3. ASSUME NEW u \in Tasks, task'[u].pc = "wait" PROVE SentOK(u)'
  <2>1. ~Restart
    BY <1>3 DEF Restart, Idle
  <2>2. lastKey <= lastKey' /\ lastKey \in Int /\ lastKey' \in Int
    <3>1. lastKey \in Int
      BY BoundsAssumption DEF Typed, TypeOK
    <3> DEFINE Steps == lastKey' = lastKey \/ lastKey' = lastKey + 1
    <3>2. ASSUME NEW t \in Tasks, NEW id \in Ids, NEW op \in Ops, NEW mode \in Modes,
                 WriteStart(t, id, op, mode)
          PROVE  Steps
      BY <3>2 DEF WriteStart
    <3>3. ASSUME NEW t \in Tasks,
                 FlushStart(t) \/ StoreFault(t) \/ TaskStep(t) \/ \E ev \in outbox : ApplyStart(t, ev)
          PROVE  Steps
      BY <3>3, CallSteps DEF CallStep
    <3>4. ASSUME \/ \E req \in net : ServerCommit(req) \/ NetLose(req)
                 \/ \E id \in Ids, op \in RemoteOps : RemoteCommit(id, op)
                 \/ UNCHANGED vars
          PROVE  Steps
      BY <3>4 DEF ServerCommit, NetLose, RemoteCommit, vars
    <3> HIDE DEF Steps
    <3>5. Steps
      BY <2>1, <3>2, <3>3, <3>4 DEF Next, TaskStep
    <3>6. QED
      BY <3>1, <3>5 DEF Steps
  <2>3. ASSUME NEW key \in Keys, key <= lastKey, NEW i, Named(key, i) PROVE Named(key, i)'
    BY <2>1, <2>3, CallSteps, CallNames, OtherNames DEF Next, TaskStep
  <2>4. \E key \in Keys : \E i : /\ key <= lastKey /\ Named(key, i)
                                 /\ task'[u].sent = key /\ Oldest(task'[u].batch).id = i
    <3>1. CASE task'[u] = task[u]
      <4>1. task[u] \in Flushing
        BY <1>3, <3>1, TaskKinds DEF Typed, TypeOK
      <4>2. QED
        BY <1>3, <3>1, <4>1 DEF FlushOK, SentOK, Flushing
    <3>2. CASE /\ task[u].pc = "send" /\ task'[u].batch = task[u].batch
               /\ task'[u].sent = Oldest(task[u].batch).key
      <4> DEFINE w == Oldest(task[u].batch)
      <4>1. w \in task[u].batch /\ w \in Slot
        BY <3>2, TaskKinds, OldestSlot DEF Typed, TypeOK, TasksOK, Flushing
      <4> HIDE DEF w
      <4>2. w \in LocalWrites
        BY <3>2, <4>1 DEF LocalWrites, HeldBy
      <4>3. w.key \in Keys /\ w.key <= lastKey /\ Named(w.key, w.id)
        BY <4>1, <4>2 DEF TrueInv, WritesMade, WritesDistinct, Requested, Logged, Named, Slot
      <4>4. QED
        BY <3>2, <4>3 DEF w
    <3>3. ASSUME task[u].pc = "wait", task'[u].sent = task[u].sent, NEW w \in Slot,
                 task'[u].batch = Shared(w, task[u].batch)
          PROVE  Oldest(task'[u].batch).id = Oldest(task[u].batch).id
      <4> DEFINE old == task[u].batch
                 new == task'[u].batch
      <4>1. BatchOK(u) /\ old \in SUBSET Slot /\ old # {}
        BY <3>3, TaskKinds DEF FlushOK, Typed, TypeOK, TasksOK, Flushing
      <4>2. /\ \A s \in old : \E v \in new : v.seq = s.seq /\ v.id = s.id
            /\ \A v \in new : \E s \in old : v.seq = s.seq /\ v.id = s.id
        BY <3>3, <4>1, SharedKeeps
      <4>3. \A s, v \in old : s.seq = v.seq => s = v
        BY <3>3, <4>1 DEF BatchOK
      <4> HIDE DEF old, new
      <4>4. new # {} /\ \A v \in new : v.seq \in Nat
        BY <4>1, <4>2 DEF Slot
      <4>5. Oldest(new) \in new /\ \A v \in new : Oldest(new).seq <= v.seq
        BY <4>4, OldestIn
      <4>6. Oldest(old) \in old /\ \A s \in old : Oldest(old).seq <= s.seq /\ s.seq \in Nat
        BY <4>1, OldestIn DEF Slot
      <4>7. PICK s \in old : Oldest(new).seq = s.seq /\ Oldest(new).id = s.id
        BY <4>2, <4>5
      <4>8. PICK v \in new : v.seq = Oldest(old).seq
        BY <4>2, <4>6
      <4>9. s.seq = Oldest(old).seq
        BY <4>4, <4>5, <4>6, <4>7, <4>8
      <4>10. QED
        BY <4>3, <4>6, <4>7, <4>9 DEF old, new
    <3>4. ASSUME task[u].pc = "wait", task'[u].sent = task[u].sent,
                 Oldest(task'[u].batch).id = Oldest(task[u].batch).id
          PROVE  \E key \in Keys : \E i : /\ key <= lastKey /\ Named(key, i)
                                          /\ task'[u].sent = key /\ Oldest(task'[u].batch).id = i
      <4>1. task[u] \in Flushing
        BY <3>4, TaskKinds DEF Typed, TypeOK
      <4>2. QED
        BY <3>4, <4>1 DEF FlushOK, SentOK, Flushing
    <3>5. QED
      BY <1>3, <3>1, <3>2, <3>3, <3>4, FlushMoves DEF FlushMove
  <2>5. PICK key \in Keys : \E i : /\ key <= lastKey /\ Named(key, i)
                                   /\ task'[u].sent = key /\ Oldest(task'[u].batch).id = i
    BY <2>4
  <2>6. PICK i : Named(key, i) /\ Oldest(task'[u].batch).id = i
    BY <2>5
  <2>7. Named(key, i)' /\ key <= lastKey'
    BY <2>2, <2>3, <2>5, <2>6, KeyInts
  <2>8. Named(task[u].sent, Oldest(task[u].batch).id)'
    BY <2>5, <2>6, <2>7 DEF Named
  <2>9. QED
    BY <2>5, <2>7, <2>8 DEF SentOK
<1>4. ASSUME NEW u \in Tasks PROVE SentOK(u)'
  BY <1>3 DEF SentOK
<1>5. QED
  BY <1>1, <1>2, <1>4 DEF FlushOK, WaitSent

-----------------------------------------------------------------------------
(* The invariant *)

(* A replica starts with the server's rows and no write of its own.        *)
LEMMA InitTrue ==
  ASSUME RestartClock
  PROVE  Init => TrueInv
<1> SUFFICES ASSUME Init PROVE TrueInv
  OBVIOUS
<1>1. LocalWrites = {} /\ net = {} /\ lastKey = 0 /\ now = StartMs + 1
  BY DEF Init, LocalWrites, HeldBy, Idle
<1>2. StartMs \in Nat /\ ClientSkew \in Int /\ StartMs + ClientSkew \in Nat
  BY SkewAssumption
<1>3. ClockOwn
  <2> DEFINE wall == StartMs + 1 + ClientSkew
  <2>1. Zero \in Stamp /\ SeedVersion \in Stamp /\ wall \in Int
    BY <1>2, SeedTypes
  <2>2. LET d == JsObserve(Zero, SeedVersion, wall)
        IN  d.actor = Zero.actor /\ (Zero.wall_ms <= wall /\ SeedVersion.wall_ms <= wall => d.wall_ms <= wall)
    BY <2>1, ObserveSpends
  <2>3. /\ Zero.actor = ClientActor /\ Zero.wall_ms <= wall
        /\ MayRestart => SeedVersion.wall_ms <= wall
    BY <1>2 DEF Zero, SeedVersion, RestartClock
  <2>4. ClientWall = wall /\ clock = IF Seeded THEN JsObserve(Zero, SeedVersion, wall) ELSE Zero
    BY <1>1, <1>2 DEF Init, ClientWall
  <2>5. QED
    BY <2>2, <2>3, <2>4 DEF ClockOwn
<1>4. WritesMade /\ WritesDistinct /\ Requested
  BY <1>1 DEF WritesMade, WritesDistinct, Requested
<1>5. SeedVersion.actor = ServerActor /\ SeedVersion.wall_ms <= now
  BY <1>1, <1>2 DEF SeedVersion
<1>6. Logged
  BY <1>1, <1>5 DEF Init, Logged, SeedChange, SeedKey
<1>7. ServerStamped
  BY <1>5 DEF Init, ServerStamped, SeedRow, StoredRow, NoRow
<1>8. RowsTrue
  <2> SUFFICES ASSUME NEW i \in Ids PROVE RowShows(i) /\ RowOwn(i) /\ RowClean(i)
    BY DEF RowsTrue
  <2>1. RowShows(i)
    BY <1>1 DEF RowShows
  <2>2. rows[i] = SeedRow /\ ~rows[i].dirty
    BY DEF Init, SeedRow, StoredRow, NoRow
  <2>3. RowOwn(i)
    BY <2>2 DEF RowOwn
  <2>4. RowClean(i)
    <3>1. CASE Seeded
      <4>1. rows[i].version = SeedVersion /\ rows[i].val = SeedVal
        BY <2>2, <3>1 DEF SeedRow, StoredRow
      <4>2. SeedChange(i) \in outbox
        BY <3>1 DEF Init
      <4>3. SeedChange(i).id = i /\ SeedChange(i).version = SeedVersion /\ SeedChange(i).val = SeedVal
        BY DEF SeedChange
      <4>4. QED
        BY <4>1, <4>2, <4>3 DEF RowClean, Matches
    <3>2. CASE ~Seeded
      BY <2>2, <3>2 DEF RowClean, SeedRow, NoRow
    <3>3. QED
      BY <3>1, <3>2
  <2>5. QED
    BY <2>1, <2>3, <2>4
<1>9. QED
  BY <1>3, <1>4, <1>6, <1>7, <1>8 DEF TrueInv

(* Every step keeps it.                                                    *)
LEMMA NextTrue ==
  ASSUME ClientActor # ServerActor, RestartClock
  PROVE  Typed /\ QueueOK /\ FlushOK /\ TrueInv /\ [Next]_vars => TrueInv' /\ FlushOK'
<1> SUFFICES ASSUME Typed, QueueOK, FlushOK, TrueInv, [Next]_vars PROVE TrueInv'
  BY NextFlush
<1>1. Typed'
  BY NextTyped
<1>2. ASSUME NEW t \in Tasks,
             FlushStart(t) \/ StoreFault(t) \/ TaskStep(t) \/ \E ev \in outbox : ApplyStart(t, ev)
      PROVE  TrueInv'
  BY <1>1, <1>2, CallSteps, CallKeeps
<1>3. ASSUME NEW t \in Tasks, NEW id \in Ids, NEW op \in Ops, NEW mode \in Modes,
             WriteStart(t, id, op, mode)
      PROVE  TrueInv'
  BY <1>1, <1>3, WriteStartKeeps
<1>4. CASE \/ \E req \in net : ServerCommit(req) \/ NetLose(req)
           \/ \E id \in Ids, op \in RemoteOps : RemoteCommit(id, op)
           \/ Restart \/ UNCHANGED vars
  BY <1>4, EnvironmentKeeps
<1>5. QED
  BY <1>2, <1>3, <1>4 DEF Next, TaskStep

(* It holds in every reachable state, of either store.                     *)
LEMMA TrueInvariance ==
  ASSUME ClientActor # ServerActor, RestartClock
  PROVE  Spec => [](TrueInv /\ FlushOK)
<1>1. Typed /\ QueueOK /\ FlushOK /\ TrueInv /\ [Next]_vars => TrueInv' /\ FlushOK'
  BY NextTrue
<1>2. Init => FlushOK
  BY DEF Init, FlushOK, WaitSent, BatchOK, SentOK, Idle
<1>3. Init => TrueInv
  BY InitTrue
<1>4. QED
  BY <1>1, <1>2, <1>3, TypedInvariance, QueueInvariance, PTL DEF Spec

(* With a store whose pending() returns copies (IndexedDbStore), and a     *)
(* wall clock that is not behind the server's when the process may         *)
(* restart, a clean row's version and domain fields are those of one       *)
(* commit of it, although the server stores another payload than it was    *)
(* sent: reconcile, settleAck and the direct modes keep meta and payload   *)
(* together under every interleaving, loss, reordering and duplication.    *)
THEOREM CleanRowsCommitted ==
  ASSUME SharedQueue = FALSE, ClientActor # ServerActor, RestartClock
  PROVE  Spec => []CleanIsCommitted
<1>1. Spec => [](TrueInv /\ FlushOK)
  BY TrueInvariance
<1>2. TrueInv => CleanIsCommitted
  <2> SUFFICES ASSUME TrueInv, NEW i \in Ids, rows[i].present, ~rows[i].dirty
               PROVE  \E e \in outbox : /\ e.id = i /\ e.version = rows[i].version
                                        /\ e.val \ Columns = rows[i].val \ Columns
    BY DEF CleanIsCommitted
  <2>1. QED
    BY DEF TrueInv, RowsTrue, RowClean, Matches, Domain
<1>3. QED
  BY <1>1, <1>2, PTL

-----------------------------------------------------------------------------
(* The queue and the dirty rows, when calls run one at a time *)

(* The queued write is the dirty content of its row.                       *)
Shows(s) == rows[s.id].dirty /\ rows[s.id].version = s.base /\ rows[s.id].val = s.val

(* The row a call inside a store section is between two store calls for.   *)
Handles(r, i) ==
  \/ r.pc = "enqueue" /\ r.w.id = i
  \/ r.pc \in {"drop", "retire"} /\ r.ev.id = i

(* What a call inside a store section may rely on after its await.         *)
SectionOK(t) ==
  /\ task[t].pc = "enqueue" =>
       rows[task[t].w.id] = StoredRow(task[t].w.base, TRUE, task[t].w.val)
  /\ task[t].pc = "decide" => task[t].old = rows[task[t].ev.id]
  /\ task[t].pc \in {"drop", "retire"} => ~rows[task[t].ev.id].dirty
  /\ task[t].pc = "retire" => task[t].batch = QueuedFor(task[t].ev.id)

DirtyPresent == \A i \in Ids : rows[i].dirty => rows[i].present

PairInv ==
  /\ \A t, u \in Tasks : task[t].pc \in Section /\ task[u].pc \in Section => t = u
  /\ \A t \in Tasks : SectionOK(t)
  /\ \A s \in queue : Shows(s) \/ \E t \in Tasks : Handles(task[t], s.id)
  /\ DirtyPresent

(* Stamps are totally ordered.                                             *)
LEMMA StampOrder ==
  ASSUME NEW a \in Stamp, NEW b \in Stamp, a # b, ~HlcLess(b, a)
  PROVE  HlcLess(a, b)
  BY DEF Stamp, HlcLess

(* Only the running call is inside a store section, before its step and    *)
(* after it.                                                               *)
Alone(t) == \A u \in Tasks \ {t} : task[u].pc \notin Section /\ task'[u].pc \notin Section

(* A call that moves on leaves the others where they are.                  *)
LEMMA MovesAlone ==
  ASSUME Typed, Overlap = FALSE, NEW t \in Tasks, MayRun(t), NEW r, Becomes(t, r)
  PROVE  Alone(t) /\ task'[t] = r
<1>1. task' = [task EXCEPT ![t] = r] /\ task \in [Tasks -> TaskState]
  BY DEF Becomes, Typed, TypeOK
<1>2. task'[t] = r /\ \A u \in Tasks \ {t} : task'[u] = task[u]
  BY <1>1
<1>3. \A u \in Tasks \ {t} : task[u].pc \notin Section
  BY DEF MayRun
<1>4. Alone(t)
  BY <1>2, <1>3 DEF Alone
<1>5. QED
  BY <1>2, <1>4

(* What the running call starts from.                                      *)
LEMMA AloneBefore ==
  ASSUME PairInv, NEW t \in Tasks, Alone(t)
  PROVE  SectionOK(t) /\ \A s \in queue : Shows(s) \/ Handles(task[t], s.id)
<1>1. ASSUME NEW u \in Tasks, NEW i, Handles(task[u], i) PROVE u = t
  BY <1>1 DEF Alone, Handles, Section
<1>2. QED
  BY <1>1 DEF PairInv

(* What it has to leave behind.                                            *)
LEMMA AloneAfter ==
  ASSUME NEW t \in Tasks, Alone(t), SectionOK(t)',
         \A s \in queue' : Shows(s)' \/ Handles(task'[t], s.id),
         DirtyPresent'
  PROVE  PairInv'
<1>1. \A a, b \in Tasks : task'[a].pc \in Section /\ task'[b].pc \in Section => a = b
  BY DEF Alone
<1>2. ASSUME NEW u \in Tasks PROVE SectionOK(u)'
  <2>1. CASE u = t
    BY <2>1
  <2>2. CASE u # t
    BY <2>2 DEF Alone, Section, SectionOK
  <2>3. QED
    BY <2>1, <2>2
<1>3. \A s \in queue' : Shows(s)' \/ \E u \in Tasks : Handles(task'[u], s.id)
  OBVIOUS
<1>4. QED
  BY <1>1, <1>2, <1>3 DEF PairInv, Handles

(* A step of a call outside the sections that touches neither the rows nor *)
(* the queue.                                                              *)
LEMMA IdleSteps ==
  ASSUME Typed, PairInv, Overlap = FALSE, NEW t \in Tasks, MayRun(t), NEW r, Becomes(t, r),
         task[t].pc \notin {"enqueue", "drop", "retire"},
         r.pc \notin {"enqueue", "decide", "drop", "retire"},
         UNCHANGED <<rows, queue>>
  PROVE  PairInv'
<1>1. Alone(t) /\ task'[t] = r
  BY MovesAlone
<1>2. \A s \in queue : Shows(s)
  BY <1>1, AloneBefore DEF Handles
<1>3. SectionOK(t)'
  BY <1>1 DEF SectionOK
<1>4. \A s \in queue' : Shows(s)'
  BY <1>2 DEF Shows
<1>5. DirtyPresent'
  BY DEF PairInv, DirtyPresent
<1>6. QED
  BY <1>1, <1>3, <1>4, <1>5, AloneAfter

(* The calls' first steps, sends and failures.                             *)
LEMMA PlainPair ==
  ASSUME Typed, PairInv, Overlap = FALSE, NEW t \in Tasks,
         \/ \E id \in Ids, op \in Ops, mode \in Modes : WriteStart(t, id, op, mode)
         \/ SendFails(t) \/ FlushStart(t) \/ FlushSend(t)
  PROVE  PairInv'
<1>1. CASE \E id \in Ids, op \in Ops, mode \in Modes : WriteStart(t, id, op, mode)
  <2>1. PICK id \in Ids, op \in Ops, mode \in Modes : WriteStart(t, id, op, mode)
    BY <1>1
  <2>2. PICK w : Becomes(t, [pc |-> IF mode \in {"server_first", "server_only"} THEN "direct" ELSE "put",
                             w |-> w, mode |-> mode])
    BY <2>1 DEF WriteStart
  <2> DEFINE r == [pc |-> IF mode \in {"server_first", "server_only"} THEN "direct" ELSE "put",
                   w |-> w, mode |-> mode]
  <2>3. r.pc \in {"direct", "put"} /\ Becomes(t, r)
    BY <2>2
  <2>4. MayRun(t) /\ task[t].pc = "idle" /\ UNCHANGED <<rows, queue>>
    BY <2>1 DEF WriteStart, storeVars, ghosts
  <2> HIDE DEF r
  <2>5. QED
    BY <2>3, <2>4, IdleSteps
<1>2. CASE SendFails(t)
  <2>1. MayRun(t) /\ task[t].pc \in {"ack", "direct", "wait"} /\ Becomes(t, Idle)
        /\ UNCHANGED <<rows, queue>> /\ Idle.pc = "idle"
    BY <1>2 DEF SendFails, Finish, storeVars, ghosts, Idle
  <2>2. QED
    BY <2>1, IdleSteps
<1>3. CASE FlushStart(t)
  <2> DEFINE r == [pc |-> "send", batch |-> queue, sent |-> Oldest(queue).key]
  <2>1. r.pc = "send" /\ MayRun(t) /\ task[t].pc = "idle" /\ Becomes(t, r)
        /\ UNCHANGED <<rows, queue>>
    BY <1>3 DEF FlushStart, storeVars, ghosts
  <2> HIDE DEF r
  <2>2. QED
    BY <2>1, IdleSteps
<1>4. CASE FlushSend(t)
  <2> DEFINE r == [task[t] EXCEPT !.pc = "wait", !.sent = Oldest(task[t].batch).key]
  <2>1. task[t] \in Flushing /\ task[t].pc = "send"
    BY <1>4, TaskKinds DEF FlushSend, Typed, TypeOK
  <2>2. r.pc = "wait"
    BY <2>1 DEF Flushing
  <2>3. MayRun(t) /\ Becomes(t, r) /\ UNCHANGED <<rows, queue>>
    BY <1>4 DEF FlushSend, storeVars, ghosts
  <2> HIDE DEF r
  <2>4. QED
    BY <2>1, <2>2, <2>3, IdleSteps
<1>5. QED
  BY <1>1, <1>2, <1>3, <1>4

(* write(): between putRow and enqueue the row is ahead of its slot.       *)
LEMMA WritePutPair ==
  ASSUME Typed, PairInv, Overlap = FALSE, NEW t \in Tasks, WritePut(t)
  PROVE  PairInv'
<1> DEFINE w == task[t].w
           r == [task[t] EXCEPT !.pc = "enqueue"]
<1>1. task[t] \in Writing /\ w \in Slot /\ task[t].pc = "put"
  BY TaskKinds DEF WritePut, Typed, TypeOK, Writing
<1>2. r.pc = "enqueue" /\ r.w = w
  BY <1>1 DEF Writing
<1>3. Alone(t) /\ task'[t] = r
  BY MovesAlone DEF WritePut
<1>4. \A s \in queue : Shows(s)
  BY <1>1, <1>3, AloneBefore DEF Handles
<1>5. rows' = [rows EXCEPT ![w.id] = StoredRow(w.base, TRUE, w.val)] /\ UNCHANGED queue
  BY DEF WritePut, PutRow, ghosts
<1>6. rows'[w.id] = StoredRow(w.base, TRUE, w.val) /\ \A i \in Ids \ {w.id} : rows'[i] = rows[i]
  BY <1>1, <1>5 DEF Slot, Typed, TypeOK
<1> HIDE DEF w, r
<1>7. SectionOK(t)'
  BY <1>2, <1>3, <1>6 DEF SectionOK
<1>8. ASSUME NEW s \in queue PROVE Shows(s)' \/ Handles(task'[t], s.id)
  <2>1. s.id \in Ids
    BY DEF Typed, TypeOK, Slot
  <2>2. CASE s.id = w.id
    BY <1>2, <1>3, <2>2 DEF Handles
  <2>3. CASE s.id # w.id
    BY <1>4, <1>6, <2>1, <2>3 DEF Shows
  <2>4. QED
    BY <2>2, <2>3
<1>9. DirtyPresent'
  BY <1>5, <1>6 DEF PairInv, DirtyPresent, StoredRow
<1>10. QED
  BY <1>3, <1>5, <1>7, <1>8, <1>9, AloneAfter

(* A coalescing or appending enqueue leaves the row one slot: the write's. *)
LEMMA EnqueueLeaves ==
  ASSUME Typed, QueueOK, NEW w \in Slot, Enqueue(w)
  PROVE  \A s \in queue' : \/ s.id = w.id /\ s.base = w.base /\ s.val = w.val
                           \/ s \in queue /\ s.id # w.id
<1> DEFINE slot == [w EXCEPT !.seq = SlotSeq(w)]
<1>1. slot.id = w.id /\ slot.base = w.base /\ slot.val = w.val
  BY DEF Slot
<1> HIDE DEF slot
<1>2. CASE QueuedFor(w.id) # {}
  <2>1. queue' = (queue \ {Oldest(QueuedFor(w.id))}) \cup {slot}
    BY <1>2 DEF Enqueue, slot
  <2>2. Oldest(QueuedFor(w.id)) \in QueuedFor(w.id)
    BY <1>2, OldestSlot DEF QueuedFor, Typed, TypeOK
  <2>3. \A s \in queue : s.id = w.id => s = Oldest(QueuedFor(w.id))
    BY <2>2 DEF QueuedFor, QueueOK, OneSlotPerRow
  <2>4. QED
    BY <1>1, <2>1, <2>3
<1>3. CASE QueuedFor(w.id) = {}
  <2>1. \A s \in queue' : s \in queue \/ s = slot
    BY <1>3 DEF Enqueue, slot
  <2>2. QED
    BY <1>1, <1>3, <2>1 DEF QueuedFor
<1>4. QED
  BY <1>2, <1>3

(* write(): the enqueue leaves the other calls where they are.             *)
LEMMA EnqueueAlone ==
  ASSUME Typed, Overlap = FALSE, NEW t \in Tasks, WriteEnqueue(t)
  PROVE  Alone(t) /\ task'[t].pc \in {"idle", "ack"}
<1> DEFINE w == task[t].w
           stops == task[t].mode = "local_only" \/ (ThrowOnOverflow /\ Overflows(w))
           mine == IF stops THEN Idle ELSE [task[t] EXCEPT !.pc = "ack", !.w = [w EXCEPT !.seq = SlotSeq(w)]]
<1>1. task[t] \in Writing /\ w \in Slot /\ task[t].pc = "enqueue"
  BY TaskKinds DEF WriteEnqueue, Typed, TypeOK, Writing
<1>2. mine.pc \in {"idle", "ack"}
  BY <1>1 DEF Idle, Writing
<1>3. task' = [u \in Tasks |->
                 IF u = t THEN mine
                 ELSE IF task[u].pc \in {"send", "wait"}
                      THEN [task[u] EXCEPT !.batch = Shared(w, @)]
                      ELSE task[u]]
  BY DEF WriteEnqueue
<1>4. MayRun(t)
  BY DEF WriteEnqueue
<1> HIDE DEF w, mine
<1>5. task'[t] = mine
  BY <1>3
<1>6. Alone(t)
  <2> SUFFICES ASSUME NEW u \in Tasks \ {t}
               PROVE  task[u].pc \notin Section /\ task'[u].pc \notin Section
    BY DEF Alone
  <2>1. task[u].pc \notin Section
    BY <1>4 DEF MayRun
  <2>2. CASE task[u].pc \in {"send", "wait"}
    <3>1. task[u] \in Flushing
      BY <2>2, TaskKinds DEF Typed, TypeOK
    <3>2. task'[u].pc = task[u].pc
      BY <1>3, <2>2, <3>1 DEF Flushing
    <3>3. QED
      BY <2>1, <3>2
  <2>3. CASE task[u].pc \notin {"send", "wait"}
    BY <1>3, <2>1, <2>3
  <2>4. QED
    BY <2>1, <2>2, <2>3
<1>7. QED
  BY <1>2, <1>5, <1>6

(* write(): the enqueue closes the gap.                                    *)
LEMMA WriteEnqueuePair ==
  ASSUME Typed, QueueOK, PairInv, Overlap = FALSE, NEW t \in Tasks, WriteEnqueue(t)
  PROVE  PairInv'
<1> DEFINE w == task[t].w
<1>1. task[t] \in Writing /\ w \in Slot /\ task[t].pc = "enqueue"
  BY TaskKinds DEF WriteEnqueue, Typed, TypeOK, Writing
<1>2. UNCHANGED rows /\ Enqueue(w)
  BY DEF WriteEnqueue, ghosts
<1> HIDE DEF w
<1>3. Alone(t) /\ task'[t].pc \in {"idle", "ack"}
  BY EnqueueAlone
<1>4. /\ rows[w.id] = StoredRow(w.base, TRUE, w.val)
      /\ \A s \in queue : Shows(s) \/ s.id = w.id
  BY <1>1, <1>3, AloneBefore DEF SectionOK, Handles, w
<1>5. ASSUME NEW s \in queue' PROVE Shows(s)'
  <2>1. \/ s.id = w.id /\ s.base = w.base /\ s.val = w.val
        \/ s \in queue /\ s.id # w.id
    BY <1>1, <1>2, EnqueueLeaves
  <2>2. Shows(s)
    BY <1>4, <2>1 DEF Shows, StoredRow
  <2>3. QED
    BY <1>2, <2>2 DEF Shows
<1>6. SectionOK(t)'
  BY <1>3 DEF SectionOK
<1>7. DirtyPresent'
  BY <1>2 DEF PairInv, DirtyPresent
<1>8. QED
  BY <1>3, <1>5, <1>6, <1>7, AloneAfter

(* A settlement retires the row's slot and cleans the row together.        *)
LEMMA SettlePairs ==
  ASSUME Typed, QueueOK, NEW id \in Ids, NEW seq, NEW key, NEW base, NEW committed,
         SettleAck(id, seq, key, base, committed)
  PROVE  \/ UNCHANGED <<rows, queue>>
         \/ /\ ~rows'[id].dirty /\ rows'[id].present
            /\ rows'[id].version = committed /\ ~HlcLess(committed, rows[id].version)
            /\ \A i \in Ids \ {id} : rows'[i] = rows[i]
            /\ \A s \in queue : s \in queue' <=> s.id # id
            /\ queue' \subseteq queue
<1>1. CASE \E s \in queue : /\ s.seq = seq
                            /\ rows[id].present
                            /\ SettleQueuedAck(rows[id], s, id, key, base, committed)
  <2>1. PICK s \in queue : /\ s.seq = seq /\ s.id = id /\ rows[id].present
                           /\ ~HlcLess(committed, rows[id].version)
    BY <1>1 DEF SettleQueuedAck, OnAckAdopts
  <2>2. queue' = {u \in queue : u.seq # seq}
        /\ rows' = [rows EXCEPT ![id] = [rows[id] EXCEPT !.version = committed, !.dirty = FALSE]]
    BY <1>1 DEF SettleAck, Retire, PutRow
  <2>3. \A u \in queue : u.seq = seq <=> u.id = id
    BY <2>1 DEF QueueOK, OneSlotPerRow
  <2>4. rows[id] \in Row /\ rows \in [Ids -> Row]
    BY DEF Typed, TypeOK
  <2>5. /\ ~rows'[id].dirty /\ rows'[id].present /\ rows'[id].version = committed
        /\ \A i \in Ids \ {id} : rows'[i] = rows[i]
    BY <2>1, <2>2, <2>4 DEF Row
  <2>6. QED
    BY <2>1, <2>2, <2>3, <2>5
<1>2. CASE ~\E s \in queue : /\ s.seq = seq
                             /\ rows[id].present
                             /\ SettleQueuedAck(rows[id], s, id, key, base, committed)
  BY <1>2 DEF SettleAck, storeVars
<1>3. QED
  BY <1>1, <1>2

(* The two kinds of acknowledgement settle some row of the replica.        *)
LEMMA AcksSettle ==
  ASSUME Typed, NEW t \in Tasks, WriteAck(t) \/ FlushAck(t)
  PROVE  /\ \E id \in Ids, committed \in Stamp : \E seq, key, base : SettleAck(id, seq, key, base, committed)
         /\ MayRun(t) /\ task[t].pc \in {"ack", "wait"}
         /\ \E r : Becomes(t, r) /\ r.pc \in {"idle", "send"}
<1>1. CASE WriteAck(t)
  <2>1. task[t].w.id \in Ids /\ CommittedVersion(task[t].w.key) \in Stamp
    BY <1>1, TaskKinds, CommittedStamp DEF WriteAck, Typed, TypeOK, Writing, Slot
  <2>2. QED
    BY <1>1, <2>1 DEF WriteAck, Finish, Idle
<1>2. CASE FlushAck(t)
  <2> DEFINE w == Oldest(task[t].batch)
             r == [task[t] EXCEPT !.pc = "send", !.batch = task[t].batch \ {w}]
  <2>1. task[t] \in Flushing /\ w \in Slot
    BY <1>2, TaskKinds, OldestSlot DEF FlushAck, Typed, TypeOK, TasksOK, Flushing
  <2>2. r.pc = "send"
    BY <2>1 DEF Flushing
  <2>3. Becomes(t, r) \/ Becomes(t, Idle)
    BY <1>2 DEF FlushAck, Finish
  <2>4. \E q : Becomes(t, q) /\ q.pc \in {"idle", "send"}
    <3> HIDE DEF r
    <3>1. Idle.pc = "idle"
      BY DEF Idle
    <3>2. QED
      BY <2>2, <2>3, <3>1
  <2>5. SettleAck(w.id, w.seq, w.key, w.base, CommittedVersion(task[t].sent)) /\ w.id \in Ids
        /\ CommittedVersion(task[t].sent) \in Stamp
    BY <1>2, <2>1, CommittedStamp DEF FlushAck, Slot, Typed
  <2> HIDE DEF w
  <2>6. \E id \in Ids, committed \in Stamp : \E seq, key, base : SettleAck(id, seq, key, base, committed)
    BY <2>5
  <2>7. QED
    BY <1>2, <2>4, <2>6 DEF FlushAck
<1>3. QED
  BY <1>1, <1>2

(* Acknowledgements keep the pairs.                                        *)
LEMMA AckPair ==
  ASSUME Typed, QueueOK, PairInv, Overlap = FALSE, NEW t \in Tasks, WriteAck(t) \/ FlushAck(t)
  PROVE  PairInv'
<1>1. PICK id \in Ids, committed \in Stamp : \E seq, key, base : SettleAck(id, seq, key, base, committed)
  BY AcksSettle
<1>2. PICK r : Becomes(t, r) /\ r.pc \in {"idle", "send"}
  BY AcksSettle
<1>3. MayRun(t) /\ task[t].pc \in {"ack", "wait"}
  BY AcksSettle
<1>4. CASE UNCHANGED <<rows, queue>>
  BY <1>2, <1>3, <1>4, IdleSteps
<1>5. CASE /\ ~rows'[id].dirty /\ rows'[id].present
           /\ \A i \in Ids \ {id} : rows'[i] = rows[i]
           /\ \A s \in queue : s \in queue' <=> s.id # id
           /\ queue' \subseteq queue
  <2>1. Alone(t) /\ task'[t] = r
    BY <1>2, <1>3, MovesAlone
  <2>2. \A s \in queue : Shows(s) /\ s.id \in Ids
    BY <1>3, <2>1, AloneBefore DEF Handles, Typed, TypeOK, Slot
  <2>3. \A s \in queue' : Shows(s)'
    BY <1>5, <2>2 DEF Shows
  <2>4. SectionOK(t)'
    BY <1>2, <2>1 DEF SectionOK
  <2>5. DirtyPresent'
    BY <1>3, <1>5 DEF PairInv, DirtyPresent
  <2>6. QED
    BY <2>1, <2>3, <2>4, <2>5, AloneAfter
<1>6. QED
  BY <1>1, <1>4, <1>5, SettlePairs

(* Without server_first no response writes a row over its queued write.    *)
LEMMA DirectPair ==
  ASSUME Typed, PairInv, Overlap = FALSE, "server_first" \notin Modes, NEW t \in Tasks, DirectAck(t)
  PROVE  PairInv'
<1>1. task[t].mode \in Modes
  BY TaskKinds DEF DirectAck, Typed, TypeOK, Writing
<1>2. MayRun(t) /\ task[t].pc = "direct" /\ Becomes(t, Idle) /\ UNCHANGED <<rows, queue>>
  BY <1>1 DEF DirectAck, Finish, ghosts
<1>3. Idle.pc = "idle"
  BY DEF Idle
<1>4. QED
  BY <1>2, <1>3, IdleSteps

(* applyChange(): the row read before the await is still the row.          *)
LEMMA ApplyStartPair ==
  ASSUME Typed, PairInv, Overlap = FALSE, NEW t \in Tasks, NEW ev \in outbox, ApplyStart(t, ev)
  PROVE  PairInv'
<1> DEFINE r == [pc |-> "decide", ev |-> ev, old |-> rows[ev.id]]
<1>1. /\ MayRun(t) /\ task[t].pc = "idle" /\ Becomes(t, r) /\ UNCHANGED <<rows, queue>>
      /\ r.pc = "decide" /\ r.ev = ev /\ r.old = rows[ev.id]
  BY DEF ApplyStart, storeVars, ghosts
<1> HIDE DEF r
<1>2. Alone(t) /\ task'[t] = r
  BY <1>1, MovesAlone
<1>3. \A s \in queue' : Shows(s)'
  BY <1>1, <1>2, AloneBefore DEF Handles, Shows
<1>4. SectionOK(t)'
  BY <1>1, <1>2 DEF SectionOK
<1>5. DirtyPresent'
  BY <1>1 DEF PairInv, DirtyPresent
<1>6. QED
  BY <1>2, <1>3, <1>4, <1>5, AloneAfter

(* applyChange(): whatever it adopts over a dirty row, it goes on to drop  *)
(* that row's queued write.                                                *)
LEMMA ApplyDecidePair ==
  ASSUME Typed, PairInv, Overlap = FALSE, NEW t \in Tasks, ApplyDecide(t)
  PROVE  PairInv'
<1> DEFINE ev  == task[t].ev
           old == task[t].old
           new == StoredRow(ev.version, FALSE, ev.val)
           r   == [task[t] EXCEPT !.pc = "drop"]
           decision == Reconcile(old, ev)
           conflict == decision = "Conflict" /\ ResolveConflict(Resolution, old, ev)
           refresh  == decision = "AlreadyApplied" /\ old.present /\ ~old.dirty
<1>1. task[t] \in Applying /\ task[t].pc = "decide" /\ ev \in Change /\ ev.id \in Ids
  BY TaskKinds DEF ApplyDecide, Typed, TypeOK, Applying, Change
<1>2. r.pc = "drop" /\ r.ev = ev /\ Idle.pc = "idle"
  BY <1>1 DEF Applying, Idle
<1>3. MayRun(t) /\ (Becomes(t, r) \/ Becomes(t, Idle)) /\ UNCHANGED queue
  BY DEF ApplyDecide, Finish
<1>4. Alone(t) /\ (task'[t] = r \/ task'[t] = Idle)
  BY <1>3, MovesAlone
<1>5. old = rows[ev.id] /\ \A s \in queue : Shows(s) /\ s.id \in Ids
  BY <1>1, <1>4, AloneBefore DEF SectionOK, Handles, Typed, TypeOK, Slot
<1>6. DirtyPresent /\ (old.dirty => old.present)
  BY <1>1, <1>5 DEF PairInv, DirtyPresent
<1>7. IF decision = "Apply" \/ conflict \/ refresh THEN rows' = [rows EXCEPT ![ev.id] = new] ELSE rows' = rows
  BY DEF ApplyDecide, Adopt, PutRow
<1>8. IF conflict THEN Becomes(t, r) ELSE Becomes(t, Idle)
  BY DEF ApplyDecide, Finish
<1>9. decision = "Apply" => ~old.dirty
  BY <1>6 DEF Reconcile
<1>10. new.present /\ ~new.dirty
  BY DEF StoredRow
<1>11. rows \in [Ids -> Row]
  BY DEF Typed, TypeOK
<1> HIDE DEF ev, old, new, r, decision
<1>12. CASE conflict
  <2>1. task'[t] = r /\ rows'[ev.id] = new /\ \A i \in Ids \ {ev.id} : rows'[i] = rows[i]
    BY <1>1, <1>3, <1>7, <1>8, <1>11, <1>12, MovesAlone
  <2>2. \A s \in queue' : Shows(s)' \/ Handles(task'[t], s.id)
    BY <1>2, <1>3, <1>5, <2>1 DEF Shows, Handles
  <2>3. SectionOK(t)'
    BY <1>2, <1>10, <2>1 DEF SectionOK
  <2>4. DirtyPresent'
    BY <1>6, <1>10, <2>1 DEF DirtyPresent
  <2>5. QED
    BY <1>4, <2>2, <2>3, <2>4, AloneAfter
<1>13. CASE ~conflict
  <2>1. task'[t] = Idle
    BY <1>3, <1>8, <1>13, MovesAlone
  <2>2. SectionOK(t)'
    BY <1>2, <2>1 DEF SectionOK
  <2>3. rows' = rows \/ (~old.dirty /\ rows' = [rows EXCEPT ![ev.id] = new])
    BY <1>7, <1>9, <1>13
  <2>4. CASE rows' = rows
    BY <1>3, <1>4, <1>5, <1>6, <2>2, <2>4, AloneAfter DEF Shows, DirtyPresent
  <2>5. CASE ~old.dirty /\ rows' = [rows EXCEPT ![ev.id] = new]
    <3>1. rows'[ev.id] = new /\ \A i \in Ids \ {ev.id} : rows'[i] = rows[i]
      BY <1>1, <1>11, <2>5
    <3>2. \A s \in queue : s.id # ev.id
      BY <1>5, <2>5 DEF Shows
    <3>3. \A s \in queue' : Shows(s)'
      BY <1>3, <1>5, <3>1, <3>2 DEF Shows
    <3>4. DirtyPresent'
      BY <1>6, <1>10, <3>1 DEF DirtyPresent
    <3>5. QED
      BY <1>4, <2>2, <3>3, <3>4, AloneAfter
  <2>6. QED
    BY <2>3, <2>4, <2>5
<1>14. QED
  BY <1>12, <1>13

(* #dropQueuedFor: the list it makes is the row's queue.                   *)
LEMMA DropListPair ==
  ASSUME Typed, PairInv, Overlap = FALSE, NEW t \in Tasks, DropList(t)
  PROVE  PairInv'
<1> DEFINE ev == task[t].ev
           r  == [pc |-> "retire", ev |-> ev, batch |-> QueuedFor(ev.id)]
<1>1. task[t].pc = "drop" /\ MayRun(t) /\ UNCHANGED <<rows, queue>>
  BY DEF DropList, storeVars
<1>2. IF QueuedFor(ev.id) = {} THEN Becomes(t, Idle) ELSE Becomes(t, r)
  BY DEF DropList, Finish
<1>3. r.pc = "retire" /\ r.ev = ev /\ r.batch = QueuedFor(ev.id) /\ Idle.pc = "idle"
  BY DEF Idle
<1> HIDE DEF r
<1>4. Alone(t) /\ task'[t] = IF QueuedFor(ev.id) = {} THEN Idle ELSE r
  BY <1>1, <1>2, MovesAlone
<1>5. ~rows[ev.id].dirty /\ \A s \in queue : Shows(s) \/ s.id = ev.id
  BY <1>1, <1>4, AloneBefore DEF SectionOK, Handles
<1> HIDE DEF ev
<1>6. SectionOK(t)'
  BY <1>1, <1>3, <1>4, <1>5 DEF SectionOK, QueuedFor
<1>7. \A s \in queue' : Shows(s)' \/ Handles(task'[t], s.id)
  BY <1>1, <1>3, <1>4, <1>5 DEF Shows, Handles, QueuedFor
<1>8. DirtyPresent'
  BY <1>1 DEF PairInv, DirtyPresent
<1>9. QED
  BY <1>4, <1>6, <1>7, <1>8, AloneAfter

(* #dropQueuedFor retires the row's one slot, whose edit was displaced.    *)
LEMMA DropRetires ==
  ASSUME Typed, QueueOK, PairInv, Overlap = FALSE, NEW t \in Tasks, DropRetire(t)
  PROVE  /\ Alone(t) /\ task'[t] = Idle
         /\ \A s \in queue' : s \in queue /\ s.id # task[t].ev.id
         /\ \A s \in queue : s.id # task[t].ev.id => s \in queue'
         /\ ~rows[task[t].ev.id].dirty /\ UNCHANGED rows
<1> DEFINE ev   == task[t].ev
           next == Oldest(task[t].batch)
           r    == [task[t] EXCEPT !.batch = task[t].batch \ {next}]
<1>1. task[t] \in Dropping /\ task[t].pc = "retire" /\ task[t].batch # {} /\ next \in task[t].batch
  BY TaskKinds, OldestSlot DEF DropRetire, Typed, TypeOK, TasksOK, Dropping
<1>2. \A u \in Tasks \ {t} : task[u].pc \notin Section
  BY DEF DropRetire, MayRun
<1>3. SectionOK(t)
  BY DEF PairInv
<1>4. task[t].batch = QueuedFor(ev.id) /\ ~rows[ev.id].dirty
  BY <1>1, <1>3 DEF SectionOK
<1>5. \A s \in queue : s.id = ev.id \/ s.seq = next.seq => s = next
  BY <1>1, <1>4 DEF QueuedFor, QueueOK, OneSlotPerRow
<1>6. task[t].batch \ {next} = {} /\ next \in queue /\ next.id = ev.id
  BY <1>1, <1>4, <1>5 DEF QueuedFor
<1>7. queue' = {s \in queue : s.seq # next.seq} /\ UNCHANGED rows /\ MayRun(t)
  BY DEF DropRetire, Retire
<1>8. Becomes(t, Idle)
  BY <1>6 DEF DropRetire, Finish
<1> HIDE DEF ev, next
<1>9. Alone(t) /\ task'[t] = Idle
  BY <1>7, <1>8, MovesAlone
<1>10. (\A s \in queue' : s \in queue /\ s.id # ev.id) /\ (\A s \in queue : s.id # ev.id => s \in queue')
  BY <1>5, <1>6, <1>7
<1>11. QED
  BY <1>4, <1>7, <1>9, <1>10 DEF ev

(* #dropQueuedFor keeps the pairs.                                         *)
LEMMA DropRetirePair ==
  ASSUME Typed, QueueOK, PairInv, Overlap = FALSE, NEW t \in Tasks, DropRetire(t)
  PROVE  PairInv'
<1>1. /\ Alone(t) /\ task'[t] = Idle /\ Idle.pc = "idle" /\ task[t].pc = "retire"
      /\ \A s \in queue' : s \in queue /\ s.id # task[t].ev.id
      /\ UNCHANGED rows
  BY DropRetires DEF Idle, DropRetire
<1>2. \A s \in queue : Shows(s) \/ s.id = task[t].ev.id
  BY <1>1, AloneBefore DEF Handles
<1>3. \A s \in queue' : Shows(s)'
  BY <1>1, <1>2 DEF Shows
<1>4. SectionOK(t)'
  BY <1>1 DEF SectionOK
<1>5. DirtyPresent'
  BY <1>1 DEF PairInv, DirtyPresent
<1>6. QED
  BY <1>1, <1>3, <1>4, <1>5, AloneAfter

(* Every step keeps the pairs.                                             *)
LEMMA NextPair ==
  ASSUME Overlap = FALSE, MaxFaults = 0, "server_first" \notin Modes
  PROVE  Typed /\ QueueOK /\ PairInv /\ [Next]_vars => PairInv'
<1> SUFFICES ASSUME Typed, QueueOK, PairInv, [Next]_vars PROVE PairInv'
  OBVIOUS
<1>1. \A t \in Tasks : ~StoreFault(t)
  BY DEF StoreFault, Typed, TypeOK
<1>2. ~Restart
  BY DEF Restart, Typed, TypeOK
<1>3. ASSUME NEW t \in Tasks, TaskStep(t) \/ FlushStart(t) PROVE PairInv'
  BY <1>3, PlainPair, WritePutPair, WriteEnqueuePair, AckPair, DirectPair, ApplyDecidePair,
     DropListPair, DropRetirePair DEF TaskStep
<1>4. ASSUME NEW t \in Tasks, \/ \E id \in Ids, op \in Ops, mode \in Modes : WriteStart(t, id, op, mode)
                              \/ \E ev \in outbox : ApplyStart(t, ev)
      PROVE  PairInv'
  BY <1>4, PlainPair, ApplyStartPair
<1>5. CASE \/ \E req \in net : ServerCommit(req) \/ NetLose(req)
           \/ \E id \in Ids, op \in RemoteOps : RemoteCommit(id, op)
           \/ UNCHANGED vars
  <2>1. UNCHANGED <<rows, queue, task>>
    BY <1>5 DEF ServerCommit, NetLose, RemoteCommit, vars, storeVars, ghosts
  <2>2. QED
    BY <2>1 DEF PairInv, SectionOK, Shows, Handles, DirtyPresent, QueuedFor
<1>6. QED
  BY <1>1, <1>2, <1>3, <1>4, <1>5 DEF Next, TaskStep

(* A replica starts with clean rows and an empty queue.                    *)
LEMMA InitPair == Init => PairInv
  BY DEF Init, PairInv, SectionOK, Idle, Section, DirtyPresent, SeedRow, StoredRow, NoRow

(* The pairs hold in every reachable state of a replica that loses no step *)
(* to an error and whose calls run one store section at a time.            *)
LEMMA PairInvariance ==
  ASSUME Overlap = FALSE, MaxFaults = 0, "server_first" \notin Modes
  PROVE  Spec => []PairInv
<1>1. Typed /\ QueueOK /\ PairInv /\ [Next]_vars => PairInv'
  BY NextPair
<1>2. QED
  BY <1>1, InitPair, TypedInvariance, QueueInvariance, PTL DEF Spec

(* "A queued write remains dirty and retryable" (formal/README.md:55): for *)
(* every number of rows, calls and writes, and every cap, the queue and    *)
(* the rows agree between the store sections.                              *)
THEOREM QueuedWritesDirty ==
  ASSUME Overlap = FALSE, MaxFaults = 0, "server_first" \notin Modes
  PROVE  Spec => []QueuedIsDirty
<1>1. PairInv => QueuedIsDirty
  <2> SUFFICES ASSUME PairInv, ~InSection, NEW s \in queue PROVE Shows(s)
    BY DEF QueuedIsDirty, Shows
  <2>1. \A t \in Tasks : ~Handles(task[t], s.id)
    BY DEF InSection, Handles, Section
  <2>2. QED
    BY <2>1 DEF PairInv
<1>2. QED
  BY <1>1, PairInvariance, PTL

-----------------------------------------------------------------------------
(* No dirty row is forgotten, when the cap covers the rows *)

DirtyQueued ==
  \A i \in Ids : rows[i].dirty =>
    \/ \E s \in queue : s.id = i
    \/ \E t \in Tasks : task[t].pc = "enqueue" /\ task[t].w.id = i

(* Distinct slots are of distinct rows: a cap that covers the rows is      *)
(* never exceeded.                                                         *)
LEMMA NoOverflow ==
  ASSUME Typed, QueueOK, IsFiniteSet(Ids), Cardinality(Ids) <= MaxQueue, NEW w \in Slot
  PROVE  ~Overflows(w)
<1> DEFINE f == [s \in queue |-> s.id]
<1> SUFFICES ASSUME QueuedFor(w.id) = {} PROVE Cardinality(queue) < MaxQueue
  BY BoundsAssumption, FS_CardinalityType DEF Overflows, QueueOK
<1>1. w.id \in Ids /\ \A s \in queue : s.id \in Ids \ {w.id}
  BY DEF QueuedFor, Slot, Typed, TypeOK
<1>2. IsFiniteSet(Ids \ {w.id}) /\ Cardinality(Ids \ {w.id}) = Cardinality(Ids) - 1
  BY <1>1, FS_RemoveElement
<1>3. f \in Injection(queue, Ids \ {w.id})
  BY <1>1 DEF Injection, IsInjective, QueueOK, OneSlotPerRow
<1>4. Cardinality(queue) <= Cardinality(Ids \ {w.id})
  BY <1>2, <1>3, FS_Injection DEF ExistsInjection
<1>5. /\ Cardinality(queue) \in Nat /\ Cardinality(Ids) \in Nat /\ MaxQueue \in Nat
  BY FS_CardinalityType, BoundsAssumption DEF QueueOK
<1>6. QED
  BY <1>2, <1>4, <1>5

(* Every step keeps dirty rows queued.                                     *)
LEMMA NextDirty ==
  ASSUME Overlap = FALSE, MaxFaults = 0, "server_first" \notin Modes,
         IsFiniteSet(Ids), Cardinality(Ids) <= MaxQueue
  PROVE  Typed /\ QueueOK /\ PairInv /\ DirtyQueued /\ [Next]_vars => DirtyQueued'
<1> SUFFICES ASSUME Typed, QueueOK, PairInv, DirtyQueued, [Next]_vars,
                    NEW i \in Ids, rows'[i].dirty
             PROVE  \/ \E s \in queue' : s.id = i
                    \/ \E t \in Tasks : task'[t].pc = "enqueue" /\ task'[t].w.id = i
  BY DEF DirtyQueued
<1> DEFINE Goal == \/ \E s \in queue' : s.id = i
                   \/ \E t \in Tasks : task'[t].pc = "enqueue" /\ task'[t].w.id = i
<1>1. /\ \A t \in Tasks : ~StoreFault(t)
      /\ ~Restart
  BY DEF StoreFault, Restart, Typed, TypeOK
<1>2. ASSUME NEW t \in Tasks, MayRun(t), task[t].pc # "enqueue"
      PROVE  rows[i].dirty => \E s \in queue : s.id = i
  <2>1. \A u \in Tasks : task[u].pc # "enqueue"
    BY <1>2 DEF MayRun, Section
  <2>2. QED
    BY <2>1 DEF DirtyQueued
<1>3. ASSUME NEW t \in Tasks,
             \/ \E id \in Ids, op \in Ops, mode \in Modes : WriteStart(t, id, op, mode)
             \/ \E ev \in outbox : ApplyStart(t, ev)
             \/ SendFails(t) \/ FlushStart(t) \/ FlushSend(t) \/ DropList(t)
      PROVE  Goal
  <2>1. UNCHANGED <<rows, queue>> /\ MayRun(t) /\ task[t].pc # "enqueue"
    BY <1>3 DEF WriteStart, ApplyStart, SendFails, FlushStart, FlushSend, DropList, storeVars
  <2>2. QED
    BY <1>2, <2>1
<1>4. ASSUME NEW t \in Tasks, WritePut(t) PROVE Goal
  <2>1. task[t] \in Writing /\ task[t].w.id \in Ids
    BY <1>4, TaskKinds DEF WritePut, Typed, TypeOK, Writing, Slot
  <2>2. CASE i = task[t].w.id
    <3>1. task'[t].pc = "enqueue" /\ task'[t].w.id = i
      BY <1>4, <2>1, <2>2 DEF WritePut, Becomes, Writing, Typed, TypeOK
    <3>2. QED
      BY <3>1
  <2>3. CASE i # task[t].w.id
    <3>1. rows'[i] = rows[i] /\ queue' = queue /\ MayRun(t) /\ task[t].pc # "enqueue"
      BY <1>4, <2>3 DEF WritePut, PutRow, Typed, TypeOK
    <3>2. QED
      BY <1>2, <3>1
  <2>4. QED
    BY <2>2, <2>3
<1>5. ASSUME NEW t \in Tasks, WriteEnqueue(t) PROVE Goal
  <2> DEFINE w    == task[t].w
             slot == [w EXCEPT !.seq = SlotSeq(w)]
  <2>1. w \in Slot /\ Enqueue(w) /\ rows' = rows /\ MayRun(t) /\ task[t].pc = "enqueue"
    BY <1>5, TaskKinds DEF WriteEnqueue, Typed, TypeOK, Writing
  <2>2. slot.id = w.id
    BY <2>1 DEF Slot
  <2>3. slot \in queue' /\ \A s \in queue : s.id # w.id => s \in queue'
    <3>1. ~Overflows(w)
      BY <2>1, NoOverflow
    <3>2. QueuedFor(w.id) # {} => Oldest(QueuedFor(w.id)).id = w.id
      BY OldestSlot DEF QueuedFor, Typed, TypeOK
    <3> HIDE DEF w
    <3>3. QED
      BY <2>1, <3>1, <3>2 DEF Enqueue, QueuedFor
  <2>4. \A u \in Tasks : task[u].pc = "enqueue" => u = t
    BY <2>1 DEF MayRun, Section
  <2>5. i = w.id \/ \E s \in queue : s.id = i
    BY <2>1, <2>4 DEF DirtyQueued
  <2> HIDE DEF w, slot
  <2>6. QED
    BY <2>2, <2>3, <2>5
<1>6. ASSUME NEW t \in Tasks, WriteAck(t) \/ FlushAck(t) PROVE Goal
  <2>1. PICK id \in Ids, committed \in Stamp : \E seq, key, base : SettleAck(id, seq, key, base, committed)
    BY <1>6, AcksSettle
  <2>2. MayRun(t) /\ task[t].pc # "enqueue"
    BY <1>6, AcksSettle
  <2>3. \/ UNCHANGED <<rows, queue>>
        \/ rows'[i] = rows[i] /\ \A s \in queue : s.id = i => s \in queue'
    BY <2>1, SettlePairs
  <2>4. QED
    BY <1>2, <2>2, <2>3
<1>7. ASSUME NEW t \in Tasks, DirectAck(t) PROVE Goal
  <2>1. task[t].mode \in Modes
    BY <1>7, TaskKinds DEF DirectAck, Typed, TypeOK, Writing
  <2>2. UNCHANGED <<rows, queue>> /\ MayRun(t) /\ task[t].pc # "enqueue"
    BY <1>7, <2>1 DEF DirectAck
  <2>3. QED
    BY <1>2, <2>2
<1>8. ASSUME NEW t \in Tasks, ApplyDecide(t) PROVE Goal
  <2>1. task[t].ev.id \in Ids /\ MayRun(t) /\ task[t].pc # "enqueue" /\ queue' = queue
    BY <1>8, TaskKinds DEF ApplyDecide, Typed, TypeOK, Applying, Change
  <2>2. rows'[i] = rows[i]
    BY <1>8, <2>1 DEF ApplyDecide, Adopt, PutRow, StoredRow, Typed, TypeOK
  <2>3. QED
    BY <1>2, <2>1, <2>2
<1>9. ASSUME NEW t \in Tasks, DropRetire(t) PROVE Goal
  <2>1. /\ \A s \in queue : s.id # task[t].ev.id => s \in queue'
        /\ ~rows[task[t].ev.id].dirty /\ UNCHANGED rows
    BY <1>9, DropRetires
  <2>2. MayRun(t) /\ task[t].pc # "enqueue"
    BY <1>9 DEF DropRetire
  <2>3. QED
    BY <1>2, <2>1, <2>2
<1>10. CASE \/ \E req \in net : ServerCommit(req) \/ NetLose(req)
            \/ \E id \in Ids, op \in RemoteOps : RemoteCommit(id, op)
            \/ UNCHANGED vars
  <2>1. UNCHANGED <<rows, queue, task>>
    BY <1>10 DEF ServerCommit, NetLose, RemoteCommit, vars, storeVars
  <2>2. QED
    BY <2>1 DEF DirtyQueued
<1>11. QED
  BY <1>1, <1>3, <1>4, <1>5, <1>6, <1>7, <1>8, <1>9, <1>10 DEF Next

(* A dirty row always has its write queued, so that a flush will send it,  *)
(* as long as the queue's cap covers the rows: overflow is the only way a  *)
(* replica that meets no error forgets an edit.                            *)
THEOREM DirtyRowsQueued ==
  ASSUME Overlap = FALSE, MaxFaults = 0, "server_first" \notin Modes,
         IsFiniteSet(Ids), Cardinality(Ids) <= MaxQueue
  PROVE  Spec => []DirtyIsQueued
<1>1. Typed /\ QueueOK /\ PairInv /\ DirtyQueued /\ [Next]_vars => DirtyQueued'
  BY NextDirty
<1>2. Init => DirtyQueued
  BY DEF Init, DirtyQueued, SeedRow, StoredRow, NoRow
<1>3. DirtyQueued => DirtyIsQueued
  BY DEF DirtyQueued, DirtyIsQueued, InSection, Section
<1>4. QED
  BY <1>1, <1>2, <1>3, PairInvariance, TypedInvariance, QueueInvariance, PTL DEF Spec

-----------------------------------------------------------------------------
(* Convergence *)

(* HlcLess is a strict total order, HlcLeq its reflexive form.             *)
LEMMA LeqOrder ==
  ASSUME NEW a \in Stamp, NEW b \in Stamp
  PROVE  /\ HlcLeq(a, b) /\ HlcLeq(b, a) => a = b
         /\ ~HlcLess(b, a) => HlcLeq(a, b)
         /\ HlcLess(a, b) => HlcLeq(a, b)
<1>1. /\ a.wall_ms \in Nat /\ a.counter \in Nat /\ a.actor \in Nat
      /\ b.wall_ms \in Nat /\ b.counter \in Nat /\ b.actor \in Nat
  BY DEF Stamp
<1>2. HlcLess(a, b) => ~HlcLess(b, a)
  BY <1>1 DEF HlcLess
<1>3. QED
  BY <1>2, StampOrder DEF HlcLeq

(* HlcLeq is transitive.                                                   *)
LEMMA LeqTransitive ==
  ASSUME NEW a \in Stamp, NEW b \in Stamp, NEW c \in Stamp, HlcLeq(a, b), HlcLeq(b, c)
  PROVE  HlcLeq(a, c)
  BY DEF Stamp, HlcLess, HlcLeq

(* tick: the new stamp is above every spent one.                           *)
LEMMA TickAbove ==
  ASSUME NEW c \in Stamp, NEW n \in Int, NEW v \in Stamp,
         v.wall_ms < n \/ v.wall_ms < c.wall_ms \/ (v.wall_ms = c.wall_ms /\ v.counter <= c.counter)
  PROVE  HlcLess(v, JsTick(c, n))
  BY DEF JsTick, Stamp, HlcLess

(* observe: a stamp that is not over drift is spent once it is observed.   *)
LEMMA ObserveCovers ==
  ASSUME NEW c \in Stamp, NEW r \in Stamp, NEW n \in Int, r.wall_ms <= n + MAX_DRIFT_MS
  PROVE  LET d == JsObserve(c, r, n)
         IN  r.wall_ms < d.wall_ms \/ (r.wall_ms = d.wall_ms /\ r.counter <= d.counter)
<1> DEFINE wall == HlcMax(HlcMax(n, c.wall_ms), r.wall_ms)
           ctr  == IF wall = c.wall_ms /\ wall = r.wall_ms
                   THEN HlcMax(c.counter, r.counter) + 1
                   ELSE IF wall = c.wall_ms THEN c.counter + 1
                   ELSE IF wall = r.wall_ms THEN r.counter + 1
                   ELSE 0
           d    == JsObserve(c, r, n)
<1>1. c.wall_ms \in Nat /\ c.counter \in Nat /\ r.wall_ms \in Nat /\ r.counter \in Nat
  BY DEF Stamp
<1>3. d = [c EXCEPT !.wall_ms = wall, !.counter = ctr]
  BY DEF JsObserve
<1>4. wall >= r.wall_ms /\ wall \in Int
  BY <1>1 DEF HlcMax
<1>5. wall = r.wall_ms => ctr >= r.counter
  <2>1. HlcMax(c.counter, r.counter) + 1 >= r.counter
    BY <1>1 DEF HlcMax
  <2> HIDE DEF wall
  <2>2. QED
    BY <1>1, <2>1
<1> HIDE DEF wall, ctr, d
<1>6. d.wall_ms = wall /\ d.counter = ctr
  BY <1>3 DEF Stamp
<1>7. QED
  BY <1>1, <1>4, <1>5, <1>6 DEF d

(* The server stamps every change of a row above the ones before it.       *)
ServerOrdered ==
  /\ \A i \in Ids : srv[i].present =>
       \A f \in outbox : f.id = i => HlcLeq(f.version, srv[i].version)
  /\ \A e, f \in outbox : e.id = f.id /\ e.version = f.version => e = f

(* A replica that starts hydrated starts with one change per row.          *)
LEMMA InitOrdered == Init => ServerOrdered
<1> SUFFICES ASSUME Init PROVE ServerOrdered
  OBVIOUS
<1>1. CASE Seeded
  <2>1. outbox = {SeedChange(i) : i \in Ids} /\ \A i \in Ids : srv[i].version = SeedVersion
    BY <1>1 DEF Init, SeedRow, StoredRow
  <2>2. \A i \in Ids : SeedChange(i).id = i /\ SeedChange(i).version = SeedVersion
    BY DEF SeedChange
  <2>3. QED
    BY <2>1, <2>2 DEF ServerOrdered, HlcLeq
<1>2. CASE ~Seeded
  BY <1>2 DEF Init, ServerOrdered
<1>3. QED
  BY <1>1, <1>2

(* A commit's stamp is above those of the row's earlier changes.           *)
LEMMA CommitOrdered ==
  ASSUME Typed, TrueInv, ServerOrdered, NEW id \in Ids, NEW op, NEW sent, NEW key,
         Commit(id, op, sent, key)
  PROVE  ServerOrdered'
<1> DEFINE version == ServerStamp(id, op)
           val == IF op = "delete" THEN {} ELSE Normalized(sent, key)
           e == [id |-> id, op |-> op, val |-> val, key |-> key, version |-> version]
<1>1. outbox' = outbox \cup {e} /\ e.id = id /\ e.version = version
  BY DEF Commit
<1>2. srv' = [srv EXCEPT ![id] = IF op = "delete" THEN NoRow ELSE StoredRow(version, FALSE, val)]
  BY DEF Commit
<1>3. now \in Nat /\ ServerActor \in Nat
  BY ActorsAssumption DEF Typed, TypeOK
<1>4. version \in Stamp /\ \A f \in outbox : f.id = id => HlcLess(f.version, version)
  <2>1. \A f \in outbox : f.version \in Stamp /\ f.version.wall_ms <= now
    BY DEF Typed, TypeOK, Change, TrueInv, Logged
  <2>2. CASE op = "delete" /\ srv[id].present
    <3>1. version = [srv[id].version EXCEPT !.counter = @ + 1] /\ srv[id].version \in Stamp
      BY <2>2 DEF ServerStamp, Typed, TypeOK, Row
    <3>2. \A f \in outbox : f.id = id => HlcLeq(f.version, srv[id].version)
      BY <2>2 DEF ServerOrdered
    <3> HIDE DEF version
    <3>3. version \in Stamp
      BY <3>1 DEF Stamp
    <3>4. ASSUME NEW v \in Stamp, HlcLeq(v, srv[id].version) PROVE HlcLess(v, version)
      BY <3>1, <3>3, <3>4 DEF Stamp, HlcLeq, HlcLess
    <3>5. QED
      BY <2>1, <3>2, <3>3, <3>4
  <2>3. CASE ~(op = "delete" /\ srv[id].present)
    <3>1. version.wall_ms = now + 1 /\ version \in Stamp
      BY <1>3, <2>3 DEF ServerStamp, Stamp
    <3> HIDE DEF version
    <3>2. ASSUME NEW v \in Stamp, v.wall_ms <= now PROVE HlcLess(v, version)
      BY <1>3, <3>1, <3>2 DEF Stamp, HlcLess
    <3>3. QED
      BY <2>1, <3>1, <3>2
  <2>4. QED
    BY <2>2, <2>3
<1> HIDE DEF version, e
<1>5. \A f \in outbox : f.id = id => f.version # version
  BY <1>4 DEF HlcLess, Typed, TypeOK, Change, Stamp
<1>6. \A a, b \in outbox' : a.id = b.id /\ a.version = b.version => a = b
  BY <1>1, <1>5 DEF ServerOrdered
<1>7. ASSUME NEW i \in Ids, srv'[i].present, NEW f \in outbox', f.id = i
      PROVE  HlcLeq(f.version, srv'[i].version)
  <2>1. CASE i # id
    <3>1. srv'[i] = srv[i]
      BY <1>2, <2>1 DEF Typed, TypeOK
    <3>2. QED
      BY <1>1, <1>7, <2>1, <3>1 DEF ServerOrdered
  <2>2. CASE i = id
    <3>1. srv'[i].version = version
      BY <1>2, <1>7, <2>2 DEF Typed, TypeOK, NoRow, StoredRow
    <3>2. QED
      BY <1>1, <1>4, <1>7, <2>2, <3>1 DEF HlcLeq
  <2>3. QED
    BY <2>1, <2>2
<1>8. QED
  BY <1>6, <1>7 DEF ServerOrdered

(* Every step keeps the server's order.                                    *)
LEMMA NextOrdered == Typed /\ TrueInv /\ ServerOrdered /\ [Next]_vars => ServerOrdered'
<1> SUFFICES ASSUME Typed, TrueInv, ServerOrdered, [Next]_vars PROVE ServerOrdered'
  OBVIOUS
<1>1. ASSUME UNCHANGED <<srv, outbox>> PROVE ServerOrdered'
  BY <1>1 DEF ServerOrdered
<1>2. ASSUME NEW t \in Tasks, TaskStep(t) \/ FlushStart(t) \/ StoreFault(t)
      PROVE  UNCHANGED <<srv, outbox>>
  BY <1>2 DEF TaskStep, WritePut, WriteEnqueue, WriteAck, DirectAck, SendFails, ApplyDecide,
     DropList, DropRetire, FlushStart, FlushSend, FlushAck, StoreFault, serverVars
<1>3. ASSUME NEW t \in Tasks, \/ \E id \in Ids, op \in Ops, mode \in Modes : WriteStart(t, id, op, mode)
                              \/ \E ev \in outbox : ApplyStart(t, ev)
      PROVE  UNCHANGED <<srv, outbox>>
  BY <1>3 DEF WriteStart, ApplyStart, serverVars
<1>4. ASSUME NEW req \in net, ServerCommit(req) PROVE ServerOrdered'
  <2>1. req.id \in Ids
    BY DEF Typed, TypeOK, Request
  <2>2. UNCHANGED <<srv, outbox>> \/ Commit(req.id, req.op, req.val, req.key)
    BY <1>4 DEF ServerCommit, serverVars
  <2>3. QED
    BY <1>1, <2>1, <2>2, CommitOrdered
<1>5. ASSUME NEW id \in Ids, NEW op \in RemoteOps, RemoteCommit(id, op) PROVE ServerOrdered'
  <2>1. \E key, val : Commit(id, WireOp(op), val, key)
    BY <1>5 DEF RemoteCommit
  <2>2. QED
    BY <2>1, CommitOrdered
<1>6. CASE (\E req \in net : NetLose(req)) \/ Restart \/ UNCHANGED vars
  <2>1. UNCHANGED <<srv, outbox>>
    BY <1>6 DEF NetLose, Restart, vars, serverVars
  <2>2. QED
    BY <1>1, <2>1
<1>7. QED
  BY <1>1, <1>2, <1>3, <1>4, <1>5, <1>6 DEF Next, TaskStep

-----------------------------------------------------------------------------
(* A delivered change's stamp is spent *)

Delivering == {"decide", "drop", "retire"}

(* A delivery keeps its change; only applyChange's start takes up a new    *)
(* one, and only its end adds to what was seen.                            *)
DeliveryMove(u) ==
  \/ task'[u].pc \notin Delivering
  \/ task[u].pc \in Delivering /\ task'[u].ev = task[u].ev
  \/ \E ev \in outbox : ApplyStart(u, ev) /\ task'[u].ev = ev

SeenMoves ==
  \A f \in seen' : f \in seen \/ \E t \in Tasks : task[t].pc \in Delivering /\ f = task[t].ev

Moved(u) == u \in Tasks => DeliveryMove(u)

LEMMA DeliveryMoves == Typed /\ [Next]_vars => SeenMoves /\ \A u \in Tasks : DeliveryMove(u)
<1> SUFFICES ASSUME Typed, [Next]_vars, NEW u PROVE SeenMoves /\ Moved(u)
  BY DEF Moved
<1>1. ASSUME NEW t \in Tasks, NEW r, Becomes(t, r),
             r.pc \notin Delivering \/ (task[t].pc \in Delivering /\ r.ev = task[t].ev)
      PROVE  Moved(u)
  BY <1>1, OneMoves DEF Moved, DeliveryMove
<1>2. seen' = seen => SeenMoves
  BY DEF SeenMoves
<1>3. Idle.pc \notin Delivering
  BY DEF Idle, Delivering
<1>4. ASSUME NEW t \in Tasks, NEW id \in Ids, NEW op \in Ops, NEW mode \in Modes,
             WriteStart(t, id, op, mode)
      PROVE  SeenMoves /\ Moved(u)
  <2>1. PICK w, r : /\ w.key = lastKey + 1 /\ w.base = clock' /\ w.id = id
                    /\ w.op = "delete" => w.val = {}
                    /\ Becomes(t, r) /\ r.pc \in {"put", "direct"} /\ r.w = w
                    /\ net' = net \/ net' = net \cup {RequestOf(w)}
                    /\ \A x \in LocalWrites' : x \in LocalWrites \/ x = w
    BY <1>4, WriteStartMakes
  <2>2. r.pc \notin Delivering /\ seen' = seen
    BY <1>4, <2>1 DEF Delivering, WriteStart, ghosts
  <2>3. QED
    BY <1>1, <1>2, <2>1, <2>2
<1>5. ASSUME NEW t \in Tasks, NEW ev \in outbox, ApplyStart(t, ev)
      PROVE  SeenMoves /\ Moved(u)
  <2> DEFINE r == [pc |-> "decide", ev |-> ev, old |-> rows[ev.id]]
  <2>1. Becomes(t, r) /\ r.ev = ev /\ seen' = seen
    BY <1>5 DEF ApplyStart, ghosts
  <2> HIDE DEF r
  <2>2. task'[t] = r /\ \A v \in Tasks \ {t} : task'[v] = task[v]
    BY <2>1, OneMoves
  <2>3. CASE u = t
    BY <1>2, <1>5, <2>1, <2>2, <2>3 DEF Moved, DeliveryMove
  <2>4. CASE u # t
    BY <1>2, <2>1, <2>2, <2>4 DEF Moved, DeliveryMove
  <2>5. QED
    BY <2>3, <2>4
<1>6. ASSUME NEW t \in Tasks,
             WriteAck(t) \/ DirectAck(t) \/ SendFails(t) \/ StoreFault(t)
      PROVE  SeenMoves /\ Moved(u)
  <2>1. Becomes(t, Idle) /\ seen' = seen
    BY <1>6 DEF WriteAck, DirectAck, SendFails, StoreFault, Finish, ghosts
  <2>2. QED
    BY <1>1, <1>2, <1>3, <2>1
<1>7. ASSUME NEW t \in Tasks, WritePut(t) PROVE SeenMoves /\ Moved(u)
  <2> DEFINE r == [task[t] EXCEPT !.pc = "enqueue"]
  <2>1. task[t] \in Writing /\ task[t].pc = "put"
    BY <1>7, TaskKinds DEF WritePut, Typed, TypeOK
  <2>2. Becomes(t, r) /\ r.pc \notin Delivering /\ seen' = seen
    BY <1>7, <2>1 DEF WritePut, Writing, Delivering, ghosts
  <2> HIDE DEF r
  <2>3. QED
    BY <1>1, <1>2, <2>2
<1>8. ASSUME NEW t \in Tasks, FlushStart(t) \/ FlushSend(t) \/ FlushAck(t)
      PROVE  SeenMoves /\ Moved(u)
  <2>1. CASE FlushStart(t)
    <3> DEFINE r == [pc |-> "send", batch |-> queue, sent |-> Oldest(queue).key]
    <3>1. Becomes(t, r) /\ r.pc \notin Delivering /\ seen' = seen
      BY <2>1 DEF FlushStart, Delivering, ghosts
    <3> HIDE DEF r
    <3>2. QED
      BY <1>1, <1>2, <3>1
  <2>2. CASE FlushSend(t)
    <3> DEFINE r == [task[t] EXCEPT !.pc = "wait", !.sent = Oldest(task[t].batch).key]
    <3>1. task[t] \in Flushing
      BY <2>2, TaskKinds DEF FlushSend, Typed, TypeOK
    <3>2. Becomes(t, r) /\ r.pc \notin Delivering /\ seen' = seen
      BY <2>2, <3>1 DEF FlushSend, Flushing, Delivering, ghosts
    <3> HIDE DEF r
    <3>3. QED
      BY <1>1, <1>2, <3>2
  <2>3. CASE FlushAck(t)
    <3>1. PICK r : Becomes(t, r) /\ r.pc \in {"idle", "send"}
      BY <2>3, AcksSettle
    <3>2. r.pc \notin Delivering /\ seen' = seen
      BY <2>3, <3>1 DEF FlushAck, Delivering
    <3>3. QED
      BY <1>1, <1>2, <3>1, <3>2
  <2>4. QED
    BY <1>8, <2>1, <2>2, <2>3
<1>9. ASSUME NEW t \in Tasks, ApplyDecide(t) \/ DropList(t) \/ DropRetire(t)
      PROVE  SeenMoves /\ Moved(u)
  <2> DEFINE ev == task[t].ev
  <2>1. task[t].pc \in Delivering
    BY <1>9 DEF ApplyDecide, DropList, DropRetire, Delivering
  <2>2. \E r : Becomes(t, r) /\ (r = Idle \/ r.ev = ev)
    <3>1. CASE ApplyDecide(t)
      <4> DEFINE r == [task[t] EXCEPT !.pc = "drop"]
      <4>1. task[t] \in Applying
        BY <3>1, TaskKinds DEF ApplyDecide, Typed, TypeOK
      <4>2. r.ev = ev /\ (Becomes(t, r) \/ Becomes(t, Idle))
        BY <3>1, <4>1 DEF ApplyDecide, Applying, Finish
      <4> HIDE DEF r
      <4>3. QED
        BY <4>2
    <3>2. CASE DropList(t)
      <4> DEFINE r == [pc |-> "retire", ev |-> ev, batch |-> QueuedFor(ev.id)]
      <4>1. r.ev = ev /\ (Becomes(t, r) \/ Becomes(t, Idle))
        BY <3>2 DEF DropList, Finish
      <4> HIDE DEF r
      <4>2. QED
        BY <4>1
    <3>3. CASE DropRetire(t)
      <4> DEFINE r == [task[t] EXCEPT !.batch = task[t].batch \ {Oldest(task[t].batch)}]
      <4>1. task[t] \in Dropping
        BY <3>3, TaskKinds DEF DropRetire, Typed, TypeOK
      <4>2. r.ev = ev /\ (Becomes(t, r) \/ Becomes(t, Idle))
        BY <3>3, <4>1 DEF DropRetire, Dropping, Finish
      <4> HIDE DEF r
      <4>3. QED
        BY <4>2
    <3>4. QED
      BY <1>9, <3>1, <3>2, <3>3
  <2>3. seen' = seen \/ seen' = seen \cup {ev}
    BY <1>9 DEF ApplyDecide, DropList, DropRetire
  <2> HIDE DEF ev
  <2>4. Moved(u)
    BY <1>1, <1>3, <2>1, <2>2 DEF ev
  <2>5. SeenMoves
    BY <2>1, <2>3 DEF SeenMoves, ev
  <2>6. QED
    BY <2>4, <2>5
<1>10. ASSUME NEW t \in Tasks, WriteEnqueue(t) PROVE SeenMoves /\ Moved(u)
  <2> DEFINE w == task[t].w
             stops == task[t].mode = "local_only" \/ (ThrowOnOverflow /\ Overflows(w))
             mine == IF stops THEN Idle ELSE [task[t] EXCEPT !.pc = "ack", !.w = [w EXCEPT !.seq = SlotSeq(w)]]
  <2>1. task[t] \in Writing /\ seen' = seen
    BY <1>10, TaskKinds DEF WriteEnqueue, Typed, TypeOK, ghosts
  <2>2. mine.pc \notin Delivering
    BY <2>1 DEF Writing, Idle, Delivering
  <2>3. task' = [v \in Tasks |->
                   IF v = t THEN mine
                   ELSE IF task[v].pc \in {"send", "wait"}
                        THEN [task[v] EXCEPT !.batch = Shared(w, @)]
                        ELSE task[v]]
    BY <1>10 DEF WriteEnqueue
  <2> HIDE DEF w, mine
  <2>4. CASE u = t
    BY <1>2, <2>1, <2>2, <2>3, <2>4 DEF Moved, DeliveryMove
  <2>5. CASE u # t /\ u \in Tasks /\ task[u].pc \in {"send", "wait"}
    <3>1. task[u] \in Flushing
      BY <2>5, TaskKinds DEF Typed, TypeOK
    <3>2. task'[u] = [task[u] EXCEPT !.batch = Shared(w, task[u].batch)]
      BY <2>3, <2>5
    <3>3. task'[u].pc \notin Delivering
      BY <2>5, <3>1, <3>2 DEF Flushing, Delivering
    <3>4. QED
      BY <1>2, <2>1, <3>3 DEF Moved, DeliveryMove
  <2>6. CASE u # t /\ (u \in Tasks => task[u].pc \notin {"send", "wait"})
    BY <1>2, <2>1, <2>3, <2>6 DEF Moved, DeliveryMove
  <2>7. QED
    BY <2>4, <2>5, <2>6
<1>11. CASE \/ \E req \in net : ServerCommit(req) \/ NetLose(req)
            \/ \E id \in Ids, op \in RemoteOps : RemoteCommit(id, op)
            \/ Restart \/ UNCHANGED vars
  <2>1. seen' = seen /\ (task' = task \/ task' = [t \in Tasks |-> Idle])
    BY <1>11 DEF ServerCommit, NetLose, RemoteCommit, Restart, vars, ghosts
  <2>2. QED
    BY <1>2, <1>3, <2>1 DEF Moved, DeliveryMove
<1>12. QED
  BY <1>4, <1>5, <1>6, <1>7, <1>8, <1>9, <1>10, <1>11 DEF Next

(* No step brings a spent stamp back.                                      *)
LEMMA SpentStays ==
  ASSUME RestartClock, Typed, TrueInv, FlushOK, [Next]_vars
  PROVE  \A v \in Stamp : Spent(v) => Spent(v)'
<1> DEFINE Stays == \A v \in Stamp : Spent(v) => Spent(v)'
<1>1. ASSUME NEW t \in Tasks,
             FlushStart(t) \/ StoreFault(t) \/ TaskStep(t) \/ \E ev \in outbox : ApplyStart(t, ev)
      PROVE  Stays
  BY <1>1, CallSteps DEF CallStep
<1>2. ASSUME NEW t \in Tasks, NEW id \in Ids, NEW op \in Ops, NEW mode \in Modes,
             WriteStart(t, id, op, mode)
      PROVE  Stays
  <2>1. /\ clock' = JsTick(clock, ClientWall) /\ now' = now
        /\ clock \in Stamp /\ clock' \in Stamp /\ ClientWall \in Int
    BY <1>2, WallTypes, NextTyped DEF WriteStart, serverVars, Typed, TypeOK
  <2>2. ClientWall' = ClientWall
    BY <2>1 DEF ClientWall
  <2>3. QED
    BY <2>1, <2>2, TickSpends DEF Spent
<1>3. ASSUME \/ \E req \in net : ServerCommit(req) \/ NetLose(req)
             \/ \E id \in Ids, op \in RemoteOps : RemoteCommit(id, op)
             \/ UNCHANGED vars
      PROVE  Stays
  <2>1. clock' = clock /\ (now' = now \/ now' = now + 1)
    BY <1>3 DEF ServerCommit, NetLose, RemoteCommit, Commit, vars, serverVars
  <2>2. QED
    BY <2>1, StillClock, LaterSpends
<1>4. ASSUME Restart PROVE Stays
  <2>1. MayRestart /\ now' = now + 1
    BY <1>4, BoundsAssumption DEF Restart, MayRestart, Typed, TypeOK
  <2>2. /\ clock.wall_ms <= ClientWall /\ clock.wall_ms \in Nat
        /\ ClientWall \in Int /\ ClientWall' = ClientWall + 1
    BY <2>1, WallTypes, SkewAssumption DEF TrueInv, ClockOwn, Typed, TypeOK, ClientWall
  <2>3. QED
    BY <2>2 DEF Spent, Stamp
<1> HIDE DEF Stays
<1>5. Stays
  BY <1>1, <1>2, <1>3, <1>4 DEF Next, TaskStep
<1>6. QED
  BY <1>5 DEF Stays

(* What was delivered, or is being delivered, was observed first.          *)
SpentInv ==
  /\ \A f \in seen : Spent(f.version)
  /\ \A t \in Tasks : task[t].pc \in Delivering => Spent(task[t].ev.version)

LEMMA NextSpent ==
  ASSUME RestartClock, -ClientSkew <= MAX_DRIFT_MS
  PROVE  Typed /\ TrueInv /\ FlushOK /\ SpentInv /\ [Next]_vars => SpentInv'
<1> SUFFICES ASSUME Typed, TrueInv, FlushOK, SpentInv, [Next]_vars PROVE SpentInv'
  OBVIOUS
<1>1. SeenMoves /\ \A u \in Tasks : DeliveryMove(u)
  BY DeliveryMoves
<1>2. \A v \in Stamp : Spent(v) => Spent(v)'
  BY SpentStays
<1>3. \A e \in outbox : e.version \in Stamp
  BY DEF Typed, TypeOK, Change
<1>4. \A t \in Tasks : task[t].pc \in Delivering => task[t].ev \in outbox
  BY DEF Typed, TasksOK, Delivering
<1>5. \A f \in seen' : Spent(f.version)'
  BY <1>1, <1>2, <1>3, <1>4 DEF SpentInv, SeenMoves, Typed, TypeOK
<1>6. ASSUME NEW u \in Tasks, NEW ev \in outbox, ApplyStart(u, ev) PROVE Spent(ev.version)'
  <2>1. /\ clock \in Stamp /\ ClientWall \in Int /\ ev.version \in Stamp /\ now \in Nat
        /\ ev.version.wall_ms <= now /\ clock' = JsObserve(clock, ev.version, ClientWall)
    BY <1>3, <1>6, WallTypes DEF Typed, TypeOK, TrueInv, Logged, ApplyStart
  <2>2. ev.version.wall_ms <= ClientWall + MAX_DRIFT_MS
    BY <2>1, SkewAssumption, DriftAssumption DEF ClientWall, Stamp
  <2>3. \/ ev.version.wall_ms < clock'.wall_ms
        \/ ev.version.wall_ms = clock'.wall_ms /\ ev.version.counter <= clock'.counter
    BY <2>1, <2>2, ObserveCovers
  <2>4. QED
    BY <2>3 DEF Spent
<1>7. ASSUME NEW u \in Tasks, task'[u].pc \in Delivering
      PROVE  \E e \in outbox : task'[u].ev = e /\ Spent(e.version)'
  <2>1. DeliveryMove(u)
    BY <1>1
  <2>2. CASE task[u].pc \in Delivering /\ task'[u].ev = task[u].ev
    BY <1>2, <1>3, <1>4, <2>2 DEF SpentInv
  <2>3. CASE \E ev \in outbox : ApplyStart(u, ev) /\ task'[u].ev = ev
    BY <1>6, <2>3
  <2>4. QED
    BY <1>7, <2>1, <2>2, <2>3 DEF DeliveryMove
<1>8. \A u \in Tasks : task'[u].pc \in Delivering => Spent(task[u].ev.version)'
  BY <1>7 DEF Spent, ClientWall
<1>9. QED
  BY <1>5, <1>8 DEF SpentInv

(* A hydrated replica has observed the snapshot it starts from.            *)
LEMMA InitSpent ==
  ASSUME -ClientSkew <= MAX_DRIFT_MS
  PROVE  Init => SpentInv
<1> SUFFICES ASSUME Init PROVE SpentInv
  OBVIOUS
<1>1. \A t \in Tasks : task[t].pc \notin Delivering
  BY DEF Init, Idle, Delivering
<1>2. ASSUME Seeded PROVE Spent(SeedVersion)
  <2> DEFINE wall == StartMs + 1 + ClientSkew
  <2>1. Zero \in Stamp /\ SeedVersion \in Stamp /\ wall \in Int
    BY SkewAssumption, SeedTypes
  <2>2. SeedVersion.wall_ms <= wall + MAX_DRIFT_MS
    BY SkewAssumption, DriftAssumption DEF SeedVersion
  <2>3. clock = JsObserve(Zero, SeedVersion, wall)
    BY <1>2 DEF Init
  <2> HIDE DEF wall
  <2>4. \/ SeedVersion.wall_ms < clock.wall_ms
        \/ SeedVersion.wall_ms = clock.wall_ms /\ SeedVersion.counter <= clock.counter
    BY <2>1, <2>2, <2>3, ObserveCovers
  <2>5. QED
    BY <2>4 DEF Spent
<1>3. \A f \in seen : Seeded /\ f.version = SeedVersion
  BY DEF Init, SeedChange
<1>4. QED
  BY <1>1, <1>2, <1>3 DEF SpentInv
-----------------------------------------------------------------------------
(* What a row shows of the changes delivered for it *)

(* A replica that starts empty keeps nothing of a delete it is told of      *)
(* before the insert.                                                      *)
Kept(f) == Seeded \/ f.op = "upsert"

(* The row is at or past the change; a dirty one holds a later write, and  *)
(* a clean one at its version shows what the server made of it.            *)
RowSeen(f, row) ==
  /\ Kept(f) => row.present /\ HlcLeq(f.version, row.version)
  /\ row.present /\ row.dirty => HlcLess(f.version, row.version)
  /\ row.present /\ ~row.dirty /\ row.version = f.version => row.val = f.val

(* What a call inside a store section relies on.                           *)
CallSeen(t) ==
  /\ task[t].pc = "put" => \A f \in seen : HlcLess(f.version, task[t].w.base)
  /\ task[t].pc = "decide" => task[t].old = rows[task[t].ev.id]
  /\ task[t].pc \in {"drop", "retire"} =>
       rows[task[t].ev.id] = StoredRow(task[t].ev.version, FALSE, task[t].ev.val)

SeenInv ==
  /\ Seeded => \A i \in Ids : rows[i].present
  /\ \A f \in seen : RowSeen(f, rows[f.id])
  /\ \A t \in Tasks : CallSeen(t)

(* What the running call has to show to keep it.                           *)
LEMMA SeenKept ==
  ASSUME NEW t \in Tasks, Alone(t), CallSeen(t)',
         Seeded => \A i \in Ids : rows'[i].present,
         \A f \in seen' : RowSeen(f, rows'[f.id])
  PROVE  SeenInv'
<1>1. ASSUME NEW u \in Tasks PROVE CallSeen(u)'
  <2>1. CASE u = t
    BY <2>1
  <2>2. CASE u # t
    BY <2>2 DEF Alone, Section, CallSeen
  <2>3. QED
    BY <2>1, <2>2
<1>2. QED
  BY <1>1 DEF SeenInv

(* A call that leaves the rows, and ends up outside the sections.          *)
LEMMA PlainSeen ==
  ASSUME SeenInv, NEW t \in Tasks, Alone(t), UNCHANGED <<rows, seen>>,
         task'[t].pc \notin {"put", "decide", "drop", "retire"}
  PROVE  SeenInv'
<1>1. CallSeen(t)'
  BY DEF CallSeen
<1>2. QED
  BY <1>1, SeenKept DEF SeenInv

(* The response settles a dirty row, at or past what was queued.           *)
LEMMA SettledRow ==
  ASSUME Typed, TrueInv, NEW id \in Ids, NEW seq, NEW key, NEW base, NEW committed \in Stamp,
         SettleAck(id, seq, key, base, committed), base.actor = ClientActor,
         ClientActor # ServerActor
  PROVE  \/ rows' = rows
         \/ /\ rows' = [rows EXCEPT ![id] = [rows[id] EXCEPT !.version = committed, !.dirty = FALSE]]
            /\ rows[id].present /\ rows[id].dirty /\ HlcLeq(rows[id].version, committed)
<1>1. CASE rows' = rows
  BY <1>1
<1>2. CASE rows' # rows
  <2>1. PICK s \in queue : SettleQueuedAck(rows[id], s, id, key, base, committed) /\ rows[id].present
    BY <1>2 DEF SettleAck, storeVars
  <2>2. rows' = [rows EXCEPT ![id] = [rows[id] EXCEPT !.version = committed, !.dirty = FALSE]]
    BY <1>2 DEF SettleAck, storeVars, PutRow
  <2>3. rows[id].version = base /\ ~HlcLess(committed, rows[id].version)
    BY <2>1 DEF SettleQueuedAck, OnAckAdopts
  <2>4. rows[id].version \in Stamp
    BY DEF Typed, TypeOK, Row
  <2>5. HlcLeq(rows[id].version, committed)
    BY <2>3, <2>4, LeqOrder
  <2>6. rows[id].dirty
    <3>1. \A e \in outbox : e.version # base
      BY DEF TrueInv, Logged
    <3>2. RowClean(id)
      BY DEF TrueInv, RowsTrue
    <3>3. QED
      BY <2>1, <2>3, <3>1, <3>2 DEF RowClean, Matches
  <2>7. QED
    BY <2>1, <2>2, <2>5, <2>6
<1>3. QED
  BY <1>1, <1>2

(* So that the settled row is past every change that was seen of it.       *)
LEMMA AckSeen ==
  ASSUME Typed, TrueInv, SeenInv, Overlap = FALSE, ClientActor # ServerActor,
         NEW t \in Tasks, WriteAck(t) \/ FlushAck(t)
  PROVE  SeenInv'
<1>1. PICK id \in Ids, committed \in Stamp :
        \E seq, key, base : SettleAck(id, seq, key, base, committed) /\ base.actor = ClientActor
  <2>1. CASE WriteAck(t)
    <3>1. task[t] \in Writing /\ task[t].w \in LocalWrites /\ task[t].w.id \in Ids
      BY <2>1, TaskKinds DEF WriteAck, Typed, TypeOK, Writing, Slot, LocalWrites, HeldBy
    <3>2. CommittedVersion(task[t].w.key) \in Stamp
      BY <2>1, CommittedStamp DEF WriteAck, Typed
    <3>3. task[t].w.base.actor = ClientActor
      BY <3>1 DEF TrueInv, WritesMade
    <3>4. QED
      BY <2>1, <3>1, <3>2, <3>3 DEF WriteAck
  <2>2. CASE FlushAck(t)
    <3> DEFINE w == Oldest(task[t].batch)
    <3>1. task[t] \in Flushing /\ task[t].pc = "wait" /\ task[t].batch # {}
      BY <2>2, TaskKinds DEF FlushAck, Typed, TypeOK, TasksOK
    <3>2. w \in task[t].batch /\ w \in Slot
      BY <3>1, OldestSlot DEF Flushing
    <3>3. w \in LocalWrites
      BY <3>1, <3>2 DEF LocalWrites, HeldBy
    <3>4. w.base.actor = ClientActor /\ w.id \in Ids
      BY <3>2, <3>3 DEF TrueInv, WritesMade, Slot
    <3>5. CommittedVersion(task[t].sent) \in Stamp
      BY <2>2, CommittedStamp DEF FlushAck, Typed
    <3>6. SettleAck(w.id, w.seq, w.key, w.base, CommittedVersion(task[t].sent))
      BY <2>2 DEF FlushAck
    <3> HIDE DEF w
    <3>7. QED
      BY <3>4, <3>5, <3>6
  <2>3. QED
    BY <2>1, <2>2
<1>2. PICK r : Becomes(t, r) /\ r.pc \in {"idle", "send"}
  BY AcksSettle
<1>3. Alone(t) /\ task'[t] = r
  BY <1>2, AcksSettle, MovesAlone
<1>4. seen' = seen
  BY DEF WriteAck, FlushAck
<1>5. CASE rows' = rows
  BY <1>2, <1>3, <1>4, <1>5, PlainSeen
<1>6. CASE rows' # rows
  <2> DEFINE new == [rows[id] EXCEPT !.version = committed, !.dirty = FALSE]
  <2>0. PICK seq, key, base : SettleAck(id, seq, key, base, committed) /\ base.actor = ClientActor
    BY <1>1
  <2>1. /\ rows' = [rows EXCEPT ![id] = new] /\ rows \in [Ids -> Row]
        /\ rows[id].present /\ rows[id].dirty /\ HlcLeq(rows[id].version, committed)
    <3>1. rows \in [Ids -> Row]
      BY DEF Typed, TypeOK
    <3>2. /\ rows' = [rows EXCEPT ![id] = new]
          /\ rows[id].present /\ rows[id].dirty /\ HlcLeq(rows[id].version, committed)
      BY <1>6, <2>0, SettledRow
    <3>3. QED
      BY <3>1, <3>2
  <2>2. new.present /\ ~new.dirty /\ new.version = committed
    BY <2>1 DEF Row
  <2> HIDE DEF new
  <2>3. rows'[id] = new /\ \A i \in Ids \ {id} : rows'[i] = rows[i]
    BY <2>1
  <2>4. ASSUME NEW f \in seen PROVE RowSeen(f, rows'[f.id])
    <3>1. f.id \in Ids /\ f.version \in Stamp /\ rows[id].version \in Stamp /\ RowSeen(f, rows[f.id])
      BY <2>1 DEF Typed, TypeOK, Change, Row, SeenInv
    <3>2. CASE f.id # id
      BY <2>3, <3>1, <3>2
    <3>3. CASE f.id = id
      <4>1. HlcLess(f.version, rows[id].version)
        BY <2>1, <3>1, <3>3 DEF RowSeen
      <4>2. HlcLess(f.version, committed)
        BY <2>1, <3>1, <4>1 DEF HlcLeq, HlcLess, Stamp
      <4>3. f.version # committed
        BY <3>1, <4>2 DEF HlcLess, Stamp
      <4>4. RowSeen(f, new)
        BY <2>2, <4>2, <4>3 DEF RowSeen, HlcLeq
      <4>5. QED
        BY <2>3, <3>3, <4>4
    <3>4. QED
      BY <3>2, <3>3
  <2>5. Seeded => \A i \in Ids : rows'[i].present
    BY <2>2, <2>3 DEF SeenInv
  <2>6. CallSeen(t)'
    BY <1>2, <1>3 DEF CallSeen
  <2>7. QED
    BY <1>3, <1>4, <2>4, <2>5, <2>6, SeenKept
<1>7. QED
  BY <1>5, <1>6

(* Sends, direct responses and the enqueue leave the rows.                 *)
LEMMA ResponsesSeen ==
  ASSUME Typed, SeenInv, Overlap = FALSE, "server_first" \notin Modes, NEW t \in Tasks,
         DirectAck(t) \/ SendFails(t) \/ FlushStart(t) \/ FlushSend(t) \/ WriteEnqueue(t)
  PROVE  SeenInv'
<1>1. CASE DirectAck(t) \/ SendFails(t)
  <2>1. DirectAck(t) => task[t].mode \in Modes
    BY TaskKinds DEF DirectAck, Typed, TypeOK, Writing
  <2>2. Becomes(t, Idle) /\ Idle.pc = "idle" /\ MayRun(t) /\ UNCHANGED <<rows, seen>>
    BY <1>1, <2>1 DEF DirectAck, SendFails, Finish, Idle, storeVars, ghosts
  <2>3. Alone(t) /\ task'[t] = Idle
    BY <2>2, MovesAlone
  <2>4. QED
    BY <2>2, <2>3, PlainSeen
<1>2. CASE FlushStart(t)
  <2> DEFINE r == [pc |-> "send", batch |-> queue, sent |-> Oldest(queue).key]
  <2>1. r.pc = "send" /\ MayRun(t) /\ Becomes(t, r) /\ UNCHANGED <<rows, seen>>
    BY <1>2 DEF FlushStart, storeVars, ghosts
  <2> HIDE DEF r
  <2>2. Alone(t) /\ task'[t] = r
    BY <2>1, MovesAlone
  <2>3. QED
    BY <2>1, <2>2, PlainSeen
<1>3. CASE FlushSend(t)
  <2> DEFINE r == [task[t] EXCEPT !.pc = "wait", !.sent = Oldest(task[t].batch).key]
  <2>1. task[t] \in Flushing
    BY <1>3, TaskKinds DEF FlushSend, Typed, TypeOK
  <2>2. r.pc = "wait" /\ MayRun(t) /\ Becomes(t, r) /\ UNCHANGED <<rows, seen>>
    BY <1>3, <2>1 DEF FlushSend, storeVars, Flushing, ghosts
  <2> HIDE DEF r
  <2>3. Alone(t) /\ task'[t] = r
    BY <2>2, MovesAlone
  <2>4. QED
    BY <2>2, <2>3, PlainSeen
<1>4. CASE WriteEnqueue(t)
  <2>1. UNCHANGED <<rows, seen>>
    BY <1>4 DEF WriteEnqueue, ghosts
  <2>2. QED
    BY <1>4, <2>1, EnqueueAlone, PlainSeen
<1>5. QED
  BY <1>1, <1>2, <1>3, <1>4

(* write(): the stamp is above everything delivered, which is spent.       *)
LEMMA WriteStartSeen ==
  ASSUME Typed, Typed', SpentInv, SeenInv, Overlap = FALSE, NEW t \in Tasks,
         NEW id \in Ids, NEW op \in Ops, NEW mode \in Modes, WriteStart(t, id, op, mode)
  PROVE  SeenInv'
<1>1. /\ clock' = JsTick(clock, ClientWall) /\ MayRun(t) /\ UNCHANGED <<rows, seen>>
      /\ clock \in Stamp /\ ClientWall \in Int
  BY WallTypes DEF WriteStart, storeVars, ghosts, Typed, TypeOK
<1>2. PICK r : Becomes(t, r) /\ r.pc \in {"put", "direct"} /\ r.w.base = clock'
  BY DEF WriteStart
<1>3. Alone(t) /\ task'[t] = r
  BY <1>1, <1>2, MovesAlone
<1>4. ASSUME NEW f \in seen PROVE HlcLess(f.version, clock')
  <2>1. f.version \in Stamp /\ Spent(f.version)
    BY DEF SpentInv, Typed, TypeOK, Change
  <2>2. QED
    BY <1>1, <2>1, TickAbove DEF Spent
<1>5. CallSeen(t)'
  BY <1>1, <1>2, <1>3, <1>4 DEF CallSeen
<1>6. QED
  BY <1>1, <1>3, <1>5, SeenKept DEF SeenInv

(* write(): so the row it shows is past them too.                          *)
LEMMA WritePutSeen ==
  ASSUME Typed, SeenInv, Overlap = FALSE, NEW t \in Tasks, WritePut(t)
  PROVE  SeenInv'
<1> DEFINE w == task[t].w
           new == StoredRow(w.base, TRUE, w.val)
           r == [task[t] EXCEPT !.pc = "enqueue"]
<1>1. task[t] \in Writing /\ w.id \in Ids /\ task[t].pc = "put"
  BY TaskKinds DEF WritePut, Typed, TypeOK, Writing, Slot
<1>2. r.pc = "enqueue"
  BY <1>1 DEF Writing
<1>3. /\ Becomes(t, r) /\ MayRun(t) /\ UNCHANGED seen
      /\ rows' = [rows EXCEPT ![w.id] = new] /\ rows \in [Ids -> Row]
  BY DEF WritePut, PutRow, ghosts, Typed, TypeOK
<1>4. new.present /\ new.dirty /\ new.version = w.base
  BY DEF StoredRow
<1>5. \A f \in seen : HlcLess(f.version, w.base)
  BY <1>1 DEF SeenInv, CallSeen
<1> HIDE DEF w, new, r
<1>6. rows'[w.id] = new /\ \A i \in Ids \ {w.id} : rows'[i] = rows[i]
  BY <1>1, <1>3
<1>7. Alone(t) /\ task'[t] = r
  BY <1>3, MovesAlone
<1>8. CallSeen(t)'
  BY <1>2, <1>7 DEF CallSeen
<1>9. Seeded => \A i \in Ids : rows'[i].present
  BY <1>4, <1>6 DEF SeenInv
<1>10. ASSUME NEW f \in seen PROVE RowSeen(f, rows'[f.id])
  <2>1. f.id \in Ids /\ RowSeen(f, rows[f.id])
    BY DEF Typed, TypeOK, Change, SeenInv
  <2>2. RowSeen(f, new)
    BY <1>4, <1>5 DEF RowSeen, HlcLeq
  <2>3. QED
    BY <1>6, <2>1, <2>2
<1>11. QED
  BY <1>3, <1>7, <1>8, <1>9, <1>10, SeenKept

(* applyChange(): the row is read as it is.                                *)
LEMMA ApplyStartSeen ==
  ASSUME Typed, SeenInv, Overlap = FALSE, NEW t \in Tasks, NEW ev \in outbox, ApplyStart(t, ev)
  PROVE  SeenInv'
<1> DEFINE r == [pc |-> "decide", ev |-> ev, old |-> rows[ev.id]]
<1>1. /\ MayRun(t) /\ Becomes(t, r) /\ UNCHANGED <<rows, seen>>
      /\ r.pc = "decide" /\ r.ev = ev /\ r.old = rows[ev.id]
  BY DEF ApplyStart, storeVars, ghosts
<1> HIDE DEF r
<1>2. Alone(t) /\ task'[t] = r
  BY <1>1, MovesAlone
<1>3. CallSeen(t)'
  BY <1>1, <1>2 DEF CallSeen
<1>4. QED
  BY <1>1, <1>2, <1>3, SeenKept DEF SeenInv

(* Adopting a change that is not below the row, or of a row not yet there. *)
LEMMA AdoptSeen ==
  ASSUME Typed, SeenInv, ServerOrdered, NEW ev \in outbox,
         ~rows[ev.id].present \/ HlcLeq(rows[ev.id].version, ev.version),
         Adopt(ev)
  PROVE  /\ Seeded => \A i \in Ids : rows'[i].present
         /\ \A f \in seen \cup {ev} : RowSeen(f, rows'[f.id])
         /\ rows'[ev.id] = StoredRow(ev.version, FALSE, ev.val)
<1> DEFINE new == StoredRow(ev.version, FALSE, ev.val)
<1>1. ev.id \in Ids /\ ev.version \in Stamp /\ rows \in [Ids -> Row]
      /\ rows' = [rows EXCEPT ![ev.id] = new]
  BY DEF Typed, TypeOK, Change, Adopt, PutRow
<1>2. new.present /\ ~new.dirty /\ new.version = ev.version /\ new.val = ev.val
  BY DEF StoredRow
<1> HIDE DEF new
<1>3. rows'[ev.id] = new /\ \A i \in Ids \ {ev.id} : rows'[i] = rows[i]
  BY <1>1
<1>4. Seeded => \A i \in Ids : rows'[i].present
  BY <1>2, <1>3 DEF SeenInv
<1>5. RowSeen(ev, new)
  BY <1>2 DEF RowSeen, HlcLeq
<1>6. ASSUME NEW f \in seen PROVE RowSeen(f, rows'[f.id])
  <2>1. f \in outbox /\ f.id \in Ids /\ f.version \in Stamp /\ RowSeen(f, rows[f.id])
    BY DEF Typed, TypeOK, Change, SeenInv
  <2>2. CASE f.id # ev.id
    BY <1>3, <2>1, <2>2
  <2>3. CASE f.id = ev.id
    <3>1. rows[ev.id].version \in Stamp
      BY <1>1 DEF Row
    <3>2. Kept(f) => HlcLeq(f.version, ev.version)
      BY <1>1, <2>1, <2>3, <3>1, LeqTransitive DEF RowSeen
    <3>3. f.version = ev.version => f.val = ev.val
      BY <2>1, <2>3 DEF ServerOrdered
    <3>4. RowSeen(f, new)
      BY <1>2, <3>2, <3>3 DEF RowSeen
    <3>5. QED
      BY <1>3, <2>3, <3>4
  <2>4. QED
    BY <2>2, <2>3
<1>7. QED
  BY <1>3, <1>4, <1>5, <1>6 DEF new

(* applyChange(): whatever it decides, the row has taken the change in.    *)
LEMMA ApplyDecideSeen ==
  ASSUME Typed, TrueInv, ServerOrdered, SeenInv, Overlap = FALSE, ClientActor # ServerActor,
         NEW t \in Tasks, ApplyDecide(t)
  PROVE  SeenInv'
<1> DEFINE ev  == task[t].ev
           old == task[t].old
           r   == [task[t] EXCEPT !.pc = "drop"]
           decision == Reconcile(old, ev)
           conflict == decision = "Conflict" /\ ResolveConflict(Resolution, old, ev)
           refresh  == decision = "AlreadyApplied" /\ old.present /\ ~old.dirty
           adopts   == decision = "Apply" \/ conflict \/ refresh
<1>1. /\ task[t] \in Applying /\ task[t].pc = "decide" /\ ev \in Change /\ ev.id \in Ids
      /\ ev \in outbox
  BY TaskKinds DEF ApplyDecide, Typed, TypeOK, TasksOK, Applying, Change
<1>2. r.pc = "drop" /\ r.ev = ev /\ Idle.pc = "idle"
  BY <1>1 DEF Applying, Idle
<1>3. MayRun(t)
  BY DEF ApplyDecide
<1>4. /\ IF adopts THEN Adopt(ev) ELSE rows' = rows
      /\ IF conflict THEN Becomes(t, r) /\ UNCHANGED seen ELSE Becomes(t, Idle) /\ seen' = seen \cup {ev}
  BY DEF ApplyDecide, Finish
<1>5. old = rows[ev.id] /\ old \in Row /\ old.version \in Stamp /\ ev.version \in Stamp
  BY <1>1 DEF SeenInv, CallSeen, Applying, Row, Change
<1>6. adopts => ~old.present \/ HlcLeq(old.version, ev.version)
  <2>1. old.present /\ HlcLess(ev.version, old.version) => decision = "Stale"
    <3>1. HlcLess(ev.version, old.version) => ev.version # old.version
      BY <1>5 DEF HlcLess, Stamp
    <3> HIDE DEF ev, old
    <3>2. QED
      BY <3>1 DEF Reconcile
  <2>2. QED
    BY <1>5, <2>1, LeqOrder
<1>7. old.present => old.dirty \in BOOLEAN /\ (old.dirty => old.version # ev.version)
  <2>1. ev.version.actor = ServerActor /\ RowOwn(ev.id)
    BY <1>1 DEF TrueInv, Logged, RowsTrue
  <2>2. QED
    BY <1>5, <2>1 DEF RowOwn, Row
<1>8. ~adopts => RowSeen(ev, old)
  <2> SUFFICES ASSUME ~adopts PROVE RowSeen(ev, old)
    OBVIOUS
  <2>1. CASE ~old.present
    <3>1. ev.op = "delete"
      BY <1>1, <2>1 DEF Reconcile, Change
    <3>2. ~Seeded
      BY <1>1, <1>5, <2>1 DEF SeenInv
    <3>3. QED
      BY <2>1, <3>1, <3>2 DEF RowSeen, Kept
  <2>2. CASE old.present /\ HlcLess(ev.version, old.version)
    <3>1. old.version # ev.version
      BY <1>5, <2>2 DEF HlcLess, Stamp
    <3>2. QED
      BY <2>2, <3>1 DEF RowSeen, HlcLeq
  <2>3. CASE old.present /\ ~HlcLess(ev.version, old.version) /\ old.version = ev.version
    <3>1. decision = "AlreadyApplied"
      BY <2>3 DEF Reconcile
    <3>2. QED
      BY <1>7, <2>3, <3>1
  <2>4. CASE old.present /\ ~HlcLess(ev.version, old.version) /\ old.version # ev.version
    <3>1. HlcLess(old.version, ev.version)
      BY <1>5, <2>4, StampOrder
    <3>2. decision = (IF old.dirty THEN "Conflict" ELSE "Apply") /\ ResolveConflict(Resolution, old, ev)
      BY <2>4, <3>1 DEF Reconcile, ResolveConflict
    <3>3. QED
      BY <3>2
  <2>5. QED
    BY <2>1, <2>2, <2>3, <2>4
<1>9. conflict => adopts
  OBVIOUS
<1> HIDE DEF adopts, conflict, old, r, ev
<1>10. /\ Seeded => \A i \in Ids : rows'[i].present
       /\ \A f \in seen \cup {ev} : RowSeen(f, rows'[f.id])
       /\ adopts => rows'[ev.id] = StoredRow(ev.version, FALSE, ev.val)
  <2>1. CASE adopts
    BY <1>1, <1>4, <1>5, <1>6, <2>1, AdoptSeen
  <2>2. CASE ~adopts
    BY <1>4, <1>5, <1>8, <2>2 DEF SeenInv
  <2>3. QED
    BY <2>1, <2>2
<1>11. CASE conflict
  <2>1. Alone(t) /\ task'[t] = r /\ seen' = seen
    BY <1>3, <1>4, <1>11, MovesAlone
  <2>2. CallSeen(t)'
    BY <1>2, <1>9, <1>10, <1>11, <2>1 DEF CallSeen
  <2>3. QED
    BY <1>10, <2>1, <2>2, SeenKept
<1>12. CASE ~conflict
  <2>1. Alone(t) /\ task'[t] = Idle /\ seen' = seen \cup {ev}
    BY <1>3, <1>4, <1>12, MovesAlone
  <2>2. CallSeen(t)'
    BY <1>2, <2>1 DEF CallSeen
  <2>3. QED
    BY <1>10, <2>1, <2>2, SeenKept
<1>13. QED
  BY <1>11, <1>12

(* #dropQueuedFor: the delivery completes once the row's queue is gone.    *)
LEMMA DropsSeen ==
  ASSUME Typed, SeenInv, Overlap = FALSE, NEW t \in Tasks, DropList(t) \/ DropRetire(t)
  PROVE  SeenInv'
<1> DEFINE ev == task[t].ev
<1>1. MayRun(t) /\ rows' = rows /\ task[t].pc \in {"drop", "retire"}
  BY DEF DropList, DropRetire, storeVars
<1>2. rows[ev.id] = StoredRow(ev.version, FALSE, ev.val)
  BY <1>1 DEF SeenInv, CallSeen
<1>3. \/ Becomes(t, Idle) /\ seen' = seen \cup {ev}
      \/ \E r : Becomes(t, r) /\ r.pc = "retire" /\ r.ev = ev /\ UNCHANGED seen
  <2>1. CASE DropList(t)
    BY <2>1 DEF DropList, Finish
  <2>2. CASE DropRetire(t)
    <3> DEFINE r == [task[t] EXCEPT !.batch = task[t].batch \ {Oldest(task[t].batch)}]
    <3>1. task[t] \in Dropping /\ task[t].pc = "retire"
      BY <2>2, TaskKinds DEF DropRetire, Typed, TypeOK
    <3>2. r.pc = "retire" /\ r.ev = ev
      BY <3>1 DEF Dropping
    <3>3. \/ Becomes(t, Idle) /\ seen' = seen \cup {ev}
          \/ Becomes(t, r) /\ UNCHANGED seen
      BY <2>2 DEF DropRetire, Finish
    <3> HIDE DEF r
    <3>4. QED
      BY <3>2, <3>3
  <2>3. QED
    BY <2>1, <2>2
<1> HIDE DEF ev
<1>4. RowSeen(ev, rows[ev.id])
  BY <1>2 DEF RowSeen, StoredRow, HlcLeq
<1>5. CASE Becomes(t, Idle) /\ seen' = seen \cup {ev}
  <2>1. Alone(t) /\ task'[t] = Idle /\ Idle.pc = "idle"
    BY <1>1, <1>5, MovesAlone DEF Idle
  <2>2. CallSeen(t)'
    BY <2>1 DEF CallSeen
  <2>3. QED
    BY <1>1, <1>4, <1>5, <2>1, <2>2, SeenKept DEF SeenInv
<1>6. ASSUME NEW r, Becomes(t, r), r.pc = "retire", r.ev = ev, UNCHANGED seen
      PROVE  SeenInv'
  <2>1. Alone(t) /\ task'[t] = r
    BY <1>1, <1>6, MovesAlone
  <2>2. CallSeen(t)'
    BY <1>1, <1>2, <1>6, <2>1 DEF CallSeen
  <2>3. QED
    BY <1>1, <1>6, <2>1, <2>2, SeenKept DEF SeenInv
<1>7. QED
  BY <1>3, <1>5, <1>6

(* Every step keeps it.                                                    *)
LEMMA NextSeen ==
  ASSUME Overlap = FALSE, "server_first" \notin Modes, ClientActor # ServerActor
  PROVE  /\ Typed /\ TrueInv /\ ServerOrdered /\ SpentInv /\ SeenInv
         /\ [Next]_vars
         => SeenInv'
<1> SUFFICES ASSUME Typed, TrueInv, ServerOrdered, SpentInv, SeenInv, [Next]_vars PROVE SeenInv'
  OBVIOUS
<1>1. Typed'
  BY NextTyped
<1>2. ASSUME NEW t \in Tasks, TaskStep(t) \/ FlushStart(t) PROVE SeenInv'
  BY <1>2, AckSeen, ResponsesSeen, WritePutSeen, ApplyDecideSeen, DropsSeen DEF TaskStep
<1>3. ASSUME NEW t \in Tasks, NEW ev \in outbox, ApplyStart(t, ev) PROVE SeenInv'
  BY <1>3, ApplyStartSeen
<1>4. ASSUME NEW t \in Tasks, NEW id \in Ids, NEW op \in Ops, NEW mode \in Modes,
             WriteStart(t, id, op, mode)
      PROVE  SeenInv'
  BY <1>1, <1>4, WriteStartSeen
<1>5. CASE \/ \E t \in Tasks : StoreFault(t)
           \/ \E req \in net : ServerCommit(req) \/ NetLose(req)
           \/ \E id \in Ids, op \in RemoteOps : RemoteCommit(id, op)
           \/ Restart \/ UNCHANGED vars
  <2>1. UNCHANGED <<rows, seen>> /\ \A u \in Tasks : task'[u] = task[u] \/ task'[u] = Idle
    BY <1>5 DEF StoreFault, ServerCommit, NetLose, RemoteCommit, Restart, vars, storeVars, ghosts,
       Finish, Becomes, Typed, TypeOK
  <2>2. Idle.pc = "idle"
    BY DEF Idle
  <2>3. QED
    BY <2>1, <2>2 DEF SeenInv, CallSeen
<1>6. QED
  BY <1>2, <1>3, <1>4, <1>5 DEF Next, TaskStep

(* A hydrated replica starts at the snapshot it was hydrated from.         *)
LEMMA InitSeen == Init => SeenInv
<1> SUFFICES ASSUME Init PROVE SeenInv
  OBVIOUS
<1>1. Seeded => \A i \in Ids : rows[i] = StoredRow(SeedVersion, FALSE, SeedVal)
  BY DEF Init, SeedRow
<1>2. \A f \in seen : Seeded /\ f.id \in Ids /\ f.version = SeedVersion /\ f.val = SeedVal
  BY DEF Init, SeedChange
<1>3. \A t \in Tasks : CallSeen(t)
  BY DEF Init, CallSeen, Idle
<1>4. QED
  BY <1>1, <1>2, <1>3 DEF SeenInv, RowSeen, StoredRow, HlcLeq

(* It holds in every reachable state, with the server's order.             *)
LEMMA SeenInvariance ==
  ASSUME Overlap = FALSE, "server_first" \notin Modes, ClientActor # ServerActor,
         RestartClock, -ClientSkew <= MAX_DRIFT_MS
  PROVE  Spec => [](ServerOrdered /\ SpentInv /\ SeenInv)
<1>1. Spec => [](TrueInv /\ FlushOK)
  BY TrueInvariance
<1>2. Typed /\ TrueInv /\ ServerOrdered /\ [Next]_vars => ServerOrdered'
  BY NextOrdered
<1>3. Typed /\ TrueInv /\ FlushOK /\ SpentInv /\ [Next]_vars => SpentInv'
  BY NextSpent
<1>4. Typed /\ TrueInv /\ ServerOrdered /\ SpentInv /\ SeenInv /\ [Next]_vars => SeenInv'
  BY NextSeen
<1>5. Init => ServerOrdered /\ SpentInv /\ SeenInv
  BY InitOrdered, InitSpent, InitSeen
<1>6. QED
  BY <1>1, <1>2, <1>3, <1>4, <1>5, TypedInvariance, PTL DEF Spec

(* "A server-normalized echo cannot be hidden by a racing ack"             *)
(* (client.mjs:141-142): once a change was applied, a clean row at its     *)
(* version shows it as the server stored it.  For every number of rows,    *)
(* calls and writes, either store's queue, lost and repeated messages,     *)
(* store errors and restarts, and a device's clock ahead of the server's,  *)
(* level or behind it by no more than the drift bound.  Not for calls that *)
(* overlap, nor for server_first, whose response stores its own payload.   *)
THEOREM EchoesShown ==
  ASSUME Overlap = FALSE, "server_first" \notin Modes, ClientActor # ServerActor,
         RestartClock, -ClientSkew <= MAX_DRIFT_MS
  PROVE  Spec => []EchoNotHidden
<1>1. SeenInv => EchoNotHidden
  BY DEF SeenInv, RowSeen, EchoNotHidden
<1>2. QED
  BY <1>1, SeenInvariance, PTL

(* A row at rest, all of whose changes have been applied, shows the newest. *)
LEMMA RestConverges ==
  ASSUME Typed, TrueInv, SeenInv, DirtyIsQueued
  PROVE  Converges
<1> SUFFICES ASSUME NEW i \in Ids, AtRest(i), NEW e \in Newest(i),
                    e.op = "delete" => rows[i].present /\ Seeded
             PROVE  rows[i].present /\ rows[i].version = e.version /\ rows[i].val = e.val
  BY DEF Converges
<1>1. e \in outbox /\ e.id = i /\ e \in seen /\ e.version \in Stamp /\ Kept(e)
  BY DEF Newest, AtRest, Kept, Typed, TypeOK, Change
<1>2. ~rows[i].dirty
  BY DEF AtRest, DirtyIsQueued, QueuedFor
<1>3. RowSeen(e, rows[i])
  BY <1>1 DEF SeenInv
<1>4. rows[i].present /\ HlcLeq(e.version, rows[i].version)
  BY <1>1, <1>3 DEF RowSeen
<1>5. PICK c \in outbox : c.id = i /\ c.version = rows[i].version
  BY <1>2, <1>4 DEF TrueInv, RowsTrue, RowClean, Matches
<1>6. HlcLeq(c.version, e.version) /\ c.version \in Stamp
  BY <1>5 DEF Newest, Typed, TypeOK, Change
<1>7. rows[i].version = e.version
  BY <1>1, <1>4, <1>5, <1>6, LeqOrder
<1>8. QED
  BY <1>2, <1>3, <1>4, <1>7 DEF RowSeen

(* A row without a queued write whose changes have all been applied, in    *)
(* any order and any number of times, shows the newest of them, for every  *)
(* number of rows, writes and calls, whether the replica starts hydrated   *)
(* or empty and whether its clock is ahead of the server's or behind it.   *)
(* Requests may still be in flight.  It speaks of calls that run one store *)
(* section at a time and meet no store error.                              *)
THEOREM ReplicaConverges ==
  ASSUME ClientActor # ServerActor, -ClientSkew <= MAX_DRIFT_MS,
         Overlap = FALSE, MaxFaults = 0, "server_first" \notin Modes,
         IsFiniteSet(Ids), Cardinality(Ids) <= MaxQueue
  PROVE  Spec => []Converges
<1>1. RestartClock
  BY DEF RestartClock, MayRestart
<1>2. Spec => [](TrueInv /\ FlushOK)
  BY <1>1, TrueInvariance
<1>3. Spec => [](ServerOrdered /\ SpentInv /\ SeenInv)
  BY <1>1, SeenInvariance
<1>4. Spec => []DirtyIsQueued
  BY DirtyRowsQueued
<1>5. Typed /\ TrueInv /\ SeenInv /\ DirtyIsQueued => Converges
  BY RestConverges
<1>6. QED
  BY <1>2, <1>3, <1>4, <1>5, TypedInvariance, PTL
-----------------------------------------------------------------------------
(* A row's version never goes back *)

(* What write() put aside before its await still holds after it: its stamp *)
(* is above the row it replaces, unless the row shows a commit that the    *)
(* clock has not observed.                                                 *)
MonoInv ==
  \A t \in Tasks : task[t].pc = "put" =>
    \/ ~rows[task[t].w.id].present
    \/ HlcLess(rows[task[t].w.id].version, task[t].w.base)
    \/ Unobserved(task[t].w.id)

(* The next stamp of the clock is above every row it has observed.         *)
LEMMA RowsBehind ==
  ASSUME Typed, TrueInv, SpentInv, NEW i \in Ids, rows[i].present
  PROVE  HlcLess(rows[i].version, JsTick(clock, ClientWall)) \/ Unobserved(i)
<1>1. /\ rows[i].version \in Stamp /\ clock \in Stamp /\ ClientWall \in Int
      /\ RowOwn(i) /\ RowClean(i)
  BY WallTypes DEF Typed, TypeOK, Row, TrueInv, RowsTrue
<1>2. Spent(rows[i].version) => HlcLess(rows[i].version, JsTick(clock, ClientWall))
  BY <1>1, TickAbove DEF Spent
<1>3. CASE rows[i].dirty
  BY <1>1, <1>2, <1>3 DEF RowOwn
<1>4. CASE ~rows[i].dirty
  <2>1. PICK e \in outbox : e.id = i /\ e.version = rows[i].version
    BY <1>1, <1>4 DEF RowClean, Matches
  <2>2. CASE e \in seen
    <3>1. Spent(e.version)
      BY <2>2 DEF SpentInv
    <3>2. QED
      BY <1>2, <2>1, <3>1
  <2>3. CASE e \notin seen
    BY <2>1, <2>3 DEF Unobserved
  <2>4. QED
    BY <2>2, <2>3
<1>5. QED
  BY <1>3, <1>4

(* One step of a row.                                                      *)
Onward ==
  \A i \in Ids :
    \/ ~rows[i].present
    \/ HlcLeq(rows[i].version, rows'[i].version)
    \/ Unobserved(i) /\ rows'[i].dirty

(* What the running call has to show.                                      *)
LEMMA MonoKept ==
  ASSUME NEW t \in Tasks, Alone(t), task'[t].pc # "put"
  PROVE  MonoInv'
<1>1. ASSUME NEW u \in Tasks PROVE task'[u].pc # "put"
  BY <1>1 DEF Alone, Section
<1>2. QED
  BY <1>1 DEF MonoInv

(* write() and applyChange(): what they put aside at their start.          *)
LEMMA StartsMono ==
  ASSUME Typed, TrueInv, SpentInv, Overlap = FALSE, NEW t \in Tasks,
         \/ \E id \in Ids, op \in Ops, mode \in Modes : WriteStart(t, id, op, mode)
         \/ \E ev \in outbox : ApplyStart(t, ev)
  PROVE  MonoInv' /\ UNCHANGED rows
<1>1. UNCHANGED <<rows, outbox, seen>> /\ MayRun(t)
  BY DEF WriteStart, ApplyStart, storeVars, serverVars, ghosts
<1>2. PICK r : /\ Becomes(t, r)
               /\ r.pc = "put" => r.w.id \in Ids /\ r.w.base = JsTick(clock, ClientWall)
  <2>1. CASE \E id \in Ids, op \in Ops, mode \in Modes : WriteStart(t, id, op, mode)
    <3>1. PICK id \in Ids, op \in Ops, mode \in Modes : WriteStart(t, id, op, mode)
      BY <2>1
    <3>2. clock' = JsTick(clock, ClientWall)
      BY <3>1 DEF WriteStart
    <3>3. PICK w, r : /\ w.key = lastKey + 1 /\ w.base = clock' /\ w.id = id
                      /\ w.op = "delete" => w.val = {}
                      /\ Becomes(t, r) /\ r.pc \in {"put", "direct"} /\ r.w = w
                      /\ net' = net \/ net' = net \cup {RequestOf(w)}
                      /\ \A x \in LocalWrites' : x \in LocalWrites \/ x = w
      BY <3>1, WriteStartMakes
    <3>4. QED
      BY <3>2, <3>3
  <2>2. CASE \E ev \in outbox : ApplyStart(t, ev)
    <3>1. PICK ev \in outbox : Becomes(t, [pc |-> "decide", ev |-> ev, old |-> rows[ev.id]])
      BY <2>2 DEF ApplyStart
    <3>2. [pc |-> "decide", ev |-> ev, old |-> rows[ev.id]].pc # "put"
      OBVIOUS
    <3>3. QED
      BY <3>1, <3>2
  <2>3. QED
    BY <2>1, <2>2
<1>3. Alone(t) /\ task'[t] = r
  BY <1>1, <1>2, MovesAlone
<1>4. ASSUME NEW u \in Tasks, task'[u].pc = "put"
      PROVE  \/ ~rows[task'[u].w.id].present
             \/ HlcLess(rows[task'[u].w.id].version, task'[u].w.base)
             \/ Unobserved(task'[u].w.id)
  <2>1. CASE u = t
    BY <1>2, <1>3, <1>4, <2>1, RowsBehind
  <2>2. CASE u # t
    BY <1>3, <1>4, <2>2 DEF Alone, Section
  <2>3. QED
    BY <2>1, <2>2
<1>5. QED
  BY <1>1, <1>4 DEF MonoInv, Unobserved

(* write(): the optimistic row is later than the one it replaces.          *)
LEMMA WritePutMono ==
  ASSUME Typed, MonoInv, Overlap = FALSE, NEW t \in Tasks, WritePut(t)
  PROVE  MonoInv' /\ Onward
<1> DEFINE w == task[t].w
           r == [task[t] EXCEPT !.pc = "enqueue"]
<1>1. task[t] \in Writing /\ w \in Slot /\ task[t].pc = "put"
  BY TaskKinds DEF WritePut, Typed, TypeOK, Writing
<1>2. r.pc = "enqueue"
  BY <1>1 DEF Writing
<1>3. /\ Becomes(t, r) /\ MayRun(t)
      /\ rows' = [rows EXCEPT ![w.id] = StoredRow(w.base, TRUE, w.val)]
  BY DEF WritePut, PutRow
<1>4. ~rows[w.id].present \/ HlcLess(rows[w.id].version, w.base) \/ Unobserved(w.id)
  BY <1>1 DEF MonoInv
<1>5. /\ rows'[w.id].version = w.base /\ rows'[w.id].dirty
      /\ \A i \in Ids \ {w.id} : rows'[i] = rows[i]
  BY <1>1, <1>3 DEF Slot, Typed, TypeOK, StoredRow
<1> HIDE DEF w, r
<1>6. Onward
  BY <1>4, <1>5 DEF Onward, HlcLeq
<1>7. Alone(t) /\ task'[t] = r
  BY <1>3, MovesAlone
<1>8. QED
  BY <1>2, <1>6, <1>7, MonoKept

(* applyChange(): it adopts nothing older than the row.                    *)
LEMMA ApplyDecideMono ==
  ASSUME Typed, SeenInv, Overlap = FALSE, NEW t \in Tasks, ApplyDecide(t)
  PROVE  MonoInv' /\ Onward
<1> DEFINE ev  == task[t].ev
           old == task[t].old
           new == StoredRow(ev.version, FALSE, ev.val)
           r   == [task[t] EXCEPT !.pc = "drop"]
           decision == Reconcile(old, ev)
           conflict == decision = "Conflict" /\ ResolveConflict(Resolution, old, ev)
           refresh  == decision = "AlreadyApplied" /\ old.present /\ ~old.dirty
           adopts   == decision = "Apply" \/ conflict \/ refresh
<1>1. task[t] \in Applying /\ task[t].pc = "decide" /\ ev \in Change /\ ev.id \in Ids
  BY TaskKinds DEF ApplyDecide, Typed, TypeOK, Applying, Change
<1>2. r.pc = "drop" /\ Idle.pc = "idle"
  BY <1>1 DEF Applying, Idle
<1>3. MayRun(t) /\ (Becomes(t, r) \/ Becomes(t, Idle))
  BY DEF ApplyDecide, Finish
<1>4. IF adopts THEN rows' = [rows EXCEPT ![ev.id] = new] ELSE rows' = rows
  BY DEF ApplyDecide, Adopt, PutRow
<1>5. old = rows[ev.id] /\ old.version \in Stamp /\ ev.version \in Stamp
  BY <1>1 DEF SeenInv, CallSeen, Applying, Row, Change
<1>6. old.present /\ HlcLess(ev.version, old.version) => ~adopts
  <2> SUFFICES ASSUME old.present, HlcLess(ev.version, old.version) PROVE ~adopts
    OBVIOUS
  <2>1. ev.version # old.version
    BY <1>5 DEF HlcLess, Stamp
  <2>2. decision = "Stale"
    BY <2>1 DEF Reconcile
  <2>3. QED
    BY <2>2
<1>7. new.version = ev.version /\ rows \in [Ids -> Row]
  BY DEF StoredRow, Typed, TypeOK
<1> HIDE DEF ev, old, new, r, adopts
<1>8. Onward
  <2>1. CASE rows' = rows
    BY <2>1 DEF Onward, HlcLeq
  <2>2. CASE adopts
    <3>1. rows'[ev.id] = new /\ \A i \in Ids \ {ev.id} : rows'[i] = rows[i]
      BY <1>1, <1>4, <1>7, <2>2
    <3>2. ~old.present \/ HlcLeq(old.version, ev.version)
      BY <1>5, <1>6, <2>2, LeqOrder
    <3>3. QED
      BY <1>5, <1>7, <3>1, <3>2 DEF Onward, HlcLeq
  <2>3. QED
    BY <1>4, <2>1, <2>2
<1>9. Alone(t) /\ task'[t] \in {r, Idle}
  BY <1>3, MovesAlone
<1>10. QED
  BY <1>2, <1>8, <1>9, MonoKept

(* Acknowledgements adopt the committed version unless the row is past it; *)
(* the other steps of a call leave the rows.                               *)
LEMMA OthersMono ==
  ASSUME Typed, QueueOK, Overlap = FALSE, "server_first" \notin Modes, NEW t \in Tasks,
         \/ WriteAck(t) \/ FlushAck(t) \/ DirectAck(t) \/ SendFails(t) \/ WriteEnqueue(t)
         \/ FlushStart(t) \/ FlushSend(t) \/ DropList(t) \/ DropRetire(t)
  PROVE  MonoInv' /\ Onward
<1>1. rows' = rows => Onward
  BY DEF Onward, HlcLeq
<1>2. ASSUME NEW r, Becomes(t, r), MayRun(t), r.pc # "put"
      PROVE  MonoInv'
  BY <1>2, MovesAlone, MonoKept
<1>3. CASE WriteAck(t) \/ FlushAck(t)
  <2>1. PICK id \in Ids, committed \in Stamp : \E seq, key, base : SettleAck(id, seq, key, base, committed)
    BY <1>3, AcksSettle
  <2>2. rows[id].version \in Stamp
    BY DEF Typed, TypeOK, Row
  <2>3. \A i \in Ids : rows'[i] = rows[i] \/ HlcLeq(rows[i].version, rows'[i].version)
    BY <2>1, <2>2, SettlePairs, LeqOrder
  <2>4. Onward
    BY <2>3 DEF Onward, HlcLeq
  <2>5. QED
    BY <1>2, <1>3, <2>4, AcksSettle
<1>4. CASE DirectAck(t) \/ SendFails(t)
  <2>1. DirectAck(t) => task[t].mode \in Modes
    BY TaskKinds DEF DirectAck, Typed, TypeOK, Writing
  <2>2. Becomes(t, Idle) /\ Idle.pc = "idle" /\ MayRun(t) /\ rows' = rows
    BY <1>4, <2>1 DEF DirectAck, SendFails, Finish, Idle, storeVars
  <2>3. QED
    BY <1>1, <1>2, <2>2
<1>5. CASE WriteEnqueue(t)
  BY <1>1, <1>5, EnqueueAlone, MonoKept DEF WriteEnqueue
<1>6. CASE FlushStart(t) \/ FlushSend(t)
  <2>1. MayRun(t) /\ rows' = rows
    BY <1>6 DEF FlushStart, FlushSend, storeVars
  <2>2. PICK r : Becomes(t, r) /\ r.pc \in {"send", "wait"}
    <3>1. CASE FlushStart(t)
      BY <3>1 DEF FlushStart
    <3>2. CASE FlushSend(t)
      <4> DEFINE q == [task[t] EXCEPT !.pc = "wait", !.sent = Oldest(task[t].batch).key]
      <4>1. task[t] \in Flushing
        BY <3>2, TaskKinds DEF FlushSend, Typed, TypeOK
      <4>2. q.pc = "wait" /\ Becomes(t, q)
        BY <3>2, <4>1 DEF FlushSend, Flushing
      <4> HIDE DEF q
      <4>3. QED
        BY <4>2
    <3>3. QED
      BY <1>6, <3>1, <3>2
  <2>3. QED
    BY <1>1, <1>2, <2>1, <2>2
<1>7. CASE DropList(t) \/ DropRetire(t)
  <2>1. MayRun(t) /\ rows' = rows
    BY <1>7 DEF DropList, DropRetire, storeVars
  <2>2. PICK r : Becomes(t, r) /\ r.pc \in {"idle", "retire"}
    <3>1. CASE DropList(t)
      BY <3>1 DEF DropList, Finish, Idle
    <3>2. CASE DropRetire(t)
      <4> DEFINE q == [task[t] EXCEPT !.batch = task[t].batch \ {Oldest(task[t].batch)}]
      <4>1. task[t] \in Dropping /\ task[t].pc = "retire"
        BY <3>2, TaskKinds DEF DropRetire, Typed, TypeOK
      <4>2. q.pc = "retire" /\ Idle.pc = "idle" /\ (Becomes(t, q) \/ Becomes(t, Idle))
        BY <3>2, <4>1 DEF DropRetire, Dropping, Finish, Idle
      <4> HIDE DEF q
      <4>3. QED
        BY <4>2
    <3>3. QED
      BY <1>7, <3>1, <3>2
  <2>3. QED
    BY <1>1, <1>2, <2>1, <2>2
<1>8. QED
  BY <1>3, <1>4, <1>5, <1>6, <1>7

(* Every step keeps the invariant and moves every row onward.              *)
LEMMA NextMono ==
  ASSUME Overlap = FALSE, "server_first" \notin Modes
  PROVE  /\ Typed /\ QueueOK /\ TrueInv /\ SpentInv /\ SeenInv /\ MonoInv
         /\ [Next]_vars
         => MonoInv' /\ Onward
<1> SUFFICES ASSUME Typed, QueueOK, TrueInv, SpentInv, SeenInv, MonoInv, [Next]_vars
             PROVE  MonoInv' /\ Onward
  OBVIOUS
<1>1. rows' = rows => Onward
  BY DEF Onward, HlcLeq
<1>2. ASSUME NEW t \in Tasks, TaskStep(t) \/ FlushStart(t) PROVE MonoInv' /\ Onward
  BY <1>2, WritePutMono, ApplyDecideMono, OthersMono DEF TaskStep
<1>3. ASSUME NEW t \in Tasks, \/ \E id \in Ids, op \in Ops, mode \in Modes : WriteStart(t, id, op, mode)
                              \/ \E ev \in outbox : ApplyStart(t, ev)
      PROVE  MonoInv' /\ Onward
  BY <1>1, <1>3, StartsMono
<1>4. CASE \/ \E t \in Tasks : StoreFault(t)
           \/ \E q \in net : ServerCommit(q) \/ NetLose(q)
           \/ \E id \in Ids, op \in RemoteOps : RemoteCommit(id, op)
           \/ Restart \/ UNCHANGED vars
  <2>1. UNCHANGED <<rows, seen>> /\ \A u \in Tasks : task'[u] = task[u] \/ task'[u] = Idle
    BY <1>4 DEF StoreFault, ServerCommit, NetLose, RemoteCommit, Restart, vars, storeVars, ghosts,
       Finish, Becomes, Typed, TypeOK
  <2>2. outbox \subseteq outbox'
    BY <1>4 DEF StoreFault, ServerCommit, NetLose, RemoteCommit, Restart, Commit, vars, serverVars
  <2>3. Idle.pc # "put"
    BY DEF Idle
  <2>4. MonoInv'
    BY <2>1, <2>2, <2>3 DEF MonoInv, Unobserved
  <2>5. QED
    BY <1>1, <2>1, <2>4
<1>5. QED
  BY <1>2, <1>3, <1>4 DEF Next, TaskStep

(* reconcile, settlement and local writes only ever replace a row by a     *)
(* later version of it, whether the device's clock is ahead of the         *)
(* server's, level with it or behind it by no more than the drift bound,   *)
(* whatever the order of the actors, and across restarts, with one         *)
(* exception: an acknowledgement adopts the server's stamp without         *)
(* observing it, so a write before the echo may be stamped below its row.  *)
(* Not for calls that overlap, nor for server_first.                       *)
THEOREM VersionsMonotone ==
  ASSUME Overlap = FALSE, "server_first" \notin Modes, ClientActor # ServerActor,
         RestartClock, -ClientSkew <= MAX_DRIFT_MS
  PROVE  Spec => VersionMonotone
<1>1. Spec => [](TrueInv /\ FlushOK)
  BY TrueInvariance
<1>2. Spec => [](ServerOrdered /\ SpentInv /\ SeenInv)
  BY SeenInvariance
<1>3. /\ Typed /\ QueueOK /\ TrueInv /\ SpentInv /\ SeenInv /\ MonoInv
      /\ [Next]_vars
      => MonoInv' /\ Onward
  BY NextMono
<1>4. Init => MonoInv
  BY DEF Init, MonoInv, Idle
<1>5. Onward => [Onward]_rows
  OBVIOUS
<1>6. VersionMonotone <=> [][Onward]_rows
  BY DEF VersionMonotone, Onward
<1>7. QED
  BY <1>1, <1>2, <1>3, <1>4, <1>5, <1>6, TypedInvariance, QueueInvariance, PTL DEF Spec

-----------------------------------------------------------------------------
(* Deliveries of one row, in any order *)

(* What applyChange leaves of a row that is delivered a change.            *)
Delivered(row, ev) ==
  LET decision == Reconcile(row, ev)
  IN  IF \/ decision = "Apply"
         \/ decision = "Conflict" /\ ResolveConflict(Resolution, row, ev)
         \/ decision = "AlreadyApplied" /\ row.present /\ ~row.dirty
      THEN StoredRow(ev.version, FALSE, ev.val)
      ELSE row

(* applyChange: the row as it is when the decision is written down becomes *)
(* what the change makes of it, whatever ran between the read and the      *)
(* write of the other calls.                                               *)
LEMMA DecideDelivers ==
  ASSUME Typed, SeenInv, NEW t \in Tasks, ApplyDecide(t)
  PROVE  LET ev == task[t].ev
         IN  rows' = [rows EXCEPT ![ev.id] = Delivered(rows[ev.id], ev)]
<1> DEFINE ev  == task[t].ev
           old == task[t].old
           adopts == \/ Reconcile(old, ev) = "Apply"
                     \/ Reconcile(old, ev) = "Conflict" /\ ResolveConflict(Resolution, old, ev)
                     \/ Reconcile(old, ev) = "AlreadyApplied" /\ old.present /\ ~old.dirty
           new == StoredRow(ev.version, FALSE, ev.val)
<1>1. old = rows[ev.id] /\ rows \in [Ids -> Row]
  BY DEF ApplyDecide, SeenInv, CallSeen, Typed, TypeOK
<1>2. IF adopts THEN rows' = [rows EXCEPT ![ev.id] = new] ELSE rows' = rows
  BY DEF ApplyDecide, Adopt, PutRow
<1>3. Delivered(old, ev) = IF adopts THEN new ELSE old
  BY DEF Delivered
<1> HIDE DEF adopts, new, old, ev
<1>4. rows' = [rows EXCEPT ![ev.id] = IF adopts THEN new ELSE old]
  BY <1>1, <1>2
<1>5. QED
  BY <1>1, <1>3, <1>4 DEF ev

(* reconcile raises a conflict only for a change above the dirty row, so   *)
(* resolve_conflict adopts it under either resolution: server_wins and     *)
(* last_write_wins never decide differently (docs/protocol.md, the         *)
(* reconcile table and the conflict resolutions).                          *)
THEOREM PoliciesAgree ==
  ASSUME NEW local \in Row, NEW incoming \in Change, Reconcile(local, incoming) = "Conflict"
  PROVE  \A resolution \in Resolutions : ResolveConflict(resolution, local, incoming)
<1>1. local.version \in Stamp /\ incoming.version \in Stamp
  BY DEF Row, Change
<1>2. /\ incoming.version # local.version
      /\ ~HlcLess(incoming.version, local.version)
  BY DEF Reconcile
<1>3. HlcLess(local.version, incoming.version)
  BY <1>1, <1>2, StampOrder
<1>4. QED
  BY <1>3 DEF ResolveConflict

(* A row that is there takes a change exactly when the change is above it, *)
(* or the same and the row is clean.                                       *)
LEMMA DeliveredIs ==
  ASSUME NEW r \in Row, r.present, NEW ev \in Change
  PROVE  Delivered(r, ev) = IF \/ HlcLess(r.version, ev.version)
                               \/ r.version = ev.version /\ ~r.dirty
                            THEN StoredRow(ev.version, FALSE, ev.val) ELSE r
<1>1. r.version \in Stamp /\ ev.version \in Stamp /\ r.dirty \in BOOLEAN
  BY DEF Row, Change
<1>2. CASE HlcLess(ev.version, r.version)
  <2>1. ~HlcLess(r.version, ev.version) /\ r.version # ev.version
    BY <1>1, <1>2 DEF HlcLess, Stamp
  <2>2. Reconcile(r, ev) = "Stale"
    BY <1>2, <2>1 DEF Reconcile
  <2>3. QED
    BY <2>1, <2>2 DEF Delivered
<1>3. CASE ev.version = r.version
  <2>1. ~HlcLess(r.version, ev.version)
    BY <1>1, <1>3 DEF HlcLess, Stamp
  <2>2. Reconcile(r, ev) = "AlreadyApplied"
    BY <1>3, <2>1 DEF Reconcile
  <2>3. QED
    BY <1>3, <2>1, <2>2 DEF Delivered
<1>4. CASE ev.version # r.version /\ ~HlcLess(ev.version, r.version)
  <2>1. HlcLess(r.version, ev.version)
    BY <1>1, <1>4, StampOrder
  <2>2. Reconcile(r, ev) = IF r.dirty THEN "Conflict" ELSE "Apply"
    BY <1>4 DEF Reconcile
  <2>3. ResolveConflict(Resolution, r, ev)
    BY <2>1 DEF ResolveConflict
  <2>4. QED
    BY <2>1, <2>2, <2>3 DEF Delivered
<1>5. QED
  BY <1>2, <1>3, <1>4

(* Delivering a change again changes nothing: the at-least-once channels   *)
(* of a session (two transports, catch-up, a resubscription) are safe.     *)
THEOREM DeliveriesIdempotent ==
  ASSUME NEW r \in Row, NEW ev \in Change
  PROVE  Delivered(Delivered(r, ev), ev) = Delivered(r, ev)
<1> DEFINE new == StoredRow(ev.version, FALSE, ev.val)
<1>1. new \in Row /\ new.present /\ ~new.dirty /\ new.version = ev.version
  BY RowTypes DEF StoredRow, Change
<1>2. Delivered(new, ev) = new
  <2> HIDE DEF new
  <2>1. Delivered(new, ev) = IF \/ HlcLess(new.version, ev.version)
                                \/ new.version = ev.version /\ ~new.dirty
                             THEN StoredRow(ev.version, FALSE, ev.val) ELSE new
    BY <1>1, DeliveredIs
  <2>2. QED
    BY <1>1, <2>1 DEF new
<1>3. Delivered(r, ev) \in {r, new}
  BY DEF Delivered
<1>4. QED
  BY <1>2, <1>3

(* Two changes of a row that is there may arrive in either order, whether  *)
(* the row is clean or holds a local edit, as long as a version has one    *)
(* payload (ServerOrdered): the row ends at the same version, payload and  *)
(* dirty flag.  A row the replica has never stored is the exception: the   *)
(* core ignores the delete of it, so the earlier upsert may still arrive.  *)
THEOREM DeliveriesCommute ==
  ASSUME NEW r \in Row, r.present, NEW a \in Change, NEW b \in Change,
         a.version = b.version => a.val = b.val
  PROVE  Delivered(Delivered(r, a), b) = Delivered(Delivered(r, b), a)
<1> DEFINE ra == StoredRow(a.version, FALSE, a.val)
           rb == StoredRow(b.version, FALSE, b.val)
           takes(row, ev) == HlcLess(row.version, ev.version) \/ (row.version = ev.version /\ ~row.dirty)
<1>1. r.version \in Stamp /\ a.version \in Stamp /\ b.version \in Stamp
  BY DEF Row, Change
<1>2. /\ ra \in Row /\ ra.present /\ ~ra.dirty /\ ra.version = a.version
      /\ rb \in Row /\ rb.present /\ ~rb.dirty /\ rb.version = b.version
  BY RowTypes DEF StoredRow, Change
<1>3. a.version = b.version => ra = rb
  OBVIOUS
<1>4. \A row \in {r, ra, rb} : /\ Delivered(row, a) = IF takes(row, a) THEN ra ELSE row
                              /\ Delivered(row, b) = IF takes(row, b) THEN rb ELSE row
  <2> HIDE DEF ra, rb
  <2>1. \A row \in {r, ra, rb} : row \in Row /\ row.present
    BY <1>2
  <2>2. QED
    BY <2>1, DeliveredIs DEF ra, rb
<1> HIDE DEF ra, rb
<1>5. takes(ra, b) <=> HlcLeq(a.version, b.version)
  BY <1>2 DEF HlcLeq
<1>6. takes(rb, a) <=> HlcLeq(b.version, a.version)
  BY <1>2 DEF HlcLeq
<1>7. takes(r, a) /\ HlcLeq(a.version, b.version) => takes(r, b)
  BY <1>1 DEF HlcLeq, HlcLess, Stamp
<1>8. takes(r, b) /\ HlcLeq(b.version, a.version) => takes(r, a)
  BY <1>1 DEF HlcLeq, HlcLess, Stamp
<1>9. /\ HlcLeq(a.version, b.version) \/ HlcLeq(b.version, a.version)
      /\ HlcLeq(a.version, b.version) /\ HlcLeq(b.version, a.version) => a.version = b.version
  BY <1>1, LeqOrder DEF HlcLeq
<1> HIDE DEF takes
<1>10. QED
  BY <1>3, <1>4, <1>5, <1>6, <1>7, <1>8, <1>9
=============================================================================
