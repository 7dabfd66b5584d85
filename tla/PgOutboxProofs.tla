--------------------------- MODULE PgOutboxProofs ---------------------------
(***************************************************************************)
(* What the triggers, the advisory lock and the fence of zed_sync.sql      *)
(* guarantee for any number of rows, transactions, statements and clock    *)
(* values: its invariants, and that it implements ChangeFeed.              *)
(***************************************************************************)
EXTENDS PgOutbox, TLAPS

-----------------------------------------------------------------------------
(* Operators *)

(* Milliseconds are numbers and follow the microseconds.                   *)
LEMMA MillisMonotone ==
  ASSUME NEW a \in Nat, NEW b \in Nat, a <= b
  PROVE  /\ a \div MICROS_PER_MS \in Nat
         /\ b \div MICROS_PER_MS \in Nat
         /\ a \div MICROS_PER_MS <= b \div MICROS_PER_MS
<1> DEFINE M == MICROS_PER_MS
<1>1. M \in Nat /\ M > 0
  BY MicrosAssumption
<1>2. \A x \in Nat : x \div M \in Nat /\ M * (x \div M) <= x /\ x < M * (x \div M) + M
  BY <1>1, SMTT(30)
<1>3. \A p, q \in Nat : q < p => M * q + M <= M * p
  BY <1>1, SMTT(30)
<1>4. QED
  BY <1>1, <1>2, <1>3, SMTT(30)

(* What a stamp of the SQL functions is.                                   *)
LEMMA StampTypes ==
  ASSUME NEW old \in Row, NEW wall \in Nat, NEW created \in Nat
  PROVE  /\ Inserted(wall, created) \in Row
         /\ Inserted(wall, created).version \in Stamp
         /\ Updated(old, wall) \in Row
         /\ Updated(old, wall).version \in Stamp
         /\ old.version # NullVersion => Tombstone(old) \in Row /\ Tombstone(old).version \in Stamp
<1>1. \A prev \in Version, u \in Nat : NextHlc(prev, u) \in Stamp
  BY MillisMonotone DEF NextHlc, Version, Stamp, NullVersion
<1>2. NullVersion \in Version /\ Absent \in Row
  BY DEF Version, Absent, Row
<1>3. \A x, y \in Nat : HlcMax(x, y) \in Nat
  BY DEF HlcMax
<1>4. Inserted(wall, created) \in Row /\ Inserted(wall, created).version \in Stamp
  BY <1>1, <1>2, <1>3 DEF Inserted, Row, Absent, Version
<1>5. Updated(old, wall) \in Row /\ Updated(old, wall).version \in Stamp
  <2> DEFINE u == HlcMax(wall, old.updated_at + 1)
             v == NextHlc(old.version, u)
  <2>1. old.updated_at \in Nat /\ old.version \in Version
    BY DEF Row
  <2>2. u \in Nat
    <3>1. old.updated_at + 1 \in Nat
      BY <2>1
    <3>2. QED
      BY <1>3, <3>1
  <2>3. v \in Stamp /\ v \in Version
    BY <1>1, <2>1, <2>2 DEF Version
  <2>4. Updated(old, wall) = [old EXCEPT !.updated_at = u, !.version = v]
    BY DEF Updated
  <2> HIDE DEF u, v
  <2>5. QED
    BY <2>2, <2>3, <2>4 DEF Row
<1>6. ASSUME old.version # NullVersion
      PROVE  Tombstone(old) \in Row /\ Tombstone(old).version \in Stamp
  <2> DEFINE v == [old.version EXCEPT !.counter = @ + 1]
  <2>1. old.version \in Stamp
    BY <1>6 DEF Row, Version
  <2>2. v \in Stamp
    BY <2>1 DEF Stamp
  <2>3. Tombstone(old) = [old EXCEPT !.live = FALSE, !.version = v]
    BY DEF Tombstone
  <2> HIDE DEF v
  <2>4. QED
    BY <2>2, <2>3 DEF Row, Version
<1>7. QED
  BY <1>4, <1>5, <1>6
-----------------------------------------------------------------------------
(* Type correctness *)

(* Whatever is on its way to the outbox has a version and a row.           *)
Versioned ==
  \A t \in Txns :
    /\ \A p \in txn[t].pending : p.data.version \in Stamp
    /\ txn[t].pc = "recording" => txn[t].on \in Rows /\ txn[t].new.version \in Stamp
    /\ txn[t].pc = "locking" /\ txn[t].op # "fence" => txn[t].on \in Rows
    /\ txn[t].pc = "locking" /\ txn[t].op = "insert" => txn[t].new.version \in Stamp

TypeInv == TypeOK /\ Versioned

(* The next value of one transaction's record.                             *)
LEMMA TxnSet ==
  ASSUME txn \in [Txns -> Txn], NEW t \in Txns, NEW x \in Txn, txn' = [txn EXCEPT ![t] = x]
  PROVE  txn' \in [Txns -> Txn] /\ txn'[t] = x /\ \A u \in Txns \ {t} : txn'[u] = txn[u]
OBVIOUS

(* The end of a transaction.                                               *)
LEMMA EndTypes ==
  ASSUME TypeInv, NEW t \in Txns, End(t)
  PROVE  /\ txn' \in [Txns -> Txn] /\ locks' \in [Lockable -> Txns \cup {NoTxn}]
         /\ txn'[t].pc = "ended" /\ txn'[t].pending = {} /\ txn'[t].token = 0
         /\ \A u \in Txns \ {t} : txn'[u] = txn[u]
         /\ Versioned'
<1> DEFINE x == [txn[t] EXCEPT !.pc = "ended", !.op = "none", !.on = "outbox",
                               !.new = Absent, !.token = 0, !.left = 0, !.pending = {}]
<1>1. txn[t] \in Txn
  BY DEF TypeInv, TypeOK
<1>2. Absent \in Row
  BY DEF Absent, Row, Version
<1>3. x \in Txn /\ x.pc = "ended" /\ x.pending = {} /\ x.token = 0
  BY <1>1, <1>2 DEF Txn, Lockable
<1>4. txn' = [txn EXCEPT ![t] = x]
  BY DEF End
<1> HIDE DEF x
<1>5. /\ txn' \in [Txns -> Txn] /\ txn'[t] = x
      /\ \A u \in Txns \ {t} : txn'[u] = txn[u]
  BY <1>3, <1>4, TxnSet DEF TypeInv, TypeOK
<1>6. locks' \in [Lockable -> Txns \cup {NoTxn}]
  BY DEF End, Release, TypeInv, TypeOK
<1>7. Versioned'
  BY <1>3, <1>5 DEF TypeInv, Versioned
<1>8. QED
  BY <1>3, <1>5, <1>6, <1>7

(* The end of a statement.                                                 *)
LEMMA IdleTypes ==
  ASSUME TypeInv, NEW t \in Txns
  PROVE  /\ Idle(t) \in Txn
         /\ Idle(t).pc = "idle" /\ Idle(t).pending = txn[t].pending /\ Idle(t).token = txn[t].token
<1>1. txn[t] \in Txn
  BY DEF TypeInv, TypeOK
<1>2. Absent \in Row
  BY DEF Absent, Row, Version
<1>3. QED
  BY <1>1, <1>2 DEF Idle, Txn, Lockable

(* A statement sent.                                                       *)
LEMMA IssueTypes ==
  ASSUME TypeInv, NEW t \in Txns, NEW op \in {"insert", "update", "delete", "fence"},
         NEW k \in Lockable, NEW new \in Row, NEW token \in Nat, Issue(t, op, k, new, token),
         op # "fence" => k \in Rows, op = "insert" => new.version \in Stamp
  PROVE  /\ TypeInv'
         /\ txn'[t].pc = "locking" /\ txn'[t].op = op /\ txn'[t].token = token
         /\ txn'[t].pending = txn[t].pending
         /\ \A u \in Txns \ {t} : txn'[u] = txn[u]
<1> DEFINE x == [txn[t] EXCEPT !.pc = "locking", !.op = op, !.on = k, !.new = new,
                               !.token = token, !.left = txn[t].left - 1]
<1>1. txn[t] \in Txn /\ txn[t].left > 0
  BY DEF TypeInv, TypeOK, Issue
<1>2. txn[t].left - 1 \in Nat
  BY <1>1 DEF Txn
<1>3. /\ x \in Txn /\ x.pc = "locking" /\ x.op = op /\ x.on = k /\ x.new = new
      /\ x.token = token /\ x.pending = txn[t].pending
  BY <1>1, <1>2 DEF Txn
<1>4. txn' = [txn EXCEPT ![t] = x]
  BY DEF Issue
<1> HIDE DEF x
<1>5. /\ txn' \in [Txns -> Txn] /\ txn'[t] = x
      /\ \A u \in Txns \ {t} : txn'[u] = txn[u]
  BY <1>3, <1>4, TxnSet DEF TypeInv, TypeOK
<1>6. Versioned'
  BY <1>3, <1>5 DEF TypeInv, Versioned
<1>7. TypeOK'
  BY <1>5 DEF Issue, TypeInv, TypeOK
<1>8. QED
  BY <1>3, <1>5, <1>6, <1>7 DEF TypeInv

(* A row changed by its statement.                                         *)
LEMMA PutTypes ==
  ASSUME TypeInv, NEW t \in Txns, txn[t].on \in Rows, NEW row \in Row, row.version \in Stamp,
         Put(t, row)
  PROVE  /\ TypeInv'
         /\ txn'[t].pc = "recording" /\ txn'[t].on = txn[t].on /\ txn'[t].new = row
         /\ txn'[t].pending = txn[t].pending /\ txn'[t].token = txn[t].token
         /\ \A u \in Txns \ {t} : txn'[u] = txn[u]
<1> DEFINE x == [txn[t] EXCEPT !.pc = "recording", !.new = row]
<1>1. txn[t] \in Txn
  BY DEF TypeInv, TypeOK
<1>2. /\ x \in Txn /\ x.pc = "recording" /\ x.on = txn[t].on /\ x.new = row
      /\ x.pending = txn[t].pending /\ x.token = txn[t].token
  BY <1>1 DEF Txn
<1>3. txn' = [txn EXCEPT ![t] = x]
  BY DEF Put
<1> HIDE DEF x
<1>4. /\ txn' \in [Txns -> Txn] /\ txn'[t] = x
      /\ \A u \in Txns \ {t} : txn'[u] = txn[u]
  BY <1>2, <1>3, TxnSet DEF TypeInv, TypeOK
<1>5. Versioned'
  BY <1>2, <1>4 DEF TypeInv, Versioned
<1>6. work' \in [Rows -> Row] /\ locks' \in [Lockable -> Txns \cup {NoTxn}]
  BY DEF Put, TypeInv, TypeOK
<1>7. TypeOK'
  BY <1>4, <1>6 DEF Put, TypeInv, TypeOK
<1>8. QED
  BY <1>2, <1>4, <1>5, <1>7 DEF TypeInv

(* A statement that ends without an entry.                                 *)
LEMMA DoneTypes ==
  ASSUME TypeInv, NEW t \in Txns, txn' = [txn EXCEPT ![t] = Idle(t)]
  PROVE  /\ txn' \in [Txns -> Txn] /\ Versioned'
         /\ txn'[t].pc = "idle" /\ txn'[t].pending = txn[t].pending /\ txn'[t].token = txn[t].token
         /\ \A u \in Txns \ {t} : txn'[u] = txn[u]
<1>1. /\ txn' \in [Txns -> Txn] /\ txn'[t] = Idle(t)
      /\ \A u \in Txns \ {t} : txn'[u] = txn[u]
  BY IdleTypes, TxnSet DEF TypeInv, TypeOK
<1>2. Versioned'
  BY <1>1, IdleTypes DEF TypeInv, Versioned
<1>3. QED
  BY <1>1, <1>2, IdleTypes

(* The entry a statement records.                                          *)
Recorded(t) == [sequence |-> sequence + 1, row |-> txn[t].on, data |-> txn[t].new]

(* A change recorded.                                                      *)
LEMMA RecordTypes ==
  ASSUME TypeInv, NEW t \in Txns, Record(t)
  PROVE  /\ TypeInv'
         /\ txn'[t].pc = "idle" /\ txn'[t].token = txn[t].token
         /\ txn'[t].pending = txn[t].pending \cup {Recorded(t)}
         /\ \A u \in Txns \ {t} : txn'[u] = txn[u]
<1> DEFINE p == Recorded(t)
           x == [Idle(t) EXCEPT !.pending = txn[t].pending \cup {p}]
<1>1. txn[t] \in Txn /\ txn[t].on \in Rows /\ txn[t].new \in Row /\ txn[t].new.version \in Stamp
  BY DEF TypeInv, TypeOK, Versioned, Record, Txn
<1>2. sequence + 1 \in Nat
  BY DEF TypeInv, TypeOK
<1>3. p \in Pending /\ p.data.version \in Stamp
  BY <1>1, <1>2 DEF Pending, Recorded
<1>4. txn' = [txn EXCEPT ![t] = x]
  BY DEF Record, RecordEntry, Recorded
<1> HIDE DEF p
<1>5. txn[t].pending \subseteq Pending
  BY <1>1 DEF Txn
<1>6. /\ x \in Txn /\ x.pc = "idle" /\ x.token = txn[t].token
      /\ x.pending = txn[t].pending \cup {p}
  BY <1>3, <1>5, IdleTypes DEF Txn
<1> HIDE DEF x
<1>7. /\ txn' \in [Txns -> Txn] /\ txn'[t] = x
      /\ \A u \in Txns \ {t} : txn'[u] = txn[u]
  BY <1>4, <1>6, TxnSet DEF TypeInv, TypeOK
<1>8. Versioned'
  BY <1>3, <1>6, <1>7 DEF TypeInv, Versioned
<1>9. locks' \in [Lockable -> Txns \cup {NoTxn}]
  BY DEF Record, TypeInv, TypeOK, Lockable
<1>10. TypeOK'
  BY <1>2, <1>7, <1>9 DEF Record, RecordEntry, TypeInv, TypeOK
<1>11. QED
  BY <1>6, <1>7, <1>8, <1>10 DEF TypeInv, p

(* A rollback.                                                             *)
LEMMA AbortTypes ==
  ASSUME TypeInv, NEW t \in Txns, Abort(t)
  PROVE  TypeInv'
<1>1. work' \in [Rows -> Row] /\ asserted' \in Nat
  BY DEF Abort, TypeInv, TypeOK
<1>2. End(t)
  BY DEF Abort
<1>3. QED
  BY <1>1, <1>2, EndTypes DEF Abort, TypeInv, TypeOK

(* The entries a commit adds.                                              *)
Added(t) ==
  {[sequence |-> p.sequence, row |-> p.row, data |-> p.data, token |-> txn[t].token]
     : p \in txn[t].pending}

(* A commit.                                                               *)
LEMMA CommitTypes ==
  ASSUME TypeInv, NEW t \in Txns, Commit(t)
  PROVE  /\ TypeInv'
         /\ \A e \in Added(t) : e \in Entry /\ e.data.version \in Stamp
         /\ outbox' = outbox \cup Added(t)
<1>1. txn[t].pending \subseteq Pending /\ txn[t].token \in Nat
  BY DEF TypeInv, TypeOK, Txn
<1>2. \A p \in txn[t].pending : p.data.version \in Stamp
  BY DEF TypeInv, Versioned
<1>3. \A e \in Added(t) : e \in Entry /\ e.data.version \in Stamp
  BY <1>1, <1>2 DEF Added, Pending, Entry
<1>4. outbox' = outbox \cup Added(t)
  BY DEF Commit, Added
<1>5. stored' \in [Rows -> Row] /\ fence' \in Nat
  BY DEF Commit, TypeInv, TypeOK
<1>6. End(t)
  BY DEF Commit
<1>7. outbox' \subseteq Entry /\ \A e \in outbox' : e.data.version \in Stamp
  BY <1>3, <1>4 DEF TypeInv, TypeOK
<1>8. TypeInv'
  BY <1>5, <1>6, <1>7, EndTypes DEF Commit, TypeInv, TypeOK
<1>9. QED
  BY <1>3, <1>4, <1>8

(* What a statement makes of the row it has reached.                       *)
Becomes(t, row) ==
  /\ txn[t].pc = "locking"
  /\ Free(t, txn[t].on)
  /\ LET old == work[txn[t].on]
     IN  \/ /\ txn[t].op = "insert"
            /\ ~old.live
            /\ row = [txn[t].new EXCEPT !.life = old.life + 1]
         \/ txn[t].op = "update" /\ old.live /\ \E wall \in Walls : row = Updated(old, wall)
         \/ txn[t].op = "delete" /\ old.live /\ old.version # NullVersion /\ row = Tombstone(old)

(* A new statement of t.                                                   *)
Asked(t) ==
  \/ \E r \in Rows, wall, created \in Walls : Insert(t, r, wall, created)
  \/ \E r \in Rows, op \in {"update", "delete"} : UpdateOrDelete(t, r, op)

(* A fence passed: the token is at least the one stored.                   *)
Passed(t) == Reaches(t, "fence") /\ asserted <= txn[t].token /\ Passes(t)

(* What a step may be.                                                     *)
StepOf(t) ==
  \/ Asked(t)
  \/ \E token \in Tokens : Assert(t, token)
  \/ Abort(t)
  \/ Commit(t)
  \/ \E row \in Row : Becomes(t, row) /\ row.version \in Stamp /\ txn[t].on \in Rows /\ Put(t, row)
  \/ NoRow(t)
  \/ Passed(t)
  \/ Record(t)

(* Every step is one of these.                                             *)
LEMMA StepCases ==
  ASSUME TypeInv, Next
  PROVE  \/ \E t \in Txns : StepOf(t)
         \/ \E old \in SUBSET outbox : Prune(old)
         \/ \E e \in After : Read(e)
<1>1. SUFFICES ASSUME NEW t \in Txns,
                      Statement(t) \/ Effect(t) \/ Commit(t) \/ Abort(t) \/ BreakDeadlock(t)
               PROVE  StepOf(t)
  BY DEF Next
<1> DEFINE old == work[txn[t].on]
           P(row) == Becomes(t, row) /\ row.version \in Stamp /\ txn[t].on \in Rows /\ Put(t, row)
<1>2. txn[t] \in Txn
  BY DEF TypeInv, TypeOK
<1>3. ASSUME txn[t].pc = "locking", txn[t].op # "fence"
      PROVE  txn[t].on \in Rows /\ old \in Row
  BY <1>3 DEF TypeInv, TypeOK, Versioned
<1>4. ASSUME NEW row \in Row, P(row) PROVE StepOf(t)
  BY <1>4 DEF StepOf
<1>5. CASE InsertRow(t)
  <2>1. CASE old.live
    BY <1>5, <2>1 DEF InsertRow, StepOf
  <2>2. CASE ~old.live
    <3> DEFINE row == [txn[t].new EXCEPT !.life = old.life + 1]
    <3>1. txn[t].pc = "locking" /\ txn[t].op = "insert" /\ Free(t, txn[t].on) /\ Put(t, row)
      BY <1>5, <2>2 DEF InsertRow, Reaches
    <3>2. old.life + 1 \in Nat
      BY <1>3, <3>1 DEF Row
    <3>3. row \in Row /\ row.version \in Stamp
      BY <1>2, <3>1, <3>2 DEF Txn, Row, TypeInv, Versioned
    <3>4. Becomes(t, row)
      BY <2>2, <3>1 DEF Becomes
    <3>5. QED
      BY <1>3, <1>4, <3>1, <3>3, <3>4
  <2>3. QED
    BY <2>1, <2>2
<1>6. ASSUME NEW wall \in Walls, UpdateRow(t, wall) PROVE StepOf(t)
  <2>1. /\ txn[t].pc = "locking" /\ txn[t].op = "update" /\ Free(t, txn[t].on) /\ old.live
        /\ Put(t, Updated(old, wall))
    BY <1>6 DEF UpdateRow, Reaches
  <2>2. Updated(old, wall) \in Row /\ Updated(old, wall).version \in Stamp
    BY <1>3, <2>1, StampTypes, WallsAssumption
  <2>3. Becomes(t, Updated(old, wall))
    BY <2>1 DEF Becomes
  <2>4. QED
    BY <1>3, <1>4, <2>1, <2>2, <2>3
<1>7. CASE DeleteRow(t)
  <2>1. txn[t].pc = "locking" /\ txn[t].op = "delete" /\ Free(t, txn[t].on) /\ old.live
    BY <1>7 DEF DeleteRow, Reaches
  <2>2. CASE old.version = NullVersion
    BY <1>7, <2>2 DEF DeleteRow, StepOf
  <2>3. CASE old.version # NullVersion
    <3>1. Put(t, Tombstone(old))
      BY <1>7, <2>3 DEF DeleteRow
    <3>2. Tombstone(old) \in Row /\ Tombstone(old).version \in Stamp
      BY <1>3, <2>1, <2>3, StampTypes
    <3>3. Becomes(t, Tombstone(old))
      BY <2>1, <2>3 DEF Becomes
    <3>4. QED
      BY <1>3, <1>4, <2>1, <3>1, <3>2, <3>3
  <2>4. QED
    BY <2>2, <2>3
<1>8. CASE Passes(t)
  <2>1. asserted \in Nat /\ txn[t].token \in Nat
    BY <1>2 DEF TypeInv, TypeOK, Txn
  <2>2. CASE asserted > txn[t].token
    BY <1>8, <2>2 DEF Passes, StepOf
  <2>3. CASE asserted <= txn[t].token
    BY <1>8, <2>3 DEF Passes, Passed, StepOf
  <2>4. QED
    BY <2>1, <2>2, <2>3
<1>9. CASE Statement(t)
  BY <1>9 DEF Statement, Asked, StepOf
<1>10. CASE NoRow(t) \/ Record(t) \/ Commit(t) \/ Abort(t) \/ BreakDeadlock(t)
  BY <1>10 DEF BreakDeadlock, StepOf
<1>11. QED
  BY <1>1, <1>5, <1>6, <1>7, <1>8, <1>9, <1>10 DEF Effect

(* The initial state is well formed.                                       *)
LEMMA InitTypes == Init => TypeInv
<1>1. Absent \in Row /\ Legacy \in Row
  BY WallsAssumption DEF Absent, Legacy, Row, Version
<1>2. ASSUME Init PROVE TypeOK /\ Versioned
  <2>1. [pc |-> "idle", op |-> "none", on |-> "outbox", new |-> Absent,
         token |-> 0, left |-> MaxStatements, pending |-> {}] \in Txn
    BY <1>1, StatementsAssumption DEF Txn, Lockable
  <2>2. QED
    BY <1>1, <1>2, <2>1 DEF Init, TypeOK, Versioned
<1>3. QED
  BY <1>2 DEF TypeInv

(* Every step of a transaction keeps its type.                             *)
LEMMA StepTypes ==
  ASSUME TypeInv, NEW t \in Txns, StepOf(t)
  PROVE  TypeInv'
<1>1. CASE Asked(t)
  <2>1. txn[t].token \in Nat /\ Absent \in Row
    BY DEF TypeInv, TypeOK, Txn, Absent, Row, Version
  <2>2. ASSUME NEW r \in Rows, NEW wall \in Walls, NEW created \in Walls,
               Insert(t, r, wall, created)
        PROVE  TypeInv'
    <3>1. Inserted(wall, created) \in Row /\ Inserted(wall, created).version \in Stamp
      BY <2>1, StampTypes, WallsAssumption
    <3>2. QED
      BY <2>1, <2>2, <3>1, IssueTypes DEF Insert, Lockable
  <2>3. ASSUME NEW r \in Rows, NEW op \in {"update", "delete"}, UpdateOrDelete(t, r, op)
        PROVE  TypeInv'
    BY <2>1, <2>3, IssueTypes DEF UpdateOrDelete, Lockable
  <2>4. QED
    BY <1>1, <2>2, <2>3 DEF Asked
<1>2. ASSUME NEW token \in Tokens, Assert(t, token) PROVE TypeInv'
  <2>1. token \in Nat /\ Absent \in Row
    BY TokensAssumption DEF Absent, Row, Version
  <2>2. QED
    BY <1>2, <2>1, IssueTypes DEF Assert, Lockable
<1>3. CASE Abort(t)
  BY <1>3, AbortTypes
<1>4. CASE Commit(t)
  BY <1>4, CommitTypes
<1>5. ASSUME NEW row \in Row, row.version \in Stamp, txn[t].on \in Rows, Put(t, row)
      PROVE  TypeInv'
  BY <1>5, PutTypes
<1>6. CASE NoRow(t)
  BY <1>6, DoneTypes DEF NoRow, TypeInv, TypeOK
<1>7. CASE Passed(t)
  <2>1. /\ txn' = [txn EXCEPT ![t] = Idle(t)]
        /\ locks' = [locks EXCEPT !["fence"] = t]
        /\ asserted' = txn[t].token
        /\ UNCHANGED <<work, stored, fence, sequence, outbox, cursor, replica>>
    <3>1. asserted \in Nat /\ txn[t].token \in Nat
      BY DEF TypeInv, TypeOK, Txn
    <3>2. ~(asserted > txn[t].token)
      BY <1>7, <3>1 DEF Passed
    <3>3. QED
      BY <1>7, <3>2 DEF Passed, Passes
  <2>2. txn[t].token \in Nat /\ locks' \in [Lockable -> Txns \cup {NoTxn}]
    BY <2>1 DEF TypeInv, TypeOK, Txn, Lockable
  <2>3. QED
    BY <2>1, <2>2, DoneTypes DEF TypeInv, TypeOK
<1>8. CASE Record(t)
  BY <1>8, RecordTypes
<1>9. QED
  BY <1>1, <1>2, <1>3, <1>4, <1>5, <1>6, <1>7, <1>8 DEF StepOf

(* Every step keeps its type.                                              *)
LEMMA TypeStep == TypeInv /\ [Next]_vars => TypeInv'
<1> SUFFICES ASSUME TypeInv, [Next]_vars PROVE TypeInv'
  OBVIOUS
<1>1. CASE UNCHANGED vars
  BY <1>1 DEF TypeInv, TypeOK, Versioned, vars
<1>2. ASSUME NEW old \in SUBSET outbox, Prune(old) PROVE TypeInv'
  BY <1>2 DEF Prune, TypeInv, TypeOK, Versioned
<1>3. ASSUME NEW e \in After, Read(e) PROVE TypeInv'
  <2>1. e \in Entry
    BY DEF After, TypeInv, TypeOK
  <2>2. e.sequence \in Nat /\ replica' \in [Rows -> Row]
    BY <1>3, <2>1 DEF Read, TypeInv, TypeOK, Entry
  <2>3. QED
    BY <1>3, <2>2 DEF Read, TypeInv, TypeOK, Versioned
<1>4. CASE Next
  BY <1>2, <1>3, <1>4, StepCases, StepTypes
<1>5. QED
  BY <1>1, <1>4

(* Type correctness: transactions, locks, rows and outbox entries are well *)
(* formed, and no entry is without a version (the NOT NULL column).        *)
THEOREM TypeCorrect == Spec => []TypeOK
<1>1. Spec => []TypeInv
  BY InitTypes, TypeStep, PTL DEF Spec
<1>2. TypeInv => TypeOK
  BY DEF TypeInv
<1>3. QED
  BY <1>1, <1>2, PTL

-----------------------------------------------------------------------------
(* Steps, by what they change *)

State == <<locks, work, stored, asserted, fence, sequence, outbox, cursor, replica>>

(* A statement sent, or one that finds no row, changes nothing but its own *)
(* transaction's state.                                                    *)
LEMMA QuietStep ==
  ASSUME TypeInv, NEW t \in Txns,
         Asked(t) \/ NoRow(t) \/ \E token \in Tokens : Assert(t, token)
  PROVE  /\ UNCHANGED State
         /\ \A u \in Txns : txn'[u].pending = txn[u].pending
         /\ \A u \in Txns \ {t} : txn'[u] = txn[u]
         /\ txn'[t].pc # "recording" /\ txn[t].pc # "recording"
<1>1. CASE NoRow(t)
  BY <1>1, DoneTypes DEF NoRow, Reaches, State
<1>2. ASSUME NEW r \in Rows, NEW wall \in Walls, NEW created \in Walls,
             Insert(t, r, wall, created)
      PROVE  /\ UNCHANGED State
             /\ txn'[t].pending = txn[t].pending
             /\ \A u \in Txns \ {t} : txn'[u] = txn[u]
             /\ txn'[t].pc # "recording" /\ txn[t].pc # "recording"
  <2>1. Inserted(wall, created) \in Row /\ Inserted(wall, created).version \in Stamp
    <3>1. Absent \in Row
      BY DEF Absent, Row, Version
    <3>2. QED
      BY <3>1, StampTypes, WallsAssumption
  <2>2. txn[t].token \in Nat /\ r \in Lockable
    BY DEF TypeInv, TypeOK, Txn, Lockable
  <2>3. txn[t].pc # "recording" /\ UNCHANGED State
    BY <1>2 DEF Insert, Issue, State
  <2>4. QED
    BY <1>2, <2>1, <2>2, <2>3, IssueTypes DEF Insert
<1>3. ASSUME NEW r \in Rows, NEW op \in {"update", "delete"}, UpdateOrDelete(t, r, op)
      PROVE  /\ UNCHANGED State
             /\ txn'[t].pending = txn[t].pending
             /\ \A u \in Txns \ {t} : txn'[u] = txn[u]
             /\ txn'[t].pc # "recording" /\ txn[t].pc # "recording"
  <2>1. txn[t].token \in Nat /\ r \in Lockable /\ Absent \in Row
    BY DEF TypeInv, TypeOK, Txn, Lockable, Absent, Row, Version
  <2>2. txn[t].pc # "recording" /\ UNCHANGED State
    BY <1>3 DEF UpdateOrDelete, Issue, State
  <2>3. QED
    BY <1>3, <2>1, <2>2, IssueTypes DEF UpdateOrDelete
<1>4. ASSUME NEW token \in Tokens, Assert(t, token)
      PROVE  /\ UNCHANGED State
             /\ txn'[t].pending = txn[t].pending
             /\ \A u \in Txns \ {t} : txn'[u] = txn[u]
             /\ txn'[t].pc # "recording" /\ txn[t].pc # "recording"
  <2>1. token \in Nat /\ "fence" \in Lockable /\ Absent \in Row
    BY TokensAssumption DEF Lockable, Absent, Row, Version
  <2>2. txn[t].pc # "recording" /\ UNCHANGED State
    BY <1>4 DEF Assert, Issue, State
  <2>3. QED
    BY <1>4, <2>1, <2>2, IssueTypes DEF Assert
<1>5. QED
  BY <1>1, <1>2, <1>3, <1>4 DEF Asked

(* A token that passes the fence.                                          *)
LEMMA PassedStep ==
  ASSUME TypeInv, NEW t \in Txns, Passed(t)
  PROVE  /\ asserted' = txn[t].token /\ asserted <= txn[t].token
         /\ locks' = [locks EXCEPT !["fence"] = t]
         /\ UNCHANGED <<work, stored, fence, sequence, outbox, cursor, replica>>
         /\ txn'[t].pc = "idle" /\ txn[t].pc = "locking" /\ txn[t].op = "fence"
         /\ txn'[t].token = txn[t].token /\ txn'[t].pending = txn[t].pending
         /\ \A u \in Txns \ {t} : txn'[u] = txn[u]
         /\ \A k \in Lockable : k # "fence" => locks'[k] = locks[k]
         /\ locks'["fence"] = t
<1>1. asserted \in Nat /\ txn[t].token \in Nat
  BY DEF TypeInv, TypeOK, Txn
<1>2. ~(asserted > txn[t].token)
  BY <1>1 DEF Passed
<1>3. /\ txn' = [txn EXCEPT ![t] = Idle(t)]
      /\ asserted' = txn[t].token /\ asserted <= txn[t].token
      /\ locks' = [locks EXCEPT !["fence"] = t]
      /\ UNCHANGED <<work, stored, fence, sequence, outbox, cursor, replica>>
      /\ txn[t].pc = "locking" /\ txn[t].op = "fence"
  BY <1>2 DEF Passed, Passes, Reaches
<1>4. "fence" \in Lockable /\ locks \in [Lockable -> Txns \cup {NoTxn}]
  BY DEF Lockable, TypeInv, TypeOK
<1>5. QED
  BY <1>3, <1>4, DoneTypes

(* The locks of a transaction that ends.                                   *)
LEMMA EndStep ==
  ASSUME TypeInv, NEW t \in Txns, End(t)
  PROVE  \A k \in Lockable : /\ locks[k] = t => locks'[k] = NoTxn
                             /\ locks[k] # t => locks'[k] = locks[k]
BY DEF End, Release

-----------------------------------------------------------------------------
(* The order of the outbox *)

(* Only the holder of the advisory lock has entries to commit, and they lie *)
(* after everything committed and after every cursor; no number is used     *)
(* twice.                                                                   *)
LogInv ==
  /\ \A e \in outbox : e.sequence <= sequence
  /\ cursor <= sequence
  /\ \A t \in Txns : txn[t].pending # {} => locks["outbox"] = t
  /\ \A t \in Txns : \A p \in txn[t].pending :
       /\ p.sequence <= sequence
       /\ cursor < p.sequence
       /\ \A e \in outbox : e.sequence < p.sequence
       /\ \A q \in txn[t].pending : p.sequence = q.sequence => p = q
  /\ \A e, f \in outbox : e.sequence = f.sequence => e = f

(* Every step keeps LogInv.                                                *)
LEMMA LogStep ==
  ASSUME TypeInv, LogInv, [Next]_vars
  PROVE  LogInv'
<1> USE DEF LogInv
<1>1. CASE UNCHANGED vars
  BY <1>1 DEF vars
<1>2. ASSUME NEW old \in SUBSET outbox, Prune(old) PROVE LogInv'
  BY <1>2 DEF Prune
<1>3. ASSUME NEW e \in After, Read(e) PROVE LogInv'
  BY <1>3 DEF Read, After
<1> DEFINE Num == /\ sequence \in Nat /\ cursor \in Nat
                  /\ \A e \in outbox : e.sequence \in Nat
                  /\ \A u \in Txns : \A p \in txn[u].pending : p.sequence \in Nat
<1>4. Num
  BY DEF TypeInv, TypeOK, Entry, Txn, Pending
<1>5. "outbox" \in Lockable /\ "outbox" # "fence" /\ "outbox" \notin Rows
  BY LockNamesAssumption DEF Lockable
<1>6. ASSUME NEW t \in Txns, StepOf(t) PROVE LogInv'
  <2>1. CASE Asked(t) \/ NoRow(t) \/ \E token \in Tokens : Assert(t, token)
    BY <2>1, QuietStep DEF State
  <2>2. CASE Passed(t)
    BY <2>2, <1>5, PassedStep
  <2>3. ASSUME NEW row \in Row, row.version \in Stamp, txn[t].on \in Rows, Put(t, row)
        PROVE  LogInv'
    <3>1. \A u \in Txns : txn'[u].pending = txn[u].pending
      BY <2>3, PutTypes
    <3>2. locks'["outbox"] = locks["outbox"]
      BY <2>3, <1>5 DEF Put
    <3>3. UNCHANGED <<sequence, cursor, outbox>>
      BY <2>3 DEF Put
    <3>4. QED
      BY <3>1, <3>2, <3>3
  <2>4. CASE Abort(t)
    <3>1. End(t) /\ UNCHANGED <<sequence, cursor, outbox>>
      BY <2>4 DEF Abort
    <3>2. txn'[t].pending = {} /\ \A u \in Txns \ {t} : txn'[u] = txn[u]
      BY <3>1, EndTypes
    <3>3. locks["outbox"] # t => locks'["outbox"] = locks["outbox"]
      BY <3>1, <1>5, EndStep
    <3>4. QED
      BY <3>1, <3>2, <3>3
  <2>5. CASE Commit(t)
    <3>1. End(t) /\ UNCHANGED <<sequence, cursor>> /\ outbox' = outbox \cup Added(t)
      BY <2>5, CommitTypes DEF Commit
    <3>2. txn'[t].pending = {} /\ \A u \in Txns \ {t} : txn'[u] = txn[u]
      BY <3>1, EndTypes
    <3>3. locks["outbox"] # t => locks'["outbox"] = locks["outbox"]
      BY <3>1, <1>5, EndStep
    <3>4. \A e \in Added(t) : \E p \in txn[t].pending :
             e.sequence = p.sequence /\ e.row = p.row /\ e.data = p.data /\ e.token = txn[t].token
      BY DEF Added
    <3>5. \A e, f \in Added(t) : e.sequence = f.sequence => e = f
      BY DEF Added
    <3>6. \A e \in Added(t) : e.sequence <= sequence /\ \A f \in outbox : f.sequence < e.sequence
      BY <3>4
    <3>7. \A u \in Txns \ {t} : txn[u].pending # {} => Added(t) = {}
      BY DEF Added
    <3>8. \A e, f \in outbox' : e.sequence = f.sequence => e = f
      <4> SUFFICES ASSUME NEW e \in outbox', NEW f \in outbox', e.sequence = f.sequence PROVE e = f
        OBVIOUS
      <4>1. CASE e \in outbox /\ f \in outbox
        BY <4>1
      <4>2. CASE e \in Added(t) /\ f \in Added(t)
        BY <4>2, <3>5
      <4>3. CASE e \in Added(t) /\ f \in outbox
        BY <4>3, <3>4, <3>6, <1>4
      <4>4. CASE e \in outbox /\ f \in Added(t)
        BY <4>4, <3>4, <3>6, <1>4
      <4>5. QED
        BY <3>1, <4>1, <4>2, <4>3, <4>4
    <3>9. QED
      BY <3>1, <3>2, <3>3, <3>6, <3>7, <3>8
  <2>6. CASE Record(t)
    <3>1. /\ txn'[t].pending = txn[t].pending \cup {Recorded(t)}
          /\ \A u \in Txns \ {t} : txn'[u] = txn[u]
      BY <2>6, RecordTypes
    <3>2. sequence' = sequence + 1 /\ UNCHANGED <<cursor, outbox>> /\ Free(t, "outbox")
      BY <2>6 DEF Record, RecordEntry
    <3>3. locks'["outbox"] = t
      BY <2>6, <1>5 DEF Record, TypeInv, TypeOK
    <3>4. Recorded(t).sequence = sequence + 1
      BY DEF Recorded
    <3>5. \A u \in Txns \ {t} : txn[u].pending = {}
      BY <3>2, NoTxnAssumption DEF Free
    <3>6. \A u \in Txns : txn'[u].pending # {} => locks'["outbox"] = u
      BY <3>1, <3>3, <3>5
    <3>7. \A p \in txn'[t].pending :
            /\ p.sequence <= sequence'
            /\ cursor' < p.sequence
            /\ \A e \in outbox' : e.sequence < p.sequence
            /\ \A q \in txn'[t].pending : p.sequence = q.sequence => p = q
      BY <1>4, <3>1, <3>2, <3>4
    <3>8. (\A e \in outbox' : e.sequence <= sequence') /\ cursor' <= sequence'
      BY <1>4, <3>2
    <3>9. QED
      BY <3>1, <3>2, <3>5, <3>6, <3>7, <3>8
  <2>7. QED
    BY <1>6, <2>1, <2>2, <2>3, <2>4, <2>5, <2>6 DEF StepOf
<1>7. CASE Next
  BY <1>2, <1>3, <1>6, <1>7, StepCases
<1>8. QED
  BY <1>1, <1>7

(* A commit appends to the outbox after every cursor that was ever read.   *)
THEOREM CommitsPastCursor == Spec => NothingBehindCursor
<1>1. Init => LogInv
  BY NoTxnAssumption DEF Init, LogInv
<1>2. Spec => [](TypeInv /\ LogInv)
  BY <1>1, InitTypes, TypeStep, LogStep, PTL DEF Spec
<1>3. ASSUME TypeInv, LogInv, [Next]_vars
      PROVE  [\A e \in outbox' \ outbox : e.sequence > cursor]_vars
  <2>1. ASSUME NEW t \in Txns, StepOf(t) PROVE \A e \in outbox' \ outbox : e.sequence > cursor
    <3>1. CASE Commit(t)
      <4>1. outbox' = outbox \cup Added(t)
        BY <1>3, <3>1, CommitTypes
      <4>2. \A e \in Added(t) : \E p \in txn[t].pending : e.sequence = p.sequence
        BY DEF Added
      <4>3. cursor \in Nat /\ \A p \in txn[t].pending : p.sequence \in Nat
        BY <1>3 DEF TypeInv, TypeOK, Txn, Pending
      <4>4. QED
        BY <1>3, <4>1, <4>2, <4>3 DEF LogInv
    <3>2. CASE ~Commit(t)
      <4>1. CASE Asked(t) \/ NoRow(t) \/ \E token \in Tokens : Assert(t, token)
        BY <1>3, <4>1, QuietStep DEF State
      <4>2. CASE Passed(t)
        BY <1>3, <4>2, PassedStep
      <4>3. QED
        BY <2>1, <3>2, <4>1, <4>2 DEF StepOf, Abort, Put, Record, RecordEntry
    <3>3. QED
      BY <3>1, <3>2
  <2>2. ASSUME NEW old \in SUBSET outbox, Prune(old) PROVE outbox' \subseteq outbox
    BY <2>2 DEF Prune
  <2>3. ASSUME NEW e \in After, Read(e) PROVE outbox' = outbox
    BY <2>3 DEF Read
  <2>4. QED
    BY <1>3, <2>1, <2>2, <2>3, StepCases
<1>4. QED
  BY <1>2, <1>3, PTL DEF Spec, NothingBehindCursor

-----------------------------------------------------------------------------
(* The fence *)

AtFence(t) == txn[t].pc = "locking" /\ txn[t].op = "fence"

(* A transaction whose token passed keeps the fence row to its end, and the *)
(* row never holds less than a committed token.                             *)
FenceInv ==
  /\ fence <= asserted
  /\ \A e \in outbox : e.token <= fence
  /\ \A t \in Txns : AtFence(t) => txn[t].on = "fence"
  /\ \A t \in Txns : txn[t].token > 0 /\ ~AtFence(t) =>
       locks["fence"] = t /\ asserted = txn[t].token
  /\ FencedCommits

(* What a statement sent or without effect means for the fence.            *)
LEMMA QuietFence ==
  ASSUME TypeInv, NEW t \in Txns,
         Asked(t) \/ NoRow(t) \/ \E token \in Tokens : Assert(t, token)
  PROVE  \/ ~AtFence(t) /\ ~AtFence(t)' /\ txn'[t].token = txn[t].token
         \/ AtFence(t)' /\ txn'[t].on = "fence"
<1> USE DEF AtFence
<1>1. CASE NoRow(t)
  BY <1>1, DoneTypes DEF NoRow, Reaches
<1>2. ASSUME NEW op \in {"insert", "update", "delete", "fence"}, NEW k \in Lockable,
             NEW new, NEW token, Issue(t, op, k, new, token)
      PROVE  /\ txn'[t].pc = "locking" /\ txn'[t].op = op /\ txn'[t].token = token
             /\ txn'[t].on = k /\ txn[t].pc = "idle"
  <2>1. txn[t] \in Txn /\ txn \in [Txns -> Txn]
    BY DEF TypeInv, TypeOK
  <2>2. txn'[t] = [txn[t] EXCEPT !.pc = "locking", !.op = op, !.on = k, !.new = new,
                                !.token = token, !.left = txn[t].left - 1]
    BY <1>2, <2>1 DEF Issue
  <2>3. QED
    BY <1>2, <2>1, <2>2 DEF Issue, Txn
<1>3. CASE Asked(t)
  BY <1>2, <1>3 DEF Asked, Insert, UpdateOrDelete, Lockable
<1>4. ASSUME NEW token \in Tokens, Assert(t, token)
      PROVE  AtFence(t)' /\ txn'[t].on = "fence"
  BY <1>2, <1>4 DEF Assert, Lockable
<1>5. QED
  BY <1>1, <1>3, <1>4

(* Every step keeps FenceInv.                                              *)
LEMMA FenceStep ==
  ASSUME TypeInv, LogInv, FenceInv, [Next]_vars
  PROVE  FenceInv'
<1> USE DEF FenceInv, FencedCommits, AtFence
<1>1. CASE UNCHANGED vars
  BY <1>1 DEF vars
<1>2. ASSUME NEW old \in SUBSET outbox, Prune(old) PROVE FenceInv'
  BY <1>2 DEF Prune
<1>3. ASSUME NEW e \in After, Read(e) PROVE FenceInv'
  BY <1>3 DEF Read
<1>4. /\ asserted \in Nat /\ fence \in Nat /\ \A u \in Txns : txn[u].token \in Nat
      /\ \A e \in outbox : e.token \in Nat /\ e.sequence \in Nat
      /\ \A u \in Txns : \A p \in txn[u].pending : p.sequence \in Nat
  BY DEF TypeInv, TypeOK, Entry, Txn, Pending
<1>5. "fence" \in Lockable /\ "outbox" # "fence" /\ "fence" \notin Rows /\ NoTxn \notin Txns
  BY LockNamesAssumption, NoTxnAssumption DEF Lockable
<1>6. ASSUME NEW t \in Txns, StepOf(t) PROVE FenceInv'
  <2>1. CASE Asked(t) \/ NoRow(t) \/ \E token \in Tokens : Assert(t, token)
    BY <2>1, QuietStep, QuietFence DEF State
  <2>2. CASE Passed(t)
    <3>1. locks["fence"] \in {NoTxn, t}
      BY <2>2 DEF Passed, Reaches, Free
    <3>2. fence <= asserted' /\ fence' = fence /\ outbox' = outbox
      BY <2>2, <1>4, PassedStep
    <3>3. \A u \in Txns \ {t} : txn[u].token > 0 => AtFence(u)
      BY <3>1, <1>5
    <3>4. \A u \in Txns : AtFence(u)' => txn'[u].on = "fence"
      BY <2>2, PassedStep
    <3>5. \A u \in Txns : txn'[u].token > 0 /\ ~AtFence(u)' =>
            locks'["fence"] = u /\ asserted' = txn'[u].token
      BY <2>2, <3>3, PassedStep
    <3>6. QED
      BY <3>2, <3>4, <3>5
  <2>3. ASSUME NEW row \in Row, row.version \in Stamp, txn[t].on \in Rows, Put(t, row)
        PROVE  FenceInv'
    <3>1. locks'["fence"] = locks["fence"] /\ UNCHANGED <<asserted, fence, outbox>>
      BY <2>3, <1>5 DEF Put
    <3>2. ~AtFence(t)
      BY <2>3, <1>5
    <3>3. QED
      BY <2>3, <3>1, <3>2, PutTypes
  <2>4. CASE Abort(t)
    <3>1. End(t) /\ UNCHANGED <<fence, outbox>>
      BY <2>4 DEF Abort
    <3>2. txn'[t].pc = "ended" /\ txn'[t].token = 0 /\ \A u \in Txns \ {t} : txn'[u] = txn[u]
      BY <3>1, EndTypes
    <3>3. locks["fence"] # t => locks'["fence"] = locks["fence"] /\ asserted' = asserted
      BY <2>4, <3>1, <1>5, EndStep DEF Abort
    <3>4. fence' <= asserted'
      BY <2>4, <1>4 DEF Abort
    <3>5. \A u \in Txns \ {t} : txn[u].token > 0 /\ ~AtFence(u) => locks["fence"] # t
      OBVIOUS
    <3>6. QED
      BY <3>1, <3>2, <3>3, <3>4, <3>5
  <2>5. CASE Commit(t)
    <3>1. End(t) /\ asserted' = asserted /\ outbox' = outbox \cup Added(t) /\ txn[t].pc = "idle"
      BY <2>5, CommitTypes DEF Commit
    <3>2. txn'[t].pc = "ended" /\ txn'[t].token = 0 /\ \A u \in Txns \ {t} : txn'[u] = txn[u]
      BY <3>1, EndTypes
    <3>3. locks["fence"] # t => locks'["fence"] = locks["fence"]
      BY <3>1, <1>5, EndStep
    <3>4. fence' = IF locks["fence"] = t THEN asserted ELSE fence
      BY <2>5 DEF Commit
    <3>5. fence <= fence' /\ fence' <= asserted' /\ txn[t].token <= fence'
      BY <1>4, <3>1, <3>4
    <3>6. \A e \in Added(t) : \E p \in txn[t].pending : e.sequence = p.sequence /\ e.token = txn[t].token
      BY DEF Added
    <3>7. \A e \in outbox' : e.token <= fence'
      <4>1. \A e \in outbox : e.token <= fence'
        BY <1>4, <3>4, <3>5
      <4>2. \A e \in Added(t) : e.token <= fence'
        BY <3>5, <3>6
      <4>3. QED
        BY <3>1, <4>1, <4>2
    <3>8. \A e, f \in outbox' :
            e.sequence < f.sequence /\ e.token > 0 /\ f.token > 0 => e.token <= f.token
      <4> SUFFICES ASSUME NEW e \in outbox', NEW f \in outbox',
                          e.sequence < f.sequence, e.token > 0, f.token > 0
                   PROVE  e.token <= f.token
        OBVIOUS
      <4>1. CASE e \in outbox /\ f \in outbox
        BY <4>1
      <4>2. CASE e \in Added(t) /\ f \in Added(t)
        BY <1>4, <4>2, <3>6
      <4>3. CASE e \in outbox /\ f \in Added(t)
        <5>1. f.token = txn[t].token /\ asserted = txn[t].token
          BY <3>1, <3>6, <4>3
        <5>2. e.token <= fence /\ fence <= asserted
          BY <4>3
        <5>3. QED
          BY <1>4, <4>3, <5>1, <5>2
      <4>4. CASE e \in Added(t) /\ f \in outbox
        <5>1. f.sequence < e.sequence
          BY <3>6, <4>4 DEF LogInv
        <5>2. e.sequence \in Nat /\ f.sequence \in Nat
          BY <1>4, <3>6, <4>4
        <5>3. QED
          BY <5>1, <5>2
      <4>5. QED
        BY <3>1, <4>1, <4>2, <4>3, <4>4
    <3>9. \A u \in Txns : txn'[u].token > 0 /\ ~AtFence(u)' =>
            locks'["fence"] = u /\ asserted' = txn'[u].token
      BY <3>1, <3>2, <3>3
    <3>10. \A u \in Txns : AtFence(u)' => txn'[u].on = "fence"
      BY <3>2
    <3>11. QED
      BY <3>5, <3>7, <3>8, <3>9, <3>10
  <2>6. CASE Record(t)
    <3>1. locks'["fence"] = locks["fence"] /\ UNCHANGED <<asserted, fence, outbox>>
      BY <2>6, <1>5 DEF Record, RecordEntry
    <3>2. txn[t].pc = "recording"
      BY <2>6 DEF Record
    <3>3. QED
      BY <2>6, <3>1, <3>2, RecordTypes
  <2>7. QED
    BY <1>6, <2>1, <2>2, <2>3, <2>4, <2>5, <2>6 DEF StepOf
<1>7. CASE Next
  BY <1>2, <1>3, <1>6, <1>7, StepCases
<1>8. QED
  BY <1>1, <1>7

(* Fenced transactions commit in the order of their tokens.                *)
THEOREM CommitsInTokenOrder == Spec => []FencedCommits
<1>1. Init => LogInv /\ FenceInv
  BY NoTxnAssumption DEF Init, LogInv, FenceInv, FencedCommits, AtFence
<1>2. Spec => [](TypeInv /\ LogInv /\ FenceInv)
  BY <1>1, InitTypes, TypeStep, LogStep, FenceStep, PTL DEF Spec
<1>3. FenceInv => FencedCommits
  BY DEF FenceInv
<1>4. QED
  BY <1>2, <1>3, PTL

-----------------------------------------------------------------------------
(* The order of a row's versions *)

(* d was the row's state before w: an earlier life, or an older version.   *)
Earlier(d, w) ==
  \/ d.life < w.life
  \/ /\ d.life = w.life
     /\ d.live
     /\ HlcLess(d.version, w.version)
     /\ w.live => d.updated_at < w.updated_at

(* A version's milliseconds are those of updated_at.                       *)
Dated(d) ==
  d.version # NullVersion => d.version.wall_ms = d.updated_at \div MICROS_PER_MS

(* Earlier is transitive.                                                  *)
LEMMA EarlierTransitive ==
  ASSUME NEW a \in Row, NEW b \in Row, NEW c \in Row,
         a = b \/ Earlier(a, b), Earlier(b, c)
  PROVE  Earlier(a, c)
<1>1. \A x \in {a, b, c} : /\ x.life \in Nat /\ x.updated_at \in Nat /\ x.live \in BOOLEAN
                         /\ x.version.wall_ms \in Int /\ x.version.counter \in Int
                         /\ x.version.actor \in Int
  BY DEF Row, Version, Stamp, NullVersion
<1>2. CASE a = b
  BY <1>2
<1>3. CASE Earlier(a, b)
  <2>1. HlcLess(a.version, b.version) /\ HlcLess(b.version, c.version) => HlcLess(a.version, c.version)
    BY <1>1 DEF HlcLess
  <2>2. QED
    BY <1>1, <1>3, <2>1 DEF Earlier
<1>4. QED
  BY <1>2, <1>3

(* What a statement makes of a row comes after what it found.              *)
LEMMA BecomesLater ==
  ASSUME NEW old \in Row, NEW row \in Row, Dated(old),
         \/ row.life = old.life + 1
         \/ old.live /\ \E wall \in Walls : row = Updated(old, wall)
         \/ old.live /\ old.version # NullVersion /\ row = Tombstone(old)
  PROVE  /\ Earlier(old, row)
         /\ ~(row.life = old.life + 1) => Dated(row)
<1>1. /\ old.life \in Nat /\ old.updated_at \in Nat /\ old.live \in BOOLEAN
      /\ old.version \in Version
  BY DEF Row
<1>2. CASE row.life = old.life + 1
  BY <1>1, <1>2 DEF Earlier
<1>3. ASSUME old.live, NEW wall \in Walls, row = Updated(old, wall)
      PROVE  Earlier(old, row) /\ Dated(row)
  <2> DEFINE u == HlcMax(wall, old.updated_at + 1)
             v == NextHlc(old.version, u)
  <2>1. u \in Nat /\ old.updated_at < u
    BY <1>1, WallsAssumption DEF HlcMax
  <2>2. row.updated_at = u /\ row.version = v /\ row.life = old.life /\ row.live = old.live
    BY <1>3 DEF Updated, Row
  <2>3. /\ u \div MICROS_PER_MS \in Nat
        /\ old.updated_at \div MICROS_PER_MS <= u \div MICROS_PER_MS
        /\ old.updated_at \div MICROS_PER_MS \in Nat
    BY <1>1, <2>1, MillisMonotone
  <2>4. v.wall_ms = u \div MICROS_PER_MS
    BY DEF NextHlc
  <2>5. old.version.wall_ms <= v.wall_ms /\ old.version.wall_ms \in Int
    <3>1. CASE old.version = NullVersion
      BY <2>3, <2>4, <3>1 DEF NullVersion
    <3>2. CASE old.version # NullVersion
      BY <1>1, <2>3, <2>4, <3>2 DEF Dated
    <3>3. QED
      BY <3>1, <3>2
  <2>6. old.version.wall_ms = v.wall_ms => v.counter = old.version.counter + 1
    BY DEF NextHlc
  <2>7. old.version.counter \in Nat /\ v.wall_ms \in Int
    BY <1>1, <2>3, <2>4 DEF Version, Stamp, NullVersion
  <2>8. HlcLess(old.version, v)
    BY <2>5, <2>6, <2>7 DEF HlcLess
  <2> HIDE DEF u, v
  <2>9. QED
    BY <1>3, <2>1, <2>2, <2>4, <2>8 DEF Earlier, Dated
<1>4. ASSUME old.live, old.version # NullVersion, row = Tombstone(old)
      PROVE  Earlier(old, row) /\ Dated(row)
  <2> DEFINE v == [old.version EXCEPT !.counter = @ + 1]
  <2>1. old.version \in Stamp
    BY <1>1, <1>4 DEF Version
  <2>2. v.wall_ms = old.version.wall_ms /\ v.counter = old.version.counter + 1 /\ old.version.counter \in Nat
    BY <2>1 DEF Stamp
  <2>3. row = [old EXCEPT !.live = FALSE, !.version = v]
    BY <1>4 DEF Tombstone
  <2>4. HlcLess(old.version, v)
    BY <2>1, <2>2 DEF HlcLess, Stamp
  <2> HIDE DEF v
  <2>5. row.version = v /\ row.life = old.life /\ ~row.live /\ row.updated_at = old.updated_at
    BY <2>3 DEF Row
  <2>6. QED
    BY <1>4, <2>2, <2>4, <2>5 DEF Earlier, Dated
<1>5. QED
  BY <1>2, <1>3, <1>4

AtMost(d, w) == d = w \/ Earlier(d, w)

(* Along a row's lock, its states and their entries are in one order.      *)
EditInv ==
  /\ \A r \in Rows : /\ AtMost(stored[r], work[r])
                     /\ Dated(stored[r]) /\ Dated(work[r])
                     /\ locks[r] = NoTxn => work[r] = stored[r]
  /\ \A t \in Txns : txn[t].pc = "locking" /\ txn[t].op = "insert" => Dated(txn[t].new)
  /\ \A e \in outbox : AtMost(e.data, stored[e.row])
  /\ \A t \in Txns : \A p \in txn[t].pending :
       /\ locks[p.row] = t
       /\ AtMost(p.data, work[p.row])
       /\ \A e \in outbox : e.row = p.row => Earlier(e.data, p.data)
       /\ \A q \in txn[t].pending : p.row = q.row /\ p.sequence < q.sequence => Earlier(p.data, q.data)
  /\ \A t \in Txns : txn[t].pc = "recording" =>
       /\ locks[txn[t].on] = t
       /\ txn[t].new = work[txn[t].on]
       /\ \A e \in outbox : e.row = txn[t].on => Earlier(e.data, txn[t].new)
       /\ \A p \in txn[t].pending : p.row = txn[t].on => Earlier(p.data, txn[t].new)
  /\ \A e, f \in outbox : e.row = f.row /\ e.sequence < f.sequence => Earlier(e.data, f.data)

(* The row a statement would insert is dated.                              *)
LEMMA QuietDated ==
  ASSUME TypeInv, EditInv, NEW t \in Txns,
         Asked(t) \/ NoRow(t) \/ \E token \in Tokens : Assert(t, token)
  PROVE  txn'[t].pc = "locking" /\ txn'[t].op = "insert" => Dated(txn'[t].new)
<1>1. CASE NoRow(t)
  BY <1>1, DoneTypes DEF NoRow
<1>2. ASSUME NEW op \in {"insert", "update", "delete", "fence"}, NEW k \in Lockable,
             NEW new, NEW token, Issue(t, op, k, new, token)
      PROVE  txn'[t].op = op /\ txn'[t].new = new
  <2>1. txn[t] \in Txn /\ txn \in [Txns -> Txn]
    BY DEF TypeInv, TypeOK
  <2>2. txn'[t] = [txn[t] EXCEPT !.pc = "locking", !.op = op, !.on = k, !.new = new,
                                !.token = token, !.left = txn[t].left - 1]
    BY <1>2, <2>1 DEF Issue
  <2>3. QED
    BY <1>2, <2>1, <2>2 DEF Txn
<1>3. ASSUME NEW r \in Rows, NEW wall \in Walls, NEW created \in Walls,
             Insert(t, r, wall, created)
      PROVE  Dated(txn'[t].new)
  <2>1. Inserted(wall, created).version.wall_ms
          = Inserted(wall, created).updated_at \div MICROS_PER_MS
    BY DEF Inserted, NextHlc, Absent
  <2>2. txn'[t].new = Inserted(wall, created)
    BY <1>2, <1>3 DEF Insert, Lockable
  <2>3. QED
    BY <2>1, <2>2 DEF Dated
<1>4. ASSUME NEW r \in Rows, NEW op \in {"update", "delete"}, UpdateOrDelete(t, r, op)
      PROVE  txn'[t].op # "insert"
  BY <1>2, <1>4 DEF UpdateOrDelete, Lockable
<1>5. ASSUME NEW token \in Tokens, Assert(t, token)
      PROVE  txn'[t].op # "insert"
  BY <1>2, <1>5 DEF Assert, Lockable
<1>6. QED
  BY <1>1, <1>3, <1>4, <1>5 DEF Asked

(* A statement's effect keeps EditInv.                                     *)
LEMMA PutKeepsOrder ==
  ASSUME TypeInv, EditInv, NEW t \in Txns, txn[t].on \in Rows, NEW row \in Row,
         row.version \in Stamp, Becomes(t, row), Put(t, row)
  PROVE  EditInv'
<1> DEFINE r == txn[t].on
           old == work[r]
<1>1. old \in Row /\ txn[t].new \in Row
  BY DEF TypeInv, TypeOK, Txn
<1>2. Dated(old)
  BY DEF EditInv
<1>3. /\ \/ row.life = old.life + 1
         \/ old.live /\ \E wall \in Walls : row = Updated(old, wall)
         \/ old.live /\ old.version # NullVersion /\ row = Tombstone(old)
      /\ row.life = old.life + 1 => Dated(row)
  <2>1. CASE txn[t].op = "insert"
    <3>1. row = [txn[t].new EXCEPT !.life = old.life + 1]
      BY <2>1 DEF Becomes
    <3>2. row.life = old.life + 1 /\ row.version = txn[t].new.version /\ row.updated_at = txn[t].new.updated_at
      BY <1>1, <3>1 DEF Row
    <3>3. Dated(txn[t].new)
      BY <2>1 DEF EditInv, Becomes
    <3>4. QED
      BY <3>2, <3>3 DEF Dated
  <2>2. CASE txn[t].op # "insert"
    <3>1. \/ old.live /\ \E wall \in Walls : row = Updated(old, wall)
          \/ old.live /\ old.version # NullVersion /\ row = Tombstone(old)
      BY <2>2 DEF Becomes
    <3>2. row.life = old.life
      BY <1>1, <3>1 DEF Updated, Tombstone, Row
    <3>3. QED
      BY <1>1, <3>1, <3>2 DEF Row
  <2>3. QED
    BY <2>1, <2>2
<1>4. Earlier(old, row) /\ Dated(row)
  BY <1>1, <1>2, <1>3, BecomesLater
<1>5. /\ work' = [work EXCEPT ![r] = row]
      /\ locks' = [locks EXCEPT ![r] = t]
      /\ UNCHANGED <<stored, outbox>>
  BY DEF Put
<1>6. /\ work'[r] = row /\ locks'[r] = t
      /\ \A s \in Rows \ {r} : work'[s] = work[s] /\ locks'[s] = locks[s]
  BY <1>5 DEF TypeInv, TypeOK, Lockable
<1>7. /\ txn'[t].pc = "recording" /\ txn'[t].on = r /\ txn'[t].new = row
      /\ \A u \in Txns : txn'[u].pending = txn[u].pending
      /\ \A u \in Txns \ {t} : txn'[u] = txn[u]
  BY PutTypes
<1>8. locks[r] \in {NoTxn, t}
  BY DEF Becomes, Free
<1>9. ASSUME NEW d \in Row, AtMost(d, old) PROVE Earlier(d, row)
  BY <1>1, <1>4, <1>9, EarlierTransitive DEF AtMost
<1>10. \A u \in Txns : txn[u].pending \subseteq Pending
  BY DEF TypeInv, TypeOK, Txn
<1>11. outbox \subseteq Entry /\ stored \in [Rows -> Row]
  BY DEF TypeInv, TypeOK
<1>12. \A s \in Rows : /\ AtMost(stored'[s], work'[s]) /\ Dated(stored'[s]) /\ Dated(work'[s])
                       /\ locks'[s] = NoTxn => work'[s] = stored'[s]
  <2> TAKE s \in Rows
  <2>1. CASE s = r
    BY <1>4, <1>5, <1>6, <1>9, <1>11, <2>1, NoTxnAssumption DEF EditInv, AtMost
  <2>2. CASE s # r
    BY <1>5, <1>6, <2>2 DEF EditInv
  <2>3. QED
    BY <2>1, <2>2
<1>13. \A e \in outbox : e.row = r => Earlier(e.data, row)
  <2> SUFFICES ASSUME NEW e \in outbox, e.row = r PROVE Earlier(e.data, row)
    OBVIOUS
  <2>1. e.data \in Row /\ AtMost(e.data, stored[r]) /\ AtMost(stored[r], old) /\ stored[r] \in Row
    BY <1>11 DEF EditInv, Entry
  <2>2. AtMost(e.data, old)
    BY <1>1, <2>1, EarlierTransitive DEF AtMost
  <2>3. QED
    BY <1>9, <2>1, <2>2
<1>14. \A u \in Txns : \A p \in txn[u].pending : p.row = r => u = t /\ Earlier(p.data, row)
  <2> SUFFICES ASSUME NEW u \in Txns, NEW p \in txn[u].pending, p.row = r
               PROVE  u = t /\ Earlier(p.data, row)
    OBVIOUS
  <2>1. locks[r] = u /\ AtMost(p.data, old)
    BY DEF EditInv
  <2>2. p.data \in Row
    BY <1>10 DEF Pending
  <2>3. QED
    BY <1>8, <1>9, <2>1, <2>2, NoTxnAssumption
<1>15. \A u \in Txns : \A p \in txn'[u].pending :
          /\ locks'[p.row] = u
          /\ AtMost(p.data, work'[p.row])
          /\ \A e \in outbox' : e.row = p.row => Earlier(e.data, p.data)
          /\ \A q \in txn'[u].pending : p.row = q.row /\ p.sequence < q.sequence => Earlier(p.data, q.data)
  <2> SUFFICES ASSUME NEW u \in Txns, NEW p \in txn[u].pending
               PROVE  /\ locks'[p.row] = u
                      /\ AtMost(p.data, work'[p.row])
                      /\ \A e \in outbox : e.row = p.row => Earlier(e.data, p.data)
                      /\ \A q \in txn[u].pending :
                            p.row = q.row /\ p.sequence < q.sequence => Earlier(p.data, q.data)
    BY <1>5, <1>7
  <2>1. p.row \in Rows
    BY <1>10 DEF Pending
  <2>2. locks[p.row] = u /\ AtMost(p.data, work[p.row])
    BY DEF EditInv
  <2>3. locks'[p.row] = u /\ AtMost(p.data, work'[p.row])
    <3>1. CASE p.row = r
      BY <1>6, <1>14, <3>1 DEF AtMost
    <3>2. CASE p.row # r
      BY <1>6, <2>1, <2>2, <3>2
    <3>3. QED
      BY <3>1, <3>2
  <2>4. QED
    BY <2>3 DEF EditInv
<1>16. \A u \in Txns : txn'[u].pc = "recording" =>
          /\ locks'[txn'[u].on] = u
          /\ txn'[u].new = work'[txn'[u].on]
          /\ \A e \in outbox' : e.row = txn'[u].on => Earlier(e.data, txn'[u].new)
          /\ \A p \in txn'[u].pending : p.row = txn'[u].on => Earlier(p.data, txn'[u].new)
  <2> SUFFICES ASSUME NEW u \in Txns, txn'[u].pc = "recording"
               PROVE  /\ locks'[txn'[u].on] = u
                      /\ txn'[u].new = work'[txn'[u].on]
                      /\ \A e \in outbox : e.row = txn'[u].on => Earlier(e.data, txn'[u].new)
                      /\ \A p \in txn[u].pending : p.row = txn'[u].on => Earlier(p.data, txn'[u].new)
    BY <1>5, <1>7
  <2>1. CASE u = t
    BY <1>6, <1>7, <1>13, <1>14, <2>1
  <2>2. CASE u # t
    <3>1. txn'[u] = txn[u] /\ txn[u].on \in Rows /\ locks[txn[u].on] = u
      BY <1>7, <2>2 DEF EditInv, TypeInv, Versioned
    <3>2. txn[u].on # r
      BY <1>8, <2>2, <3>1, NoTxnAssumption
    <3>3. locks'[txn[u].on] = u /\ work'[txn[u].on] = work[txn[u].on]
      BY <1>6, <3>1, <3>2
    <3>4. QED
      BY <3>1, <3>3 DEF EditInv
  <2>3. QED
    BY <2>1, <2>2
<1>17. \A u \in Txns : txn'[u].pc = "locking" /\ txn'[u].op = "insert" => Dated(txn'[u].new)
  BY <1>7 DEF EditInv
<1>18. \A e \in outbox' : AtMost(e.data, stored'[e.row])
  BY <1>5 DEF EditInv
<1>19. \A e, f \in outbox' : e.row = f.row /\ e.sequence < f.sequence => Earlier(e.data, f.data)
  BY <1>5 DEF EditInv
<1>20. QED
  BY <1>12, <1>15, <1>16, <1>17, <1>18, <1>19 DEF EditInv

(* A rollback keeps EditInv.                                               *)
LEMMA AbortKeepsOrder ==
  ASSUME TypeInv, EditInv, NEW t \in Txns, Abort(t)
  PROVE  EditInv'
<1>1. End(t) /\ UNCHANGED <<stored, outbox>>
  BY DEF Abort
<1>2. \A r \in Rows : work'[r] = IF locks[r] = t THEN stored[r] ELSE work[r]
  BY DEF Abort
<1>3. /\ txn'[t].pc = "ended" /\ txn'[t].pending = {}
      /\ \A u \in Txns \ {t} : txn'[u] = txn[u]
  BY <1>1, EndTypes
<1>4. \A r \in Rows : /\ locks[r] = t => locks'[r] = NoTxn
                      /\ locks[r] # t => locks'[r] = locks[r]
  BY <1>1, EndStep DEF Lockable
<1>5. \A r \in Rows : /\ AtMost(stored'[r], work'[r]) /\ Dated(stored'[r]) /\ Dated(work'[r])
                      /\ locks'[r] = NoTxn => work'[r] = stored'[r]
  <2> TAKE r \in Rows
  <2>1. CASE locks[r] = t
    BY <1>1, <1>2, <2>1 DEF EditInv, AtMost
  <2>2. CASE locks[r] # t
    BY <1>1, <1>2, <1>4, <2>2 DEF EditInv
  <2>3. QED
    BY <2>1, <2>2
<1>6. ASSUME NEW u \in Txns \ {t}, NEW r \in Rows, locks[r] = u
      PROVE  locks'[r] = u /\ work'[r] = work[r]
  BY <1>2, <1>4, <1>6
<1>7. \A u \in Txns : \A p \in txn[u].pending : p.row \in Rows
  BY DEF TypeInv, TypeOK, Txn, Pending
<1>8. \A u \in Txns : \A p \in txn'[u].pending :
         /\ locks'[p.row] = u
         /\ AtMost(p.data, work'[p.row])
         /\ \A e \in outbox' : e.row = p.row => Earlier(e.data, p.data)
         /\ \A q \in txn'[u].pending : p.row = q.row /\ p.sequence < q.sequence => Earlier(p.data, q.data)
  <2> TAKE u \in Txns
  <2>1. CASE u = t
    BY <1>3, <2>1
  <2>2. CASE u # t
    BY <1>1, <1>3, <1>6, <1>7, <2>2 DEF EditInv
  <2>3. QED
    BY <2>1, <2>2
<1>9. \A u \in Txns : txn'[u].pc = "recording" =>
         /\ locks'[txn'[u].on] = u
         /\ txn'[u].new = work'[txn'[u].on]
         /\ \A e \in outbox' : e.row = txn'[u].on => Earlier(e.data, txn'[u].new)
         /\ \A p \in txn'[u].pending : p.row = txn'[u].on => Earlier(p.data, txn'[u].new)
  <2> TAKE u \in Txns
  <2>1. CASE u = t
    BY <1>3, <2>1
  <2>2. CASE u # t
    <3>1. txn'[u] = txn[u] /\ (txn[u].pc = "recording" => txn[u].on \in Rows)
      BY <1>3, <2>2 DEF TypeInv, Versioned
    <3>2. QED
      BY <1>1, <1>6, <2>2, <3>1 DEF EditInv
  <2>3. QED
    BY <2>1, <2>2
<1>10. \A u \in Txns : txn'[u].pc = "locking" /\ txn'[u].op = "insert" => Dated(txn'[u].new)
  BY <1>3 DEF EditInv
<1>11. QED
  BY <1>1, <1>5, <1>8, <1>9, <1>10 DEF EditInv

(* A commit keeps EditInv.                                                 *)
LEMMA CommitKeepsOrder ==
  ASSUME TypeInv, LogInv, EditInv, NEW t \in Txns, Commit(t)
  PROVE  EditInv'
<1>1. End(t) /\ work' = work /\ outbox' = outbox \cup Added(t)
  BY CommitTypes DEF Commit
<1>2. \A r \in Rows : stored'[r] = IF locks[r] = t THEN work[r] ELSE stored[r]
  BY DEF Commit
<1>3. /\ txn'[t].pc = "ended" /\ txn'[t].pending = {}
      /\ \A u \in Txns \ {t} : txn'[u] = txn[u]
  BY <1>1, EndTypes
<1>4. \A r \in Rows : /\ locks[r] = t => locks'[r] = NoTxn
                      /\ locks[r] # t => locks'[r] = locks[r]
  BY <1>1, EndStep DEF Lockable
<1>5. \A e \in Added(t) : \E p \in txn[t].pending :
         e.sequence = p.sequence /\ e.row = p.row /\ e.data = p.data
  BY DEF Added
<1>6. \A u \in Txns : \A p \in txn[u].pending :
         p.row \in Rows /\ p.data \in Row /\ p.sequence \in Nat
  BY DEF TypeInv, TypeOK, Txn, Pending
<1>7. \A e \in outbox : e.row \in Rows /\ e.data \in Row /\ e.sequence \in Nat
  BY DEF TypeInv, TypeOK, Entry
<1>8. work \in [Rows -> Row] /\ stored \in [Rows -> Row]
  BY DEF TypeInv, TypeOK
<1>9. \A r \in Rows : /\ AtMost(stored'[r], work'[r]) /\ Dated(stored'[r]) /\ Dated(work'[r])
                      /\ locks'[r] = NoTxn => work'[r] = stored'[r]
  <2> TAKE r \in Rows
  <2>1. CASE locks[r] = t
    BY <1>1, <1>2, <2>1 DEF EditInv, AtMost
  <2>2. CASE locks[r] # t
    BY <1>1, <1>2, <1>4, <2>2 DEF EditInv
  <2>3. QED
    BY <2>1, <2>2
<1>10. \A e \in outbox' : AtMost(e.data, stored'[e.row])
  <2> SUFFICES ASSUME NEW e \in outbox' PROVE AtMost(e.data, stored'[e.row])
    OBVIOUS
  <2>1. CASE e \in outbox
    <3>1. AtMost(e.data, stored[e.row]) /\ AtMost(stored[e.row], work[e.row])
      BY <1>7, <2>1 DEF EditInv
    <3>2. AtMost(e.data, work[e.row])
      BY <1>7, <1>8, <2>1, <3>1, EarlierTransitive DEF AtMost
    <3>3. QED
      BY <1>2, <1>7, <2>1, <3>1, <3>2
  <2>2. CASE e \in Added(t)
    <3>1. PICK p \in txn[t].pending : e.row = p.row /\ e.data = p.data
      BY <1>5, <2>2
    <3>2. QED
      BY <1>2, <1>6, <3>1 DEF EditInv
  <2>3. QED
    BY <1>1, <2>1, <2>2
<1>11. \A e \in Added(t) : locks[e.row] = t
  BY <1>5 DEF EditInv
<1>12. \A u \in Txns : \A p \in txn'[u].pending :
         /\ locks'[p.row] = u
         /\ AtMost(p.data, work'[p.row])
         /\ \A e \in outbox' : e.row = p.row => Earlier(e.data, p.data)
         /\ \A q \in txn'[u].pending : p.row = q.row /\ p.sequence < q.sequence => Earlier(p.data, q.data)
  <2> SUFFICES ASSUME NEW u \in Txns, NEW p \in txn'[u].pending
               PROVE  /\ locks'[p.row] = u
                      /\ AtMost(p.data, work'[p.row])
                      /\ \A e \in outbox' : e.row = p.row => Earlier(e.data, p.data)
                      /\ \A q \in txn'[u].pending :
                            p.row = q.row /\ p.sequence < q.sequence => Earlier(p.data, q.data)
    OBVIOUS
  <2>1. u # t /\ txn'[u] = txn[u]
    BY <1>3
  <2>2. locks[p.row] = u /\ p.row \in Rows
    BY <1>6, <2>1 DEF EditInv
  <2>3. \A e \in outbox' : e.row = p.row => e \in outbox
    BY <1>1, <1>11, <2>1, <2>2
  <2>4. QED
    BY <1>1, <1>4, <2>1, <2>2, <2>3 DEF EditInv
<1>13. \A u \in Txns : txn'[u].pc = "recording" =>
         /\ locks'[txn'[u].on] = u
         /\ txn'[u].new = work'[txn'[u].on]
         /\ \A e \in outbox' : e.row = txn'[u].on => Earlier(e.data, txn'[u].new)
         /\ \A p \in txn'[u].pending : p.row = txn'[u].on => Earlier(p.data, txn'[u].new)
  <2> SUFFICES ASSUME NEW u \in Txns, txn'[u].pc = "recording"
               PROVE  /\ locks'[txn'[u].on] = u
                      /\ txn'[u].new = work'[txn'[u].on]
                      /\ \A e \in outbox' : e.row = txn'[u].on => Earlier(e.data, txn'[u].new)
                      /\ \A p \in txn'[u].pending : p.row = txn'[u].on => Earlier(p.data, txn'[u].new)
    OBVIOUS
  <2>1. u # t /\ txn'[u] = txn[u]
    BY <1>3
  <2>2. locks[txn[u].on] = u /\ txn[u].on \in Rows
    BY <2>1 DEF EditInv, TypeInv, Versioned
  <2>3. \A e \in outbox' : e.row = txn[u].on => e \in outbox
    BY <1>1, <1>11, <2>1, <2>2
  <2>4. QED
    BY <1>1, <1>4, <2>1, <2>2, <2>3 DEF EditInv
<1>14. \A u \in Txns : txn'[u].pc = "locking" /\ txn'[u].op = "insert" => Dated(txn'[u].new)
  BY <1>3 DEF EditInv
<1>15. \A e, f \in outbox' : e.row = f.row /\ e.sequence < f.sequence => Earlier(e.data, f.data)
  <2> SUFFICES ASSUME NEW e \in outbox', NEW f \in outbox', e.row = f.row, e.sequence < f.sequence
               PROVE  Earlier(e.data, f.data)
    OBVIOUS
  <2>1. CASE e \in outbox /\ f \in outbox
    BY <2>1 DEF EditInv
  <2>2. CASE f \in Added(t)
    <3>1. PICK q \in txn[t].pending : f.sequence = q.sequence /\ f.row = q.row /\ f.data = q.data
      BY <1>5, <2>2
    <3>2. CASE e \in outbox
      BY <3>1, <3>2 DEF EditInv
    <3>3. CASE e \in Added(t)
      <4>1. PICK p \in txn[t].pending : e.sequence = p.sequence /\ e.row = p.row /\ e.data = p.data
        BY <1>5, <3>3
      <4>2. QED
        BY <3>1, <4>1 DEF EditInv
    <3>4. QED
      BY <1>1, <3>2, <3>3
  <2>3. CASE e \in Added(t) /\ f \in outbox
    <3>1. PICK p \in txn[t].pending : e.sequence = p.sequence
      BY <1>5, <2>3
    <3>2. f.sequence < e.sequence /\ f.sequence \in Nat /\ e.sequence \in Nat
      BY <1>6, <1>7, <2>3, <3>1 DEF LogInv
    <3>3. QED
      BY <3>2
  <2>4. QED
    BY <1>1, <2>1, <2>2, <2>3
<1>16. QED
  BY <1>9, <1>10, <1>12, <1>13, <1>14, <1>15 DEF EditInv

(* A recorded entry keeps EditInv.                                         *)
LEMMA RecordKeepsOrder ==
  ASSUME TypeInv, LogInv, EditInv, NEW t \in Txns, Record(t)
  PROVE  EditInv'
<1> DEFINE new == Recorded(t)
<1>1. /\ txn'[t].pc = "idle" /\ txn'[t].pending = txn[t].pending \cup {new}
      /\ \A u \in Txns \ {t} : txn'[u] = txn[u]
  BY RecordTypes
<1>2. UNCHANGED <<work, stored, outbox>> /\ \A r \in Rows : locks'[r] = locks[r]
  BY LockNamesAssumption DEF Record, RecordEntry
<1>3. /\ new.row = txn[t].on /\ new.data = txn[t].new /\ new.sequence = sequence + 1
      /\ txn[t].pc = "recording"
  BY DEF Recorded, Record
<1>4. txn[t].on \in Rows
  BY <1>3 DEF TypeInv, Versioned
<1>5. \A u \in Txns : \A p \in txn[u].pending : p.row \in Rows /\ p.sequence \in Nat
  BY DEF TypeInv, TypeOK, Txn, Pending
<1>6. sequence \in Nat
  BY DEF TypeInv, TypeOK
<1>7. \A p \in txn[t].pending : p.sequence < new.sequence
  BY <1>3, <1>5, <1>6 DEF LogInv
<1>8. /\ locks'[new.row] = t
      /\ AtMost(new.data, work[new.row])
      /\ \A e \in outbox : e.row = new.row => Earlier(e.data, new.data)
      /\ \A p \in txn[t].pending : p.row = new.row => Earlier(p.data, new.data)
  BY <1>2, <1>3, <1>4 DEF EditInv, AtMost
<1> HIDE DEF new
<1>9. \A u \in Txns : \A p \in txn'[u].pending :
         /\ locks'[p.row] = u
         /\ AtMost(p.data, work'[p.row])
         /\ \A e \in outbox' : e.row = p.row => Earlier(e.data, p.data)
         /\ \A q \in txn'[u].pending : p.row = q.row /\ p.sequence < q.sequence => Earlier(p.data, q.data)
  <2> TAKE u \in Txns
  <2>1. CASE u # t
    BY <1>1, <1>2, <1>5, <2>1 DEF EditInv
  <2>2. CASE u = t
    <3> SUFFICES ASSUME NEW p \in txn[t].pending \cup {new}
                 PROVE  /\ locks'[p.row] = t
                        /\ AtMost(p.data, work[p.row])
                        /\ \A e \in outbox : e.row = p.row => Earlier(e.data, p.data)
                        /\ \A q \in txn[t].pending \cup {new} :
                              p.row = q.row /\ p.sequence < q.sequence => Earlier(p.data, q.data)
      BY <1>1, <1>2, <2>2
    <3>1. CASE p = new
      <4>1. \A q \in txn[t].pending : ~(new.sequence < q.sequence)
        BY <1>3, <1>5, <1>6, <1>7
      <4>2. ~(new.sequence < new.sequence)
        BY <1>3, <1>6
      <4>3. QED
        BY <1>8, <3>1, <4>1, <4>2
    <3>2. CASE p \in txn[t].pending
      BY <1>2, <1>5, <1>8, <3>2 DEF EditInv
    <3>3. QED
      BY <3>1, <3>2
  <2>3. QED
    BY <2>1, <2>2
<1>10. \A u \in Txns : txn'[u].pc = "recording" =>
         /\ locks'[txn'[u].on] = u
         /\ txn'[u].new = work'[txn'[u].on]
         /\ \A e \in outbox' : e.row = txn'[u].on => Earlier(e.data, txn'[u].new)
         /\ \A p \in txn'[u].pending : p.row = txn'[u].on => Earlier(p.data, txn'[u].new)
  <2> SUFFICES ASSUME NEW u \in Txns, txn'[u].pc = "recording"
               PROVE  /\ locks'[txn'[u].on] = u
                      /\ txn'[u].new = work'[txn'[u].on]
                      /\ \A e \in outbox' : e.row = txn'[u].on => Earlier(e.data, txn'[u].new)
                      /\ \A p \in txn'[u].pending : p.row = txn'[u].on => Earlier(p.data, txn'[u].new)
    OBVIOUS
  <2>1. u # t /\ txn'[u] = txn[u]
    BY <1>1
  <2>2. txn[u].on \in Rows
    BY <2>1 DEF TypeInv, Versioned
  <2>3. QED
    BY <1>2, <2>1, <2>2 DEF EditInv
<1>11. \A u \in Txns : txn'[u].pc = "locking" /\ txn'[u].op = "insert" => Dated(txn'[u].new)
  BY <1>1 DEF EditInv
<1>12. QED
  BY <1>2, <1>9, <1>10, <1>11 DEF EditInv

(* Every step keeps EditInv.                                               *)
LEMMA EditStep ==
  ASSUME TypeInv, LogInv, EditInv, [Next]_vars
  PROVE  EditInv'
<1>1. CASE UNCHANGED vars
  BY <1>1 DEF vars, EditInv
<1>2. ASSUME NEW old \in SUBSET outbox, Prune(old) PROVE EditInv'
  BY <1>2 DEF Prune, EditInv
<1>3. ASSUME NEW e \in After, Read(e) PROVE EditInv'
  BY <1>3 DEF Read, EditInv
<1>4. ASSUME NEW t \in Txns, StepOf(t) PROVE EditInv'
  <2>1. CASE Asked(t) \/ NoRow(t) \/ \E token \in Tokens : Assert(t, token)
    BY <2>1, QuietStep, QuietDated DEF State, EditInv
  <2>2. CASE Passed(t)
    <3>1. \A r \in Rows : locks'[r] = locks[r]
      BY <2>2, PassedStep, LockNamesAssumption DEF Lockable
    <3>2. /\ \A u \in Txns : \A p \in txn[u].pending : p.row \in Rows
          /\ \A u \in Txns : txn[u].pc = "recording" => txn[u].on \in Rows
      BY DEF TypeInv, TypeOK, Versioned, Txn, Pending
    <3>3. \A u \in Txns : /\ txn'[u].pending = txn[u].pending
                          /\ txn'[u].pc \in {"recording", "locking"} => txn'[u] = txn[u]
      BY <2>2, PassedStep
    <3>4. UNCHANGED <<work, stored, outbox>>
      BY <2>2, PassedStep
    <3>5. QED
      BY <3>1, <3>2, <3>3, <3>4 DEF EditInv
  <2>3. QED
    BY <1>4, <2>1, <2>2, PutKeepsOrder, AbortKeepsOrder, CommitKeepsOrder, RecordKeepsOrder DEF StepOf
<1>5. CASE Next
  BY <1>2, <1>3, <1>4, <1>5, StepCases
<1>6. QED
  BY <1>1, <1>5

(* In every life of a row, a later commit has the larger version and       *)
(* updated_at.                                                             *)
THEOREM VersionsInCommitOrder == Spec => []EditOrder
<1>1. Init => LogInv /\ EditInv
  BY NoTxnAssumption DEF Init, LogInv, EditInv, AtMost, Dated, Absent, Legacy
<1>2. Spec => [](TypeInv /\ LogInv /\ EditInv)
  BY <1>1, InitTypes, TypeStep, LogStep, EditStep, PTL DEF Spec
<1>3. TypeInv /\ EditInv => EditOrder
  <2>1. TypeInv => \A e \in outbox : e.data.life \in Nat
    BY DEF TypeInv, TypeOK, Entry, Row
  <2>2. QED
    BY <2>1 DEF EditInv, EditOrder, Earlier
<1>4. QED
  BY <1>2, <1>3, PTL

-----------------------------------------------------------------------------
(* What a reader that has caught up knows *)

(* The last entry of a row in a set of entries.                            *)
LastOf(S, r, e) == e \in S /\ e.row = r /\ \A f \in S : f.row = r => f.sequence <= e.sequence

(* The table and the outbox agree on what is last.                         *)
LatestInv ==
  /\ \A r \in Rows : stored[r].version # NullVersion \/ (\E e \in outbox : e.row = r) =>
       \E e \in outbox : LastOf(outbox, r, e) /\ e.data = stored[r]
  /\ \A t \in Txns, r \in Rows : locks[r] = t =>
       \/ txn[t].pc = "recording" /\ txn[t].on = r
       \/ \E p \in txn[t].pending : LastOf(txn[t].pending, r, p) /\ p.data = work[r]

(* A commit keeps LatestInv.                                               *)
LEMMA CommitKeepsLatest ==
  ASSUME TypeInv, LogInv, EditInv, LatestInv, NEW t \in Txns, Commit(t)
  PROVE  LatestInv'
<1>1. /\ End(t) /\ work' = work /\ outbox' = outbox \cup Added(t)
      /\ cursor' = cursor /\ replica' = replica /\ txn[t].pc = "idle"
  BY CommitTypes DEF Commit
<1>2. \A r \in Rows : stored'[r] = IF locks[r] = t THEN work[r] ELSE stored[r]
  BY DEF Commit
<1>3. \A u \in Txns \ {t} : txn'[u] = txn[u]
  BY <1>1, EndTypes
<1>4. \A r \in Rows : /\ locks[r] = t => locks'[r] = NoTxn
                      /\ locks[r] # t => locks'[r] = locks[r]
  BY <1>1, EndStep DEF Lockable
<1>5. /\ \A e \in Added(t) : \E p \in txn[t].pending :
           e.sequence = p.sequence /\ e.row = p.row /\ e.data = p.data
      /\ \A p \in txn[t].pending : \E e \in Added(t) :
           e.sequence = p.sequence /\ e.row = p.row /\ e.data = p.data
  <2>1. \A e \in Added(t) : \E p \in txn[t].pending :
           e.sequence = p.sequence /\ e.row = p.row /\ e.data = p.data
    BY DEF Added
  <2>2. ASSUME NEW p \in txn[t].pending
        PROVE  \E e \in Added(t) : e.sequence = p.sequence /\ e.row = p.row /\ e.data = p.data
    <3> DEFINE e == [sequence |-> p.sequence, row |-> p.row, data |-> p.data, token |-> txn[t].token]
    <3>1. e \in Added(t)
      BY DEF Added
    <3>2. e.sequence = p.sequence /\ e.row = p.row /\ e.data = p.data
      OBVIOUS
    <3>3. QED
      BY <3>1, <3>2
  <2>3. QED
    BY <2>1, <2>2
<1>6. /\ \A p \in txn[t].pending : p.sequence \in Nat /\ p.row \in Rows
      /\ \A e \in outbox : e.sequence \in Nat /\ e.row \in Rows
      /\ cursor \in Nat
  BY DEF TypeInv, TypeOK, Txn, Pending, Entry
<1>7. \A e \in Added(t) : /\ cursor < e.sequence /\ e.sequence \in Nat /\ locks[e.row] = t
                          /\ \A f \in outbox : f.sequence < e.sequence
  BY <1>5, <1>6 DEF LogInv, EditInv
<1>8. ASSUME NEW r \in Rows, stored'[r].version # NullVersion \/ \E e \in outbox' : e.row = r
      PROVE  \E e \in outbox' : LastOf(outbox', r, e) /\ e.data = stored'[r]
  <2>1. CASE locks[r] = t
    <3>1. PICK p \in txn[t].pending : LastOf(txn[t].pending, r, p) /\ p.data = work[r]
      BY <1>1, <2>1 DEF LatestInv
    <3>2. PICK e \in Added(t) : e.sequence = p.sequence /\ e.row = p.row /\ e.data = p.data
      BY <1>5
    <3>3. \A f \in Added(t) : f.row = r => f.sequence <= e.sequence
      BY <1>5, <3>1, <3>2 DEF LastOf
    <3>4. \A f \in outbox : f.sequence <= e.sequence
      BY <1>6, <1>7, <3>2
    <3>5. LastOf(outbox', r, e) /\ e.data = stored'[r]
      BY <1>1, <1>2, <2>1, <3>1, <3>2, <3>3, <3>4 DEF LastOf
    <3>6. QED
      BY <1>1, <3>2, <3>5
  <2>2. CASE locks[r] # t
    <3>1. stored'[r] = stored[r] /\ \A e \in outbox' : e.row = r => e \in outbox
      BY <1>1, <1>2, <1>7, <2>2
    <3>2. PICK e \in outbox : LastOf(outbox, r, e) /\ e.data = stored[r]
      BY <1>8, <3>1 DEF LatestInv
    <3>3. QED
      BY <1>1, <3>1, <3>2 DEF LastOf
  <2>3. QED
    BY <2>1, <2>2
<1>9. \A u \in Txns, r \in Rows : locks'[r] = u =>
         \/ txn'[u].pc = "recording" /\ txn'[u].on = r
         \/ \E p \in txn'[u].pending : LastOf(txn'[u].pending, r, p) /\ p.data = work'[r]
  <2> SUFFICES ASSUME NEW u \in Txns, NEW r \in Rows, locks'[r] = u
               PROVE  \/ txn'[u].pc = "recording" /\ txn'[u].on = r
                      \/ \E p \in txn'[u].pending : LastOf(txn'[u].pending, r, p) /\ p.data = work'[r]
    OBVIOUS
  <2>1. u # t /\ locks[r] = u
    BY <1>4, NoTxnAssumption
  <2>2. QED
    BY <1>1, <1>3, <2>1 DEF LatestInv
<1>10. QED
  BY <1>8, <1>9 DEF LatestInv

(* Pruning keeps LatestInv: a row's last entry stays.                      *)
LEMMA PruneKeepsLatest ==
  ASSUME TypeInv, LogInv, LatestInv, NEW old \in SUBSET outbox, Prune(old)
  PROVE  LatestInv'
<1>1. /\ outbox' = outbox \ {e \in old : ~Latest(e)}
      /\ UNCHANGED <<txn, locks, work, stored>>
  BY DEF Prune
<1>2. \A e \in outbox : e.sequence \in Nat /\ e.row \in Rows
  BY DEF TypeInv, TypeOK, Entry
<1>3. \A e \in outbox : LastOf(outbox, e.row, e) => e \in outbox' /\ LastOf(outbox', e.row, e)
  BY <1>1 DEF LastOf, Latest
<1>4. ASSUME NEW r \in Rows, stored'[r].version # NullVersion \/ \E e \in outbox' : e.row = r
      PROVE  \E e \in outbox' : LastOf(outbox', r, e) /\ e.data = stored'[r]
  <2>1. PICK e \in outbox : LastOf(outbox, r, e) /\ e.data = stored[r]
    BY <1>1, <1>4 DEF LatestInv
  <2>2. e.row = r
    BY <2>1 DEF LastOf
  <2>3. QED
    BY <1>1, <1>3, <2>1, <2>2
<1>5. QED
  BY <1>1, <1>4 DEF LatestInv

(* A recorded entry keeps LatestInv.                                       *)
LEMMA RecordKeepsLatest ==
  ASSUME TypeInv, LogInv, EditInv, LatestInv, NEW t \in Txns, Record(t)
  PROVE  LatestInv'
<1> DEFINE new == Recorded(t)
<1>1. /\ txn'[t].pc = "idle" /\ txn'[t].pending = txn[t].pending \cup {new}
      /\ \A u \in Txns \ {t} : txn'[u] = txn[u]
  BY RecordTypes
<1>2. UNCHANGED <<work, stored, outbox, cursor, replica>> /\ \A r \in Rows : locks'[r] = locks[r]
  BY LockNamesAssumption DEF Record, RecordEntry
<1>3. /\ new.row = txn[t].on /\ new.data = txn[t].new /\ new.sequence = sequence + 1
      /\ txn[t].pc = "recording"
  BY DEF Recorded, Record
<1>4. new.data = work[new.row]
  BY <1>3 DEF EditInv
<1>5. /\ \A p \in txn[t].pending : p.sequence < new.sequence /\ p.sequence \in Nat
      /\ new.sequence \in Nat
  BY <1>3 DEF LogInv, TypeInv, TypeOK, Txn, Pending
<1> HIDE DEF new
<1>6. \A u \in Txns, r \in Rows : locks'[r] = u =>
         \/ txn'[u].pc = "recording" /\ txn'[u].on = r
         \/ \E p \in txn'[u].pending : LastOf(txn'[u].pending, r, p) /\ p.data = work'[r]
  <2> SUFFICES ASSUME NEW u \in Txns, NEW r \in Rows, locks[r] = u
               PROVE  \/ txn'[u].pc = "recording" /\ txn'[u].on = r
                      \/ \E p \in txn'[u].pending : LastOf(txn'[u].pending, r, p) /\ p.data = work[r]
    BY <1>2
  <2>1. CASE u # t
    BY <1>1, <2>1 DEF LatestInv
  <2>2. CASE u = t /\ r = new.row
    <3>1. LastOf(txn'[t].pending, r, new)
      BY <1>1, <1>5, <2>2 DEF LastOf
    <3>2. QED
      BY <1>1, <1>4, <2>2, <3>1
  <2>3. CASE u = t /\ r # new.row
    <3>1. PICK p \in txn[t].pending : LastOf(txn[t].pending, r, p) /\ p.data = work[r]
      BY <1>3, <2>3 DEF LatestInv
    <3>2. LastOf(txn'[t].pending, r, p)
      BY <1>1, <2>3, <3>1 DEF LastOf
    <3>3. QED
      BY <1>1, <2>3, <3>1, <3>2
  <2>4. QED
    BY <2>1, <2>2, <2>3
<1>7. QED
  BY <1>2, <1>6 DEF LatestInv

(* A statement's effect keeps LatestInv.                                   *)
LEMMA PutKeepsLatest ==
  ASSUME TypeInv, LatestInv, NEW t \in Txns, txn[t].on \in Rows, NEW row \in Row,
         row.version \in Stamp, Becomes(t, row), Put(t, row)
  PROVE  LatestInv'
<1>1. UNCHANGED <<stored, outbox, cursor, replica>>
  BY DEF Put
<1>2. \A r \in Rows \ {txn[t].on} : work'[r] = work[r] /\ locks'[r] = locks[r]
  BY DEF Put, TypeInv, TypeOK, Lockable
<1>3. /\ txn'[t].pc = "recording" /\ txn'[t].on = txn[t].on
      /\ \A u \in Txns : txn'[u].pending = txn[u].pending
      /\ \A u \in Txns \ {t} : txn'[u] = txn[u]
  BY PutTypes
<1>4. locks'[txn[t].on] = t /\ txn[t].pc = "locking"
  BY DEF Put, Becomes, TypeInv, TypeOK, Lockable
<1>5. \A u \in Txns, r \in Rows : locks'[r] = u =>
         \/ txn'[u].pc = "recording" /\ txn'[u].on = r
         \/ \E p \in txn'[u].pending : LastOf(txn'[u].pending, r, p) /\ p.data = work'[r]
  <2> SUFFICES ASSUME NEW u \in Txns, NEW r \in Rows, locks'[r] = u
               PROVE  \/ txn'[u].pc = "recording" /\ txn'[u].on = r
                      \/ \E p \in txn'[u].pending : LastOf(txn'[u].pending, r, p) /\ p.data = work'[r]
    OBVIOUS
  <2>1. CASE r = txn[t].on
    BY <1>3, <1>4, <2>1
  <2>2. CASE r # txn[t].on
    BY <1>2, <1>3, <1>4, <2>2 DEF LatestInv
  <2>3. QED
    BY <2>1, <2>2
<1>6. QED
  BY <1>1, <1>5 DEF LatestInv

(* A rollback keeps LatestInv.                                             *)
LEMMA AbortKeepsLatest ==
  ASSUME TypeInv, LatestInv, NEW t \in Txns, Abort(t)
  PROVE  LatestInv'
<1>1. End(t) /\ UNCHANGED <<stored, outbox, cursor, replica>>
  BY DEF Abort
<1>2. \A r \in Rows : work'[r] = IF locks[r] = t THEN stored[r] ELSE work[r]
  BY DEF Abort
<1>3. \A u \in Txns \ {t} : txn'[u] = txn[u]
  BY <1>1, EndTypes
<1>4. \A r \in Rows : /\ locks[r] = t => locks'[r] = NoTxn
                      /\ locks[r] # t => locks'[r] = locks[r]
  BY <1>1, EndStep DEF Lockable
<1>5. \A u \in Txns, r \in Rows : locks'[r] = u => u # t /\ locks[r] = u /\ work'[r] = work[r]
  BY <1>2, <1>4, NoTxnAssumption
<1>6. QED
  BY <1>1, <1>3, <1>5 DEF LatestInv

(* Every step keeps LatestInv.                                             *)
LEMMA LatestStep ==
  ASSUME TypeInv, LogInv, EditInv, LatestInv, [Next]_vars
  PROVE  LatestInv'
<1>1. CASE UNCHANGED vars
  BY <1>1 DEF vars, LatestInv
<1>2. ASSUME NEW t \in Txns, StepOf(t) PROVE LatestInv'
  <2>1. CASE Asked(t) \/ NoRow(t) \/ \E token \in Tokens : Assert(t, token)
    <3>1. \A u \in Txns : /\ txn'[u].pending = txn[u].pending
                          /\ txn[u].pc = "recording" => txn'[u] = txn[u]
      BY <2>1, QuietStep
    <3>2. UNCHANGED <<locks, work, stored, outbox, cursor, replica>>
      BY <2>1, QuietStep DEF State
    <3>3. QED
      BY <3>1, <3>2 DEF LatestInv
  <2>2. CASE Passed(t)
    <3>1. \A r \in Rows : locks'[r] = locks[r]
      BY <2>2, PassedStep, LockNamesAssumption DEF Lockable
    <3>2. \A u \in Txns : /\ txn'[u].pending = txn[u].pending
                          /\ txn[u].pc = "recording" => txn'[u] = txn[u]
      BY <2>2, PassedStep
    <3>3. UNCHANGED <<work, stored, outbox, cursor, replica>>
      BY <2>2, PassedStep
    <3>4. QED
      BY <3>1, <3>2, <3>3 DEF LatestInv
  <2>3. QED
    BY <1>2, <2>1, <2>2, PutKeepsLatest, AbortKeepsLatest, CommitKeepsLatest, RecordKeepsLatest
    DEF StepOf
<1>3. CASE Next
  BY <1>2, <1>3, StepCases, PruneKeepsLatest DEF Read, LatestInv
<1>4. QED
  BY <1>1, <1>3

(* What a reader has of a row whose last entry it has read.                *)
Current(have, data) ==
  \/ have = data
  \/ have = Absent /\ ~data.live
  \/ have.life < data.life /\ HlcLess(data.version, have.version)

(* A reader has of a row nothing, or a state at most its last entry's and  *)
(* before every entry it has not read.                                     *)
ReaderInv ==
  /\ \A e \in outbox : LastOf(outbox, e.row, e) /\ e.sequence <= cursor =>
       Current(replica[e.row], e.data)
  /\ \A r \in Rows : replica[r] # Absent =>
       \E e \in outbox : LastOf(outbox, r, e) /\ AtMost(replica[r], e.data)
  /\ \A e \in outbox : e.sequence > cursor /\ replica[e.row] # Absent =>
       Earlier(replica[e.row], e.data)

(* A commit keeps ReaderInv: what it adds comes after what the row's       *)
(* readers have.                                                           *)
LEMMA CommitKeepsReader ==
  ASSUME TypeInv, LogInv, EditInv, LatestInv, ReaderInv, NEW t \in Txns, Commit(t)
  PROVE  ReaderInv'
<1>1. outbox' = outbox \cup Added(t) /\ cursor' = cursor /\ replica' = replica
  BY CommitTypes DEF Commit
<1>2. \A e \in Added(t) : \E p \in txn[t].pending :
         e.sequence = p.sequence /\ e.row = p.row /\ e.data = p.data
  BY DEF Added
<1>3. /\ \A p \in txn[t].pending : p.sequence \in Nat /\ p.row \in Rows /\ p.data \in Row
      /\ \A e \in outbox : e.sequence \in Nat /\ e.row \in Rows /\ e.data \in Row
      /\ cursor \in Nat /\ \A r \in Rows : replica[r] \in Row
  BY DEF TypeInv, TypeOK, Txn, Pending, Entry
<1>4. \A e \in Added(t) : /\ cursor < e.sequence /\ e.sequence \in Nat
                          /\ e.row \in Rows /\ e.data \in Row
                          /\ \A f \in outbox : f.sequence < e.sequence
  BY <1>2, <1>3 DEF LogInv
<1>5. ASSUME NEW e \in Added(t), replica[e.row] # Absent PROVE Earlier(replica[e.row], e.data)
  <2>1. PICK f \in outbox : LastOf(outbox, e.row, f) /\ AtMost(replica[e.row], f.data)
    BY <1>4, <1>5 DEF ReaderInv
  <2>2. PICK p \in txn[t].pending : e.sequence = p.sequence /\ e.row = p.row /\ e.data = p.data
    BY <1>2
  <2>3. Earlier(f.data, e.data)
    BY <2>1, <2>2 DEF EditInv, LastOf
  <2>4. QED
    BY <1>3, <1>4, <2>1, <2>3, EarlierTransitive DEF AtMost
<1>6. ASSUME NEW e \in outbox', LastOf(outbox', e.row, e), e.sequence <= cursor'
      PROVE  Current(replica[e.row], e.data)
  <2>1. e \in outbox
    BY <1>1, <1>3, <1>4, <1>6
  <2>2. LastOf(outbox, e.row, e)
    BY <1>1, <1>6, <2>1 DEF LastOf
  <2>3. QED
    BY <1>1, <1>6, <2>1, <2>2 DEF ReaderInv
<1>7. ASSUME NEW r \in Rows, replica[r] # Absent
      PROVE  \E e \in outbox' : LastOf(outbox', r, e) /\ AtMost(replica[r], e.data)
  <2>1. PICK f \in outbox : LastOf(outbox, r, f) /\ AtMost(replica[r], f.data)
    BY <1>7 DEF ReaderInv
  <2>2. CASE \E e \in Added(t) : e.row = r
    <3>1. PICK e \in Added(t) : LastOf(Added(t), r, e)
      <4>1. locks[r] = t /\ txn[t].pc = "idle"
        BY <1>2, <2>2 DEF EditInv, Commit
      <4>2. PICK p \in txn[t].pending : LastOf(txn[t].pending, r, p)
        BY <4>1 DEF LatestInv
      <4> DEFINE e == [sequence |-> p.sequence, row |-> p.row, data |-> p.data, token |-> txn[t].token]
      <4>3. e \in Added(t) /\ e.sequence = p.sequence /\ e.row = p.row
        BY DEF Added
      <4> HIDE DEF e
      <4>4. LastOf(Added(t), r, e)
        BY <1>2, <4>2, <4>3 DEF LastOf
      <4>5. QED
        BY <4>3, <4>4
    <3>2. LastOf(outbox', r, e)
      BY <1>1, <1>3, <1>4, <3>1 DEF LastOf
    <3>3. Earlier(replica[r], e.data)
      BY <1>5, <1>7, <3>1 DEF LastOf
    <3>4. QED
      BY <1>1, <3>2, <3>3 DEF AtMost
  <2>3. CASE \A e \in Added(t) : e.row # r
    BY <1>1, <2>1, <2>3 DEF LastOf
  <2>4. QED
    BY <2>2, <2>3
<1>8. QED
  BY <1>1, <1>5, <1>6, <1>7 DEF ReaderInv

(* Pruning keeps ReaderInv: a row's last entry stays.                      *)
LEMMA PruneKeepsReader ==
  ASSUME TypeInv, LogInv, LatestInv, ReaderInv, NEW old \in SUBSET outbox, Prune(old)
  PROVE  ReaderInv'
<1>1. outbox' = outbox \ {e \in old : ~Latest(e)} /\ UNCHANGED <<cursor, replica>>
  BY DEF Prune
<1>2. \A e \in outbox : e.sequence \in Nat /\ e.row \in Rows
  BY DEF TypeInv, TypeOK, Entry
<1>3. \A r \in Rows, e \in outbox : LastOf(outbox, r, e) => e \in outbox' /\ LastOf(outbox', r, e)
  BY <1>1 DEF LastOf, Latest
<1>4. ASSUME NEW e \in outbox', LastOf(outbox', e.row, e) PROVE LastOf(outbox, e.row, e)
  <2>1. e \in outbox /\ e.row \in Rows
    BY <1>1, <1>2
  <2>2. PICK l \in outbox : LastOf(outbox, e.row, l)
    BY <2>1 DEF LatestInv
  <2>3. l.row = e.row /\ l \in outbox' /\ e.sequence <= l.sequence
    BY <1>3, <2>1, <2>2 DEF LastOf
  <2>4. l.sequence <= e.sequence
    BY <1>4, <2>3 DEF LastOf
  <2>5. e = l
    BY <1>2, <2>1, <2>3, <2>4 DEF LogInv
  <2>6. QED
    BY <2>2, <2>5
<1>5. QED
  BY <1>1, <1>3, <1>4 DEF ReaderInv

(* What the reader's reconcile comes to.                                   *)
LEMMA TakesWhen ==
  ASSUME NEW have \in Row, NEW data \in Row
  PROVE  Takes(have, data) <=>
           IF have = Absent THEN data.live ELSE ~HlcLess(data.version, have.version)
<1> DEFINE local    == [present |-> have # Absent, version |-> have.version, dirty |-> FALSE]
           incoming == [op |-> IF data.live THEN "upsert" ELSE "delete", version |-> data.version]
<1> DEFINE decision == Reconcile(local, incoming)
<1>1. Takes(have, data) = (decision = "Apply" \/ (decision = "AlreadyApplied" /\ have # Absent))
  BY Zenon DEF Takes
<1>2. /\ local.present <=> have # Absent
      /\ ~local.dirty /\ local.version = have.version /\ incoming.version = data.version
      /\ incoming.op = "upsert" <=> data.live
  OBVIOUS
<1> HIDE DEF local, incoming
<1>3. CASE have = Absent
  <2>1. decision = IF incoming.op = "upsert" THEN "Apply" ELSE "AlreadyApplied"
    BY <1>2, <1>3 DEF Reconcile
  <2> HIDE DEF decision
  <2>2. QED
    BY <1>1, <1>2, <1>3, <2>1
<1>4. CASE have # Absent /\ HlcLess(data.version, have.version)
  <2>1. data.version # have.version
    BY <1>4 DEF HlcLess, Row, Version, Stamp, NullVersion
  <2>2. decision = "Stale"
    BY <1>2, <1>4, <2>1 DEF Reconcile
  <2> HIDE DEF decision
  <2>3. QED
    BY <1>1, <1>4, <2>2
<1>5. CASE have # Absent /\ ~HlcLess(data.version, have.version)
  <2>1. decision \in {"Apply", "AlreadyApplied"}
    BY <1>2, <1>5 DEF Reconcile
  <2> HIDE DEF decision
  <2>2. QED
    BY <1>1, <1>5, <2>1
<1>6. QED
  BY <1>3, <1>4, <1>5

(* A read keeps ReaderInv: changes are read in order, none is skipped, and *)
(* one is refused only when its life is newer and its version older.       *)
LEMMA ReadKeepsReader ==
  ASSUME TypeInv, LogInv, EditInv, LatestInv, ReaderInv, NEW e \in After, Read(e)
  PROVE  ReaderInv'
<1> DEFINE have == replica[e.row]
           takes == Takes(have, e.data)
<1>1. /\ \A f \in After : e.sequence <= f.sequence
      /\ cursor' = e.sequence
      /\ replica' = [replica EXCEPT ![e.row] = IF takes THEN e.data ELSE have]
      /\ outbox' = outbox
  BY DEF Read
<1>2. /\ e \in outbox /\ cursor < e.sequence
      /\ \A f \in outbox : f.sequence \in Nat /\ f.row \in Rows /\ f.data \in Row
      /\ cursor \in Nat /\ replica \in [Rows -> Row] /\ have \in Row
  BY DEF After, TypeInv, TypeOK, Entry
<1>3. \A f \in outbox : f.sequence <= cursor \/ f = e \/ f.sequence > e.sequence
  BY <1>1, <1>2 DEF After, LogInv
<1>4. have = Absent \/ Earlier(have, e.data)
  BY <1>2 DEF ReaderInv
<1>5. takes <=> IF have = Absent THEN e.data.live ELSE ~HlcLess(e.data.version, have.version)
  BY TakesWhen, <1>2
<1> HIDE DEF takes
<1>6. ~takes => Current(have, e.data)
  <2>1. CASE have = Absent
    BY <1>5, <2>1 DEF Current
  <2>2. CASE have # Absent /\ ~takes
    <3>1. HlcLess(e.data.version, have.version)
      BY <1>5, <2>2
    <3>2. ~HlcLess(have.version, e.data.version)
      BY <1>2, <3>1 DEF HlcLess, Row, Version, Stamp, NullVersion
    <3>3. QED
      BY <1>4, <2>2, <3>1, <3>2 DEF Earlier, Current
  <2>3. QED
    BY <2>1, <2>2
<1>7. replica'[e.row] = (IF takes THEN e.data ELSE have) /\ \A r \in Rows \ {e.row} : replica'[r] = replica[r]
  BY <1>1, <1>2
<1>8. ASSUME NEW f \in outbox, LastOf(outbox, f.row, f), f.sequence <= e.sequence
      PROVE  Current(replica'[f.row], f.data)
  <2>1. CASE f = e
    BY <1>6, <1>7, <2>1 DEF Current
  <2>2. CASE f # e
    <3>1. f.sequence <= cursor
      BY <1>2, <1>3, <1>8, <2>2
    <3>2. e.row # f.row
      BY <1>2, <1>8, <3>1 DEF LastOf
    <3>3. QED
      BY <1>2, <1>7, <1>8, <3>1, <3>2 DEF ReaderInv
  <2>3. QED
    BY <2>1, <2>2
<1>9. ASSUME NEW r \in Rows, replica'[r] # Absent
      PROVE  \E f \in outbox : LastOf(outbox, r, f) /\ AtMost(replica'[r], f.data)
  <2>1. CASE r = e.row /\ takes
    <3>1. PICK f \in outbox : LastOf(outbox, r, f)
      BY <1>2, <2>1 DEF LatestInv
    <3>2. f = e \/ e.sequence < f.sequence
      BY <1>2, <2>1, <3>1 DEF LastOf, LogInv
    <3>3. AtMost(e.data, f.data)
      BY <1>2, <2>1, <3>1, <3>2 DEF LastOf, EditInv, AtMost
    <3>4. QED
      BY <1>7, <2>1, <3>1, <3>3
  <2>2. CASE r # e.row \/ ~takes
    BY <1>7, <1>9, <2>2 DEF ReaderInv
  <2>3. QED
    BY <2>1, <2>2
<1>10. ASSUME NEW f \in outbox, f.sequence > e.sequence, replica'[f.row] # Absent
       PROVE  Earlier(replica'[f.row], f.data)
  <2>1. CASE f.row = e.row /\ takes
    BY <1>2, <1>7, <1>10, <2>1 DEF EditInv
  <2>2. CASE f.row # e.row \/ ~takes
    BY <1>2, <1>7, <1>10, <2>2 DEF ReaderInv
  <2>3. QED
    BY <2>1, <2>2
<1>11. QED
  BY <1>1, <1>8, <1>9, <1>10 DEF ReaderInv

(* Every step keeps ReaderInv.                                             *)
LEMMA ReaderStep ==
  ASSUME TypeInv, LogInv, EditInv, LatestInv, ReaderInv, [Next]_vars
  PROVE  ReaderInv'
<1>1. CASE UNCHANGED <<outbox, cursor, replica>>
  BY <1>1 DEF ReaderInv
<1>2. ASSUME NEW t \in Txns, StepOf(t) PROVE ReaderInv'
  <2>1. CASE Commit(t)
    BY <2>1, CommitKeepsReader
  <2>2. CASE Asked(t) \/ NoRow(t) \/ \E token \in Tokens : Assert(t, token)
    BY <1>1, <2>2, QuietStep DEF State
  <2>3. CASE Passed(t)
    BY <1>1, <2>3, PassedStep
  <2>4. QED
    BY <1>1, <1>2, <2>1, <2>2, <2>3 DEF StepOf, Abort, Put, Record, RecordEntry
<1>3. CASE Next
  BY <1>2, <1>3, StepCases, PruneKeepsReader, ReadKeepsReader
<1>4. CASE UNCHANGED vars
  BY <1>1, <1>4 DEF vars
<1>5. QED
  BY <1>3, <1>4

(* A reader that has caught up has every row written since the attachment  *)
(* as the table has it, or has never stored a row that is gone, or has a    *)
(* state of an earlier life that sorts above the row.                       *)
THEOREM CaughtUpReaders == Spec => []CaughtUpIsCurrent
<1>1. Init => LogInv /\ EditInv /\ LatestInv /\ ReaderInv
  <2>1. Absent.version = NullVersion /\ Legacy.version = NullVersion
    BY DEF Absent, Legacy
  <2>2. Init => LatestInv
    BY <2>1, NoTxnAssumption DEF Init, LatestInv, Lockable
  <2>3. Init => ReaderInv
    BY DEF Init, ReaderInv
  <2>4. QED
    BY <2>2, <2>3, NoTxnAssumption DEF Init, LogInv, EditInv, AtMost, Dated, Absent, Legacy
<1>2. Spec => [](TypeInv /\ LogInv /\ EditInv /\ LatestInv /\ ReaderInv)
  BY <1>1, InitTypes, TypeStep, LogStep, EditStep, LatestStep, ReaderStep, PTL DEF Spec
<1>3. TypeInv /\ LatestInv /\ ReaderInv => CaughtUpIsCurrent
  <2> SUFFICES ASSUME TypeInv, LatestInv, ReaderInv, After = {}, NEW r \in Rows,
                      stored[r].version # NullVersion
               PROVE  Current(replica[r], stored[r])
    BY DEF CaughtUpIsCurrent, Current
  <2>1. PICK e \in outbox : LastOf(outbox, r, e) /\ e.data = stored[r]
    BY DEF LatestInv
  <2>2. e.row = r
    BY <2>1 DEF LastOf
  <2>3. e.sequence <= cursor
    BY DEF After, TypeInv, TypeOK, Entry
  <2>4. QED
    BY <2>1, <2>2, <2>3 DEF ReaderInv
<1>4. QED
  BY <1>2, <1>3, PTL

-----------------------------------------------------------------------------
(* The change feed *)

(* A row a transaction has locked by the time it commits is one it changed, *)
(* and the last of its entries for the row is what it made of it.           *)
LEMMA CommitIsWhole ==
  ASSUME TypeInv, LogInv, EditInv, LatestInv, NEW t \in Txns, Commit(t), NEW r \in Rows
  PROVE  stored'[r] = IF \E e \in Added(t) : e.row = r THEN Feed!Last(Added(t), r).data
                      ELSE stored[r]
<1>1. stored'[r] = (IF locks[r] = t THEN work[r] ELSE stored[r]) /\ txn[t].pc = "idle"
  BY DEF Commit
<1>2. \A e \in Added(t) : \E p \in txn[t].pending :
         e.sequence = p.sequence /\ e.row = p.row /\ e.data = p.data
  BY DEF Added
<1>3. \A p \in txn[t].pending : \E e \in Added(t) :
         e.sequence = p.sequence /\ e.row = p.row /\ e.data = p.data
  <2> SUFFICES ASSUME NEW p \in txn[t].pending
               PROVE  \E e \in Added(t) : e.sequence = p.sequence /\ e.row = p.row /\ e.data = p.data
    OBVIOUS
  <2> DEFINE e == [sequence |-> p.sequence, row |-> p.row, data |-> p.data, token |-> txn[t].token]
  <2>1. e \in Added(t)
    BY DEF Added
  <2>2. e.sequence = p.sequence /\ e.row = p.row /\ e.data = p.data
    OBVIOUS
  <2>3. QED
    BY <2>1, <2>2
<1>4. /\ \A e, f \in Added(t) : e.sequence = f.sequence => e.data = f.data
      /\ \A e \in Added(t) : e.sequence \in Nat
  BY <1>2 DEF LogInv, TypeInv, TypeOK, Txn, Pending
<1>5. CASE locks[r] = t
  <2>1. PICK p \in txn[t].pending : LastOf(txn[t].pending, r, p) /\ p.data = work[r]
    BY <1>1, <1>5 DEF LatestInv
  <2>2. PICK e \in Added(t) : e.sequence = p.sequence /\ e.row = p.row /\ e.data = p.data
    BY <1>3
  <2>3. e.row = r /\ \A f \in Added(t) : f.row = r => f.sequence <= e.sequence
    BY <1>2, <2>1, <2>2 DEF LastOf
  <2> DEFINE last == Feed!Last(Added(t), r)
  <2>4. last \in Added(t) /\ last.row = r /\ \A f \in Added(t) : f.row = r => f.sequence <= last.sequence
    BY <2>3 DEF Feed!Last
  <2> HIDE DEF last
  <2>5. last.sequence = e.sequence
    BY <1>4, <2>3, <2>4
  <2>6. last.data = work[r]
    BY <1>4, <2>1, <2>2, <2>4, <2>5
  <2>7. QED
    BY <1>1, <1>5, <2>3, <2>6 DEF last
<1>6. CASE locks[r] # t
  <2>1. \A e \in Added(t) : e.row # r
    BY <1>2, <1>6 DEF EditInv
  <2>2. QED
    BY <1>1, <1>6, <2>1
<1>7. QED
  BY <1>5, <1>6

(* A transaction that commits is one commit of the feed.                   *)
LEMMA CommitImplements ==
  ASSUME TypeInv, LogInv, FenceInv, EditInv, LatestInv, NEW t \in Txns, Commit(t)
  PROVE  Feed!Commit
<1> DEFINE changes == Added(t)
<1>1. outbox' = outbox \cup changes /\ UNCHANGED <<cursor, replica>>
  BY CommitTypes DEF Commit
<1>2. \A e \in changes : \E p \in txn[t].pending :
         e.sequence = p.sequence /\ e.row = p.row /\ e.data = p.data /\ e.token = txn[t].token
  BY DEF Added
<1>3. /\ \A e \in outbox : e.sequence \in Nat
      /\ \A p \in txn[t].pending : p.sequence \in Nat
      /\ cursor \in Nat /\ fence \in Nat /\ asserted \in Nat /\ txn[t].token \in Nat
  BY DEF TypeInv, TypeOK, Txn, Pending, Entry
<1>4. \A e \in changes : cursor < e.sequence /\ \A f \in outbox : f.sequence < e.sequence
  BY <1>2 DEF LogInv
<1>5. \A e, f \in changes : e.sequence = f.sequence => e = f
  BY DEF Added, LogInv
<1>6. fence <= fence' /\ \E token \in {0, fence'} : \A e \in changes : e.token = token
  <2>1. fence' = (IF locks["fence"] = t THEN asserted ELSE fence) /\ txn[t].pc = "idle"
    BY DEF Commit
  <2>2. fence <= fence'
    BY <1>3, <2>1 DEF FenceInv
  <2>3. txn[t].token \in {0, fence'}
    BY <1>3, <2>1 DEF FenceInv, AtFence
  <2>4. QED
    BY <1>2, <2>2, <2>3
<1>7. stored' = [r \in Rows |-> IF \E e \in changes : e.row = r THEN Feed!Last(changes, r).data
                                ELSE stored[r]]
  <2>1. stored' \in [Rows -> Row]
    BY CommitTypes DEF TypeInv, TypeOK
  <2>2. \A r \in Rows : stored'[r] = IF \E e \in changes : e.row = r THEN Feed!Last(changes, r).data
                                      ELSE stored[r]
    BY CommitIsWhole
  <2> HIDE DEF changes
  <2>3. QED
    BY <2>1, <2>2
<1>8. outbox' \ outbox = changes
  BY <1>1, <1>2, <1>3, <1>4
<1> HIDE DEF changes
<1>9. Feed!CommitOf(changes)
  BY <1>1, <1>4, <1>5, <1>6, <1>7 DEF Feed!CommitOf
<1>10. QED
  BY <1>8, <1>9 DEF Feed!Commit

(* Every step is a step of the feed, or none.                              *)
LEMMA FeedStep ==
  ASSUME TypeInv, LogInv, FenceInv, EditInv, LatestInv, [Next]_vars
  PROVE  [Feed!Next]_(Feed!vars)
<1>1. CASE UNCHANGED <<stored, outbox, fence, cursor, replica>>
  BY <1>1 DEF Feed!vars
<1>2. ASSUME NEW t \in Txns, StepOf(t) PROVE [Feed!Next]_(Feed!vars)
  <2>1. CASE Commit(t)
    BY <2>1, CommitImplements DEF Feed!Next
  <2>2. CASE Asked(t) \/ NoRow(t) \/ \E token \in Tokens : Assert(t, token)
    BY <1>1, <2>2, QuietStep DEF State
  <2>3. CASE Passed(t)
    BY <1>1, <2>3, PassedStep
  <2>4. QED
    BY <1>1, <1>2, <2>1, <2>2, <2>3 DEF StepOf, Abort, Put, Record, RecordEntry
<1>3. ASSUME NEW old \in SUBSET outbox, Prune(old) PROVE Feed!Next
  <2>1. outbox' = outbox \ {e \in old : ~Latest(e)} /\ UNCHANGED <<stored, fence, cursor, replica>>
    BY <1>3 DEF Prune
  <2>2. \A e \in outbox : e.sequence \in Nat /\ e.row \in Rows
    BY DEF TypeInv, TypeOK, Entry
  <2>3. ASSUME NEW e \in outbox \ outbox' PROVE \E f \in outbox' : f.row = e.row /\ e.sequence < f.sequence
    <3>1. PICK g \in outbox : g.row = e.row /\ e.sequence < g.sequence
      BY <2>1, <2>2 DEF Latest
    <3>2. PICK f \in outbox : LastOf(outbox, e.row, f)
      BY <2>2, <3>1 DEF LatestInv
    <3>3. Latest(f) /\ f.row = e.row /\ e.sequence < f.sequence
      BY <2>2, <3>1, <3>2 DEF LastOf, Latest
    <3>4. QED
      BY <2>1, <3>3
  <2>4. Feed!Prune
    BY <2>1, <2>3 DEF Feed!Prune
  <2>5. QED
    BY <2>4 DEF Feed!Next
<1>4. ASSUME NEW e \in After, Read(e) PROVE Feed!Next
  <2>1. e \in outbox /\ Feed!Read(e)
    BY <1>4 DEF Read, After, Feed!Read
  <2>2. QED
    BY <2>1 DEF Feed!Next
<1>5. CASE Next
  BY <1>2, <1>3, <1>4, <1>5, StepCases
<1>6. CASE UNCHANGED vars
  BY <1>1, <1>6 DEF vars
<1>7. QED
  BY <1>5, <1>6

(* The commit path implements the change feed: what overlapping            *)
(* transactions leave in the table, the outbox and the fence is what one    *)
(* transaction after the other would have left.                            *)
THEOREM CommitPathImplementsFeed == Spec => ImplementsFeed
<1>1. Init => LogInv /\ FenceInv /\ EditInv /\ LatestInv
  <2>1. Absent.version = NullVersion /\ Legacy.version = NullVersion
    BY DEF Absent, Legacy
  <2>2. Init => LatestInv
    BY <2>1, NoTxnAssumption DEF Init, LatestInv, Lockable
  <2>3. Init => FenceInv
    BY NoTxnAssumption DEF Init, FenceInv, FencedCommits, AtFence
  <2>4. QED
    BY <2>2, <2>3, NoTxnAssumption DEF Init, LogInv, EditInv, AtMost, Dated, Absent, Legacy
<1>2. Init => Feed!Init
  BY DEF Init, Feed!Init
<1>3. TypeInv /\ LogInv /\ FenceInv /\ EditInv /\ LatestInv /\ [Next]_vars
        => LogInv' /\ FenceInv' /\ EditInv' /\ LatestInv' /\ [Feed!Next]_(Feed!vars)
  BY LogStep, FenceStep, EditStep, LatestStep, FeedStep
<1>4. QED
  BY <1>1, <1>2, <1>3, InitTypes, TypeStep, PTL DEF Spec, ImplementsFeed, Feed!Spec
=============================================================================
