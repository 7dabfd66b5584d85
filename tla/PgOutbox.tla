------------------------------ MODULE PgOutbox ------------------------------
(***************************************************************************)
(* The server's commit path as Postgres runs it: the triggers, the outbox, *)
(* the fence and the pruning of postgres/zed_sync.sql, under concurrent    *)
(* transactions at the default isolation level (READ COMMITTED).           *)
(*                                                                         *)
(* A statement touches one row.  Postgres itself (row locks kept to the    *)
(* end of the transaction, waits, the deadlock detector, rollback) is      *)
(* modelled from what the SQL relies on.  An INSERT is stamped by the      *)
(* BEFORE trigger and only then waits for its key; an UPDATE or DELETE     *)
(* waits for its row first and is stamped from the row it then finds.      *)
(* `work' is the state a row's lock holder sees, `stored' the committed    *)
(* one.  A deleted row keeps its last version and the number of its life,  *)
(* a history variable: the tables forget both.                             *)
(***************************************************************************)
EXTENDS SyncCore

CONSTANTS
  Rows,            \* row ids of the attached tables
  OldRows,         \* those that predate their table's attachment
  Txns,            \* transactions, each run once
  NoTxn,
  MICROS_PER_MS,   \* clock ticks in a millisecond (1000)
  AttachedAt,      \* their updated_at, the time of the attachment
  Walls,           \* what clock_timestamp() may return, in microseconds
  Tokens,          \* fencing tokens callers assert
  MaxStatements    \* bound: statements per transaction

ASSUME MicrosAssumption == MICROS_PER_MS \in Nat \ {0}
ASSUME WallsAssumption == Walls \subseteq Nat /\ AttachedAt \in Nat
ASSUME OldRowsAssumption == OldRows \subseteq Rows
ASSUME TokensAssumption == Tokens \subseteq Nat \ {0}
ASSUME NoTxnAssumption == NoTxn \notin Txns
ASSUME StatementsAssumption == MaxStatements \in Nat
ASSUME LockNamesAssumption == "fence" \notin Rows /\ "outbox" \notin Rows

VARIABLES
  txn,       \* per transaction: where it is, what its statement wants, what it recorded
  locks,     \* holder of each row lock, of the fence row and of the advisory lock
  work,      \* rows as their lock holders see them
  stored,    \* rows as committed
  asserted,  \* the fence row's token as its lock holder sees it (0: no row)
  fence,     \* the fence row's token as committed
  sequence,  \* zed_sync.sequence: its last value, never rolled back
  outbox,    \* committed outbox entries
  cursor,    \* a catch-up reader's cursor
  replica    \* what that reader has of each row

vars == <<txn, locks, work, stored, asserted, fence, sequence, outbox, cursor, replica>>

Lockable == Rows \cup {"fence", "outbox"}

(* sync_version of a row that predates zed_sync_attach: SQL NULL. *)
NullVersion == [wall_ms |-> -1, counter |-> 0, actor |-> 0]
Version == Stamp \cup {NullVersion}

Row == [live : BOOLEAN, updated_at : Nat, version : Version, life : Nat]
Absent == [live |-> FALSE, updated_at |-> 0, version |-> NullVersion, life |-> 0]
Legacy == [Absent EXCEPT !.live = TRUE, !.updated_at = AttachedAt, !.life = 1]

Pending == [sequence : Nat, row : Rows, data : Row]
Entry == [sequence : Nat, row : Rows, data : Row, token : Nat]

Txn == [pc : {"idle", "locking", "recording", "ended"},
        op : {"none", "insert", "update", "delete", "fence"},
        on : Lockable,          \* the row its statement is about, or the fence row
        new : Row,              \* what the BEFORE trigger made of an INSERT
        token : Nat,            \* the token it asserts (0: none)
        left : Nat,             \* bound: statements it may still issue
        pending : SUBSET Pending]

Init ==
  /\ txn = [t \in Txns |-> [pc |-> "idle", op |-> "none", on |-> "outbox", new |-> Absent,
                            token |-> 0, left |-> MaxStatements, pending |-> {}]]
  /\ locks = [k \in Lockable |-> NoTxn]
  /\ stored = [r \in Rows |-> IF r \in OldRows THEN Legacy ELSE Absent]
  /\ work = stored
  /\ asserted = 0
  /\ fence = 0
  /\ sequence = 0
  /\ outbox = {}
  /\ cursor = 0
  /\ replica = [r \in Rows |-> Absent]

-----------------------------------------------------------------------------
(* Stamps. *)

(* Variant (a bug to be caught): no logical counter within a millisecond. *)
NextHlcWallOnly(prev, updated) ==
  [wall_ms |-> updated \div MICROS_PER_MS, counter |-> 0, actor |-> 0]

(* next_hlc: the millisecond of updated_at, counted on within it. *)
NextHlc(prev, updated) ==
  LET wall == updated \div MICROS_PER_MS
  IN  [wall_ms |-> wall,
       counter |-> IF prev.wall_ms = wall THEN prev.counter + 1 ELSE 0,
       actor |-> 0]

(* stamp() on INSERT: created_at is the client's or now(), kept as it came. *)
Inserted(wall, created) ==
  LET updated == HlcMax(wall, created)
  IN  [Absent EXCEPT !.live = TRUE, !.updated_at = updated,
                     !.version = NextHlc(NullVersion, updated)]

(* stamp() on UPDATE: past the row's last updated_at whatever the clock says. *)
Updated(old, wall) ==
  LET updated == HlcMax(wall, old.updated_at + 1)
  IN  [old EXCEPT !.updated_at = updated, !.version = NextHlc(old.version, updated)]

(* record() on DELETE: one logical tick past the deleted row. *)
Tombstone(old) == [old EXCEPT !.live = FALSE, !.version.counter = @ + 1]

-----------------------------------------------------------------------------
(* Locks and the end of a transaction. *)

Free(t, k) == locks[k] \in {NoTxn, t}

(* Variant: pg_advisory_lock, which outlives the transaction. *)
ReleaseKeepingAdvisory(t) ==
  [k \in Lockable |-> IF locks[k] = t /\ k # "outbox" THEN NoTxn ELSE locks[k]]

(* Every lock of a transaction is released when it ends. *)
Release(t) == [k \in Lockable |-> IF locks[k] = t THEN NoTxn ELSE locks[k]]

End(t) ==
  /\ txn' = [txn EXCEPT ![t] = [@ EXCEPT !.pc = "ended", !.op = "none", !.on = "outbox",
                                         !.new = Absent, !.token = 0, !.left = 0, !.pending = {}]]
  /\ locks' = Release(t)

(* Rolled back: the client's choice, an error, a lost connection. *)
Abort(t) ==
  /\ txn[t].pc # "ended"
  /\ End(t)
  /\ work' = [r \in Rows |-> IF locks[r] = t THEN stored[r] ELSE work[r]]
  /\ asserted' = IF locks["fence"] = t THEN fence ELSE asserted
  /\ UNCHANGED <<stored, fence, sequence, outbox, cursor, replica>>

(* What a transaction waits for: the row of its statement, then the advisory *)
(* lock of record().                                                         *)
Wanted(t) == IF txn[t].pc = "recording" THEN "outbox" ELSE txn[t].on

WaitsFor(t, u) == t # u /\ txn[t].pc \in {"locking", "recording"} /\ locks[Wanted(t)] = u

(* The deadlock detector ends a transaction of a cycle: a set whose members *)
(* each wait for a member and are each waited for by one.                   *)
InCycle(t) ==
  \E S \in SUBSET Txns :
    /\ t \in S
    /\ \A u \in S : \E v, x \in S : WaitsFor(u, v) /\ WaitsFor(x, u)

BreakDeadlock(t) == InCycle(t) /\ Abort(t)

Commit(t) ==
  /\ txn[t].pc = "idle"
  /\ End(t)
  /\ stored' = [r \in Rows |-> IF locks[r] = t THEN work[r] ELSE stored[r]]
  /\ fence' = IF locks["fence"] = t THEN asserted ELSE fence
  /\ outbox' = outbox \cup
       {[sequence |-> p.sequence, row |-> p.row, data |-> p.data, token |-> txn[t].token]
          : p \in txn[t].pending}
  /\ UNCHANGED <<work, asserted, sequence, cursor, replica>>

-----------------------------------------------------------------------------
(* Statements. *)

Issue(t, op, k, new, token) ==
  /\ txn[t].pc = "idle"
  /\ txn[t].left > 0
  /\ txn' = [txn EXCEPT ![t] = [@ EXCEPT !.pc = "locking", !.op = op, !.on = k, !.new = new,
                                         !.token = token, !.left = txn[t].left - 1]]
  /\ UNCHANGED <<locks, work, stored, asserted, fence, sequence, outbox, cursor, replica>>

Insert(t, r, wall, created) == Issue(t, "insert", r, Inserted(wall, created), txn[t].token)

UpdateOrDelete(t, r, op) == Issue(t, op, r, Absent, txn[t].token)

(* assert_fence, once per transaction. *)
Assert(t, token) ==
  /\ txn[t].token = 0
  /\ Issue(t, "fence", "fence", Absent, token)

Idle(t) == [txn[t] EXCEPT !.pc = "idle", !.op = "none", !.on = "outbox", !.new = Absent]

(* The lock the statement waits for is free. *)
Reaches(t, op) ==
  /\ txn[t].pc = "locking"
  /\ txn[t].op = op
  /\ Free(t, txn[t].on)

(* The statement's effect on its row; the AFTER trigger is next. *)
Put(t, row) ==
  /\ work' = [work EXCEPT ![txn[t].on] = row]
  /\ locks' = [locks EXCEPT ![txn[t].on] = t]
  /\ txn' = [txn EXCEPT ![t] = [@ EXCEPT !.pc = "recording", !.new = row]]
  /\ UNCHANGED <<stored, asserted, fence, sequence, outbox, cursor, replica>>

(* A key that is taken is a unique violation. *)
InsertRow(t) ==
  /\ Reaches(t, "insert")
  /\ LET old == work[txn[t].on]
     IN  IF old.live THEN Abort(t) ELSE Put(t, [txn[t].new EXCEPT !.life = old.life + 1])

UpdateRow(t, wall) ==
  /\ Reaches(t, "update")
  /\ work[txn[t].on].live
  /\ Put(t, Updated(work[txn[t].on], wall))

(* Variant: the outbox takes a version that is NULL. *)
DeleteUnversioned(t) ==
  /\ Reaches(t, "delete")
  /\ work[txn[t].on].live
  /\ Put(t, Tombstone(work[txn[t].on]))

(* A row that predates the attachment has no version: its tombstone's is    *)
(* NULL, the outbox refuses it, and the transaction fails.                  *)
DeleteRow(t) ==
  /\ Reaches(t, "delete")
  /\ LET old == work[txn[t].on]
     IN  /\ old.live
         /\ IF old.version = NullVersion THEN Abort(t) ELSE Put(t, Tombstone(old))

(* An UPDATE or DELETE that finds no row changes nothing. *)
NoRow(t) ==
  /\ Reaches(t, "update") \/ Reaches(t, "delete")
  /\ ~work[txn[t].on].live
  /\ txn' = [txn EXCEPT ![t] = Idle(t)]
  /\ UNCHANGED <<locks, work, stored, asserted, fence, sequence, outbox, cursor, replica>>

(* Variant: the stored token is read without locking the fence row. *)
PassesUnlocked(t) ==
  /\ txn[t].pc = "locking"
  /\ txn[t].op = "fence"
  /\ IF fence > txn[t].token THEN Abort(t)
     ELSE /\ txn' = [txn EXCEPT ![t] = Idle(t)]
          /\ asserted' = txn[t].token
          /\ fence' = txn[t].token
          /\ UNCHANGED <<locks, work, stored, sequence, outbox, cursor, replica>>

(* The upsert of the fence row: a lower token raises and aborts. *)
Passes(t) ==
  /\ Reaches(t, "fence")
  /\ IF asserted > txn[t].token THEN Abort(t)
     ELSE /\ txn' = [txn EXCEPT ![t] = Idle(t)]
          /\ locks' = [locks EXCEPT !["fence"] = t]
          /\ asserted' = txn[t].token
          /\ UNCHANGED <<work, stored, fence, sequence, outbox, cursor, replica>>

RecordEntry(t) ==
  /\ sequence' = sequence + 1
  /\ txn' = [txn EXCEPT ![t] = [Idle(t) EXCEPT !.pending = txn[t].pending \cup
       {[sequence |-> sequence + 1, row |-> txn[t].on, data |-> txn[t].new]}]]
  /\ UNCHANGED <<work, stored, asserted, fence, outbox, cursor, replica>>

(* Variant: record() without its advisory lock. *)
RecordUnserialized(t) ==
  /\ txn[t].pc = "recording"
  /\ RecordEntry(t)
  /\ UNCHANGED locks

(* record(): the advisory lock first, then the next sequence number. *)
Record(t) ==
  /\ txn[t].pc = "recording"
  /\ Free(t, "outbox")
  /\ RecordEntry(t)
  /\ locks' = [locks EXCEPT !["outbox"] = t]

-----------------------------------------------------------------------------
(* Retention and catch-up. *)

Latest(e) == \A f \in outbox : f.row = e.row => f.sequence <= e.sequence

(* Variant: whatever is old goes. *)
PruneAll(old) ==
  /\ outbox' = outbox \ old
  /\ UNCHANGED <<txn, locks, work, stored, asserted, fence, sequence, cursor, replica>>

(* prune_outbox: entries past the retention interval, except each row's last. *)
Prune(old) ==
  /\ outbox' = outbox \ {e \in old : ~Latest(e)}
  /\ UNCHANGED <<txn, locks, work, stored, asserted, fence, sequence, cursor, replica>>

(* The catch-up query, one change at a time: a page of the query's LIMIT is  *)
(* that many of these steps with nothing between them.                       *)
After == {e \in outbox : e.sequence > cursor}

(* Variant: the logical counter is left out of the comparison. *)
TakesLaterWall(have, data) ==
  IF have = Absent THEN data.live ELSE data.version.wall_ms > have.version.wall_ms

(* applyChange on a reader without writes of its own: a row it has never     *)
(* stored takes an upsert; otherwise the change must not sort below what the *)
(* reader has, a tombstone included.                                         *)
Takes(have, data) ==
  LET local    == [present |-> have # Absent, version |-> have.version, dirty |-> FALSE]
      decision == Reconcile(local, [op |-> IF data.live THEN "upsert" ELSE "delete",
                                    version |-> data.version])
  IN  decision = "Apply" \/ (decision = "AlreadyApplied" /\ local.present)

Read(e) ==
  /\ \A f \in After : e.sequence <= f.sequence
  /\ cursor' = e.sequence
  /\ replica' = [replica EXCEPT ![e.row] = IF Takes(@, e.data) THEN e.data ELSE @]
  /\ UNCHANGED <<txn, locks, work, stored, asserted, fence, sequence, outbox>>

-----------------------------------------------------------------------------
Statement(t) ==
  \/ \E r \in Rows, wall, created \in Walls : Insert(t, r, wall, created)
  \/ \E r \in Rows, op \in {"update", "delete"} : UpdateOrDelete(t, r, op)
  \/ \E token \in Tokens : Assert(t, token)

Effect(t) ==
  \/ InsertRow(t)
  \/ \E wall \in Walls : UpdateRow(t, wall)
  \/ DeleteRow(t)
  \/ NoRow(t)
  \/ Passes(t)
  \/ Record(t)

Next ==
  \/ \E t \in Txns : Statement(t) \/ Effect(t) \/ Commit(t) \/ Abort(t) \/ BreakDeadlock(t)
  \/ \E old \in SUBSET outbox : Prune(old)
  \/ \E e \in After : Read(e)

Spec == Init /\ [][Next]_vars

(* Postgres grants free locks and breaks deadlocks; a caller goes on with    *)
(* the transaction it opened, or commits it.                                 *)
Fairness == \A t \in Txns : /\ WF_vars(Effect(t))
                            /\ WF_vars(Statement(t) \/ Commit(t))
                            /\ WF_vars(BreakDeadlock(t))

FairSpec == Spec /\ Fairness

-----------------------------------------------------------------------------
(* Every transaction, lock and row is well formed, and every outbox entry   *)
(* has a version, as the NOT NULL column demands.                            *)
TypeOK ==
  /\ txn \in [Txns -> Txn]
  /\ locks \in [Lockable -> Txns \cup {NoTxn}]
  /\ work \in [Rows -> Row]
  /\ stored \in [Rows -> Row]
  /\ asserted \in Nat
  /\ fence \in Nat
  /\ sequence \in Nat
  /\ outbox \subseteq Entry
  /\ \A e \in outbox : e.data.version \in Stamp
  /\ cursor \in Nat
  /\ replica \in [Rows -> Row]

(* What a commit adds to the outbox lies after every reader's cursor: "a    *)
(* catch-up cursor that paged past sequence N can never later find N-1      *)
(* filled in by an older commit" (zed_sync.sql:15-18), although sequence    *)
(* numbers are taken before commits and by transactions that overlap.        *)
NothingBehindCursor == [][\A e \in outbox' \ outbox : e.sequence > cursor]_vars

(* A reader with nothing left to read has every row as the table has it,     *)
(* whatever was pruned while it paged, but for two cases: a row that was      *)
(* deleted before the reader heard of it, and a row inserted again, under a   *)
(* clock that stepped back, below what the reader has of its previous life.   *)
(* Within a life nothing is ever refused.  Rows not written since their       *)
(* table was attached never enter the outbox.                                 *)
CaughtUpIsCurrent ==
  After = {} =>
    \A r \in Rows : stored[r].version # NullVersion =>
      \/ replica[r] = stored[r]
      \/ replica[r] = Absent /\ ~stored[r].live
      \/ /\ replica[r].life < stored[r].life
         /\ HlcLess(stored[r].version, replica[r].version)

(* Of two outbox entries of one life of a row (from its insert to its        *)
(* delete), the one committed later has the larger version and, unless it    *)
(* is the tombstone, the larger updated_at, however the clock jumps and the   *)
(* writers wait for one another.                                              *)
EditOrder ==
  \A e, f \in outbox :
    e.row = f.row /\ e.data.life = f.data.life /\ e.sequence < f.sequence =>
      /\ HlcLess(e.data.version, f.data.version)
      /\ f.data.live => e.data.updated_at < f.data.updated_at

(* Writes that assert a fencing token are committed in the order of the      *)
(* tokens: a superseded flusher's transaction that checked its token before   *)
(* it was superseded cannot commit after the successor's.                     *)
FencedCommits ==
  \A e, f \in outbox :
    e.sequence < f.sequence /\ e.token > 0 /\ f.token > 0 => e.token <= f.token

(* The table, the outbox and the fence as the transactions leave them, and    *)
(* what a reader makes of the outbox, are an atomic change feed: a table      *)
(* change and its entries appear together or, rolled back, not at all, and    *)
(* overlapping transactions appear one after the other in the order of their  *)
(* sequence numbers (docs/protocol.md, catch-up).                             *)
Feed == INSTANCE ChangeFeed
  WITH table <- stored, feed <- outbox, Blank <- Absent, Takes <- Takes,
       Before <- [r \in Rows |-> IF r \in OldRows THEN Legacy ELSE Absent]

ImplementsFeed == Feed!Spec

(* A statement that waits for a row, the fence or the outbox is served or     *)
(* its transaction is ended.                                                  *)
StatementsFinish ==
  \A t \in Txns : txn[t].pc \in {"locking", "recording"} ~> txn[t].pc \in {"idle", "ended"}
=============================================================================
