----------------------------- MODULE ChangeFeed -----------------------------
(***************************************************************************)
(* What the server promises its readers (docs/protocol.md, catch-up): a    *)
(* table and the feed of its changes that move together, one transaction   *)
(* at a time.  A commit's changes are numbered after everything committed  *)
(* and after every cursor, carry the transaction's fencing token, and      *)
(* leave each row as its last change says; pruning keeps the last change   *)
(* of every row; a reader reads the changes in order and skips none, and   *)
(* takes what does not sort below what it has.                             *)
(* Statements, locks, rollbacks and deadlocks are what PgOutbox adds.      *)
(***************************************************************************)
EXTENDS Naturals

CONSTANTS
  Rows,
  Before,   \* the table when it is attached
  Blank,    \* what a reader has of a row it has read nothing about
  Takes(_,_)   \* does a reader that has the one take the other?

VARIABLES
  table,    \* the rows
  feed,     \* the changes: numbered, of a row, with its new contents and a token
  fence,    \* the greatest token a transaction was fenced with
  cursor,   \* the number of the last change read
  replica   \* the rows as the reader has them

vars == <<table, feed, fence, cursor, replica>>

Init ==
  /\ table = Before
  /\ feed = {}
  /\ fence = 0
  /\ cursor = 0
  /\ replica = [r \in Rows |-> Blank]

Last(changes, r) ==
  CHOOSE e \in changes : e.row = r /\ \A f \in changes : f.row = r => f.sequence <= e.sequence

(* A transaction with these changes, fenced or not, takes place at once.   *)
CommitOf(changes) ==
  /\ feed' = feed \cup changes
  /\ \A e \in changes : cursor < e.sequence /\ \A f \in feed : f.sequence < e.sequence
  /\ \A e, f \in changes : e.sequence = f.sequence => e = f
  /\ fence <= fence'
  /\ \E token \in {0, fence'} : \A e \in changes : e.token = token
  /\ table' = [r \in Rows |-> IF \E e \in changes : e.row = r THEN Last(changes, r).data
                              ELSE table[r]]
  /\ UNCHANGED <<cursor, replica>>

Commit == CommitOf(feed' \ feed)

Prune ==
  /\ feed' \subseteq feed
  /\ \A e \in feed \ feed' : \E f \in feed' : f.row = e.row /\ e.sequence < f.sequence
  /\ UNCHANGED <<table, fence, cursor, replica>>

Read(e) ==
  /\ cursor < e.sequence
  /\ \A f \in feed : cursor < f.sequence => e.sequence <= f.sequence
  /\ cursor' = e.sequence
  /\ replica' = [replica EXCEPT ![e.row] = IF Takes(@, e.data) THEN e.data ELSE @]
  /\ UNCHANGED <<table, feed, fence>>

Next == Commit \/ Prune \/ \E e \in feed : Read(e)

Spec == Init /\ [][Next]_vars
=============================================================================
