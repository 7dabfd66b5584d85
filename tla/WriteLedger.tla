---------------------------- MODULE WriteLedger ----------------------------
(***************************************************************************)
(* What the sessions of an actor promise together (docs/protocol.md, the   *)
(* write path): a write once accepted stays pending until the server has   *)
(* committed it, is committed once however often it is sent, and is        *)
(* forgotten only then.  Sessions, leases, requests and failures are what  *)
(* StartSync adds to this.                                                 *)
(***************************************************************************)
EXTENDS Naturals, Sequences

CONSTANT Keys   \* idempotency keys

VARIABLES
  accepted,   \* keys of the writes the application was told are stored
  pending,    \* those the actor still owes the server
  commits     \* the server's outbox, in the order of the commits

vars == <<accepted, pending, commits>>

Init == accepted = {} /\ pending = {} /\ commits = <<>>

Known(k) == \E n \in DOMAIN commits : commits[n] = k

Accept(k) ==
  /\ k \notin accepted
  /\ accepted' = accepted \cup {k}
  /\ pending' = pending \cup {k}
  /\ UNCHANGED commits

Commit(k) ==
  /\ k \in pending /\ ~Known(k)
  /\ commits' = Append(commits, k)
  /\ UNCHANGED <<accepted, pending>>

Retire(k) ==
  /\ k \in pending /\ Known(k)
  /\ pending' = pending \ {k}
  /\ UNCHANGED <<accepted, commits>>

Next == \E k \in Keys : Accept(k) \/ Commit(k) \/ Retire(k)

Spec == Init /\ [][Next]_vars
=============================================================================
