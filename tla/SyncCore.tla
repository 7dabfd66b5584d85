------------------------------ MODULE SyncCore ------------------------------
(***************************************************************************)
(* The pure reconciliation core (src/lib.rs; the SDK's core.mjs and the    *)
(* Dart core.dart repeat it): what a replica decides about an incoming     *)
(* change, about a conflict, and about the acknowledgement of one of its   *)
(* own writes.                                                             *)
(*                                                                         *)
(* A local row is a record whose field "present" is FALSE when the replica *)
(* has never stored anything under the id (None in Rust).                  *)
(***************************************************************************)
EXTENDS Hlc

Resolutions == {"server_wins", "last_write_wins"}

(* Variants of reconcile (bugs to be caught): no dirty check, and no order *)
(* check at all.                                                           *)
ReconcileIgnoringDirty(local, incoming) ==
  IF local.present /\ HlcLeq(incoming.version, local.version) THEN "Stale" ELSE "Apply"

ReconcileLastArrival(local, incoming) ==
  IF local.present /\ local.dirty THEN "Conflict" ELSE "Apply"

(* ... and one that takes an equal version for an older one. *)
ReconcileEqualIsStale(local, incoming) ==
  CASE ~local.present -> IF incoming.op = "upsert" THEN "Apply" ELSE "AlreadyApplied"
    [] local.present /\ HlcLeq(incoming.version, local.version) -> "Stale"
    [] OTHER -> IF local.dirty THEN "Conflict" ELSE "Apply"

(* reconcile(local, incoming): the decision table of docs/protocol.md.     *)
Reconcile(local, incoming) ==
  CASE ~local.present -> IF incoming.op = "upsert" THEN "Apply" ELSE "AlreadyApplied"
    [] local.present /\ HlcLess(incoming.version, local.version) -> "Stale"
    [] local.present /\ incoming.version = local.version -> "AlreadyApplied"
    [] OTHER -> IF local.dirty THEN "Conflict" ELSE "Apply"

(* resolve_conflict: TRUE to adopt the incoming change.                    *)
ResolveConflict(resolution, local, incoming) ==
  resolution = "server_wins" \/ HlcLess(local.version, incoming.version)

(* Variant: adopt only what the local row is already past. *)
OnAckReversed(local, committed) == HlcLess(committed, local.version)

(* on_ack: adopt the committed version unless the local row is past it.    *)
OnAckAdopts(local, committed) == ~HlcLess(committed, local.version)

(* Variant: the slot alone identifies the request. *)
SettleBySlot(local, slot, id, settlingKey, baseVersion, committed) ==
  slot.id = id /\ OnAckAdopts(local, committed)

(* settle_queued_ack: the slot belongs to the response only when its key   *)
(* and the row's version still identify the request; TRUE retires the slot *)
(* and adopts the committed version.                                       *)
SettleQueuedAck(local, slot, id, settlingKey, baseVersion, committed) ==
  /\ slot.id = id
  /\ slot.key = settlingKey
  /\ local.version = baseVersion
  /\ OnAckAdopts(local, committed)

(* QueuedWrite::is_echo_of: the change is the echo of this queued write.   *)
IsOwnEcho(slot, incoming) ==
  /\ incoming.id = slot.id
  /\ incoming.op = slot.op
  /\ incoming.key = slot.key
=============================================================================
