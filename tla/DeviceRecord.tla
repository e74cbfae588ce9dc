---------------------------- MODULE DeviceRecord ----------------------------
(***************************************************************************)
(* The row the server keeps for one financed handset, and the writes the   *)
(* handlers make to it.  Every handler reads the row, decides, and writes  *)
(* a fixed set of columns later; the operators below are those writes, as  *)
(* functions of the row the write finds (columns it does not name keep the *)
(* value they have at that moment, not the one the handler read).          *)
(*                                                                         *)
(* lockReason, lockMessage, telemetry and location columns are left out:   *)
(* nothing here depends on them.  A phone sold without a lock (noLock) is  *)
(* refused by every operation below and is not modelled.                   *)
(*                                                                         *)
(* A definition whose name says what is wrong with it ("...Forgotten",     *)
(* "...Dropped") is a faulty variant of the one it stands before; nothing  *)
(* uses it but PROJECT.json, to see that a property notices the fault.     *)
(***************************************************************************)

Statuses == {"PENDING", "ENROLLED", "ACTIVE", "OVERDUE", "LOCK_PENDING",
             "LOCKED", "UNLOCK_PENDING", "INACTIVE", "REMOVED"}

Commands == {"LOCK", "UNLOCK"}

NoCommand == "NONE"

\* VALID_TRANSITIONS: the statuses a validated write may move to.
ValidNext ==
  [PENDING        |-> {"ENROLLED", "INACTIVE", "REMOVED"},
   ENROLLED       |-> {"ACTIVE", "OVERDUE", "INACTIVE", "REMOVED"},
   ACTIVE         |-> {"OVERDUE", "LOCK_PENDING", "LOCKED", "INACTIVE", "REMOVED"},
   OVERDUE        |-> {"ACTIVE", "LOCK_PENDING", "LOCKED", "INACTIVE", "REMOVED"},
   LOCK_PENDING   |-> {"LOCKED", "ACTIVE", "OVERDUE", "UNLOCK_PENDING", "INACTIVE", "REMOVED"},
   LOCKED         |-> {"UNLOCK_PENDING", "ACTIVE", "INACTIVE", "REMOVED"},
   UNLOCK_PENDING |-> {"ACTIVE", "LOCKED", "OVERDUE", "INACTIVE", "REMOVED"},
   INACTIVE       |-> {"ACTIVE", "PENDING", "REMOVED"},
   REMOVED        |-> {}]

CanMoveLockAckForgotten(status, target) ==
  target \in ValidNext[status] /\ <<status, target>> # <<"LOCK_PENDING", "LOCKED">>

\* validateTransition: checked against the row the handler read.
CanMove(status, target) == target \in ValidNext[status]

RevokedInactiveDropped == {"REMOVED"}

\* requireDevice answers these with 403 "no longer under management".
Revoked == {"REMOVED", "INACTIVE"}

Releasable == {"PENDING", "ENROLLED", "ACTIVE", "OVERDUE", "LOCK_PENDING",
               "LOCKED", "UNLOCK_PENDING"}

ReEnrollable == Releasable \ {"PENDING"}

-----------------------------------------------------------------------------
(* The writes. *)

\* lockDevice on a row that says the phone is online.
Locked(d) == [d EXCEPT !.status = "LOCKED", !.pendingCommand = NoCommand]

LockQueuedStatusAsCommand(d) ==
  [d EXCEPT !.status = "LOCK_PENDING", !.pendingCommand = "LOCK_PENDING"]

\* lockDevice on a row that says the phone is offline.
LockQueued(d) == [d EXCEPT !.status = "LOCK_PENDING", !.pendingCommand = "LOCK"]

\* unlockDevice, online and offline.
Unlocked(d) == [d EXCEPT !.status = "ACTIVE", !.pendingCommand = NoCommand]

UnlockQueued(d) == [d EXCEPT !.status = "UNLOCK_PENDING", !.pendingCommand = "UNLOCK"]

\* The overdue engine's flag and the payment that clears it: the status only.
Flagged(d) == [d EXCEPT !.status = "OVERDUE"]

Cleared(d) == [d EXCEPT !.status = "ACTIVE"]

\* DeviceReleaseService.release keeps isOnline and the credential's hash.
Released(d) == [d EXCEPT !.status = "INACTIVE", !.pendingCommand = NoCommand]

ReEnrolledCommandForgotten(d, noToken) ==
  [d EXCEPT !.status = "PENDING", !.isOnline = FALSE, !.token = noToken]

\* POST /:id/re-enroll resets the row to what a registration leaves.
ReEnrolled(d, noToken) ==
  [d EXCEPT !.status = "PENDING", !.pendingCommand = NoCommand,
            !.isOnline = FALSE, !.token = noToken]

\* enrollDevice leaves a waiting command where it is.
Enrolled(d) == [d EXCEPT !.status = "ACTIVE", !.isOnline = TRUE]

\* The columns a check-in writes.
CheckedIn(d) == [d EXCEPT !.isOnline = TRUE]

\* acknowledgeCommand, for the command it read.
Acknowledged(d, command) ==
  [d EXCEPT !.status = IF command = "LOCK" THEN "LOCKED" ELSE "ACTIVE",
            !.pendingCommand = NoCommand]

\* buildPolicyView: what the phone is told about its own lock.
PolicyLocked(d) == d.status = "LOCKED"

=============================================================================
