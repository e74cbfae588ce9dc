---------------------------- MODULE LockProtocol ----------------------------
(***************************************************************************)
(* The remote lock of one financed handset: the server's row, the signed   *)
(* agreement, the requests being served, and the DPC app on the phone.     *)
(*                                                                         *)
(* The server is one Express process over Postgres.  A handler awaits      *)
(* between reading the row and writing it, so other handlers run in the    *)
(* gap: each handler is a read step that picks a "job" (what it has        *)
(* decided to write) and one or more later steps that carry the job out.   *)
(* The phone talks to the server only by requests of its own; any of them  *)
(* may be lost, or its answer may, at any moment.                          *)
(***************************************************************************)
EXTENDS DeviceRecord

CONSTANTS
  Staff,      \* concurrent requests of the dashboard, the nightly engine, payments
  Calls,      \* concurrent requests of the phone in the server
  Syncs,      \* threads of the app that may talk to the server
  Tokens,     \* device credentials; a fresh one is one nobody holds
  NoToken,
  NoSync,
  Simulator,  \* the simulator's actions in use (none in production: not mounted)
  OfflineRule \* whether the dealer's settings may let the phone lock itself

ASSUME NoTokenAssumption == NoToken \notin Tokens
ASSUME NoSyncAssumption == NoSync \notin Syncs
ASSUME SimulatorAssumption == Simulator \subseteq {"offline", "online", "reboot", "scan"}
ASSUME OfflineRuleAssumption == OfflineRule \in BOOLEAN

VARIABLES
  device,      \* the row: status, pendingCommand, isOnline, token (its hash)
  agreement,   \* the contract as consentForDevice sees it
  signedAt,    \* the contract has a signature on it (void leaves it there)
  qr,          \* an enrolment QR is waiting to be redeemed
  staff,       \* what each staff request has decided to write
  call,        \* what each phone request in the server has still to do
  phone,       \* the handset: token, owner, lockApplied, selfLock, released
  sync         \* what each thread of the app is doing

serverVars == <<device, agreement, signedAt, qr, staff, call>>
phoneVars == <<phone, sync>>
vars == <<device, agreement, signedAt, qr, staff, call, phone, sync>>

MaybeToken == Tokens \cup {NoToken}

\* DRIFTED is a signed contract whose plan no longer matches it.
Agreements == {"DRAFT", "SIGNED", "DRIFTED", "VOID"}

ConsentedDraftForgotten == agreement # "VOID"

\* consentForDevice: the question every lock asks.
Consented == agreement = "SIGNED"

StaffJobs == {"free", "askLock", "askQueueLock", "lock", "queueLock", "unlock",
              "queueUnlock", "flag", "clear", "release", "reEnroll"}

\* Jobs that will restrict the phone, past the consent check.
LockJobs == {"lock", "queueLock"}

CallJobs == {"free", "checkIn", "ackReread", "ackLock", "ackUnlock",
             "enrollReread", "enrollWrite", "enrollIssue"}

FreeCall == [job |-> "free", from |-> NoSync]

\* A thread of the app: idle, waiting for an answer, holding one ("synced",
\* "gone", "enrolled"), in the middle of applyLock or releaseLock, on the way
\* through a release ("stepDown", "forget", "mark"), or about to acknowledge.
SyncStates == {"idle", "waiting", "synced", "gone", "enrolled", "locking", "lifting",
               "stepDown", "forget", "mark", "ack"}

Idle == [pc |-> "idle", locked |-> FALSE, selfLock |-> FALSE,
         command |-> NoCommand, applied |-> FALSE, token |-> NoToken]

Waiting == [Idle EXCEPT !.pc = "waiting"]

DeviceType == [status: Statuses, pendingCommand: Commands \cup {NoCommand},
               isOnline: BOOLEAN, token: MaybeToken]

CallType == [job: CallJobs, from: Syncs \cup {NoSync}]

PhoneType == [token: MaybeToken, owner: BOOLEAN, lockApplied: BOOLEAN,
              selfLock: BOOLEAN, released: BOOLEAN]

SyncType == [pc: SyncStates, locked: BOOLEAN, selfLock: BOOLEAN,
             command: Commands \cup {NoCommand}, applied: BOOLEAN, token: MaybeToken]

\* Every handler and every thread keeps the columns and fields it shares with
\* the others within their domains.
TypeOK ==
  /\ device \in DeviceType
  /\ agreement \in Agreements
  /\ signedAt \in BOOLEAN
  /\ qr \in BOOLEAN
  /\ staff \in [Staff -> StaffJobs]
  /\ call \in [Calls -> CallType]
  /\ phone \in PhoneType
  /\ sync \in [Syncs -> SyncType]

\* A sale has just been registered: the row waits for its QR, the contract is
\* a draft.  The app may or may not have been provisioned as device owner.
Init ==
  /\ device = [status |-> "PENDING", pendingCommand |-> NoCommand,
               isOnline |-> FALSE, token |-> NoToken]
  /\ agreement = "DRAFT"
  /\ signedAt = FALSE
  /\ qr = FALSE
  /\ staff = [w \in Staff |-> "free"]
  /\ call = [c \in Calls |-> FreeCall]
  /\ phone \in [token: {NoToken}, owner: BOOLEAN, lockApplied: {FALSE},
                selfLock: {FALSE}, released: {FALSE}]
  /\ sync = [s \in Syncs |-> Idle]

-----------------------------------------------------------------------------
(* The agreement. *)

Sign ==
  /\ agreement = "DRAFT"
  /\ agreement' = "SIGNED"
  /\ signedAt' = TRUE
  /\ UNCHANGED <<device, qr, staff, call, phoneVars>>

VoidAgreement ==
  /\ agreement' = "VOID"
  /\ UNCHANGED <<device, signedAt, qr, staff, call, phoneVars>>

\* The plan is changed away from the signed figures, or back to them.
PlanDrift ==
  /\ \/ agreement = "SIGNED" /\ agreement' = "DRIFTED"
     \/ agreement = "DRIFTED" /\ agreement' = "SIGNED"
  /\ UNCHANGED <<device, signedAt, qr, staff, call, phoneVars>>

-----------------------------------------------------------------------------
(* Staff requests: read the row, decide, write.                            *)

Begin(w, job) ==
  /\ staff[w] = "free"
  /\ staff' = [staff EXCEPT ![w] = job]
  /\ UNCHANGED <<device, agreement, signedAt, qr, call, phoneVars>>

\* lockDevice up to the consent check: from the dashboard, the nightly engine
\* and the simulator's FORCE_LOCK.  A row that is LOCKED or LOCK_PENDING is
\* answered without a write.
LockRead(w) ==
  /\ device.status \notin {"LOCKED", "LOCK_PENDING", "REMOVED", "PENDING"}
  /\ \/ /\ device.isOnline
        /\ CanMove(device.status, "LOCKED")
        /\ Begin(w, "askLock")
     \/ /\ ~device.isOnline
        /\ CanMove(device.status, "LOCK_PENDING")
        /\ Begin(w, "askQueueLock")

\* lockDevice asks consentForDevice; refusal is a 409.
LockConsent(w) ==
  /\ staff[w] \in {"askLock", "askQueueLock"}
  /\ staff' = [staff EXCEPT ![w] = CASE ~Consented -> "free"
                                     [] Consented /\ @ = "askLock" -> "lock"
                                     [] Consented /\ @ = "askQueueLock" -> "queueLock"]
  /\ UNCHANGED <<device, agreement, signedAt, qr, call, phoneVars>>

\* unlockDevice, from the dashboard, FORCE_UNLOCK and settleUnlock.
UnlockRead(w) ==
  /\ device.status \notin {"ACTIVE", "UNLOCK_PENDING"}
  /\ \/ /\ device.isOnline
        /\ CanMove(device.status, "ACTIVE")
        /\ Begin(w, "unlock")
     \/ /\ ~device.isOnline
        /\ CanMove(device.status, "UNLOCK_PENDING")
        /\ Begin(w, "queueUnlock")

\* The engine's else-branch, and SIMULATE_OVERDUE, flag from a row read earlier.
FlagRead(w) ==
  /\ device.status \in {"ACTIVE", "ENROLLED"}
  /\ Begin(w, "flag")

\* resolveUnlock with flagOnly: the write happens after the payment commits.
ClearRead(w) ==
  /\ device.status = "OVERDUE"
  /\ Begin(w, "clear")

\* POST /:id/release, and the payment that completes a plan.
ReleaseRead(w) ==
  /\ device.status \in Releasable
  /\ Begin(w, "release")

ReEnrollRead(w) ==
  /\ device.status \in ReEnrollable
  /\ Begin(w, "reEnroll")

\* The unconditional write each job ends in.
Written(d, job) ==
  CASE job = "lock"        -> Locked(d)
    [] job = "queueLock"   -> LockQueued(d)
    [] job = "unlock"      -> Unlocked(d)
    [] job = "queueUnlock" -> UnlockQueued(d)
    [] job = "flag"        -> Flagged(d)
    [] job = "clear"       -> Cleared(d)
    [] job = "release"     -> Released(d)
    [] job = "reEnroll"    -> ReEnrolled(d, NoToken)

StaffWrite(w) ==
  /\ staff[w] \notin {"free", "askLock", "askQueueLock"}
  /\ device' = Written(device, staff[w])
  /\ staff' = [staff EXCEPT ![w] = "free"]
  /\ UNCHANGED <<agreement, signedAt, qr, call, phoneVars>>

\* The request fails, or the process restarts, before its write.
StaffFails(w) ==
  /\ staff[w] # "free"
  /\ staff' = [staff EXCEPT ![w] = "free"]
  /\ UNCHANGED <<device, agreement, signedAt, qr, call, phoneVars>>

\* EnrollmentService.generateToken.
IssueQr ==
  /\ device.status \notin {"ACTIVE", "LOCKED"}
  /\ qr' = TRUE
  /\ UNCHANGED <<device, agreement, signedAt, staff, call, phoneVars>>

\* The code's time to live runs out.
QrExpires ==
  /\ qr
  /\ qr' = FALSE
  /\ UNCHANGED <<device, agreement, signedAt, staff, call, phoneVars>>

-----------------------------------------------------------------------------
(* The phone's requests in the server.                                     *)

ReplyTo(c, reply) ==
  IF call[c].from \in Syncs
  THEN [sync EXCEPT ![call[c].from] = reply]
  ELSE sync

Serve(c, s, job) ==
  /\ call[c].job = "free"
  /\ call' = [call EXCEPT ![c] = [job |-> job, from |-> s]]

Then(c, job) == call' = [call EXCEPT ![c].job = job]

Done(c) == call' = [call EXCEPT ![c] = FreeCall]

Authentic == phone.token # NoToken /\ phone.token = device.token

\* syncOnce sends a check-in and requireDevice lets it in.  A request that is
\* lost, or answered 401, changes nothing.
CheckIn(s, c) ==
  /\ sync[s].pc = "idle"
  /\ Authentic
  /\ device.status \notin Revoked
  /\ Serve(c, s, "checkIn")
  /\ sync' = [sync EXCEPT ![s] = Waiting]
  /\ UNCHANGED <<device, agreement, signedAt, qr, staff, phone>>

\* requireDevice answers 403: this phone is no longer under management.
CheckInRefused(s) ==
  /\ sync[s].pc = "idle"
  /\ Authentic
  /\ device.status \in Revoked
  /\ sync' = [sync EXCEPT ![s] = [Idle EXCEPT !.pc = "gone"]]
  /\ UNCHANGED <<serverVars, phone>>

\* offlineLockDaysFor: never without a standing agreement; with one, it
\* depends on the dealer's settings and on the terms that were signed.
MaySelfLock == IF Consented /\ OfflineRule THEN BOOLEAN ELSE {FALSE}

\* The check-in's write and its answer, built from the row that write returns.
CheckInWrite(c) ==
  /\ call[c].job = "checkIn"
  /\ device' = CheckedIn(device)
  /\ \E allowed \in MaySelfLock :
       sync' = ReplyTo(c, [Idle EXCEPT !.pc = "synced",
                                       !.locked = PolicyLocked(device),
                                       !.selfLock = allowed,
                                       !.command = device.pendingCommand])
  /\ Done(c)
  /\ UNCHANGED <<agreement, signedAt, qr, staff, phone>>

\* POST /commands/ack goes on to acknowledgeCommand only for the command that
\* is waiting; a failure report (applied = false) leaves it queued.
AckAccepted(s) ==
  /\ Authentic
  /\ device.status \notin Revoked
  /\ device.pendingCommand = sync[s].command
  /\ sync[s].applied

\* The phone ignores the answer to an acknowledgement: its thread moves on.
Acknowledge(s, c) ==
  /\ sync[s].pc = "ack"
  /\ \/ AckAccepted(s) /\ Serve(c, NoSync, "ackReread")
     \/ ~AckAccepted(s) /\ UNCHANGED call
  /\ sync' = [sync EXCEPT ![s] = Idle]
  /\ UNCHANGED <<device, agreement, signedAt, qr, staff, phone>>

\* acknowledgeCommand reads the row again and acts on the command it finds.
AckReread(c) ==
  /\ call[c].job = "ackReread"
  /\ CASE device.pendingCommand = "LOCK" /\ CanMove(device.status, "LOCKED") ->
            Then(c, "ackLock")
       [] device.pendingCommand = "UNLOCK" /\ CanMove(device.status, "ACTIVE") ->
            Then(c, "ackUnlock")
       [] OTHER -> Done(c)
  /\ UNCHANGED <<device, agreement, signedAt, qr, staff, phoneVars>>

AckWrite(c) ==
  /\ \/ call[c].job = "ackLock" /\ device' = Acknowledged(device, "LOCK")
     \/ call[c].job = "ackUnlock" /\ device' = Acknowledged(device, "UNLOCK")
  /\ Done(c)
  /\ UNCHANGED <<agreement, signedAt, qr, staff, phoneVars>>

\* verifyAndEnroll claims the code, and enrollDevice reads the row.  The
\* caller is the phone's enrolment screen or the simulator (from = NoSync).
Enroll(s, c) ==
  /\ qr
  /\ qr' = FALSE
  /\ \/ s = NoSync /\ "scan" \in Simulator /\ UNCHANGED sync
     \/ /\ s \in Syncs
        /\ sync[s].pc = "idle"
        /\ phone.token = NoToken
        /\ sync' = [sync EXCEPT ![s] = Waiting]
  /\ Serve(c, s, CASE device.status = "ACTIVE"  -> "enrollIssue"
                   [] device.status = "PENDING" -> "enrollWrite"
                   [] OTHER                     -> "enrollReread")
  /\ UNCHANGED <<device, agreement, signedAt, staff, phone>>

\* Inside enrollDevice's transaction: a row not PENDING is read again and must
\* be able to become ACTIVE.  A refusal makes the code redeemable again.
EnrollReread(c) ==
  /\ call[c].job = "enrollReread"
  /\ \/ /\ CanMove(device.status, "ACTIVE")
        /\ Then(c, "enrollWrite")
        /\ UNCHANGED <<qr, sync>>
     \/ /\ ~CanMove(device.status, "ACTIVE")
        /\ Done(c)
        /\ qr' = TRUE
        /\ sync' = ReplyTo(c, Idle)
  /\ UNCHANGED <<device, agreement, signedAt, staff, phone>>

EnrollWrite(c) ==
  /\ call[c].job = "enrollWrite"
  /\ device' = Enrolled(device)
  /\ Then(c, "enrollIssue")
  /\ UNCHANGED <<agreement, signedAt, qr, staff, phoneVars>>

HeldTokens == {device.token, phone.token} \cup {sync[s].token : s \in Syncs}

\* The credential is rotated and sent with a policy built from the row
\* enrollDevice returned, which is ACTIVE: the answer never says locked.
EnrollIssue(c) ==
  /\ call[c].job = "enrollIssue"
  /\ \E t \in Tokens \ HeldTokens, allowed \in MaySelfLock :
       /\ device' = [device EXCEPT !.token = t]
       /\ sync' = ReplyTo(c, [Idle EXCEPT !.pc = "enrolled",
                                          !.selfLock = allowed, !.token = t])
  /\ Done(c)
  /\ UNCHANGED <<agreement, signedAt, qr, staff, phone>>

\* The request fails in the server, or the process restarts.  An enrolment
\* that throws makes its code redeemable again; one that is cut off does not.
CallFails(c) ==
  /\ call[c].job # "free"
  /\ IF call[c].job \in {"enrollReread", "enrollWrite", "enrollIssue"}
     THEN qr' \in {qr, TRUE}
     ELSE qr' = qr
  /\ sync' = ReplyTo(c, Idle)
  /\ Done(c)
  /\ UNCHANGED <<device, agreement, signedAt, staff, phone>>

-----------------------------------------------------------------------------
(* The phone.                                                              *)

\* A thread's request is lost, times out, or the app is killed; what the
\* server is doing for it goes on without a caller.
Interrupt(s) ==
  /\ sync[s].pc # "idle"
  /\ sync' = [sync EXCEPT ![s] = Idle]
  /\ call' = [c \in Calls |-> IF call[c].from = s
                              THEN [call[c] EXCEPT !.from = NoSync]
                              ELSE call[c]]
  /\ UNCHANGED <<device, agreement, signedAt, qr, staff, phone>>

\* Thread s goes on, obeying the command it has been given, if any.
GoingOn(s, pc) == [Idle EXCEPT !.pc = pc, !.command = sync[s].command]

\* A command is acknowledged with what came of it; anything else is not.
ReportsBack(s, applied) ==
  IF sync[s].command = NoCommand THEN Idle ELSE [GoingOn(s, "ack") EXCEPT !.applied = applied]

BeginLockOwnerDropped(s) == GoingOn(s, "locking")

\* applyLock refuses at once without device owner.  With it a score of calls
\* to the platform follows, and no lock keeps the other threads out meanwhile.
BeginLock(s) == IF phone.owner THEN GoingOn(s, "locking") ELSE ReportsBack(s, FALSE)

\* applyAndAcknowledge: obey the waiting command.
ApplyCommand(s) ==
  /\ sync[s].command # NoCommand
  /\ sync' = [sync EXCEPT ![s] = IF sync[s].command = "LOCK" THEN BeginLock(s)
                                                           ELSE GoingOn(s, "lifting")]

ReconcileReleaseForgotten(s) ==
  /\ sync[s].command = NoCommand
  /\ sync' = [sync EXCEPT ![s] = IF sync[s].locked /\ ~phone.lockApplied THEN BeginLock(s) ELSE Idle]

\* reconcile: no command is waiting, so follow the policy.
Reconcile(s) ==
  /\ sync[s].command = NoCommand
  /\ sync' = [sync EXCEPT ![s] = CASE sync[s].locked /\ ~phone.lockApplied -> BeginLock(s)
                                    [] ~sync[s].locked /\ phone.lockApplied -> GoingOn(s, "lifting")
                                    [] OTHER -> Idle]

\* syncOnce with an answer: the policy is saved, then acted on.
HandleSynced(s) ==
  /\ sync[s].pc = "synced"
  /\ phone' = [phone EXCEPT !.selfLock = sync[s].selfLock]
  /\ ApplyCommand(s) \/ Reconcile(s)
  /\ UNCHANGED serverVars

\* The last of applyLock's calls went through and the lock is noted, or the
\* platform refused one of them.
FinishLock(s, applied) ==
  /\ sync[s].pc = "locking"
  /\ phone' = [phone EXCEPT !.lockApplied = @ \/ applied]
  /\ sync' = [sync EXCEPT ![s] = ReportsBack(s, applied)]
  /\ UNCHANGED serverVars

\* releaseLock has nothing to undo without device owner, and so cannot fail.
FinishLift(s, applied) ==
  /\ sync[s].pc = "lifting"
  /\ ~phone.owner => applied
  /\ phone' = [phone EXCEPT !.lockApplied = @ /\ ~applied]
  /\ sync' = [sync EXCEPT ![s] = ReportsBack(s, applied)]
  /\ UNCHANGED serverVars

\* syncOnce with a 403.  releaseFromManagement does nothing without device
\* owner; with it, it unwinds the lock, failure or not, ...
Unwind(s) ==
  /\ sync[s].pc = "gone"
  /\ IF phone.owner
     THEN /\ \E lifted \in BOOLEAN : phone' = [phone EXCEPT !.lockApplied = @ /\ ~lifted]
          /\ sync' = [sync EXCEPT ![s] = [Idle EXCEPT !.pc = "stepDown"]]
     ELSE sync' = [sync EXCEPT ![s] = [Idle EXCEPT !.pc = "forget"]] /\ UNCHANGED phone
  /\ UNCHANGED serverVars

\* ... and steps down last of all; a failure is only logged.
StepDown(s) ==
  /\ sync[s].pc = "stepDown"
  /\ \E done \in BOOLEAN : phone' = [phone EXCEPT !.owner = @ /\ ~done]
  /\ sync' = [sync EXCEPT ![s] = [Idle EXCEPT !.pc = "forget"]]
  /\ UNCHANGED serverVars

\* prefs.clear forgets everything; released is set after it.
ClearPrefs(s) ==
  /\ sync[s].pc = "forget"
  /\ phone' = [token |-> NoToken, owner |-> phone.owner, lockApplied |-> FALSE,
               selfLock |-> FALSE, released |-> FALSE]
  /\ sync' = [sync EXCEPT ![s] = [Idle EXCEPT !.pc = "mark"]]
  /\ UNCHANGED serverVars

MarkReleased(s) ==
  /\ sync[s].pc = "mark"
  /\ phone' = [phone EXCEPT !.released = TRUE]
  /\ sync' = [sync EXCEPT ![s] = Idle]
  /\ UNCHANGED serverVars

\* DpcSync.enroll with an answer.
HandleEnrolled(s) ==
  /\ sync[s].pc = "enrolled"
  /\ phone' = [phone EXCEPT !.token = sync[s].token, !.selfLock = sync[s].selfLock,
                            !.released = FALSE]
  /\ sync' = [sync EXCEPT ![s] = Idle]
  /\ UNCHANGED serverVars

SelfLockOwnerDropped(s) ==
  /\ sync[s].pc = "idle"
  /\ phone.token # NoToken
  /\ ~phone.lockApplied
  /\ phone.selfLock
  /\ sync' = [sync EXCEPT ![s] = [Idle EXCEPT !.pc = "locking"]]
  /\ UNCHANGED <<serverVars, phone>>

\* The watchdog, a thread of its own, finds the phone silent for longer than
\* its cached limit with an instalment past due, and calls applyLock with
\* nobody asking.
SelfLock(s) ==
  /\ sync[s].pc = "idle"
  /\ phone.token # NoToken
  /\ ~phone.lockApplied
  /\ phone.selfLock
  /\ phone.owner
  /\ sync' = [sync EXCEPT ![s] = [Idle EXCEPT !.pc = "locking"]]
  /\ UNCHANGED <<serverVars, phone>>

\* A factory reset; the phone is set up again from a QR, or by hand.
Wipe ==
  /\ phone' \in [token: {NoToken}, owner: BOOLEAN, lockApplied: {FALSE},
                 selfLock: {FALSE}, released: {FALSE}]
  /\ sync' = [s \in Syncs |-> Idle]
  /\ call' = [c \in Calls |-> [call[c] EXCEPT !.from = NoSync]]
  /\ UNCHANGED <<device, agreement, signedAt, qr, staff>>

-----------------------------------------------------------------------------
(* routes/simulator, for a super admin, outside production.                *)

\* TOGGLE_ONLINE to off, and SIMULATE_OFFLINE_SELF_LOCK.
SimOffline ==
  /\ "offline" \in Simulator
  /\ device.isOnline
  /\ device' = [device EXCEPT !.isOnline = FALSE]
  /\ UNCHANGED <<agreement, signedAt, qr, staff, call, phoneVars>>

\* TOGGLE_ONLINE to on: a waiting command is acknowledged on the spot.
SimOnline(c) ==
  /\ "online" \in Simulator
  /\ device' = CheckedIn(device)
  /\ IF device.pendingCommand # NoCommand
     THEN Serve(c, NoSync, "ackReread")
     ELSE UNCHANGED call
  /\ UNCHANGED <<agreement, signedAt, qr, staff, phoneVars>>

\* SIMULATE_REBOOT: refused while offline, and also a check-in.
SimReboot(c) ==
  /\ "reboot" \in Simulator
  /\ device.isOnline
  /\ device.pendingCommand # NoCommand
  /\ Serve(c, NoSync, "ackReread")
  /\ UNCHANGED <<device, agreement, signedAt, qr, staff, phoneVars>>

-----------------------------------------------------------------------------
AgreementStep == Sign \/ VoidAgreement \/ PlanDrift

StaffStep(w) ==
  \/ LockRead(w) \/ LockConsent(w) \/ UnlockRead(w) \/ FlagRead(w) \/ ClearRead(w)
  \/ ReleaseRead(w) \/ ReEnrollRead(w) \/ StaffWrite(w) \/ StaffFails(w)

CallStep(c) ==
  \/ CheckInWrite(c) \/ AckReread(c) \/ AckWrite(c)
  \/ EnrollReread(c) \/ EnrollWrite(c) \/ EnrollIssue(c) \/ CallFails(c)
  \/ SimOnline(c) \/ SimReboot(c)
  \/ \E s \in Syncs : CheckIn(s, c) \/ Acknowledge(s, c)
  \/ \E s \in Syncs \cup {NoSync} : Enroll(s, c)

SyncStep(s) ==
  \/ CheckInRefused(s) \/ HandleEnrolled(s) \/ HandleSynced(s) \/ SelfLock(s)
  \/ \E applied \in BOOLEAN : FinishLock(s, applied) \/ FinishLift(s, applied)
  \/ Unwind(s) \/ StepDown(s) \/ ClearPrefs(s) \/ MarkReleased(s) \/ Interrupt(s)

Next ==
  \/ AgreementStep
  \/ IssueQr \/ QrExpires \/ SimOffline
  \/ Wipe
  \/ \E w \in Staff : StaffStep(w)
  \/ \E c \in Calls : CallStep(c)
  \/ \E s \in Syncs : SyncStep(s)

Spec == Init /\ [][Next]_vars

-----------------------------------------------------------------------------
(* Fairness: requests end, and a phone that keeps trying gets through.     *)

\* A request that has been let in goes on, if only to fail.
CallEnds(c) ==
  \/ CheckInWrite(c) \/ AckReread(c) \/ AckWrite(c)
  \/ EnrollReread(c) \/ EnrollWrite(c) \/ EnrollIssue(c) \/ CallFails(c)

\* A thread of the app does not wait for ever: its requests time out.
ThreadMoves(s) ==
  \/ HandleEnrolled(s) \/ HandleSynced(s) \/ Interrupt(s)
  \/ \E applied \in BOOLEAN : FinishLock(s, applied) \/ FinishLift(s, applied)
  \/ Unwind(s) \/ StepDown(s) \/ ClearPrefs(s) \/ MarkReleased(s)
  \/ \E c \in Calls : Acknowledge(s, c)

CheckInAnswered(s) == \E c \in Calls : call[c].from = s /\ CheckInWrite(c)

AckDelivered(s) == AckAccepted(s) /\ \E c \in Calls : Acknowledge(s, c)

\* WorkManager repeats the check-in for as long as the phone is enrolled, and
\* a request repeated for ever does not fail for ever, on either side.
Fairness ==
  /\ \A c \in Calls : /\ WF_vars(CallEnds(c))
                       /\ SF_vars(AckReread(c))
                       /\ SF_vars(AckWrite(c))
  /\ \A s \in Syncs : /\ WF_vars(ThreadMoves(s))
                       /\ SF_vars(\E c \in Calls : CheckIn(s, c))
                       /\ SF_vars(CheckInAnswered(s))
                       /\ SF_vars(CheckInRefused(s))
                       /\ SF_vars(HandleSynced(s))
                       /\ SF_vars(FinishLock(s, TRUE))
                       /\ SF_vars(FinishLift(s, TRUE))
                       /\ SF_vars(Unwind(s))
                       /\ SF_vars(StepDown(s))
                       /\ SF_vars(ClearPrefs(s))
                       /\ SF_vars(AckDelivered(s))

-----------------------------------------------------------------------------
(* Safety. *)

CommandMatches(d) ==
  /\ d.status = "LOCK_PENDING" => d.pendingCommand = "LOCK"
  /\ d.status = "UNLOCK_PENDING" => d.pendingCommand = "UNLOCK"
  /\ d.status \in {"PENDING", "LOCKED", "INACTIVE"} => d.pendingCommand = NoCommand

\* A status that waits for the handset has its command queued, and a row that
\* is PENDING, LOCKED or INACTIVE has none: otherwise the row would wait for
\* ever, or the phone would be told to undo what it has just been told
\* (DeviceManagementService, the pendingCommand column).  An ACTIVE or OVERDUE
\* row may keep a command that was queued before.
CommandMatchesStatus == CommandMatches(device)

\* No handset is ever restricted, by command, by policy or by itself, for a
\* customer who never signed: the consent check of lockDevice and of
\* offlineLockDaysFor cannot be got round by any delay between a decision, its
\* write, its delivery and the phone acting on it.
RestrictedOnlyWithConsent == phone.lockApplied => signedAt

\* Why RestrictedOnlyWithConsent holds: without a signature nothing that could
\* lead to a lock exists anywhere, not in the row, in a request past the consent
\* check, in an answer on its way, or in the policy the phone has cached.
NothingLocksUnsigned ==
  ~signedAt =>
    /\ agreement \notin {"SIGNED", "DRIFTED"}
    /\ device.status \notin {"LOCK_PENDING", "LOCKED"}
    /\ device.pendingCommand # "LOCK"
    /\ \A w \in Staff : staff[w] \notin LockJobs
    /\ \A c \in Calls : call[c].job # "ackLock"
    /\ \A s \in Syncs : /\ ~sync[s].locked /\ ~sync[s].selfLock
                        /\ sync[s].command # "LOCK" /\ sync[s].pc # "locking"
    /\ ~phone.selfLock
    /\ ~phone.lockApplied

\* Some thread is in the middle of applyLock.
Locking == \E s \in Syncs : sync[s].pc = "locking"

HandedBack == ~phone.owner /\ ~phone.lockApplied /\ ~Locking

\* Once the app has stepped down, holds no lock and is not in the middle of
\* one, no answer that was on its way to another thread, no cached rule and no
\* new enrolment restricts the phone again: only a factory reset makes the app
\* device owner once more (LockController.applyLock, stepDown).
HandedBackStaysFree == [][HandedBack /\ ~Wipe => HandedBack']_vars

\* What the person holding the phone is promised.
Promise == INSTANCE HandsetPromise
             WITH agreed <- signedAt, managed <- phone.owner, seizing <- Locking,
                  restricted <- phone.lockApplied

KeepsPromise == Promise!Spec

-----------------------------------------------------------------------------
(* What comments in the code say, and the code does not do.                *)

\* routes/dpc.routes: "A lock is not LOCKED because the dashboard said so; it
\* is LOCKED when the handset acknowledges that it applied the restriction."
LockedMeansApplied ==
  [][device.status # "LOCKED" /\ device'.status = "LOCKED" => phone.lockApplied]_vars

\* DeviceReleaseService: a released record answers the phone "no longer under
\* management" from then on; only enrolling the phone again may change that.
ReleasedIsFinal ==
  [][device.status = "INACTIVE" /\ device'.status # "INACTIVE"
       => \E c \in Calls : call[c].job = "enrollWrite"]_vars

\* ContractService.void: "A voided contract means the device can no longer be
\* restricted."
VoidContractLocksNothing ==
  [][agreement = "VOID" /\ ~phone.lockApplied => ~phone'.lockApplied]_vars

-----------------------------------------------------------------------------
(* Liveness, for a phone that is managed and holds the row's credential.   *)

Reachable == phone.owner /\ Authentic

\* A queued lock or unlock does not wait for ever: it is acknowledged, or a
\* later decision replaces it (POST /check-in and /commands/ack).
QueuedCommandSettles ==
  (device.status \in {"LOCK_PENDING", "UNLOCK_PENDING"} /\ Reachable)
    ~> (device.status \notin {"LOCK_PENDING", "UNLOCK_PENDING"} \/ ~Reachable)

\* A phone that the server no longer wants locked is let go, whether or not
\* any unlock command ever reached it (DpcSync.reconcile).
UnlockedPhoneIsLetGo ==
  (device.status \in {"ACTIVE", "OVERDUE"} /\ Reachable /\ phone.lockApplied)
    ~> (device.status \notin {"ACTIVE", "OVERDUE"} \/ device.pendingCommand = "LOCK"
          \/ ~Reachable \/ ~phone.lockApplied)

\* A phone released on the server is told so, and forgets its credentials or
\* steps down (requireDevice's 403).
ReleaseReachesPhone ==
  (device.status = "INACTIVE" /\ Reachable)
    ~> (device.status # "INACTIVE" \/ ~Reachable)

=============================================================================
