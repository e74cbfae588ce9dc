------------------------ MODULE LockProtocol_proofs ------------------------
(***************************************************************************)
(* Theorems about LockProtocol, for any number of concurrent requests and  *)
(* threads, any set of credentials, and any use of the simulator.          *)
(***************************************************************************)
EXTENDS LockProtocol, TLAPS

-----------------------------------------------------------------------------
(* What the row's writes do. *)

\* The writes of DeviceRecord give a row again.
LEMMA WritesAreRows ==
  ASSUME NEW d \in DeviceType
  PROVE  /\ Locked(d) \in DeviceType
         /\ LockQueued(d) \in DeviceType
         /\ Unlocked(d) \in DeviceType
         /\ UnlockQueued(d) \in DeviceType
         /\ Flagged(d) \in DeviceType
         /\ Cleared(d) \in DeviceType
         /\ Released(d) \in DeviceType
         /\ ReEnrolled(d, NoToken) \in DeviceType
         /\ Enrolled(d) \in DeviceType
         /\ CheckedIn(d) \in DeviceType
         /\ \A command : Acknowledged(d, command) \in DeviceType
BY DEF DeviceType, Statuses, Commands, NoCommand, MaybeToken, Locked, LockQueued, Unlocked,
       UnlockQueued, Flagged, Cleared, Released, ReEnrolled, Enrolled, CheckedIn, Acknowledged

\* Each job that ends in a write ends in one of them.
LEMMA WrittenIsRow ==
  ASSUME NEW d \in DeviceType,
         NEW job \in StaffJobs \ {"free", "askLock", "askQueueLock"}
  PROVE  Written(d, job) \in DeviceType
BY WritesAreRows DEF Written, StaffJobs

\* An answer goes to a thread that exists.
LEMMA ReplyIsTyped ==
  ASSUME TypeOK, NEW c \in Calls, NEW reply \in SyncType
  PROVE  ReplyTo(c, reply) \in [Syncs -> SyncType]
BY DEF TypeOK, ReplyTo

\* The resting state of a thread, and the state in which it waits for an answer.
LEMMA IdleIsTyped == Idle \in SyncType /\ Waiting \in SyncType
BY DEF Idle, Waiting, SyncType, SyncStates, Commands, NoCommand, MaybeToken

\* A request slot nobody uses.
LEMMA FreeCallIsTyped == FreeCall \in CallType
BY DEF FreeCall, CallType, CallJobs

-----------------------------------------------------------------------------
(* TypeOK. *)

\* TypeOK holds when the sale has just been registered.
LEMMA TypeInit ==
  ASSUME Init
  PROVE  TypeOK
<1>1. device \in DeviceType
  BY DEF Init, DeviceType, Statuses, Commands, NoCommand, MaybeToken
<1>2. phone \in PhoneType
  BY DEF Init, PhoneType, MaybeToken
<1>3. agreement \in Agreements /\ signedAt \in BOOLEAN /\ qr \in BOOLEAN
  BY DEF Init, Agreements
<1>4. staff \in [Staff -> StaffJobs]
  BY DEF Init, StaffJobs
<1>5. call \in [Calls -> CallType]
  BY FreeCallIsTyped DEF Init
<1>6. sync \in [Syncs -> SyncType]
  BY IdleIsTyped DEF Init
<1> QED
  BY <1>1, <1>2, <1>3, <1>4, <1>5, <1>6 DEF TypeOK

\* TypeOK through the requests of the dashboard, the engine and the payments.
LEMMA StaffKeepsType ==
  ASSUME TypeOK, NEW w \in Staff, StaffStep(w)
  PROVE  TypeOK'
<1>1. CASE LockRead(w) \/ UnlockRead(w) \/ FlagRead(w) \/ ClearRead(w)
             \/ ReleaseRead(w) \/ ReEnrollRead(w)
  <2>1. PICK job \in StaffJobs : Begin(w, job)
    BY <1>1 DEF LockRead, UnlockRead, FlagRead, ClearRead, ReleaseRead, ReEnrollRead, StaffJobs
  <2> QED
    BY <2>1 DEF Begin, TypeOK, phoneVars
<1>2. CASE LockConsent(w)
  <2>1. PICK job \in StaffJobs : staff' = [staff EXCEPT ![w] = job]
    BY <1>2 DEF LockConsent, StaffJobs
  <2> QED
    BY <1>2, <2>1 DEF LockConsent, TypeOK, phoneVars
<1>3. CASE StaffWrite(w)
  <2>1. device' \in DeviceType
    BY <1>3, WrittenIsRow DEF StaffWrite, TypeOK
  <2>2. "free" \in StaffJobs
    BY DEF StaffJobs
  <2> QED
    BY <1>3, <2>1, <2>2 DEF StaffWrite, TypeOK, phoneVars
<1>4. CASE StaffFails(w)
  BY <1>4 DEF StaffFails, StaffJobs, TypeOK, phoneVars
<1> QED
  BY <1>1, <1>2, <1>3, <1>4 DEF StaffStep

\* Letting a request of the phone in.
LEMMA ServeIsTyped ==
  ASSUME TypeOK, NEW c \in Calls, NEW s \in Syncs \cup {NoSync}, NEW job \in CallJobs,
         Serve(c, s, job)
  PROVE  call' \in [Calls -> CallType]
BY DEF Serve, TypeOK, CallType

\* A request of the phone going on to its next step.
LEMMA ThenIsTyped ==
  ASSUME TypeOK, NEW c \in Calls, NEW job \in CallJobs, Then(c, job)
  PROVE  call' \in [Calls -> CallType]
BY DEF Then, TypeOK, CallType

\* A request of the phone being answered.
LEMMA DoneIsTyped ==
  ASSUME TypeOK, NEW c \in Calls, Done(c)
  PROVE  call' \in [Calls -> CallType]
BY FreeCallIsTyped DEF Done, TypeOK

\* The answers CheckInWrite and EnrollIssue build.
LEMMA SyncedIsTyped ==
  ASSUME TypeOK, NEW allowed \in BOOLEAN
  PROVE  [Idle EXCEPT !.pc = "synced", !.locked = PolicyLocked(device),
                      !.selfLock = allowed, !.command = device.pendingCommand] \in SyncType
BY DEF TypeOK, Idle, SyncType, SyncStates, DeviceType, PolicyLocked, MaybeToken, Commands, NoCommand

\* The answer to an enrolment.
LEMMA EnrolledIsTyped ==
  ASSUME NEW allowed \in BOOLEAN, NEW t \in Tokens
  PROVE  [Idle EXCEPT !.pc = "enrolled", !.selfLock = allowed, !.token = t] \in SyncType
BY DEF Idle, SyncType, SyncStates, MaybeToken, Commands, NoCommand

\* The offline rule in a policy is a yes or a no.
LEMMA MaySelfLockIsBoolean == MaySelfLock \subseteq BOOLEAN
BY DEF MaySelfLock

\* TypeOK through the steps of the phone's requests in the server.
LEMMA CallKeepsType ==
  ASSUME TypeOK, NEW c \in Calls, CallStep(c)
  PROVE  TypeOK'
<1> USE DEF phoneVars
<1>1. CASE CheckInWrite(c)
  <2>1. device' \in DeviceType
    BY <1>1, WritesAreRows DEF CheckInWrite, TypeOK
  <2>2. sync' \in [Syncs -> SyncType]
    <3>1. PICK allowed \in MaySelfLock :
             sync' = ReplyTo(c, [Idle EXCEPT !.pc = "synced",
                                             !.locked = PolicyLocked(device),
                                             !.selfLock = allowed,
                                             !.command = device.pendingCommand])
      BY <1>1 DEF CheckInWrite
    <3> QED
      BY <3>1, SyncedIsTyped, MaySelfLockIsBoolean, ReplyIsTyped
  <2> QED
    BY <1>1, <2>1, <2>2, DoneIsTyped DEF CheckInWrite, TypeOK
<1>2. CASE AckReread(c)
  <2>1. Then(c, "ackLock") \/ Then(c, "ackUnlock") \/ Done(c)
    BY <1>2 DEF AckReread
  <2>2. call' \in [Calls -> CallType]
    BY <2>1, ThenIsTyped, DoneIsTyped DEF CallJobs
  <2> QED
    BY <1>2, <2>2 DEF AckReread, TypeOK
<1>3. CASE AckWrite(c)
  BY <1>3, WritesAreRows, DoneIsTyped DEF AckWrite, TypeOK
<1>4. CASE EnrollReread(c)
  <2>1. qr' \in BOOLEAN /\ sync' \in [Syncs -> SyncType]
    BY <1>4, IdleIsTyped, ReplyIsTyped DEF EnrollReread, TypeOK
  <2>2. call' \in [Calls -> CallType]
    BY <1>4, ThenIsTyped, DoneIsTyped DEF EnrollReread, CallJobs
  <2> QED
    BY <1>4, <2>1, <2>2 DEF EnrollReread, TypeOK
<1>5. CASE EnrollWrite(c)
  <2>1. call' \in [Calls -> CallType]
    BY <1>5, ThenIsTyped DEF EnrollWrite, CallJobs
  <2> QED
    BY <1>5, <2>1, WritesAreRows DEF EnrollWrite, TypeOK
<1>6. CASE EnrollIssue(c)
  <2>1. PICK t \in Tokens, allowed \in MaySelfLock :
           /\ device' = [device EXCEPT !.token = t]
           /\ sync' = ReplyTo(c, [Idle EXCEPT !.pc = "enrolled",
                                              !.selfLock = allowed, !.token = t])
    BY <1>6 DEF EnrollIssue
  <2>2. device' \in DeviceType
    BY <2>1 DEF TypeOK, DeviceType, MaybeToken
  <2>3. sync' \in [Syncs -> SyncType]
    BY <2>1, EnrolledIsTyped, MaySelfLockIsBoolean, ReplyIsTyped
  <2> QED
    BY <1>6, <2>2, <2>3, DoneIsTyped DEF EnrollIssue, TypeOK
<1>7. CASE CallFails(c)
  <2>1. qr' \in BOOLEAN
    BY <1>7 DEF CallFails, TypeOK
  <2> QED
    BY <1>7, <2>1, IdleIsTyped, ReplyIsTyped, DoneIsTyped DEF CallFails, TypeOK
<1>8. CASE SimOnline(c)
  <2>1. call' \in [Calls -> CallType]
    BY <1>8, ServeIsTyped DEF SimOnline, CallJobs, TypeOK
  <2> QED
    BY <1>8, <2>1, WritesAreRows DEF SimOnline, TypeOK
<1>9. CASE SimReboot(c)
  <2>1. call' \in [Calls -> CallType]
    BY <1>9, ServeIsTyped DEF SimReboot, CallJobs
  <2> QED
    BY <1>9, <2>1 DEF SimReboot, TypeOK
<1>10. ASSUME NEW s \in Syncs, CheckIn(s, c)
       PROVE  TypeOK'
  <2>1. call' \in [Calls -> CallType]
    BY <1>10, ServeIsTyped DEF CheckIn, CallJobs
  <2> QED
    BY <1>10, <2>1, IdleIsTyped DEF CheckIn, TypeOK
<1>11. ASSUME NEW s \in Syncs, Acknowledge(s, c)
       PROVE  TypeOK'
  <2>1. call' \in [Calls -> CallType]
    BY <1>11, ServeIsTyped DEF Acknowledge, CallJobs, TypeOK
  <2> QED
    BY <1>11, <2>1, IdleIsTyped DEF Acknowledge, TypeOK
<1>12. ASSUME NEW s \in Syncs \cup {NoSync}, Enroll(s, c)
       PROVE  TypeOK'
  <2>1. PICK job \in CallJobs : Serve(c, s, job)
    BY <1>12 DEF Enroll, CallJobs
  <2>2. call' \in [Calls -> CallType]
    BY <2>1, ServeIsTyped
  <2>3. sync' \in [Syncs -> SyncType]
    BY <1>12, IdleIsTyped DEF Enroll, TypeOK
  <2> QED
    BY <1>12, <2>2, <2>3 DEF Enroll, TypeOK
<1> QED
  BY <1>1, <1>2, <1>3, <1>4, <1>5, <1>6, <1>7, <1>8, <1>9, <1>10, <1>11, <1>12 DEF CallStep

\* What a thread goes on with is a thread's state again.
LEMMA ThreadIsTyped ==
  ASSUME TypeOK, NEW s \in Syncs, NEW applied \in BOOLEAN
  PROVE  /\ \A pc \in SyncStates : GoingOn(s, pc) \in SyncType /\ [Idle EXCEPT !.pc = pc] \in SyncType
         /\ ReportsBack(s, applied) \in SyncType
         /\ BeginLock(s) \in SyncType
<1>1. sync[s] \in SyncType
  BY DEF TypeOK
<1>2. \A pc \in SyncStates : GoingOn(s, pc) \in SyncType /\ [Idle EXCEPT !.pc = pc] \in SyncType
  BY <1>1 DEF GoingOn, Idle, SyncType, MaybeToken, Commands, NoCommand
<1>3. \A done \in BOOLEAN : ReportsBack(s, done) \in SyncType
  BY <1>1, IdleIsTyped DEF ReportsBack, GoingOn, Idle, SyncType, SyncStates, MaybeToken, Commands, NoCommand
<1>4. BeginLock(s) \in SyncType
  BY <1>2, <1>3 DEF BeginLock, SyncStates
<1> QED
  BY <1>2, <1>3, <1>4

\* TypeOK through what the app does with its answers, and on its own.
LEMMA SyncKeepsType ==
  ASSUME TypeOK, NEW s \in Syncs, SyncStep(s)
  PROVE  TypeOK'
<1> USE DEF serverVars
<1>1. sync[s] \in SyncType /\ phone \in PhoneType
  BY DEF TypeOK
<1>2. ASSUME NEW r \in SyncType, sync' = [sync EXCEPT ![s] = r], phone' \in PhoneType,
             UNCHANGED serverVars
      PROVE  TypeOK'
  BY <1>2 DEF TypeOK
<1>3. CASE CheckInRefused(s)
  <2>1. [Idle EXCEPT !.pc = "gone"] \in SyncType
    BY ThreadIsTyped DEF SyncStates
  <2> QED
    BY <1>1, <1>2, <1>3, <2>1 DEF CheckInRefused
<1>4. CASE HandleEnrolled(s)
  <2>1. phone' \in PhoneType
    BY <1>1, <1>4 DEF HandleEnrolled, PhoneType, SyncType
  <2> QED
    BY <1>2, <1>4, <2>1, IdleIsTyped DEF HandleEnrolled
<1>5. CASE HandleSynced(s)
  <2>1. phone' \in PhoneType
    BY <1>1, <1>5 DEF HandleSynced, PhoneType, SyncType
  <2>2. \E r \in SyncType : sync' = [sync EXCEPT ![s] = r]
    <3>1. GoingOn(s, "lifting") \in SyncType
      BY ThreadIsTyped DEF SyncStates
    <3> QED
      BY <1>5, <3>1, ThreadIsTyped, IdleIsTyped DEF HandleSynced, ApplyCommand, Reconcile
  <2> QED
    BY <1>2, <1>5, <2>1, <2>2 DEF HandleSynced
<1>6. CASE SelfLock(s)
  <2>1. [Idle EXCEPT !.pc = "locking"] \in SyncType
    BY ThreadIsTyped DEF SyncStates
  <2> QED
    BY <1>1, <1>2, <1>6, <2>1 DEF SelfLock
<1>7. ASSUME NEW applied \in BOOLEAN, FinishLock(s, applied) \/ FinishLift(s, applied)
      PROVE  TypeOK'
  <2>1. phone' \in PhoneType
    BY <1>1, <1>7 DEF FinishLock, FinishLift, PhoneType
  <2> QED
    BY <1>2, <1>7, <2>1, ThreadIsTyped DEF FinishLock, FinishLift
<1>8. CASE Unwind(s) \/ StepDown(s) \/ ClearPrefs(s) \/ MarkReleased(s)
  <2>1. phone' \in PhoneType
    <3>1. CASE Unwind(s)
      BY <1>1, <3>1 DEF Unwind, PhoneType
    <3>2. CASE StepDown(s)
      BY <1>1, <3>2 DEF StepDown, PhoneType
    <3>3. CASE ClearPrefs(s)
      BY <1>1, <3>3 DEF ClearPrefs, PhoneType, MaybeToken
    <3>4. CASE MarkReleased(s)
      BY <1>1, <3>4 DEF MarkReleased, PhoneType
    <3> QED
      BY <1>8, <3>1, <3>2, <3>3, <3>4
  <2>2. \E r \in SyncType : sync' = [sync EXCEPT ![s] = r]
    <3>1. /\ [Idle EXCEPT !.pc = "stepDown"] \in SyncType
          /\ [Idle EXCEPT !.pc = "forget"] \in SyncType
          /\ [Idle EXCEPT !.pc = "mark"] \in SyncType
      BY ThreadIsTyped DEF SyncStates
    <3>2. CASE Unwind(s)
      BY <3>1, <3>2 DEF Unwind
    <3>3. CASE StepDown(s)
      BY <3>1, <3>3 DEF StepDown
    <3>4. CASE ClearPrefs(s)
      BY <3>1, <3>4 DEF ClearPrefs
    <3>5. CASE MarkReleased(s)
      BY <3>5, IdleIsTyped DEF MarkReleased
    <3> QED
      BY <1>8, <3>2, <3>3, <3>4, <3>5
  <2>3. UNCHANGED serverVars
    BY <1>8 DEF Unwind, StepDown, ClearPrefs, MarkReleased
  <2> QED
    BY <1>2, <2>1, <2>2, <2>3
<1>9. CASE Interrupt(s)
  <2>1. call' \in [Calls -> CallType]
    BY <1>9 DEF Interrupt, TypeOK, CallType
  <2> QED
    BY <1>9, <2>1, IdleIsTyped DEF Interrupt, TypeOK
<1> QED
  BY <1>3, <1>4, <1>5, <1>6, <1>7, <1>8, <1>9 DEF SyncStep

\* TypeOK through the agreement, the code, the simulator and a factory reset.
LEMMA OthersKeepType ==
  ASSUME TypeOK, AgreementStep \/ IssueQr \/ QrExpires \/ SimOffline \/ Wipe
  PROVE  TypeOK'
<1> USE DEF serverVars, phoneVars
<1>1. CASE AgreementStep
  BY <1>1 DEF AgreementStep, Sign, VoidAgreement, PlanDrift, TypeOK, Agreements
<1>2. CASE IssueQr \/ QrExpires
  BY <1>2 DEF IssueQr, QrExpires, TypeOK
<1>3. CASE SimOffline
  BY <1>3 DEF SimOffline, TypeOK, DeviceType
<1>4. CASE Wipe
  <2>1. phone' \in PhoneType
    BY <1>4 DEF Wipe, PhoneType, MaybeToken
  <2>2. call' \in [Calls -> CallType]
    BY <1>4 DEF Wipe, TypeOK, CallType
  <2> QED
    BY <1>4, <2>1, <2>2, IdleIsTyped DEF Wipe, TypeOK
<1> QED
  BY <1>1, <1>2, <1>3, <1>4

\* TypeOK when nothing happens.
LEMMA StutterKeepsType ==
  ASSUME TypeOK, UNCHANGED vars
  PROVE  TypeOK'
BY DEF TypeOK, vars

\* TypeOK is inductive.
LEMMA TypeStep ==
  ASSUME TypeOK, [Next]_vars
  PROVE  TypeOK'
BY StaffKeepsType, CallKeepsType, SyncKeepsType, OthersKeepType, StutterKeepsType DEF Next

\* Every reachable state is well typed, whatever the constants.
THEOREM TypeCorrect == Spec => []TypeOK
BY TypeInit, TypeStep, PTL DEF Spec

-----------------------------------------------------------------------------
(* CommandMatchesStatus. *)

\* The ways a step can change the row.
LEMMA RowChanges ==
  ASSUME [Next]_vars
  PROVE  \/ device' = device
         \/ \E w \in Staff : StaffWrite(w) /\ device' = Written(device, staff[w])
         \/ device' = CheckedIn(device)
         \/ device' = Enrolled(device)
         \/ \E c \in Calls : call[c].job = "ackLock" /\ device' = Acknowledged(device, "LOCK")
         \/ device' = Acknowledged(device, "UNLOCK")
         \/ \E t \in Tokens : device' = [device EXCEPT !.token = t]
         \/ device' = [device EXCEPT !.isOnline = FALSE]
<1> USE DEF serverVars, phoneVars
<1>1. CASE \E w \in Staff : StaffStep(w)
  BY <1>1, Zenon DEF StaffStep, LockRead, LockConsent, UnlockRead, FlagRead, ClearRead, ReleaseRead,
              ReEnrollRead, Begin, StaffWrite, StaffFails
<1>2. CASE \E c \in Calls : CallStep(c)
  BY <1>2 DEF CallStep, CheckInWrite, AckReread, AckWrite, EnrollReread, EnrollWrite,
              EnrollIssue, CallFails, SimOnline, SimReboot, CheckIn, Acknowledge, Enroll
<1>3. CASE \E s \in Syncs : SyncStep(s)
  BY <1>3 DEF SyncStep, CheckInRefused, HandleEnrolled, HandleSynced, SelfLock, FinishLock,
              FinishLift, Unwind, StepDown, ClearPrefs, MarkReleased, Interrupt
<1>4. CASE AgreementStep \/ IssueQr \/ QrExpires \/ SimOffline \/ Wipe
  BY <1>4 DEF AgreementStep, Sign, VoidAgreement, PlanDrift, IssueQr, QrExpires, SimOffline,
              Wipe
<1>5. CASE UNCHANGED vars
  BY <1>5 DEF vars
<1> QED
  BY <1>1, <1>2, <1>3, <1>4, <1>5 DEF Next

\* Whatever row it finds, a write leaves a row whose command fits its status.
LEMMA WritesMatch ==
  ASSUME NEW d \in DeviceType, CommandMatches(d)
  PROVE  /\ CommandMatches(Locked(d))
         /\ CommandMatches(LockQueued(d))
         /\ CommandMatches(Unlocked(d))
         /\ CommandMatches(UnlockQueued(d))
         /\ CommandMatches(Flagged(d))
         /\ CommandMatches(Cleared(d))
         /\ CommandMatches(Released(d))
         /\ CommandMatches(ReEnrolled(d, NoToken))
         /\ CommandMatches(Enrolled(d))
         /\ CommandMatches(CheckedIn(d))
         /\ CommandMatches(Acknowledged(d, "LOCK"))
         /\ CommandMatches(Acknowledged(d, "UNLOCK"))
         /\ \A t : CommandMatches([d EXCEPT !.token = t])
         /\ CommandMatches([d EXCEPT !.isOnline = FALSE])
BY DEF DeviceType, CommandMatches, Locked, LockQueued, Unlocked, UnlockQueued, Flagged, Cleared,
       Released, ReEnrolled, Enrolled, CheckedIn, Acknowledged

\* CommandMatches through the write a staff request ends in.
LEMMA WrittenMatches ==
  ASSUME NEW d \in DeviceType, CommandMatches(d),
         NEW job \in StaffJobs \ {"free", "askLock", "askQueueLock"}
  PROVE  CommandMatches(Written(d, job))
BY WritesMatch DEF Written, StaffJobs

\* CommandMatchesStatus is inductive once the row is well typed.
LEMMA CommandMatchesStep ==
  ASSUME TypeOK, CommandMatchesStatus, [Next]_vars
  PROVE  CommandMatchesStatus'
<1>1. device \in DeviceType /\ CommandMatches(device)
  BY DEF TypeOK, CommandMatchesStatus
<1>2. ASSUME NEW w \in Staff, StaffWrite(w)
      PROVE  CommandMatches(Written(device, staff[w]))
  BY <1>1, <1>2, WrittenMatches DEF StaffWrite, TypeOK
<1>3. CommandMatches(device')
  BY <1>1, <1>2, RowChanges, WritesMatch
<1> QED
  BY <1>3 DEF CommandMatchesStatus

\* A row that waits for the handset always has a command for it, and a row that is
\* PENDING, LOCKED or INACTIVE never has one.
THEOREM CommandsMatch == Spec => []CommandMatchesStatus
<1>1. Init => CommandMatchesStatus
  BY DEF Init, CommandMatchesStatus, CommandMatches
<1> QED
  BY <1>1, TypeCorrect, CommandMatchesStep, PTL DEF Spec

-----------------------------------------------------------------------------
(* RestrictedOnlyWithConsent, from NothingLocksUnsigned. *)

\* A signature is never taken back, and a step that ends without one began
\* without one.
LEMMA SignatureStays ==
  ASSUME [Next]_vars, ~signedAt'
  PROVE  signedAt' = signedAt
<1> USE DEF serverVars, phoneVars
<1>1. CASE \E w \in Staff : StaffStep(w)
  BY <1>1 DEF StaffStep, LockRead, LockConsent, UnlockRead, FlagRead, ClearRead, ReleaseRead,
              ReEnrollRead, Begin, StaffWrite, StaffFails
<1>2. CASE \E c \in Calls : CallStep(c)
  BY <1>2 DEF CallStep, CheckInWrite, AckReread, AckWrite, EnrollReread, EnrollWrite,
              EnrollIssue, CallFails, SimOnline, SimReboot, CheckIn, Acknowledge, Enroll
<1>3. CASE \E s \in Syncs : SyncStep(s)
  BY <1>3 DEF SyncStep, CheckInRefused, HandleEnrolled, HandleSynced, SelfLock, FinishLock,
              FinishLift, Unwind, StepDown, ClearPrefs, MarkReleased, Interrupt
<1>4. CASE AgreementStep \/ IssueQr \/ QrExpires \/ SimOffline \/ Wipe
  BY <1>4 DEF AgreementStep, Sign, VoidAgreement, PlanDrift, IssueQr, QrExpires, SimOffline,
              Wipe
<1>5. CASE UNCHANGED vars
  BY <1>5 DEF vars
<1> QED
  BY <1>1, <1>2, <1>3, <1>4, <1>5 DEF Next

\* What NothingLocksUnsigned says of a row, an answer and a handset.
RowHarmless(d) == d.status \notin {"LOCK_PENDING", "LOCKED"} /\ d.pendingCommand # "LOCK"

AnswerHarmless(r) == ~r.locked /\ ~r.selfLock /\ r.command # "LOCK" /\ r.pc # "locking"

\* Only the jobs past the consent check and the acknowledgement of a queued
\* lock write a lock into the row.
LEMMA WritesHarmless ==
  ASSUME NEW d \in DeviceType, RowHarmless(d)
  PROVE  /\ RowHarmless(Unlocked(d))
         /\ RowHarmless(UnlockQueued(d))
         /\ RowHarmless(Flagged(d))
         /\ RowHarmless(Cleared(d))
         /\ RowHarmless(Released(d))
         /\ RowHarmless(ReEnrolled(d, NoToken))
         /\ RowHarmless(Enrolled(d))
         /\ RowHarmless(CheckedIn(d))
         /\ RowHarmless(Acknowledged(d, "UNLOCK"))
         /\ \A t : RowHarmless([d EXCEPT !.token = t])
         /\ RowHarmless([d EXCEPT !.isOnline = FALSE])
BY DEF DeviceType, RowHarmless, NoCommand, Unlocked, UnlockQueued, Flagged, Cleared,
       Released, ReEnrolled, Enrolled, CheckedIn, Acknowledged

\* A staff request that is not past a consent check leaves a harmless row harmless.
LEMMA WrittenHarmless ==
  ASSUME NEW d \in DeviceType, RowHarmless(d),
         NEW job \in StaffJobs \ ({"free", "askLock", "askQueueLock"} \cup LockJobs)
  PROVE  RowHarmless(Written(d, job))
BY WritesHarmless DEF Written, StaffJobs, LockJobs

\* The row stays harmless for as long as nobody has signed.
LEMMA RowStaysHarmless ==
  ASSUME TypeOK, NothingLocksUnsigned, [Next]_vars, ~signedAt, ~signedAt'
  PROVE  RowHarmless(device')
<1>1. device \in DeviceType /\ RowHarmless(device)
  BY DEF TypeOK, NothingLocksUnsigned, RowHarmless
<1>2. ASSUME NEW w \in Staff, StaffWrite(w)
      PROVE  RowHarmless(Written(device, staff[w]))
  BY <1>1, <1>2, WrittenHarmless DEF StaffWrite, TypeOK, NothingLocksUnsigned
<1>3. \A c \in Calls : call[c].job # "ackLock"
  BY DEF NothingLocksUnsigned
<1> QED
  BY <1>1, <1>2, <1>3, RowChanges, WritesHarmless, ZenonT(60)

\* A thread with no answer carries no lock.
LEMMA IdleIsHarmless == AnswerHarmless(Idle) /\ AnswerHarmless(Waiting)
BY DEF AnswerHarmless, Idle, Waiting, NoCommand

\* A harmless answer leaves every thread harmless.
LEMMA ReplyIsHarmless ==
  ASSUME TypeOK, \A s \in Syncs : AnswerHarmless(sync[s]),
         NEW c \in Calls, NEW reply, AnswerHarmless(reply)
  PROVE  \A s \in Syncs : AnswerHarmless(ReplyTo(c, reply)[s])
BY DEF TypeOK, ReplyTo

\* A check-in's answer carries a lock only if the row does, and the offline
\* rule only under a signature.
LEMMA NewAnswersHarmless ==
  ASSUME RowHarmless(device), NEW allowed \in {FALSE}, NEW t
  PROVE  /\ AnswerHarmless([Idle EXCEPT !.pc = "synced", !.locked = PolicyLocked(device),
                                        !.selfLock = allowed, !.command = device.pendingCommand])
         /\ AnswerHarmless([Idle EXCEPT !.pc = "enrolled", !.selfLock = allowed, !.token = t])
         /\ AnswerHarmless([Idle EXCEPT !.pc = "gone"])
BY DEF AnswerHarmless, Idle, RowHarmless, PolicyLocked, NoCommand

\* NothingLocksUnsigned is inductive.
LEMMA NothingLocksStep ==
  ASSUME TypeOK, NothingLocksUnsigned, [Next]_vars
  PROVE  NothingLocksUnsigned'
<1> SUFFICES ASSUME ~signedAt'
             PROVE  /\ agreement' \notin {"SIGNED", "DRIFTED"}
                    /\ RowHarmless(device')
                    /\ \A w \in Staff : staff'[w] \notin LockJobs
                    /\ \A c \in Calls : call'[c].job # "ackLock"
                    /\ \A s \in Syncs : AnswerHarmless(sync'[s])
                    /\ ~phone'.selfLock /\ ~phone'.lockApplied
  BY DEF NothingLocksUnsigned, RowHarmless, AnswerHarmless
<1> DEFINE Harmless ==
      /\ agreement' \notin {"SIGNED", "DRIFTED"}
      /\ \A w \in Staff : staff'[w] \notin LockJobs
      /\ \A c \in Calls : call'[c].job # "ackLock"
      /\ \A s \in Syncs : AnswerHarmless(sync'[s])
      /\ ~phone'.selfLock /\ ~phone'.lockApplied
<1>1. signedAt' = signedAt
  BY SignatureStays
<1>2. RowHarmless(device')
  BY <1>1, RowStaysHarmless
<1>3. /\ agreement \notin {"SIGNED", "DRIFTED"}
      /\ RowHarmless(device)
      /\ \A w \in Staff : staff[w] \notin LockJobs
      /\ \A c \in Calls : call[c].job # "ackLock"
      /\ \A s \in Syncs : AnswerHarmless(sync[s])
      /\ ~phone.selfLock /\ ~phone.lockApplied
  BY <1>1 DEF NothingLocksUnsigned, RowHarmless, AnswerHarmless
<1>4. ASSUME NEW w \in Staff, StaffStep(w)
      PROVE  Harmless
  <2>1. \A v \in Staff : staff'[v] \notin LockJobs
    <3>1. CASE LockConsent(w)
      BY <1>3, <3>1 DEF LockConsent, Consented, TypeOK, LockJobs
    <3>2. CASE ~LockConsent(w)
      BY <1>3, <1>4, <3>2 DEF StaffStep, LockRead, UnlockRead, FlagRead, ClearRead, ReleaseRead,
           ReEnrollRead, Begin, StaffWrite, StaffFails, TypeOK, LockJobs
    <3> QED
      BY <3>1, <3>2
  <2>2. UNCHANGED <<agreement, call, sync, phone>>
    BY <1>4 DEF StaffStep, LockRead, LockConsent, UnlockRead, FlagRead, ClearRead, ReleaseRead,
         ReEnrollRead, Begin, StaffWrite, StaffFails, phoneVars
  <2> QED
    BY <1>3, <2>1, <2>2
<1>5. ASSUME NEW c \in Calls, CallStep(c)
      PROVE  Harmless
  <2>1. UNCHANGED <<agreement, staff, phone>>
    BY <1>5 DEF CallStep, CheckInWrite, AckReread, AckWrite, EnrollReread, EnrollWrite,
         EnrollIssue, CallFails, SimOnline, SimReboot, CheckIn, Acknowledge, Enroll, phoneVars
  <2>2. \A k \in Calls : call'[k].job # "ackLock"
    <3>1. CASE AckReread(c)
      BY <1>3, <3>1 DEF AckReread, RowHarmless, Then, Done, FreeCall, TypeOK, CallType
    <3>2. CASE Done(c)
      BY <1>3, <3>2 DEF Done, FreeCall, TypeOK, CallType
    <3>3. ASSUME NEW job \in CallJobs \ {"ackLock"}, NEW s, Then(c, job) \/ Serve(c, s, job)
          PROVE  \A k \in Calls : call'[k].job # "ackLock"
      BY <1>3, <3>3 DEF Then, Serve, TypeOK, CallType
    <3>4. CASE CheckInWrite(c) \/ AckWrite(c) \/ EnrollIssue(c) \/ CallFails(c)
      BY <3>2, <3>4 DEF CheckInWrite, AckWrite, EnrollIssue, CallFails
    <3>5. CASE EnrollReread(c) \/ EnrollWrite(c)
      BY <3>2, <3>3, <3>5 DEF EnrollReread, EnrollWrite, CallJobs
    <3>6. CASE SimOnline(c) \/ SimReboot(c)
      BY <1>3, <3>3, <3>6 DEF SimOnline, SimReboot, CallJobs
    <3>7. ASSUME NEW s \in Syncs, CheckIn(s, c) \/ Acknowledge(s, c)
          PROVE  \A k \in Calls : call'[k].job # "ackLock"
      BY <1>3, <3>3, <3>7 DEF CheckIn, Acknowledge, CallJobs
    <3>8. ASSUME NEW s \in Syncs \cup {NoSync}, Enroll(s, c)
          PROVE  \A k \in Calls : call'[k].job # "ackLock"
      BY <3>3, <3>8 DEF Enroll, CallJobs
    <3> QED
      BY <1>5, <3>1, <3>4, <3>5, <3>6, <3>7, <3>8 DEF CallStep
  <2>3. \A s \in Syncs : AnswerHarmless(sync'[s])
    <3>1. MaySelfLock = {FALSE}
      BY <1>3 DEF MaySelfLock, Consented
    <3>2. CASE CheckInWrite(c)
      BY <1>3, <3>1, <3>2, NewAnswersHarmless, ReplyIsHarmless DEF CheckInWrite
    <3>3. CASE EnrollIssue(c)
      BY <1>3, <3>1, <3>3, NewAnswersHarmless, ReplyIsHarmless DEF EnrollIssue
    <3>4. CASE EnrollReread(c) \/ CallFails(c)
      BY <1>3, <3>4, IdleIsHarmless, ReplyIsHarmless DEF EnrollReread, CallFails
    <3>5. CASE AckReread(c) \/ AckWrite(c) \/ EnrollWrite(c) \/ SimOnline(c) \/ SimReboot(c)
      BY <1>3, <3>5 DEF AckReread, AckWrite, EnrollWrite, SimOnline, SimReboot, phoneVars
    <3>6. ASSUME NEW s \in Syncs, CheckIn(s, c) \/ Acknowledge(s, c)
          PROVE  \A r \in Syncs : AnswerHarmless(sync'[r])
      BY <1>3, <3>6, IdleIsHarmless DEF CheckIn, Acknowledge, TypeOK
    <3>7. ASSUME NEW s \in Syncs \cup {NoSync}, Enroll(s, c)
          PROVE  \A r \in Syncs : AnswerHarmless(sync'[r])
      BY <1>3, <3>7, IdleIsHarmless DEF Enroll, TypeOK
    <3> QED
      BY <1>5, <3>2, <3>3, <3>4, <3>5, <3>6, <3>7 DEF CallStep
  <2> QED
    BY <1>3, <2>1, <2>2, <2>3
<1>6. ASSUME NEW s \in Syncs, SyncStep(s)
      PROVE  Harmless
  <2> USE DEF serverVars
  <2>1. UNCHANGED <<agreement, staff>>
    BY <1>6 DEF SyncStep, CheckInRefused, HandleEnrolled, HandleSynced, SelfLock, FinishLock,
         FinishLift, Unwind, StepDown, ClearPrefs, MarkReleased, Interrupt
  <2>2. \A c \in Calls : call'[c].job # "ackLock"
    BY <1>3, <1>6 DEF SyncStep, CheckInRefused, HandleEnrolled, HandleSynced, SelfLock, FinishLock,
         FinishLift, Unwind, StepDown, ClearPrefs, MarkReleased, Interrupt, TypeOK, CallType
  <2>3. ~phone'.selfLock /\ ~phone'.lockApplied
    <3>1. AnswerHarmless(sync[s]) /\ phone \in PhoneType
      BY <1>3 DEF TypeOK
    <3>2. CASE HandleEnrolled(s) \/ HandleSynced(s)
      BY <1>3, <3>1, <3>2 DEF HandleEnrolled, HandleSynced, AnswerHarmless, PhoneType
    <3>3. ASSUME NEW applied \in BOOLEAN, FinishLock(s, applied) \/ FinishLift(s, applied)
          PROVE  ~phone'.selfLock /\ ~phone'.lockApplied
      BY <1>3, <3>1, <3>3 DEF FinishLock, FinishLift, AnswerHarmless, PhoneType
    <3>4. CASE Unwind(s) \/ StepDown(s) \/ ClearPrefs(s) \/ MarkReleased(s)
      BY <1>3, <3>1, <3>4 DEF Unwind, StepDown, ClearPrefs, MarkReleased, PhoneType
    <3>5. CASE CheckInRefused(s) \/ SelfLock(s) \/ Interrupt(s)
      BY <1>3, <3>5 DEF CheckInRefused, SelfLock, Interrupt
    <3> QED
      BY <1>6, <3>2, <3>3, <3>4, <3>5 DEF SyncStep
  <2>4. \E r : AnswerHarmless(r) /\ sync' = [sync EXCEPT ![s] = r]
    <3>1. /\ \A pc \in SyncStates \ {"locking"} :
               AnswerHarmless(GoingOn(s, pc)) /\ AnswerHarmless([Idle EXCEPT !.pc = pc])
          /\ \A applied \in BOOLEAN : AnswerHarmless(ReportsBack(s, applied))
      BY <1>3 DEF AnswerHarmless, GoingOn, ReportsBack, Idle, NoCommand
    <3>2. CASE HandleSynced(s)
      <4>1. AnswerHarmless(sync[s]) /\ AnswerHarmless(GoingOn(s, "lifting"))
        BY <1>3, <3>1 DEF SyncStates
      <4> QED
        BY <3>2, <4>1, IdleIsHarmless DEF HandleSynced, ApplyCommand, Reconcile, AnswerHarmless
    <3>3. CASE SelfLock(s)
      BY <1>3, <3>3 DEF SelfLock
    <3>4. ASSUME NEW applied \in BOOLEAN, FinishLock(s, applied) \/ FinishLift(s, applied)
          PROVE  \E r : AnswerHarmless(r) /\ sync' = [sync EXCEPT ![s] = r]
      BY <3>1, <3>4 DEF FinishLock, FinishLift
    <3>5. CASE CheckInRefused(s) \/ Unwind(s) \/ StepDown(s) \/ ClearPrefs(s)
      <4>1. /\ AnswerHarmless([Idle EXCEPT !.pc = "gone"])
            /\ AnswerHarmless([Idle EXCEPT !.pc = "stepDown"])
            /\ AnswerHarmless([Idle EXCEPT !.pc = "forget"])
            /\ AnswerHarmless([Idle EXCEPT !.pc = "mark"])
        BY <3>1 DEF SyncStates
      <4> QED
        BY <3>5, <4>1 DEF CheckInRefused, Unwind, StepDown, ClearPrefs
    <3>6. CASE HandleEnrolled(s) \/ MarkReleased(s) \/ Interrupt(s)
      BY <3>6, IdleIsHarmless DEF HandleEnrolled, MarkReleased, Interrupt
    <3> QED
      BY <1>6, <3>2, <3>3, <3>4, <3>5, <3>6 DEF SyncStep
  <2>5. \A r \in Syncs : AnswerHarmless(sync'[r])
    BY <1>3, <2>4 DEF TypeOK
  <2> QED
    BY <1>3, <2>1, <2>2, <2>3, <2>5
<1>7. CASE AgreementStep
  BY <1>1, <1>3, <1>7 DEF AgreementStep, Sign, VoidAgreement, PlanDrift, phoneVars
<1>8. CASE IssueQr \/ QrExpires \/ SimOffline
  <2>1. UNCHANGED <<agreement, staff, call, phone, sync>>
    BY <1>8 DEF IssueQr, QrExpires, SimOffline, phoneVars
  <2> QED
    BY <1>2, <1>3, <2>1
<1>9. CASE Wipe
  BY <1>3, <1>9, IdleIsHarmless DEF Wipe, TypeOK, CallType
<1>10. CASE UNCHANGED vars
  BY <1>3, <1>10 DEF vars
<1> QED
  BY <1>2, <1>4, <1>5, <1>6, <1>7, <1>8, <1>9, <1>10 DEF Next

\* Nothing that could lead to a lock exists before the customer has signed.
THEOREM NothingLocks == Spec => []NothingLocksUnsigned
<1>1. Init => NothingLocksUnsigned
  <2> SUFFICES ASSUME Init
               PROVE  NothingLocksUnsigned
    OBVIOUS
  <2>1. phone.selfLock = FALSE /\ phone.lockApplied = FALSE
    BY DEF Init
  <2> QED
    BY <2>1 DEF Init, NothingLocksUnsigned, FreeCall, Idle, NoCommand, LockJobs
<1> QED
  BY <1>1, TypeCorrect, NothingLocksStep, PTL DEF Spec

\* No handset is ever restricted for a customer who never signed.
THEOREM ConsentSafe == Spec => []RestrictedOnlyWithConsent
<1>1. NothingLocksUnsigned => RestrictedOnlyWithConsent
  BY DEF NothingLocksUnsigned, RestrictedOnlyWithConsent
<1> QED
  BY <1>1, NothingLocks, PTL

-----------------------------------------------------------------------------
(* LockProtocol keeps HandsetPromise. *)

\* How a thread goes on.
LEMMA GoesOn ==
  /\ Idle.pc = "idle" /\ Waiting.pc = "waiting"
  /\ \A pc : [Idle EXCEPT !.pc = pc].pc = pc
  /\ \A s \in Syncs :
       /\ \A pc : GoingOn(s, pc).pc = pc
       /\ \A applied \in BOOLEAN : ReportsBack(s, applied).pc \in {"idle", "ack"}
       /\ phone.owner \/ BeginLock(s).pc \in {"idle", "ack"}
BY DEF GoingOn, Idle, Waiting, ReportsBack, BeginLock

\* Only an answer that is acted on, or the watchdog, begins an attempt to lock,
\* and only in an app that is device owner.
LEMMA AttemptsBegin ==
  ASSUME TypeOK, [Next]_vars, Locking', ~Locking
  PROVE  phone.owner /\ UNCHANGED <<signedAt, phone.owner, phone.lockApplied>>
<1> USE DEF serverVars, phoneVars
<1>1. PICK s \in Syncs : sync'[s].pc = "locking" /\ sync[s].pc # "locking"
  BY DEF Locking
<1>2. CASE \E w \in Staff : StaffStep(w)
  BY <1>1, <1>2, Zenon DEF StaffStep, LockRead, LockConsent, UnlockRead, FlagRead, ClearRead,
              ReleaseRead, ReEnrollRead, Begin, StaffWrite, StaffFails
<1>3. ASSUME NEW c \in Calls, CallStep(c)
      PROVE  FALSE
  <2>1. CASE sync' = sync
    BY <1>1, <2>1
  <2>2. ASSUME NEW r \in Syncs, CheckIn(r, c) \/ Acknowledge(r, c) \/ Enroll(r, c)
        PROVE  FALSE
    BY <1>1, <2>2 DEF CheckIn, Acknowledge, Enroll, Waiting, Idle, TypeOK
  <2>3. CASE EnrollReread(c) \/ CallFails(c) \/ CheckInWrite(c) \/ EnrollIssue(c)
    <3>1. CASE EnrollReread(c) \/ CallFails(c)
      BY <1>1, <3>1, GoesOn DEF EnrollReread, CallFails, ReplyTo, TypeOK
    <3>2. CASE CheckInWrite(c)
      <4>1. PICK allowed \in MaySelfLock :
               sync' = ReplyTo(c, [Idle EXCEPT !.pc = "synced", !.locked = PolicyLocked(device),
                                               !.selfLock = allowed,
                                               !.command = device.pendingCommand])
        BY <3>2 DEF CheckInWrite
      <4> QED
        BY <1>1, <4>1 DEF ReplyTo, Idle, TypeOK
    <3>3. CASE EnrollIssue(c)
      <4>1. PICK t \in Tokens, allowed \in MaySelfLock :
               sync' = ReplyTo(c, [Idle EXCEPT !.pc = "enrolled",
                                               !.selfLock = allowed, !.token = t])
        BY <3>3 DEF EnrollIssue
      <4> QED
        BY <1>1, <4>1 DEF ReplyTo, Idle, TypeOK
    <3> QED
      BY <2>3, <3>1, <3>2, <3>3
  <2>4. CASE Enroll(NoSync, c)
    BY <1>1, <2>1, <2>4, NoSyncAssumption DEF Enroll
  <2>5. CASE AckReread(c) \/ AckWrite(c) \/ EnrollWrite(c) \/ SimOnline(c) \/ SimReboot(c)
    BY <2>1, <2>5 DEF AckReread, AckWrite, EnrollWrite, SimOnline, SimReboot
  <2> QED
    BY <1>3, <2>2, <2>3, <2>4, <2>5 DEF CallStep
<1>4. ASSUME NEW r \in Syncs, SyncStep(r)
      PROVE  phone.owner /\ UNCHANGED <<signedAt, phone.owner, phone.lockApplied>>
  <2>1. CASE HandleSynced(r)
    <3>1. phone.owner
      BY <1>1, <2>1, GoesOn DEF HandleSynced, ApplyCommand, Reconcile, TypeOK
    <3>2. UNCHANGED <<signedAt, phone.owner, phone.lockApplied>>
      BY <2>1 DEF HandleSynced, TypeOK, PhoneType
    <3> QED
      BY <3>1, <3>2
  <2>2. CASE SelfLock(r)
    BY <2>2 DEF SelfLock
  <2>3. ASSUME NEW applied \in BOOLEAN, FinishLock(r, applied) \/ FinishLift(r, applied)
        PROVE  FALSE
    BY <1>1, <2>3, GoesOn DEF FinishLock, FinishLift, TypeOK
  <2>4. CASE CheckInRefused(r) \/ HandleEnrolled(r) \/ Unwind(r) \/ StepDown(r) \/ ClearPrefs(r)
               \/ MarkReleased(r) \/ Interrupt(r)
    <3>1. ASSUME NEW pc \in SyncStates \ {"locking"},
                 sync' = [sync EXCEPT ![r] = [Idle EXCEPT !.pc = pc]]
          PROVE  FALSE
      <4>1. [Idle EXCEPT !.pc = pc].pc = pc
        BY GoesOn
      <4> QED
        BY <1>1, <3>1, <4>1 DEF TypeOK
    <3>2. sync' # [sync EXCEPT ![r] = Idle]
      BY <1>1, GoesOn DEF TypeOK
    <3>3. ~HandleEnrolled(r) /\ ~MarkReleased(r) /\ ~Interrupt(r)
      BY <3>2 DEF HandleEnrolled, MarkReleased, Interrupt
    <3>4. ~CheckInRefused(r) /\ ~StepDown(r) /\ ~ClearPrefs(r) /\ ~Unwind(r)
      BY <3>1 DEF CheckInRefused, StepDown, ClearPrefs, Unwind, SyncStates
    <3> QED
      BY <2>4, <3>3, <3>4
  <2> QED
    BY <1>4, <2>1, <2>2, <2>3, <2>4 DEF SyncStep
<1>5. CASE AgreementStep \/ IssueQr \/ QrExpires \/ SimOffline
  BY <1>1, <1>5 DEF AgreementStep, Sign, VoidAgreement, PlanDrift, IssueQr, QrExpires, SimOffline
<1>6. CASE Wipe
  BY <1>1, <1>6 DEF Wipe, Idle
<1>7. CASE UNCHANGED vars
  BY <1>1, <1>7 DEF vars
<1> QED
  BY <1>2, <1>3, <1>4, <1>5, <1>6, <1>7 DEF Next

\* An attempt is noted as a lock only by the thread that is making it.
LEMMA FinishedAttempt ==
  ASSUME TypeOK, NEW s \in Syncs, NEW applied \in BOOLEAN, FinishLock(s, applied)
  PROVE  Locking /\ UNCHANGED <<signedAt, phone.owner>>
           /\ (phone'.lockApplied = TRUE \/ UNCHANGED phone.lockApplied)
BY DEF FinishLock, Locking, TypeOK, PhoneType, serverVars

\* The steps of releaseLock and of a release lift the lock, or step down, and
\* leave every other thread's attempt alone.
LEMMA LiftingSteps ==
  ASSUME TypeOK, NEW s \in Syncs,
         \/ \E applied \in BOOLEAN : FinishLift(s, applied)
         \/ Unwind(s) \/ StepDown(s) \/ ClearPrefs(s)
  PROVE  /\ Locking' = Locking
         /\ UNCHANGED signedAt
         /\ \/ UNCHANGED <<phone.owner, phone.lockApplied>>
            \/ UNCHANGED phone.owner /\ phone'.lockApplied = FALSE
            \/ UNCHANGED phone.lockApplied /\ phone'.owner = FALSE
<1>1. sync[s].pc # "locking" /\ sync'[s].pc # "locking"
  <2>1. CASE \E applied \in BOOLEAN : FinishLift(s, applied)
    BY <2>1, GoesOn DEF FinishLift, TypeOK
  <2>2. CASE Unwind(s) \/ StepDown(s) \/ ClearPrefs(s)
    <3>1. CASE Unwind(s)
      BY <3>1, GoesOn DEF Unwind, TypeOK
    <3>2. CASE StepDown(s) \/ ClearPrefs(s)
      BY <3>2, GoesOn DEF StepDown, ClearPrefs, TypeOK
    <3> QED
      BY <2>2, <3>1, <3>2
  <2> QED
    BY <2>1, <2>2
<1>2. \A r \in Syncs \ {s} : sync'[r] = sync[r]
  BY DEF FinishLift, Unwind, StepDown, ClearPrefs, TypeOK
<1>3. Locking' = Locking
  BY <1>1, <1>2 DEF Locking
<1>4. /\ UNCHANGED signedAt
      /\ \/ UNCHANGED <<phone.owner, phone.lockApplied>>
         \/ UNCHANGED phone.owner /\ phone'.lockApplied = FALSE
         \/ UNCHANGED phone.lockApplied /\ phone'.owner = FALSE
  <2>1. CASE \E applied \in BOOLEAN : FinishLift(s, applied)
    BY <2>1 DEF FinishLift, TypeOK, PhoneType, serverVars
  <2>2. CASE Unwind(s)
    BY <2>2 DEF Unwind, TypeOK, PhoneType, serverVars
  <2>3. CASE StepDown(s)
    BY <2>3 DEF StepDown, TypeOK, PhoneType, serverVars
  <2>4. CASE ClearPrefs(s)
    BY <2>4 DEF ClearPrefs, serverVars
  <2> QED
    BY <2>1, <2>2, <2>3, <2>4
<1> QED
  BY <1>3, <1>4

\* The other steps change neither the lock nor the owner.
LEMMA SilentSteps ==
  ASSUME TypeOK,
         \/ \E w \in Staff : StaffStep(w)
         \/ \E c \in Calls : CallStep(c)
         \/ \E s \in Syncs : \/ CheckInRefused(s) \/ HandleEnrolled(s) \/ HandleSynced(s)
                             \/ SelfLock(s) \/ MarkReleased(s) \/ Interrupt(s)
         \/ VoidAgreement \/ PlanDrift \/ IssueQr \/ QrExpires \/ SimOffline
         \/ UNCHANGED vars
  PROVE  UNCHANGED <<signedAt, phone.owner, phone.lockApplied>>
<1> USE DEF serverVars, phoneVars
<1>1. CASE \E w \in Staff : StaffStep(w)
  BY <1>1, Zenon DEF StaffStep, LockRead, LockConsent, UnlockRead, FlagRead, ClearRead, ReleaseRead,
              ReEnrollRead, Begin, StaffWrite, StaffFails
<1>2. CASE \E c \in Calls : CallStep(c)
  BY <1>2 DEF CallStep, CheckInWrite, AckReread, AckWrite, EnrollReread, EnrollWrite,
              EnrollIssue, CallFails, SimOnline, SimReboot, CheckIn, Acknowledge, Enroll
<1>3. CASE \E s \in Syncs : CheckInRefused(s) \/ SelfLock(s) \/ Interrupt(s)
  BY <1>3 DEF CheckInRefused, SelfLock, Interrupt
<1>4. ASSUME NEW s \in Syncs, HandleEnrolled(s) \/ HandleSynced(s) \/ MarkReleased(s)
      PROVE  UNCHANGED <<signedAt, phone.owner, phone.lockApplied>>
  BY <1>4 DEF HandleEnrolled, HandleSynced, MarkReleased, TypeOK, PhoneType
<1>5. CASE VoidAgreement \/ PlanDrift \/ IssueQr \/ QrExpires \/ SimOffline \/ UNCHANGED vars
  BY <1>5 DEF VoidAgreement, PlanDrift, IssueQr, QrExpires, SimOffline, vars
<1> QED
  BY <1>1, <1>2, <1>3, <1>4, <1>5

\* What a step does to the promise, unless it is a factory reset.
Kept == Promise!Agree \/ Promise!Seize \/ Promise!GiveUp \/ Promise!Restrict
          \/ Promise!Lift \/ Promise!StepDown

\* Every step but a factory reset is one of these, or changes nothing the
\* promise speaks of.
LEMMA KeptStep ==
  ASSUME TypeOK, NothingLocksUnsigned', [Next]_vars, ~Wipe
  PROVE  Kept \/ UNCHANGED Promise!vars
<1> USE DEF Kept, Promise!vars
<1>1. Locking \in BOOLEAN /\ Locking' \in BOOLEAN /\ signedAt \in BOOLEAN
  BY DEF Locking, TypeOK
<1>2. CASE UNCHANGED <<signedAt, phone.owner, phone.lockApplied>>
  <2>1. CASE Locking' /\ ~Locking
    <3>1. phone.owner = TRUE
      BY <2>1, AttemptsBegin DEF TypeOK, PhoneType
    <3>2. signedAt'
      BY <2>1 DEF NothingLocksUnsigned, Locking
    <3>3. signedAt = TRUE
      BY <1>1, <1>2, <3>2
    <3> QED
      BY <1>1, <1>2, <2>1, <3>1, <3>3, Zenon DEF Promise!Seize
  <2>2. CASE ~Locking'
    BY <1>1, <1>2, <2>2 DEF Promise!GiveUp
  <2>3. CASE Locking' /\ Locking
    BY <1>1, <1>2, <2>3
  <2> QED
    BY <1>1, <2>1, <2>2, <2>3
<1>3. ASSUME NEW s \in Syncs, NEW applied \in BOOLEAN, FinishLock(s, applied)
      PROVE  Kept \/ UNCHANGED Promise!vars
  BY <1>1, <1>2, <1>3, FinishedAttempt DEF Promise!Restrict
<1>4. ASSUME NEW s \in Syncs,
             \/ \E applied \in BOOLEAN : FinishLift(s, applied)
             \/ Unwind(s) \/ StepDown(s) \/ ClearPrefs(s)
      PROVE  Kept \/ UNCHANGED Promise!vars
  BY <1>4, LiftingSteps DEF Promise!Lift, Promise!StepDown
<1>5. CASE Sign
  BY <1>5 DEF Sign, phoneVars, Promise!Agree, Locking
<1> QED
  BY <1>2, <1>3, <1>4, <1>5, SilentSteps DEF Next, SyncStep, AgreementStep

\* A factory reset is a Reset.
LEMMA ResetStep ==
  ASSUME Wipe
  PROVE  Promise!Reset
<1>1. phone'.owner \in BOOLEAN /\ phone'.lockApplied = FALSE /\ signedAt' = signedAt
  BY DEF Wipe
<1>2. Locking' = FALSE
  BY DEF Wipe, Locking, Idle
<1> QED
  BY <1>1, <1>2 DEF Promise!Reset

\* Every step is a step of HandsetPromise, or changes nothing it speaks of.
LEMMA PromiseStep ==
  ASSUME TypeOK, NothingLocksUnsigned', [Next]_vars
  PROVE  [Promise!Next]_(Promise!vars)
BY KeptStep, ResetStep DEF Kept, Promise!Next

\* Whatever the server, the network and the threads of the app do, the person
\* holding the phone gets what HandsetPromise says.
THEOREM PromiseKept == Spec => KeepsPromise
<1>1. Init => Promise!Init
  <2> SUFFICES ASSUME Init
               PROVE  Promise!Init
    OBVIOUS
  <2>1. phone.owner \in BOOLEAN /\ phone.lockApplied = FALSE
    BY DEF Init
  <2>2. Locking = FALSE
    BY DEF Init, Locking, Idle
  <2> QED
    BY <2>1, <2>2 DEF Init, Promise!Init
<1> QED
  BY <1>1, TypeCorrect, NothingLocks, PromiseStep, PTL DEF Spec, KeepsPromise, Promise!Spec

\* A phone whose app has stepped down, holds no lock and is not in the middle of
\* one stays free until a factory reset: none of these steps begins an attempt
\* without an owner, or ends one that was never begun.
THEOREM HandedBackSafe == Spec => HandedBackStaysFree
<1>1. ASSUME TypeOK, NothingLocksUnsigned', [Next]_vars
      PROVE  [HandedBack /\ ~Wipe => HandedBack']_vars
  <2> SUFFICES ASSUME HandedBack, ~Wipe
               PROVE  HandedBack'
    OBVIOUS
  <2>1. Kept \/ UNCHANGED Promise!vars
    BY <1>1, KeptStep
  <2>2. ~phone.owner /\ ~phone.lockApplied /\ ~Locking
    BY DEF HandedBack
  <2>3. ~phone'.owner /\ ~phone'.lockApplied /\ ~Locking'
    BY <2>1, <2>2 DEF Kept, Promise!vars, Promise!Agree, Promise!Seize, Promise!GiveUp,
         Promise!Restrict, Promise!Lift, Promise!StepDown
  <2> QED
    BY <2>3 DEF HandedBack
<1> QED
  BY <1>1, TypeCorrect, NothingLocks, PTL DEF Spec, HandedBackStaysFree

=============================================================================
