--------------------------- MODULE MCLockLiveness ---------------------------
(***************************************************************************)
(* Liveness: of LockProtocol from a deal in progress (the agreement is     *)
(* signed, the phone enrolled and managed), of the SMS relay, and of a     *)
(* dealer's codes.  A behaviour chooses one of the three and leaves the    *)
(* others as they began.                                                   *)
(***************************************************************************)
EXTENDS LockProtocol, SmsRelay, Enrolment

VARIABLE part  \* the part at work

liveVars == <<part, vars, relayVars, enrolVars>>

\* What Sign, IssueQr, Enroll, EnrollWrite, EnrollIssue and HandleEnrolled
\* lead to.
InProgress ==
  /\ \E t \in Tokens :
       /\ device = [status |-> "ACTIVE", pendingCommand |-> NoCommand,
                    isOnline |-> TRUE, token |-> t]
       /\ phone \in [token: {t}, owner: {TRUE}, lockApplied: {FALSE},
                     selfLock: BOOLEAN, released: {FALSE}]
  /\ agreement = "SIGNED"
  /\ signedAt = TRUE
  /\ qr = FALSE
  /\ staff = [w \in Staff |-> "free"]
  /\ call = [c \in Calls |-> FreeCall]
  /\ sync = [s \in Syncs |-> Idle]

LiveInit ==
  /\ part \in {"lock", "relay", "enrolment"}
  /\ InProgress /\ (part # "lock" => ~phone.selfLock)
  /\ RelayInit /\ EnrolInit

\* A wipe or a new enrolment ends what the properties promise, and the
\* agreement only limits what the staff may do: all three are left out.
DealStep == Next /\ ~Wipe /\ UNCHANGED <<agreement, qr>>

Lock(A) == part = "lock" /\ A /\ UNCHANGED <<part, relayVars, enrolVars>>

Relay(A) == part = "relay" /\ A /\ UNCHANGED <<part, vars, enrolVars>>

Enrol(A) == part = "enrolment" /\ A /\ UNCHANGED <<part, vars, relayVars>>

LiveNext == Lock(DealStep) \/ Relay(RelayNext) \/ Enrol(EnrolNext)

\* The fairness of the three modules, or less: a condition on a choice of two
\* actions is weaker than one on each, and as good where, as here, only one of
\* them can be enabled again and again.
LiveFairness ==
  /\ \A c \in Calls, p \in Relays :
       WF_liveVars(Lock(CallEnds(c)) \/ Relay(PollMark(p)) \/ Enrol(ExpireStale))
  /\ \A s \in Syncs, p \in Relays, k \in Codes :
       WF_liveVars(Lock(ThreadMoves(s)) \/ Relay(PollFruitless(p)) \/ Enrol(TimeIsUp(k)))
  /\ \A c \in Calls, n \in Texts, p \in Kept :
       /\ SF_liveVars(Lock(AckReread(c)) \/ Relay(SendOne(p, n)))
       /\ SF_liveVars(Lock(AckWrite(c) \/ \E s \in Syncs : StepDown(s)) \/ Relay(TellOne(p, n)))
  /\ \A s \in Syncs, n \in Texts, p \in Kept :
       /\ SF_liveVars(Lock(CheckInRefused(s) \/ \E c \in Calls : CheckIn(s, c))
                        \/ Relay(LeaseRunsOut(n)))
       /\ SF_liveVars(Lock(CheckInAnswered(s)) \/ Relay(PollChoose(p)))
       /\ SF_liveVars(Lock(HandleSynced(s) \/ Unwind(s))
                        \/ Relay(PollMark(p) /\ StillFree(p) # {}))
       /\ SF_liveVars(Lock(FinishLock(s, TRUE) \/ FinishLift(s, TRUE))
                        \/ Relay(PollAnswered(p)))
       /\ SF_liveVars(Lock(AckDelivered(s) \/ ClearPrefs(s)))

LiveSpec == LiveInit /\ [][LiveNext]_liveVars /\ LiveFairness

=============================================================================
