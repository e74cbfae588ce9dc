----------------------------- MODULE Enrolment ------------------------------
(***************************************************************************)
(* QR codes and the locks they spend (EnrollmentService, LicenseService).  *)
(*                                                                         *)
(* LockProtocol follows one phone and one code through its whole life;     *)
(* here several codes and several redemptions compete for devices and for  *)
(* the dealer's last locks.  A redemption is no transaction: every         *)
(* statement is a step, any of them can fail, and a server that stops      *)
(* leaves what was written so far.                                         *)
(*                                                                         *)
(* A device is PENDING, ACTIVE (LockProtocol has the statuses a managed    *)
(* phone goes through) or INACTIVE.  Locks and codes are numbered in the   *)
(* order they came.                                                        *)
(*                                                                         *)
(* Definitions named "...Forgotten" are faulty variants.                   *)
(***************************************************************************)
EXTENDS Naturals

CONSTANTS
  Handsets,    \* the dealer's devices
  NCodes,      \* the rows enrollment_tokens may come to have
  NLocks,      \* the locks the dealer may come to own
  Bought,      \* those of the packs already issued
  Redeemers,   \* redemptions at work at a time
  Clerks,      \* staff working on codes at a time
  ClaimTries,  \* the five attempts of claimForDevice
  NoHandset

ASSUME EnrolmentAssumption ==
  /\ NCodes \in Nat /\ NLocks \in Nat /\ Bought \in 0..NLocks /\ ClaimTries \in Nat \ {0}
  /\ NoHandset \notin Handsets /\ Handsets \cap {"unsold", "AVAILABLE"} = {}

Codes == 1..NCodes

Locks == 1..NLocks

VARIABLES
  code,      \* the rows: [status, handset, due]
  lock,      \* device_licenses: "unsold", "AVAILABLE" or the handset that has it
  handset,   \* the devices' statuses
  redeem,    \* the redemptions at work: [at, code, handset, lock, tries]
  clerk,     \* the staff's requests: [at, code, handset]
  answered,  \* how many phones each code has given credentials, up to 2
  revived    \* codes put back to WAITING by a redemption that failed

enrolVars == <<code, lock, handset, redeem, clerk, answered, revived>>

NoRedemption == [at |-> "none", code |-> 0, handset |-> NoHandset, lock |-> 0, tries |-> 0]

NoErrand == [at |-> "none", code |-> 0, handset |-> NoHandset]

EnrolTypeOK ==
  /\ code \in [Codes -> [status: {"NONE", "WAITING", "VERIFYING", "ENROLLED", "EXPIRED"},
                         handset: Handsets \cup {NoHandset}, due: BOOLEAN]]
  /\ lock \in [Locks -> Handsets \cup {"unsold", "AVAILABLE"}]
  /\ handset \in [Handsets -> {"PENDING", "ACTIVE", "INACTIVE"}]
  /\ redeem \in [Redeemers ->
       [at: {"none", "license", "spend", "claim", "enroll", "finish", "log"},
        code: Codes \cup {0}, handset: Handsets \cup {NoHandset},
        lock: Locks \cup {0}, tries: 0..ClaimTries]]
  /\ clerk \in [Clerks -> [at: {"none", "retire", "create", "revoke"},
                           code: Codes \cup {0}, handset: Handsets \cup {NoHandset}]]
  /\ answered \in [Codes -> 0..2]
  /\ revived \subseteq Codes

EnrolInit ==
  /\ code = [c \in Codes |-> [status |-> "NONE", handset |-> NoHandset, due |-> FALSE]]
  /\ lock = [l \in Locks |-> IF l <= Bought THEN "AVAILABLE" ELSE "unsold"]
  /\ handset = [d \in Handsets |-> "PENDING"]
  /\ redeem = [r \in Redeemers |-> NoRedemption]
  /\ clerk = [s \in Clerks |-> NoErrand]
  /\ answered = [c \in Codes |-> 0]
  /\ revived = {}

-----------------------------------------------------------------------------
(* The staff *)

\* POST /generate reads the device: a managed one needs no code.  (A code
\* for no device in particular, which no page asks for, is left out.)
GenerateRead(s, d) ==
  /\ clerk[s].at = "none"
  /\ handset[d] # "ACTIVE"
  /\ clerk' = [clerk EXCEPT ![s] = [NoErrand EXCEPT !.at = "retire", !.handset = d]]
  /\ UNCHANGED <<code, lock, handset, redeem, answered, revived>>

Retired(d) == {c \in Codes : code[c].handset = d /\ code[c].status = "WAITING" /\ ~code[c].due}

\* The transaction: the older codes of the device are retired, their rows
\* locked until it commits, ...
GenerateRetire(s) ==
  /\ clerk[s].at = "retire"
  /\ code' = [c \in Codes |-> IF c \in Retired(clerk[s].handset)
                              THEN [code[c] EXCEPT !.status = "EXPIRED"] ELSE code[c]]
  /\ clerk' = [clerk EXCEPT ![s].at = "create"]
  /\ UNCHANGED <<lock, handset, redeem, answered, revived>>

\* ... and the new one appears.
GenerateCreate(s, c) ==
  /\ clerk[s].at = "create"
  /\ code[c].status = "NONE" /\ \A e \in 1..(c - 1) : code[e].status # "NONE"
  /\ code' = [code EXCEPT ![c] = [status |-> "WAITING", handset |-> clerk[s].handset, due |-> FALSE]]
  /\ clerk' = [clerk EXCEPT ![s] = NoErrand]
  /\ UNCHANGED <<lock, handset, redeem, answered, revived>>

\* POST /tokens/:id/revoke: any code that has not been used.
RevokeRead(s, c) ==
  /\ clerk[s].at = "none"
  /\ code[c].status \notin {"NONE", "ENROLLED"}
  /\ clerk' = [clerk EXCEPT ![s] = [NoErrand EXCEPT !.at = "revoke", !.code = c]]
  /\ UNCHANGED <<code, lock, handset, redeem, answered, revived>>

RevokeWrite(s) ==
  /\ clerk[s].at = "revoke"
  /\ code' = [code EXCEPT ![clerk[s].code].status = "EXPIRED"]
  /\ clerk' = [clerk EXCEPT ![s] = NoErrand]
  /\ UNCHANGED <<lock, handset, redeem, answered, revived>>

\* The platform sells the dealer another pack.
IssuePack ==
  /\ \E l \in Locks : lock[l] = "unsold"
  /\ lock' = [l \in Locks |-> IF lock[l] = "unsold" THEN "AVAILABLE" ELSE lock[l]]
  /\ UNCHANGED <<code, handset, redeem, clerk, answered, revived>>

\* POST /devices/:id/re-enroll and POST /devices/:id/release.
SetBack(d) ==
  /\ handset[d] = "ACTIVE"
  /\ handset' = [handset EXCEPT ![d] = "PENDING"]
  /\ UNCHANGED <<code, lock, redeem, clerk, answered, revived>>

LetGo(d) ==
  /\ handset[d] # "INACTIVE"
  /\ handset' = [handset EXCEPT ![d] = "INACTIVE"]
  /\ UNCHANGED <<code, lock, redeem, clerk, answered, revived>>

-----------------------------------------------------------------------------
(* The redemption *)

End(r) == redeem' = [redeem EXCEPT ![r] = NoRedemption]

\* verifyAndEnroll reads the code and the device it names.
Redeem(r, c) ==
  /\ redeem[r].at = "none"
  /\ code[c].status \in {"WAITING", "VERIFYING"} /\ ~code[c].due
  /\ redeem' = [redeem EXCEPT ![r] = [NoRedemption EXCEPT !.at = "license", !.code = c, !.handset = code[c].handset]]
  /\ UNCHANGED <<code, lock, handset, clerk, answered, revived>>

\* A code found past its time is marked so, and refused.
RedeemLate(r, c) ==
  /\ redeem[r].at = "none"
  /\ code[c].status \in {"WAITING", "VERIFYING"} /\ code[c].due
  /\ code' = [code EXCEPT ![c].status = "EXPIRED"]
  /\ UNCHANGED <<lock, handset, redeem, clerk, answered, revived>>

Held(d) == {l \in Locks : lock[l] = d}

OnShelf == {l \in Locks : lock[l] = "AVAILABLE"}

Oldest(S) == CHOOSE l \in S : \A k \in S : l <= k

\* The lock the handset already holds is kept.
LicenseHeld(r) ==
  /\ redeem[r].at = "license" /\ redeem[r].tries = 0
  /\ Held(redeem[r].handset) # {}
  /\ redeem' = [redeem EXCEPT ![r].at = "claim"]
  /\ UNCHANGED <<code, lock, handset, clerk, answered, revived>>

\* Otherwise the oldest free one is tried.  The first try looks for a lock
\* already held; the later ones do not.
LicensePick(r) ==
  /\ redeem[r].at = "license"
  /\ redeem[r].tries > 0 \/ Held(redeem[r].handset) = {}
  /\ IF OnShelf # {} /\ redeem[r].tries < ClaimTries
     THEN redeem' = [redeem EXCEPT ![r].at = "spend", ![r].lock = Oldest(OnShelf), ![r].tries = @ + 1]
     ELSE End(r)
  /\ UNCHANGED <<code, lock, handset, clerk, answered, revived>>

\* The unique index on device_id.
IndexAllows(r) == Held(redeem[r].handset) = {}

SpendWinsForgotten(r) == TRUE

\* What spending lock l for redemption r makes of it: only a lock still on
\* the shelf is spent.
SpendWins(r) == lock[redeem[r].lock] = "AVAILABLE"

Spend(r) ==
  /\ redeem[r].at = "spend"
  /\ \/ /\ SpendWins(r) /\ IndexAllows(r)
        /\ lock' = [lock EXCEPT ![redeem[r].lock] = redeem[r].handset]
        /\ redeem' = [redeem EXCEPT ![r].at = "claim", ![r].lock = 0]
     \/ /\ SpendWins(r) /\ ~IndexAllows(r) /\ End(r) /\ UNCHANGED lock
     \/ /\ ~SpendWins(r)
        /\ redeem' = [redeem EXCEPT ![r].at = "license", ![r].lock = 0]
        /\ UNCHANGED lock
  /\ UNCHANGED <<code, handset, clerk, answered, revived>>

ClaimableForgotten(r) == code[redeem[r].code].status \in {"WAITING", "VERIFYING"}

\* Only one redemption can move a code out of WAITING.
Claimable(r) == code[redeem[r].code].status = "WAITING"

ClaimCode(r) ==
  /\ redeem[r].at = "claim"
  /\ IF Claimable(r)
     THEN /\ code' = [code EXCEPT ![redeem[r].code].status = "VERIFYING"]
          /\ redeem' = [redeem EXCEPT ![r].at = "enroll"]
     ELSE End(r) /\ UNCHANGED code
  /\ UNCHANGED <<lock, handset, clerk, answered, revived>>

\* enrollDevice: whatever the device has become, it is ACTIVE now.
EnrollDevice(r) ==
  /\ redeem[r].at = "enroll"
  /\ handset' = [handset EXCEPT ![redeem[r].handset] = "ACTIVE"]
  /\ redeem' = [redeem EXCEPT ![r].at = "finish"]
  /\ UNCHANGED <<code, lock, clerk, answered, revived>>

\* The credential is stored, and the code marked as used.
FinishCode(r) ==
  /\ redeem[r].at = "finish"
  /\ code' = [code EXCEPT ![redeem[r].code].status = "ENROLLED"]
  /\ redeem' = [redeem EXCEPT ![r].at = "log"]
  /\ UNCHANGED <<lock, handset, clerk, answered, revived>>

\* The audit entry is written and the phone gets its credential.
Answer(r) ==
  /\ redeem[r].at = "log"
  /\ answered' = [answered EXCEPT ![redeem[r].code] = IF @ < 2 THEN @ + 1 ELSE @]
  /\ End(r)
  /\ UNCHANGED <<code, lock, handset, clerk, revived>>

\* A statement fails after the claim: the code is put back to WAITING,
\* whatever it was changed to in the meantime.
RedemptionFails(r) ==
  /\ redeem[r].at \in {"enroll", "finish", "log"}
  /\ code' = [code EXCEPT ![redeem[r].code].status = "WAITING"]
  /\ revived' = revived \cup {redeem[r].code}
  /\ End(r)
  /\ UNCHANGED <<lock, handset, clerk, answered>>

\* The server stops: no request survives.
ServerStops ==
  /\ \E r \in Redeemers : redeem[r].at # "none"
  /\ redeem' = [r \in Redeemers |-> NoRedemption]
  /\ clerk' = [s \in Clerks |-> NoErrand]
  /\ UNCHANGED <<code, lock, handset, answered, revived>>

-----------------------------------------------------------------------------
(* Time *)

\* (A code that is used up or retired has no more use for it.)
TimeIsUp(c) ==
  /\ code[c].status \in {"WAITING", "VERIFYING"} /\ ~code[c].due
  /\ code' = [code EXCEPT ![c].due = TRUE]
  /\ UNCHANGED <<lock, handset, redeem, clerk, answered, revived>>

StaleVerifyingForgotten == {c \in Codes : code[c].status = "WAITING" /\ code[c].due}

Stale == {c \in Codes : code[c].status \in {"WAITING", "VERIFYING"} /\ code[c].due}

\* The hourly clean-up.
ExpireStale ==
  /\ Stale # {}
  /\ code' = [c \in Codes |-> IF c \in Stale THEN [code[c] EXCEPT !.status = "EXPIRED"] ELSE code[c]]
  /\ UNCHANGED <<lock, handset, redeem, clerk, answered, revived>>

-----------------------------------------------------------------------------
EnrolNext ==
  \/ \E s \in Clerks :
       \/ \E d \in Handsets : GenerateRead(s, d)
       \/ GenerateRetire(s) \/ RevokeWrite(s)
       \/ \E c \in Codes : GenerateCreate(s, c) \/ RevokeRead(s, c)
  \/ IssuePack \/ ServerStops \/ ExpireStale
  \/ \E d \in Handsets : SetBack(d) \/ LetGo(d)
  \/ \E c \in Codes : TimeIsUp(c)
  \/ \E r \in Redeemers :
       \/ \E c \in Codes : RedeemLate(r, c) \/ Redeem(r, c)
       \/ LicenseHeld(r) \/ LicensePick(r) \/ Spend(r) \/ ClaimCode(r)
       \/ EnrollDevice(r) \/ FinishCode(r)
       \/ Answer(r) \/ RedemptionFails(r)

\* Hours pass, and the clean-up job runs.
EnrolFairness == WF_enrolVars(ExpireStale) /\ \A c \in Codes : WF_enrolVars(TimeIsUp(c))

EnrolSpec == EnrolInit /\ [][EnrolNext]_enrolVars /\ EnrolFairness

-----------------------------------------------------------------------------
(* Correctness. *)

\* "An enrolled device with no licence behind it is exactly the state this
\* model exists to prevent."
ManagedIsPaidFor == \A d \in Handsets : handset[d] = "ACTIVE" => Held(d) # {}

\* A code gives credentials to one phone, even when redemptions race, fail
\* half-way and are tried again.
CodeWorksOnce == \A c \in Codes : answered[c] <= 1

\* A code caught in the middle of a redemption never stays there.
NoCodeStuck == \A c \in Codes : code[c].status = "VERIFYING" ~> code[c].status # "VERIFYING"

-----------------------------------------------------------------------------
(* What a comment in the code says, and the code does not do.              *)

Live(c) == code[c].status = "WAITING" /\ ~code[c].due

\* generateToken retires the older codes of a device and creates the new one in
\* one transaction: "there is never a moment with two valid QRs".
OneLiveCode ==
  \A c, e \in Codes :
    Live(c) /\ Live(e) /\ code[c].handset # NoHandset /\ code[c].handset = code[e].handset => c = e

=============================================================================
