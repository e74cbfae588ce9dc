-------------------------- MODULE Enrolment_proofs --------------------------
(***************************************************************************)
(* Theorems about Enrolment, for any number of devices, codes, locks and   *)
(* redemptions at work.                                                    *)
(***************************************************************************)
EXTENDS Enrolment, WellFoundedInduction, TLAPS

\* Some lock is on the shelf, so there is an oldest one there.
LEMMA OldestExists ==
  ASSUME NEW S \in SUBSET Locks, S # {}
  PROVE  Oldest(S) \in S
<1> DEFINE Less == OpToRel(<, Nat)
<1>1. S \subseteq Nat
  BY EnrolmentAssumption DEF Locks
<1>2. PICK l \in S : \A k \in S : ~(<<k, l>> \in Less)
  <2>1. IsWellFoundedOn(Less, Nat)
    BY NatLessThanWellFounded
  <2> HIDE DEF Less
  <2> QED
    BY <1>1, <2>1, WFMin
<1>3. ASSUME NEW k \in S PROVE l <= k
  <2>1. k < l => <<k, l>> \in Less
    BY <1>1 DEF OpToRel
  <2>2. ~(k < l)
    BY <1>2, <2>1
  <2> QED
    BY <1>1, <2>2
<1> QED
  BY <1>3 DEF Oldest

-----------------------------------------------------------------------------
(* Types *)

\* The rows of enrollment_tokens, and a redemption at work.
CodeType == [status: {"NONE", "WAITING", "VERIFYING", "ENROLLED", "EXPIRED"},
             handset: Handsets \cup {NoHandset}, due: BOOLEAN]

RedeemType == [at: {"none", "license", "spend", "claim", "enroll", "finish", "log"},
               code: Codes \cup {0}, handset: Handsets \cup {NoHandset},
               lock: Locks \cup {0}, tries: 0..ClaimTries]

ClerkType == [at: {"none", "retire", "create", "revoke"},
              code: Codes \cup {0}, handset: Handsets \cup {NoHandset}]

\* EnrolTypeOK in these terms.
LEMMA Types ==
  EnrolTypeOK <=>
    /\ code \in [Codes -> CodeType]
    /\ lock \in [Locks -> Handsets \cup {"unsold", "AVAILABLE"}]
    /\ handset \in [Handsets -> {"PENDING", "ACTIVE", "INACTIVE"}]
    /\ redeem \in [Redeemers -> RedeemType]
    /\ clerk \in [Clerks -> ClerkType]
    /\ answered \in [Codes -> 0..2]
    /\ revived \subseteq Codes
BY DEF EnrolTypeOK, CodeType, RedeemType, ClerkType

\* A code that was made names a device.
CodeNamed(row) == row.status # "NONE" => row.handset \in Handsets

\* A member of the staff works on a device or on a code that was made.
ClerkNamed(job) ==
  /\ job.at \in {"retire", "create"} => job.handset \in Handsets
  /\ job.at = "revoke" => job.code \in Codes /\ code[job.code].status # "NONE"

\* A redemption has a code, a device and, when it spends one, a lock.
RedeemNamed(job) ==
  /\ job.at # "none" => /\ job.code \in Codes /\ code[job.code].status # "NONE"
                        /\ job.handset \in Handsets
  /\ job.at = "spend" => job.lock \in Locks

Typed ==
  /\ code \in [Codes -> CodeType] /\ \A c \in Codes : CodeNamed(code[c])
  /\ lock \in [Locks -> Handsets \cup {"unsold", "AVAILABLE"}]
  /\ handset \in [Handsets -> {"PENDING", "ACTIVE", "INACTIVE"}]
  /\ redeem \in [Redeemers -> RedeemType] /\ \A r \in Redeemers : RedeemNamed(redeem[r])
  /\ clerk \in [Clerks -> ClerkType] /\ \A s \in Clerks : ClerkNamed(clerk[s])
  /\ answered \in [Codes -> 0..2]
  /\ revived \subseteq Codes

\* A step that makes codes or leaves them, but unmakes none, keeps what the
\* requests and the redemptions say about theirs.
CodesStay ==
  /\ code' \in [Codes -> CodeType] /\ \A c \in Codes : CodeNamed(code'[c])
  /\ \A c \in Codes : code[c].status # "NONE" => code'[c].status # "NONE"

\* One code's row is replaced by one that names a device.
LEMMA OneCodeChanges ==
  ASSUME Typed, NEW c \in Codes, NEW row \in CodeType, row.status # "NONE", CodeNamed(row),
         code' = [code EXCEPT ![c] = row]
  PROVE  CodesStay
BY DEF Typed, CodesStay

\* One code that was made gets another status.
LEMMA OneStatusChanges ==
  ASSUME Typed, NEW c \in Codes, code[c].status # "NONE",
         NEW status \in {"WAITING", "VERIFYING", "ENROLLED", "EXPIRED"},
         code' = [code EXCEPT ![c].status = status]
  PROVE  CodesStay
<1>1. code[c] \in CodeType /\ code[c].handset \in Handsets
  BY DEF Typed, CodeNamed
<1>2. [code[c] EXCEPT !.status = status] \in CodeType
  BY <1>1 DEF CodeType
<1>3. CodeNamed([code[c] EXCEPT !.status = status])
  BY <1>1 DEF CodeNamed, CodeType
<1>4. [code[c] EXCEPT !.status = status].status # "NONE"
  BY <1>1 DEF CodeType
<1> QED
  BY <1>2, <1>3, <1>4, OneCodeChanges

\* Codes that were made expire together.
LEMMA CodesExpire ==
  ASSUME Typed, NEW S, \A c \in Codes \cap S : code[c].status # "NONE",
         code' = [c \in Codes |-> IF c \in S THEN [code[c] EXCEPT !.status = "EXPIRED"] ELSE code[c]]
  PROVE  CodesStay
<1>1. ASSUME NEW c \in Codes
      PROVE  /\ code'[c] \in CodeType /\ CodeNamed(code'[c])
             /\ code[c].status # "NONE" => code'[c].status # "NONE"
  <2>1. code[c] \in CodeType /\ CodeNamed(code[c])
    BY DEF Typed
  <2>2. CASE c \notin S
    BY <2>1, <2>2
  <2>3. CASE c \in S
    BY <2>1, <2>3 DEF CodeType, CodeNamed
  <2> QED
    BY <2>2, <2>3
<1>2. code' \in [Codes -> CodeType]
  BY <1>1
<1> QED
  BY <1>1, <1>2 DEF CodesStay

\* A step that keeps the codes and gives one redemption another state.
LEMMA OneRedemption ==
  ASSUME Typed, CodesStay, NEW r \in Redeemers, NEW job \in RedeemType, RedeemNamed(job),
         redeem' = [redeem EXCEPT ![r] = job], UNCHANGED clerk,
         lock' \in [Locks -> Handsets \cup {"unsold", "AVAILABLE"}],
         handset' \in [Handsets -> {"PENDING", "ACTIVE", "INACTIVE"}],
         answered' \in [Codes -> 0..2], revived' \subseteq Codes
  PROVE  Typed'
<1>1. redeem' \in [Redeemers -> RedeemType]
  BY DEF Typed
<1>2. ASSUME NEW q \in Redeemers PROVE RedeemNamed(redeem[q])'
  BY <1>2 DEF Typed, CodesStay, RedeemNamed
<1>3. ASSUME NEW s \in Clerks PROVE ClerkNamed(clerk[s])'
  BY <1>3 DEF Typed, CodesStay, ClerkNamed
<1> QED
  BY <1>1, <1>2, <1>3 DEF Typed, CodesStay, CodeNamed

\* The same for a member of the staff.
LEMMA OneErrand ==
  ASSUME Typed, CodesStay, NEW s \in Clerks, NEW job \in ClerkType, ClerkNamed(job),
         clerk' = [clerk EXCEPT ![s] = job],
         UNCHANGED <<redeem, lock, handset, answered, revived>>
  PROVE  Typed'
<1>1. clerk' \in [Clerks -> ClerkType]
  BY DEF Typed
<1>2. ASSUME NEW q \in Redeemers PROVE RedeemNamed(redeem[q])'
  BY <1>2 DEF Typed, CodesStay, RedeemNamed
<1>3. ASSUME NEW q \in Clerks PROVE ClerkNamed(clerk[q])'
  BY <1>3 DEF Typed, CodesStay, ClerkNamed
<1> QED
  BY <1>1, <1>2, <1>3 DEF Typed, CodesStay, CodeNamed

\* And when nobody moves.
LEMMA NobodyMoves ==
  ASSUME Typed, CodesStay, UNCHANGED <<redeem, clerk, answered, revived>>,
         lock' \in [Locks -> Handsets \cup {"unsold", "AVAILABLE"}],
         handset' \in [Handsets -> {"PENDING", "ACTIVE", "INACTIVE"}]
  PROVE  Typed'
<1>1. ASSUME NEW q \in Redeemers PROVE RedeemNamed(redeem[q])'
  BY <1>1 DEF Typed, CodesStay, RedeemNamed
<1>2. ASSUME NEW q \in Clerks PROVE ClerkNamed(clerk[q])'
  BY <1>2 DEF Typed, CodesStay, ClerkNamed
<1> QED
  BY <1>1, <1>2 DEF Typed, CodesStay, CodeNamed

\* Codes that are left alone stay.
LEMMA CodesUnchanged == ASSUME Typed, UNCHANGED code PROVE CodesStay
BY DEF Typed, CodesStay

\* A slot for a redemption, and one for a request of the staff.
LEMMA NothingAtWork ==
  /\ NoRedemption \in RedeemType /\ NoRedemption.at = "none" /\ RedeemNamed(NoRedemption)
  /\ NoErrand \in ClerkType /\ NoErrand.at = "none" /\ ClerkNamed(NoErrand)
BY EnrolmentAssumption DEF NoRedemption, NoErrand, RedeemType, ClerkType, RedeemNamed, ClerkNamed

-----------------------------------------------------------------------------
\* The staff's requests about codes.
LEMMA StaffTyped ==
  ASSUME Typed, NEW s \in Clerks,
         \/ \E d \in Handsets : GenerateRead(s, d)
         \/ GenerateRetire(s) \/ RevokeWrite(s)
         \/ \E c \in Codes : GenerateCreate(s, c) \/ RevokeRead(s, c)
  PROVE  Typed'
<1>0. clerk[s] \in ClerkType /\ ClerkNamed(clerk[s])
  BY DEF Typed
<1>1. ASSUME NEW d \in Handsets, GenerateRead(s, d) PROVE Typed'
  <2>1. [NoErrand EXCEPT !.at = "retire", !.handset = d] \in ClerkType
    BY NothingAtWork DEF ClerkType
  <2>2. ClerkNamed([NoErrand EXCEPT !.at = "retire", !.handset = d])
    BY DEF NoErrand, ClerkNamed
  <2> QED
    BY <1>1, <2>1, <2>2, CodesUnchanged, OneErrand DEF GenerateRead
<1>2. CASE GenerateRetire(s)
  <2>1. CodesStay
    BY <1>2, CodesExpire DEF GenerateRetire, Retired
  <2>2. [clerk[s] EXCEPT !.at = "create"] \in ClerkType
    BY <1>0 DEF ClerkType
  <2>3. ClerkNamed([clerk[s] EXCEPT !.at = "create"])
    BY <1>0, <1>2 DEF GenerateRetire, ClerkNamed, ClerkType
  <2> QED
    BY <1>2, <2>1, <2>2, <2>3, OneErrand DEF GenerateRetire
<1>3. ASSUME NEW c \in Codes, GenerateCreate(s, c) PROVE Typed'
  <2>1. clerk[s].handset \in Handsets
    BY <1>0, <1>3 DEF GenerateCreate, ClerkNamed
  <2>2. CodesStay
    BY <1>3, <2>1, OneCodeChanges DEF GenerateCreate, CodeType, CodeNamed
  <2> QED
    BY <1>3, <2>2, NothingAtWork, OneErrand DEF GenerateCreate
<1>4. ASSUME NEW c \in Codes, RevokeRead(s, c) PROVE Typed'
  <2>1. [NoErrand EXCEPT !.at = "revoke", !.code = c] \in ClerkType
    BY NothingAtWork DEF ClerkType
  <2>2. ClerkNamed([NoErrand EXCEPT !.at = "revoke", !.code = c])
    BY <1>4 DEF RevokeRead, NoErrand, ClerkNamed
  <2> QED
    BY <1>4, <2>1, <2>2, CodesUnchanged, OneErrand DEF RevokeRead
<1>5. CASE RevokeWrite(s)
  <2>1. clerk[s].code \in Codes /\ code[clerk[s].code].status # "NONE"
    BY <1>0, <1>5 DEF RevokeWrite, ClerkNamed
  <2>2. CodesStay
    BY <1>5, <2>1, OneStatusChanges DEF RevokeWrite
  <2> QED
    BY <1>5, <2>2, NothingAtWork, OneErrand DEF RevokeWrite
<1> QED
  BY <1>1, <1>2, <1>3, <1>4, <1>5

\* Packs, re-enrolments, releases, a server that stops, and time.
LEMMA RestTyped ==
  ASSUME Typed,
         \/ IssuePack \/ ServerStops \/ ExpireStale
         \/ \E d \in Handsets : SetBack(d) \/ LetGo(d)
         \/ \E c \in Codes : TimeIsUp(c)
  PROVE  Typed'
<1>1. CASE IssuePack
  <2>1. lock' \in [Locks -> Handsets \cup {"unsold", "AVAILABLE"}]
    BY <1>1 DEF IssuePack, Typed
  <2>2. CodesStay
    BY <1>1, CodesUnchanged DEF IssuePack
  <2>3. handset' \in [Handsets -> {"PENDING", "ACTIVE", "INACTIVE"}]
    BY <1>1 DEF IssuePack, Typed
  <2> QED
    BY <1>1, <2>1, <2>2, <2>3, NobodyMoves DEF IssuePack
<1>2. CASE ServerStops
  <2>1. ASSUME NEW r \in Redeemers PROVE RedeemNamed(redeem[r])'
    BY <1>2, NothingAtWork DEF ServerStops, RedeemNamed, NoRedemption
  <2>2. ASSUME NEW s \in Clerks PROVE ClerkNamed(clerk[s])'
    BY <1>2, NothingAtWork DEF ServerStops, ClerkNamed, NoErrand
  <2> QED
    BY <1>2, <2>1, <2>2, NothingAtWork DEF ServerStops, Typed, CodeNamed
<1>3. CASE ExpireStale
  <2>1. CodesStay
    BY <1>3, CodesExpire DEF ExpireStale, Stale
  <2>2. /\ lock' \in [Locks -> Handsets \cup {"unsold", "AVAILABLE"}]
        /\ handset' \in [Handsets -> {"PENDING", "ACTIVE", "INACTIVE"}]
    BY <1>3 DEF ExpireStale, Typed
  <2> QED
    BY <1>3, <2>1, <2>2, NobodyMoves DEF ExpireStale
<1>4. ASSUME NEW d \in Handsets, SetBack(d) \/ LetGo(d) PROVE Typed'
  <2>1. CodesStay
    BY <1>4, CodesUnchanged DEF SetBack, LetGo
  <2>2. /\ lock' \in [Locks -> Handsets \cup {"unsold", "AVAILABLE"}]
        /\ handset' \in [Handsets -> {"PENDING", "ACTIVE", "INACTIVE"}]
    BY <1>4 DEF SetBack, LetGo, Typed
  <2> QED
    BY <1>4, <2>1, <2>2, NobodyMoves DEF SetBack, LetGo
<1>5. ASSUME NEW c \in Codes, TimeIsUp(c) PROVE Typed'
  <2>1. code[c] \in CodeType /\ CodeNamed(code[c]) /\ code[c].status # "NONE"
    BY <1>5 DEF TimeIsUp, Typed
  <2>2. /\ [code[c] EXCEPT !.due = TRUE] \in CodeType
        /\ [code[c] EXCEPT !.due = TRUE].status # "NONE"
        /\ CodeNamed([code[c] EXCEPT !.due = TRUE])
    BY <2>1 DEF CodeType, CodeNamed
  <2>3. CodesStay
    BY <1>5, <2>2, OneCodeChanges DEF TimeIsUp
  <2>4. /\ lock' \in [Locks -> Handsets \cup {"unsold", "AVAILABLE"}]
        /\ handset' \in [Handsets -> {"PENDING", "ACTIVE", "INACTIVE"}]
    BY <1>5 DEF TimeIsUp, Typed
  <2> QED
    BY <1>5, <2>3, <2>4, NobodyMoves DEF TimeIsUp
<1> QED
  BY <1>1, <1>2, <1>3, <1>4, <1>5

-----------------------------------------------------------------------------
\* A redemption up to the claim of its code.
LEMMA RedeemTyped ==
  ASSUME Typed, NEW r \in Redeemers,
         \/ \E c \in Codes : RedeemLate(r, c) \/ Redeem(r, c)
         \/ LicenseHeld(r) \/ LicensePick(r) \/ Spend(r)
  PROVE  Typed'
<1>0. redeem[r] \in RedeemType /\ RedeemNamed(redeem[r])
  BY DEF Typed
<1>a. ASSUME UNCHANGED handset, UNCHANGED answered, UNCHANGED revived
      PROVE  /\ handset' \in [Handsets -> {"PENDING", "ACTIVE", "INACTIVE"}]
             /\ answered' \in [Codes -> 0..2] /\ revived' \subseteq Codes
  BY <1>a DEF Typed
<1>b. ASSUME UNCHANGED lock PROVE lock' \in [Locks -> Handsets \cup {"unsold", "AVAILABLE"}]
  BY <1>b DEF Typed
<1>1. ASSUME NEW c \in Codes, RedeemLate(r, c) PROVE Typed'
  <2>1. CodesStay
    BY <1>1, OneStatusChanges DEF RedeemLate
  <2> QED
    BY <1>1, <1>a, <1>b, <2>1, NobodyMoves DEF RedeemLate
<1>2. ASSUME NEW c \in Codes, Redeem(r, c) PROVE Typed'
  <2> DEFINE job == [NoRedemption EXCEPT !.at = "license", !.code = c, !.handset = code[c].handset]
  <2>1. code[c] \in CodeType /\ code[c].status # "NONE" /\ code[c].handset \in Handsets
    BY <1>2 DEF Redeem, Typed, CodeNamed
  <2>2. job \in RedeemType
    BY <2>1, NothingAtWork DEF RedeemType
  <2>3. RedeemNamed(job)
    BY <2>1 DEF NoRedemption, RedeemNamed
  <2>4. CodesStay
    BY <1>2, CodesUnchanged DEF Redeem
  <2> QED
    BY <1>2, <1>a, <1>b, <2>2, <2>3, <2>4, OneRedemption DEF Redeem
<1>3. CASE LicenseHeld(r)
  <2> DEFINE job == [redeem[r] EXCEPT !.at = "claim"]
  <2>1. job \in RedeemType
    BY <1>0 DEF RedeemType
  <2>2. RedeemNamed(job)
    BY <1>0, <1>3 DEF LicenseHeld, RedeemNamed, RedeemType
  <2>3. CodesStay
    BY <1>3, CodesUnchanged DEF LicenseHeld
  <2>4. redeem' = [redeem EXCEPT ![r] = job]
    BY <1>3 DEF LicenseHeld
  <2> HIDE DEF job
  <2> QED
    BY <1>3, <1>a, <1>b, <2>1, <2>2, <2>3, <2>4, OneRedemption DEF LicenseHeld
<1>4. CASE LicensePick(r)
  <2>1. CodesStay
    BY <1>4, CodesUnchanged DEF LicensePick
  <2>2. CASE End(r)
    BY <1>4, <1>a, <1>b, <2>1, <2>2, NothingAtWork, OneRedemption DEF LicensePick, End
  <2>3. CASE /\ OnShelf # {} /\ redeem[r].tries < ClaimTries
             /\ redeem' = [redeem EXCEPT ![r].at = "spend", ![r].lock = Oldest(OnShelf), ![r].tries = @ + 1]
    <3> DEFINE job == [redeem[r] EXCEPT !.at = "spend", !.lock = Oldest(OnShelf), !.tries = @ + 1]
    <3>1. OnShelf \in SUBSET Locks
      BY DEF OnShelf
    <3>2. Oldest(OnShelf) \in Locks
      BY <2>3, <3>1, OldestExists
    <3>3. redeem[r].tries + 1 \in 0..ClaimTries
      BY <1>0, <2>3, EnrolmentAssumption DEF RedeemType
    <3>4. job \in RedeemType
      BY <1>0, <3>2, <3>3 DEF RedeemType
    <3>5. RedeemNamed(job)
      BY <1>0, <1>4, <3>2 DEF LicensePick, RedeemNamed, RedeemType
    <3>6. redeem' = [redeem EXCEPT ![r] = job]
      BY <2>3
    <3> HIDE DEF job
    <3> QED
      BY <1>4, <1>a, <1>b, <2>1, <3>4, <3>5, <3>6, OneRedemption DEF LicensePick
  <2> QED
    BY <1>4, <2>2, <2>3 DEF LicensePick
<1>5. CASE Spend(r)
  <2>0. redeem[r].handset \in Handsets /\ redeem[r].lock \in Locks
    BY <1>0, <1>5 DEF Spend, RedeemNamed
  <2>1. CodesStay
    BY <1>5, CodesUnchanged DEF Spend
  <2>2. CASE /\ lock' = [lock EXCEPT ![redeem[r].lock] = redeem[r].handset]
             /\ redeem' = [redeem EXCEPT ![r].at = "claim", ![r].lock = 0]
    <3> DEFINE job == [redeem[r] EXCEPT !.at = "claim", !.lock = 0]
    <3>1. job \in RedeemType
      BY <1>0 DEF RedeemType
    <3>2. RedeemNamed(job)
      BY <1>0, <1>5 DEF Spend, RedeemNamed, RedeemType
    <3>3. redeem' = [redeem EXCEPT ![r] = job]
      BY <2>2
    <3>4. lock' \in [Locks -> Handsets \cup {"unsold", "AVAILABLE"}]
      BY <2>0, <2>2 DEF Typed
    <3> HIDE DEF job
    <3> QED
      BY <1>5, <1>a, <2>1, <3>1, <3>2, <3>3, <3>4, OneRedemption DEF Spend
  <2>3. CASE End(r) /\ UNCHANGED lock
    BY <1>5, <1>a, <1>b, <2>1, <2>3, NothingAtWork, OneRedemption DEF Spend, End
  <2>4. CASE /\ redeem' = [redeem EXCEPT ![r].at = "license", ![r].lock = 0]
             /\ UNCHANGED lock
    <3> DEFINE job == [redeem[r] EXCEPT !.at = "license", !.lock = 0]
    <3>1. job \in RedeemType
      BY <1>0 DEF RedeemType
    <3>2. RedeemNamed(job)
      BY <1>0, <1>5 DEF Spend, RedeemNamed, RedeemType
    <3>3. redeem' = [redeem EXCEPT ![r] = job]
      BY <2>4
    <3> HIDE DEF job
    <3> QED
      BY <1>5, <1>a, <1>b, <2>1, <2>4, <3>1, <3>2, <3>3, OneRedemption DEF Spend
  <2> QED
    BY <1>5, <2>2, <2>3, <2>4 DEF Spend
<1> QED
  BY <1>1, <1>2, <1>3, <1>4, <1>5

\* A redemption that has moves on to its next step.
LEMMA MovesOn ==
  ASSUME Typed, NEW r \in Redeemers, redeem[r].at \notin {"none", "spend"}, CodesStay,
         NEW at \in {"claim", "enroll", "finish", "log"},
         redeem' = [redeem EXCEPT ![r].at = at], UNCHANGED <<lock, clerk, answered, revived>>,
         handset' \in [Handsets -> {"PENDING", "ACTIVE", "INACTIVE"}]
  PROVE  Typed'
<1> DEFINE job == [redeem[r] EXCEPT !.at = at]
<1>1. redeem[r] \in RedeemType /\ RedeemNamed(redeem[r])
  BY DEF Typed
<1>2. job \in RedeemType
  BY <1>1 DEF RedeemType
<1>3. RedeemNamed(job)
  BY <1>1 DEF RedeemNamed, RedeemType
<1>4. redeem' = [redeem EXCEPT ![r] = job]
  OBVIOUS
<1>5. /\ lock' \in [Locks -> Handsets \cup {"unsold", "AVAILABLE"}]
      /\ answered' \in [Codes -> 0..2] /\ revived' \subseteq Codes
  BY DEF Typed
<1> HIDE DEF job
<1> QED
  BY <1>2, <1>3, <1>4, <1>5, OneRedemption

\* A redemption from the claim of its code on.
LEMMA ClaimTyped ==
  ASSUME Typed, NEW r \in Redeemers,
         \/ ClaimCode(r) \/ EnrollDevice(r) \/ FinishCode(r) \/ Answer(r) \/ RedemptionFails(r)
  PROVE  Typed'
<1>0. redeem[r] \in RedeemType /\ RedeemNamed(redeem[r])
  BY DEF Typed
<1>a. redeem[r].code \in Codes /\ code[redeem[r].code].status # "NONE"
  BY <1>0 DEF ClaimCode, EnrollDevice, FinishCode, Answer, RedemptionFails, RedeemNamed
<1>b. /\ lock \in [Locks -> Handsets \cup {"unsold", "AVAILABLE"}]
      /\ handset \in [Handsets -> {"PENDING", "ACTIVE", "INACTIVE"}]
      /\ answered \in [Codes -> 0..2] /\ revived \subseteq Codes
  BY DEF Typed
<1>1. CASE ClaimCode(r)
  <2>1. CASE Claimable(r)
    <3>1. CodesStay
      BY <1>1, <1>a, <2>1, OneStatusChanges DEF ClaimCode
    <3> QED
      BY <1>1, <1>b, <2>1, <3>1, MovesOn DEF ClaimCode
  <2>2. CASE ~Claimable(r)
    <3>1. CodesStay
      BY <1>1, <2>2, CodesUnchanged DEF ClaimCode
    <3> QED
      BY <1>1, <1>b, <2>2, <3>1, NothingAtWork, OneRedemption DEF ClaimCode, End
  <2> QED
    BY <2>1, <2>2
<1>2. CASE EnrollDevice(r)
  <2>1. CodesStay
    BY <1>2, CodesUnchanged DEF EnrollDevice
  <2>2. handset' \in [Handsets -> {"PENDING", "ACTIVE", "INACTIVE"}]
    BY <1>2, <1>b DEF EnrollDevice
  <2> QED
    BY <1>2, <2>1, <2>2, MovesOn DEF EnrollDevice
<1>3. CASE FinishCode(r)
  <2>1. CodesStay
    BY <1>3, <1>a, OneStatusChanges DEF FinishCode
  <2> QED
    BY <1>3, <1>b, <2>1, MovesOn DEF FinishCode
<1>4. CASE Answer(r)
  <2>1. CodesStay
    BY <1>4, CodesUnchanged DEF Answer
  <2>2. answered' \in [Codes -> 0..2]
    BY <1>4, <1>a, <1>b DEF Answer
  <2> QED
    BY <1>4, <1>b, <2>1, <2>2, NothingAtWork, OneRedemption DEF Answer, End
<1>5. CASE RedemptionFails(r)
  <2>1. CodesStay
    BY <1>5, <1>a, OneStatusChanges DEF RedemptionFails
  <2>2. revived' \subseteq Codes
    BY <1>5, <1>a, <1>b DEF RedemptionFails
  <2> QED
    BY <1>5, <1>b, <2>1, <2>2, NothingAtWork, OneRedemption DEF RedemptionFails, End
<1> QED
  BY <1>1, <1>2, <1>3, <1>4, <1>5

\* Codes, locks, devices, redemptions and the staff's requests are well typed
\* in every reachable state, and whoever works on something has it in hand.
LEMMA AlwaysTyped == EnrolSpec => []Typed
<1>1. EnrolInit => Typed
  <2> SUFFICES ASSUME EnrolInit PROVE Typed
    OBVIOUS
  <2>1. /\ code \in [Codes -> CodeType] /\ \A c \in Codes : CodeNamed(code[c])
        /\ lock \in [Locks -> Handsets \cup {"unsold", "AVAILABLE"}]
    BY DEF EnrolInit, CodeType, CodeNamed
  <2>2. redeem \in [Redeemers -> RedeemType] /\ \A r \in Redeemers : RedeemNamed(redeem[r])
    BY NothingAtWork DEF EnrolInit
  <2>3. clerk \in [Clerks -> ClerkType] /\ \A s \in Clerks : ClerkNamed(clerk[s])
    BY NothingAtWork DEF EnrolInit
  <2>4. /\ handset \in [Handsets -> {"PENDING", "ACTIVE", "INACTIVE"}]
        /\ answered \in [Codes -> 0..2] /\ revived \subseteq Codes
    BY DEF EnrolInit
  <2> QED
    BY <2>1, <2>2, <2>3, <2>4 DEF Typed
<1>2. Typed /\ [EnrolNext]_enrolVars => Typed'
  <2> SUFFICES ASSUME Typed, [EnrolNext]_enrolVars PROVE Typed'
    OBVIOUS
  <2>1. CASE UNCHANGED enrolVars
    BY <2>1 DEF enrolVars, Typed, CodeNamed, ClerkNamed, RedeemNamed
  <2> QED
    BY <2>1, StaffTyped, RestTyped, RedeemTyped, ClaimTyped DEF EnrolNext
<1> QED
  BY <1>1, <1>2, PTL DEF EnrolSpec

\* Every reachable state of the enrolment is well typed.
THEOREM EnrolTypeCorrect == EnrolSpec => []EnrolTypeOK
<1>1. Typed => EnrolTypeOK
  BY Types DEF Typed
<1> QED
  BY <1>1, AlwaysTyped, PTL

-----------------------------------------------------------------------------
(* Managed phones are paid for. *)

\* The redemptions that have a lock for their device.
Covered == {"claim", "enroll", "finish", "log"}

\* The device of a redemption has a lock.
HasLock(r) == \E l \in Locks : lock[l] = redeem[r].handset

\* A device is managed, or about to be, only with a lock spent on it.
PaidInv ==
  /\ ManagedIsPaidFor
  /\ \A r \in Redeemers : redeem[r].at \in Covered => HasLock(r)

\* A lock once spent is never taken back.
LocksStay == \A l \in Locks : lock[l] \in Handsets => lock'[l] = lock[l]

LEMMA HeldStays ==
  ASSUME LocksStay, NEW d \in Handsets, Held(d) # {}
  PROVE  Held(d)' # {}
BY ZenonT(60) DEF LocksStay, Held

\* No step takes a lock back.
LEMMA LocksAreKept ==
  ASSUME Typed, [EnrolNext]_enrolVars
  PROVE  LocksStay
<1>1. CASE UNCHANGED lock
  BY <1>1 DEF LocksStay
<1>2. CASE IssuePack
  BY <1>2, EnrolmentAssumption DEF IssuePack, LocksStay
<1>3. ASSUME NEW r \in Redeemers, Spend(r) PROVE LocksStay
  <2>1. CASE SpendWins(r) /\ lock' = [lock EXCEPT ![redeem[r].lock] = redeem[r].handset]
    <3>1. \A l \in Locks : l # redeem[r].lock => lock'[l] = lock[l]
      BY <2>1 DEF Typed
    <3>2. lock[redeem[r].lock] \notin Handsets
      BY <2>1, EnrolmentAssumption DEF SpendWins
    <3> QED
      BY <3>1, <3>2 DEF LocksStay
  <2> QED
    BY <1>1, <1>3, <2>1 DEF Spend
<1> QED
  BY <1>1, <1>2, <1>3 DEF EnrolNext, enrolVars, GenerateRead, GenerateRetire, GenerateCreate,
     RevokeRead, RevokeWrite, ServerStops, ExpireStale, SetBack, LetGo, TimeIsUp, RedeemLate,
     Redeem, LicenseHeld, LicensePick, ClaimCode, EnrollDevice, FinishCode, Answer, RedemptionFails

\* A step after which the managed devices were managed before, or are the
\* device of a redemption that has a lock for it, keeps them paid for.
LEMMA PaidStays ==
  ASSUME Typed, PaidInv, LocksStay,
         \A d \in Handsets :
           handset'[d] = "ACTIVE" =>
             \/ handset[d] = "ACTIVE"
             \/ \E r \in Redeemers : redeem[r].at \in Covered /\ redeem[r].handset = d
  PROVE  ManagedIsPaidFor'
<1> SUFFICES ASSUME NEW d \in Handsets, handset'[d] = "ACTIVE"
             PROVE  Held(d)' # {}
  BY DEF ManagedIsPaidFor
<1>1. Held(d) # {}
  BY DEF PaidInv, ManagedIsPaidFor, HasLock, Held
<1> QED
  BY <1>1, HeldStays

\* A redemption that has a lock after a step either had it before, for the same
\* device, or has just found or spent one.
LEMMA CoverStays ==
  ASSUME Typed, Typed', PaidInv, LocksStay,
         \A r \in Redeemers :
           redeem'[r].at \in Covered =>
             \/ redeem[r].at \in Covered /\ redeem'[r].handset = redeem[r].handset
             \/ HasLock(r)'
  PROVE  \A r \in Redeemers : redeem'[r].at \in Covered => HasLock(r)'
<1> SUFFICES ASSUME NEW r \in Redeemers, redeem'[r].at \in Covered,
                    redeem[r].at \in Covered, redeem'[r].handset = redeem[r].handset
             PROVE  HasLock(r)'
  OBVIOUS
<1>1. redeem[r].handset \in Handsets
  BY DEF Typed, RedeemNamed, Covered
<1>2. PICK l \in Locks : lock[l] = redeem[r].handset
  BY DEF PaidInv, HasLock
<1> QED
  BY <1>1, <1>2 DEF LocksStay, HasLock

\* One step preserves it.
LEMMA PaidStep ==
  ASSUME Typed, Typed', PaidInv, [EnrolNext]_enrolVars
  PROVE  PaidInv'
<1>0. LocksStay
  BY LocksAreKept
<1>1. ManagedIsPaidFor'
  <2>1. ASSUME NEW d \in Handsets, handset'[d] = "ACTIVE"
        PROVE  \/ handset[d] = "ACTIVE"
               \/ \E r \in Redeemers : redeem[r].at \in Covered /\ redeem[r].handset = d
    <3>1. CASE UNCHANGED handset
      BY <2>1, <3>1
    <3>2. ASSUME NEW e \in Handsets, SetBack(e) \/ LetGo(e) PROVE handset[d] = "ACTIVE"
      BY <2>1, <3>2 DEF SetBack, LetGo, Typed
    <3>3. ASSUME NEW r \in Redeemers, EnrollDevice(r)
          PROVE  handset[d] = "ACTIVE" \/ (redeem[r].at \in Covered /\ redeem[r].handset = d)
      <4>1. CASE redeem[r].handset = d
        BY <3>3, <4>1 DEF EnrollDevice, Covered
      <4>2. CASE redeem[r].handset # d
        <5>1. handset \in [Handsets -> {"PENDING", "ACTIVE", "INACTIVE"}]
          BY DEF Typed
        <5> QED
          BY <2>1, <3>3, <4>2, <5>1 DEF EnrollDevice
      <4> QED
        BY <4>1, <4>2
    <3> QED
      BY <3>1, <3>2, <3>3 DEF EnrolNext, enrolVars, GenerateRead, GenerateRetire,
         GenerateCreate, RevokeRead, RevokeWrite, IssuePack, ServerStops, ExpireStale, TimeIsUp,
         RedeemLate, Redeem, LicenseHeld, LicensePick, Spend, ClaimCode, FinishCode, Answer,
         RedemptionFails
  <2> QED
    BY <1>0, <2>1, PaidStays, ZenonT(60)
<1>2. \A r \in Redeemers : redeem'[r].at \in Covered => HasLock(r)'
  <2>1. ASSUME NEW r \in Redeemers, redeem'[r].at \in Covered
        PROVE  \/ redeem[r].at \in Covered /\ redeem'[r].handset = redeem[r].handset
               \/ HasLock(r)'
    <3>0. redeem \in [Redeemers -> RedeemType]
      BY DEF Typed
    <3>1. CASE UNCHANGED redeem
      BY <2>1, <3>1
    <3>2. CASE ServerStops
      BY <2>1, <3>2 DEF ServerStops, NoRedemption, Covered
    <3>3. ASSUME NEW q \in Redeemers, NEW c \in Codes, Redeem(q, c)
          PROVE  redeem[r].at \in Covered /\ redeem'[r].handset = redeem[r].handset
      BY <2>1, <3>0, <3>3 DEF Redeem, NoRedemption, Covered
    <3>4. ASSUME NEW q \in Redeemers, LicenseHeld(q)
          PROVE  \/ redeem[r].at \in Covered /\ redeem'[r].handset = redeem[r].handset
                 \/ HasLock(r)'
      <4>1. CASE q = r
        BY <3>0, <3>4, <4>1 DEF LicenseHeld, Held, HasLock, RedeemType
      <4>2. CASE q # r
        BY <2>1, <3>0, <3>4, <4>2 DEF LicenseHeld
      <4> QED
        BY <4>1, <4>2
    <3>5. ASSUME NEW q \in Redeemers, End(q)
          PROVE  redeem[r].at \in Covered /\ redeem'[r].handset = redeem[r].handset
      BY <2>1, <3>0, <3>5 DEF End, NoRedemption, Covered
    <3>6. ASSUME NEW q \in Redeemers, LicensePick(q)
          PROVE  redeem[r].at \in Covered /\ redeem'[r].handset = redeem[r].handset
      BY <2>1, <3>0, <3>5, <3>6 DEF LicensePick, RedeemType, Covered
    <3>7. ASSUME NEW q \in Redeemers, Spend(q)
          PROVE  \/ redeem[r].at \in Covered /\ redeem'[r].handset = redeem[r].handset
                 \/ HasLock(r)'
      <4>1. CASE /\ lock' = [lock EXCEPT ![redeem[q].lock] = redeem[q].handset]
                 /\ redeem' = [redeem EXCEPT ![q].at = "claim", ![q].lock = 0]
        <5>1. CASE q = r
          <6>1. redeem[q].lock \in Locks
            BY <3>7 DEF Typed, RedeemNamed, Spend
          <6>2. lock'[redeem[q].lock] = redeem[q].handset
            BY <4>1, <6>1 DEF Typed
          <6>3. redeem'[r].handset = redeem[q].handset
            BY <3>0, <4>1, <5>1 DEF RedeemType
          <6> QED
            BY <5>1, <6>1, <6>2, <6>3 DEF HasLock
        <5>2. CASE q # r
          BY <2>1, <3>0, <4>1, <5>2
        <5> QED
          BY <5>1, <5>2
      <4>2. CASE redeem' = [redeem EXCEPT ![q].at = "license", ![q].lock = 0]
        BY <2>1, <3>0, <4>2 DEF Covered, RedeemType
      <4> QED
        BY <3>5, <3>7, <4>1, <4>2 DEF Spend
    <3>8. ASSUME NEW q \in Redeemers, NEW at \in Covered, redeem[q].at \in Covered,
                 redeem' = [redeem EXCEPT ![q].at = at]
          PROVE  redeem[r].at \in Covered /\ redeem'[r].handset = redeem[r].handset
      BY <2>1, <3>0, <3>8 DEF RedeemType
    <3>9. ASSUME NEW q \in Redeemers,
                 ClaimCode(q) \/ EnrollDevice(q) \/ FinishCode(q) \/ Answer(q) \/ RedemptionFails(q)
          PROVE  redeem[r].at \in Covered /\ redeem'[r].handset = redeem[r].handset
      BY <3>5, <3>8, <3>9 DEF ClaimCode, EnrollDevice, FinishCode, Answer, RedemptionFails, Covered
    <3> QED
      BY <3>1, <3>2, <3>3, <3>4, <3>6, <3>7, <3>9 DEF EnrolNext, enrolVars, GenerateRead,
         GenerateRetire, GenerateCreate, RevokeRead, RevokeWrite, IssuePack, ExpireStale,
         SetBack, LetGo, TimeIsUp, RedeemLate
  <2> QED
    BY <1>0, <2>1, CoverStays
<1> QED
  BY <1>1, <1>2 DEF PaidInv

\* "An enrolled device with no licence behind it is exactly the state this
\* model exists to prevent": LicenseService.claimForDevice, raced by any number
\* of redemptions, interrupted anywhere.
THEOREM ManagedPaid == EnrolSpec => []ManagedIsPaidFor
<1>1. EnrolInit => PaidInv
  BY DEF EnrolInit, PaidInv, ManagedIsPaidFor, NoRedemption, Covered
<1>2. Typed /\ Typed' /\ PaidInv /\ [EnrolNext]_enrolVars => PaidInv'
  BY PaidStep
<1>3. PaidInv => ManagedIsPaidFor
  BY DEF PaidInv
<1> QED
  BY <1>1, <1>2, <1>3, AlwaysTyped, PTL DEF EnrolSpec

-----------------------------------------------------------------------------
(* A code gives credentials to one phone. *)

\* A redemption that has claimed its code.
Claims(r) == redeem[r].at \in {"enroll", "finish", "log"}

\* A code that is claimed or used up cannot be claimed.
Gone(c) == code[c].status \in {"VERIFYING", "ENROLLED", "EXPIRED"}

\* A code is claimed by one redemption at a time, and by none once it has given
\* credentials.
OnceInv ==
  /\ \A r \in Redeemers : Claims(r) =>
       Gone(redeem[r].code) /\ answered[redeem[r].code] = 0
  /\ \A r, q \in Redeemers :
       Claims(r) /\ Claims(q) /\ redeem[r].code = redeem[q].code => r = q
  /\ \A c \in Codes : answered[c] = 0 \/ (answered[c] = 1 /\ Gone(c))

\* Claims that were there before, on codes that stay gone.
LEMMA NoNewClaim ==
  ASSUME Typed, OnceInv, UNCHANGED answered,
         \A c \in Codes : Gone(c) => Gone(c)',
         \A r \in Redeemers : Claims(r)' => Claims(r) /\ redeem'[r].code = redeem[r].code
  PROVE  OnceInv'
<1>1. \A r \in Redeemers : Claims(r) => redeem[r].code \in Codes
  BY SMTT(40) DEF Typed, RedeemNamed, Claims
<1> QED
  BY <1>1 DEF OnceInv

\* One step preserves it.
LEMMA OnceStep ==
  ASSUME Typed, OnceInv, [EnrolNext]_enrolVars
  PROVE  OnceInv'
<1>0. /\ redeem \in [Redeemers -> RedeemType] /\ code \in [Codes -> CodeType]
      /\ answered \in [Codes -> 0..2]
  BY DEF Typed
<1>a. \A r \in Redeemers : redeem[r].at # "none" => redeem[r].code \in Codes
  BY DEF Typed, RedeemNamed
\* What takes no claim and gives no code back.
<1>1. ASSUME UNCHANGED <<redeem, answered>>, \A c \in Codes : Gone(c) => Gone(c)'
      PROVE  OnceInv'
  BY <1>1, NoNewClaim DEF Claims
<1>2. CASE UNCHANGED <<redeem, code, answered>>
  BY <1>1, <1>2 DEF Gone
<1>3. ASSUME NEW s \in Clerks,
             GenerateRetire(s) \/ (\E c \in Codes : GenerateCreate(s, c)) \/ RevokeWrite(s)
      PROVE  OnceInv'
  <2>1. \A e \in Codes : Gone(e) => Gone(e)'
    BY <1>0, <1>3 DEF GenerateRetire, GenerateCreate, RevokeWrite, Gone, Retired, CodeType
  <2> QED
    BY <1>1, <1>3, <2>1 DEF GenerateRetire, GenerateCreate, RevokeWrite
<1>4. ASSUME ExpireStale \/ (\E c \in Codes : TimeIsUp(c))
             \/ (\E r \in Redeemers, c \in Codes : RedeemLate(r, c))
      PROVE  OnceInv'
  <2>1. \A e \in Codes : Gone(e) => Gone(e)'
    BY <1>0, <1>4 DEF ExpireStale, TimeIsUp, RedeemLate, Gone, CodeType
  <2> QED
    BY <1>1, <1>4, <2>1 DEF ExpireStale, TimeIsUp, RedeemLate
\* What ends a redemption, or moves it on short of a claim.
<1>5. ASSUME UNCHANGED <<code, answered>>,
             \A r \in Redeemers : Claims(r)' => Claims(r) /\ redeem'[r].code = redeem[r].code
      PROVE  OnceInv'
  BY <1>5, NoNewClaim DEF Gone
<1>6. CASE ServerStops
  BY <1>5, <1>6 DEF ServerStops, Claims, NoRedemption
<1>7. ASSUME NEW r \in Redeemers, NEW c \in Codes, Redeem(r, c) PROVE OnceInv'
  <2>1. \A q \in Redeemers : Claims(q)' => Claims(q) /\ redeem'[q].code = redeem[q].code
    BY <1>0, <1>7 DEF Redeem, Claims, NoRedemption
  <2> QED
    BY <1>5, <1>7, <2>1 DEF Redeem
<1>8. ASSUME NEW r \in Redeemers, LicenseHeld(r) \/ LicensePick(r) \/ Spend(r) PROVE OnceInv'
  <2>1. \A q \in Redeemers : Claims(q)' => Claims(q) /\ redeem'[q].code = redeem[q].code
    BY <1>0, <1>8 DEF LicenseHeld, LicensePick, Spend, End, Claims, NoRedemption, RedeemType
  <2> QED
    BY <1>5, <1>8, <2>1 DEF LicenseHeld, LicensePick, Spend
\* The claim: the code was WAITING, so nobody had it and it was never used.
<1>9. ASSUME NEW r \in Redeemers, ClaimCode(r) PROVE OnceInv'
  <2> SUFFICES ASSUME NEW c \in Codes, c = redeem[r].code PROVE OnceInv'
    BY <1>9, <1>a DEF ClaimCode
  <2>1. CASE ~Claimable(r)
    <3>1. \A q \in Redeemers : Claims(q)' => Claims(q) /\ redeem'[q].code = redeem[q].code
      BY <1>0, <1>9, <2>1 DEF ClaimCode, End, Claims, NoRedemption
    <3> QED
      BY <1>5, <1>9, <2>1, <3>1 DEF ClaimCode
  <2>2. CASE Claimable(r)
    <3>1. c \in Codes /\ code[c].status = "WAITING"
      BY <1>9, <1>a, <2>2 DEF ClaimCode, Claimable
    <3>2. answered[c] = 0 /\ \A q \in Redeemers : Claims(q) => redeem[q].code # c
      BY <3>1 DEF OnceInv, Gone
    <3>3. /\ code' = [code EXCEPT ![c].status = "VERIFYING"]
          /\ redeem' = [redeem EXCEPT ![r].at = "enroll"]
          /\ answered' = answered
      BY <1>9, <2>2 DEF ClaimCode
    <3>4. /\ \A q \in Redeemers : redeem'[q].code = redeem[q].code
          /\ \A q \in Redeemers \ {r} : Claims(q)' <=> Claims(q)
      BY <1>0, <3>3 DEF Claims, RedeemType
    <3>5. Gone(c)' /\ \A e \in Codes : Gone(e) => Gone(e)'
      BY <1>0, <3>1, <3>3 DEF Gone, CodeType
    <3>6. \A q \in Redeemers : Claims(q)' =>
            Gone(redeem[q].code)' /\ answered'[redeem'[q].code] = 0
      <4>1. redeem[r].code = c
        OBVIOUS
      <4>2. \A q \in Redeemers \ {r} : Claims(q) => redeem[q].code \in Codes
        BY <1>a DEF Claims
      <4> QED
        <5> SUFFICES ASSUME NEW q \in Redeemers, Claims(q)'
                     PROVE  Gone(redeem[q].code)' /\ answered'[redeem'[q].code] = 0
          OBVIOUS
        <5>1. CASE q = r
          <6>1. redeem[q].code = c /\ redeem'[q].code = c
            BY <3>4, <4>1, <5>1
          <6>2. answered'[c] = 0
            BY <3>2, <3>3
          <6> QED
            BY <3>5, <6>1, <6>2
        <5>2. CASE q # r
          <6>1. Claims(q) /\ redeem[q].code \in Codes
            BY <3>4, <4>2, <5>2
          <6>2. Gone(redeem[q].code) /\ answered[redeem[q].code] = 0
            BY <6>1 DEF OnceInv
          <6> QED
            BY <3>3, <3>4, <3>5, <6>1, <6>2 DEF Gone
        <5> QED
          BY <5>1, <5>2
    <3>7. \A q, p \in Redeemers :
            Claims(q)' /\ Claims(p)' /\ redeem'[q].code = redeem'[p].code => q = p
      <4>1. redeem[r].code = c
        OBVIOUS
      <4> QED
        BY <3>2, <3>4, <4>1 DEF OnceInv
    <3>8. \A e \in Codes : answered'[e] = 0 \/ (answered'[e] = 1 /\ Gone(e)')
      BY <3>3, <3>5 DEF OnceInv
    <3> QED
      BY <3>4, <3>6, <3>7, <3>8 DEF OnceInv, Gone
  <2> QED
    BY <2>1, <2>2
<1>10. ASSUME NEW r \in Redeemers, EnrollDevice(r) PROVE OnceInv'
  <2>1. \A q \in Redeemers : Claims(q)' => Claims(q) /\ redeem'[q].code = redeem[q].code
    BY <1>0, <1>10 DEF EnrollDevice, Claims, RedeemType
  <2> QED
    BY <1>5, <1>10, <2>1 DEF EnrollDevice
<1>11. ASSUME NEW r \in Redeemers, FinishCode(r) PROVE OnceInv'
  <2>1. \A q \in Redeemers : Claims(q)' => Claims(q) /\ redeem'[q].code = redeem[q].code
    BY <1>0, <1>11 DEF FinishCode, Claims, RedeemType
  <2>2. \A e \in Codes : Gone(e) => Gone(e)'
    BY <1>0, <1>11 DEF FinishCode, Gone, CodeType
  <2> QED
    BY <1>11, <2>1, <2>2, NoNewClaim DEF FinishCode
\* The answer: the claim ends, and the code is gone for good.
<1>12. ASSUME NEW r \in Redeemers, Answer(r) PROVE OnceInv'
  <2> SUFFICES ASSUME NEW c \in Codes, c = redeem[r].code PROVE OnceInv'
    BY <1>12, <1>a DEF Answer
  <2>1. Claims(r) /\ c \in Codes
    BY <1>12, <1>a DEF Answer, Claims
  <2>2. answered[c] = 0 /\ Gone(c)
    BY <2>1 DEF OnceInv
  <2>3. /\ answered'[c] = 1
        /\ \A e \in Codes \ {c} : answered'[e] = answered[e]
        /\ code' = code
    BY <1>0, <1>12, <2>1, <2>2 DEF Answer
  <2>4. \A q \in Redeemers : Claims(q)' =>
          /\ q # r /\ Claims(q) /\ redeem'[q].code = redeem[q].code
          /\ redeem[q].code # c /\ redeem[q].code \in Codes
    <3>1. \A q \in Redeemers : Claims(q)' =>
            q # r /\ Claims(q) /\ redeem'[q].code = redeem[q].code
      BY <1>0, <1>12 DEF Answer, End, Claims, NoRedemption
    <3>2. \A q \in Redeemers : q # r /\ Claims(q) => redeem[q].code # c
      BY <2>1 DEF OnceInv
    <3>3. \A q \in Redeemers : Claims(q) => redeem[q].code \in Codes
      BY <1>a DEF Claims
    <3> QED
      BY <3>1, <3>2, <3>3
  <2> QED
    BY <2>2, <2>3, <2>4 DEF OnceInv, Gone
\* The failure: the code is back, and no claim on it is left.
<1>13. ASSUME NEW r \in Redeemers, RedemptionFails(r) PROVE OnceInv'
  <2> SUFFICES ASSUME NEW c \in Codes, c = redeem[r].code PROVE OnceInv'
    BY <1>13, <1>a DEF RedemptionFails
  <2>1. Claims(r) /\ c \in Codes
    BY <1>13, <1>a DEF RedemptionFails, Claims
  <2>2. answered[c] = 0 /\ answered' = answered
    BY <1>13, <2>1 DEF OnceInv, RedemptionFails
  <2>3. \A e \in Codes \ {c} : Gone(e) => Gone(e)'
    BY <1>0, <1>13, <2>1 DEF RedemptionFails, Gone
  <2>4. \A q \in Redeemers : Claims(q)' =>
          /\ q # r /\ Claims(q) /\ redeem'[q].code = redeem[q].code
          /\ redeem[q].code # c /\ redeem[q].code \in Codes
    <3>1. \A q \in Redeemers : Claims(q)' =>
            q # r /\ Claims(q) /\ redeem'[q].code = redeem[q].code
      BY <1>0, <1>13 DEF RedemptionFails, End, Claims, NoRedemption
    <3>2. \A q \in Redeemers : q # r /\ Claims(q) => redeem[q].code # c
      BY <2>1 DEF OnceInv
    <3>3. \A q \in Redeemers : Claims(q) => redeem[q].code \in Codes
      BY <1>a DEF Claims
    <3> QED
      BY <3>1, <3>2, <3>3
  <2>5. \A q \in Redeemers : Claims(q)' =>
          Gone(redeem[q].code)' /\ answered'[redeem'[q].code] = 0
    BY <2>2, <2>3, <2>4 DEF OnceInv, Gone
  <2>6. \A q, p \in Redeemers :
          Claims(q)' /\ Claims(p)' /\ redeem'[q].code = redeem'[p].code => q = p
    BY <2>4 DEF OnceInv
  <2>7. \A e \in Codes : answered'[e] = 0 \/ (answered'[e] = 1 /\ Gone(e)')
    BY <2>2, <2>3 DEF OnceInv
  <2> QED
    BY <2>5, <2>6, <2>7 DEF OnceInv, Gone
<1> QED
  BY <1>2, <1>3, <1>4, <1>6, <1>7, <1>8, <1>9, <1>10, <1>11, <1>12, <1>13
  DEF EnrolNext, enrolVars, GenerateRead, RevokeRead, IssuePack, SetBack, LetGo

\* However redemptions of a code race, fail half-way and are tried again, it
\* gives credentials to one phone at most (EnrollmentService.verifyAndEnroll,
\* claimIfWaiting).
THEOREM CodesWorkOnce == EnrolSpec => []CodeWorksOnce
<1>1. EnrolInit => OnceInv
  <2> SUFFICES ASSUME EnrolInit PROVE OnceInv
    OBVIOUS
  <2>1. \A r \in Redeemers : ~Claims(r)
    BY DEF EnrolInit, Claims, NoRedemption
  <2>2. \A c \in Codes : answered[c] = 0
    BY DEF EnrolInit
  <2> QED
    BY <2>1, <2>2 DEF OnceInv
<1>2. Typed /\ OnceInv /\ [EnrolNext]_enrolVars => OnceInv'
  BY OnceStep
<1>3. OnceInv => CodeWorksOnce
  BY DEF OnceInv, CodeWorksOnce
<1> QED
  BY <1>1, <1>2, <1>3, AlwaysTyped, PTL DEF EnrolSpec

=============================================================================
