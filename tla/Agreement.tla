----------------------------- MODULE Agreement ------------------------------
(***************************************************************************)
(* The paper the customer signs, and the powers over the phone that follow *)
(* from it (ContractService, OfflineLockPolicy, StagedRestrictions and the *)
(* phone's OfflineLockRule).                                               *)
(*                                                                         *)
(* The powers here are the two the phone exercises by itself: to restrict  *)
(* itself when it has been out of contact for some days, and the staged    *)
(* restrictions.  The server works out what it may do from the dealer's    *)
(* policy and the signed paper, and the phone keeps the last answer; the   *)
(* plan, the policy and the paper change in the meantime.  The lock itself *)
(* is in LockProtocol.                                                     *)
(*                                                                         *)
(* Time is counted in days.  The phone's clock is `skew` days ahead, and   *)
(* its owner can move it, forward and back.                                *)
(*                                                                         *)
(* Definitions named "...Forgotten" are faulty variants.                   *)
(***************************************************************************)
EXTENDS Integers

CONSTANTS
  Terms,      \* what a plan's figures, or its schedule, may be
  Policies,   \* the policies a dealer may set: [days, staged]; automatic locking
              \* off is 0 days and no stages
  Versions,   \* the terms drafts of this database carry: 0 to 2
  Signers,    \* signing requests at work at a time
  Skews,      \* how many days ahead the phone's clock may be
  Horizon,    \* the last day looked at
  Due,        \* the day the installment falls due, ...
  Grace       \* ... and the days of grace after it

ASSUME AgreementAssumption ==
  /\ Policies \subseteq [days: Nat, staged: BOOLEAN] /\ Versions \subseteq 0..2
  /\ Skews \subseteq Nat /\ 0 \in Skews
  /\ Horizon \in Nat /\ Due \in Nat /\ Grace \in Nat

VARIABLES
  plan,      \* the plan as it stands: [figures, rows]
  policy,    \* the dealer's policy: [days, staged]
  paper,     \* the contract row: [status, version, plan, days, staged]
  signer,    \* signing requests: [at, plan, days, staged]
  rewritten, \* a signature was written over a signed or a voided paper
  owed,      \* the installment: "due", "OVERDUE" (marked) or "PAID"
  today,     \* the real day
  skew,      \* what the phone's clock adds to it
  cached,    \* the last answer the phone saved
  contact,   \* when that was: [day, skew]
  watch      \* the watchdog: "idle", "due" or "applied"

agreeVars == <<plan, policy, paper, signer, rewritten, owed, today, skew, cached, contact, watch>>

Plans == [figures: Terms, rows: Terms]
Limits == {0} \cup {p.days : p \in Policies}
Answers == [days: Limits, level: 0..1, overdue: BOOLEAN, unpaid: BOOLEAN]

Powerless == [days |-> 0, level |-> 0, overdue |-> FALSE, unpaid |-> TRUE]
FreeSigner == [at |-> "none", plan |-> CHOOSE p \in Plans : TRUE, days |-> 0, staged |-> FALSE]

AgreeTypeOK ==
  /\ plan \in Plans /\ policy \in Policies
  /\ paper \in [status: {"DRAFT", "SIGNED", "VOID"}, version: Versions, plan: Plans,
                days: Limits, staged: BOOLEAN]
  /\ signer \in [Signers -> [at: {"none", "rows", "write"}, plan: Plans, days: Limits, staged: BOOLEAN]]
  /\ rewritten \in BOOLEAN
  /\ owed \in {"due", "OVERDUE", "PAID"}
  /\ today \in 0..Horizon /\ skew \in Skews
  /\ cached \in Answers
  /\ contact \in [day: 0..Horizon, skew: Skews]
  /\ watch \in {"idle", "due", "applied"}

\* Registration drafts the paper with the sale.  The phone has been enrolled
\* and has checked in.
AgreeInit ==
  /\ \E t \in Terms : plan = [figures |-> t, rows |-> t]
  /\ policy \in Policies
  /\ \E v \in Versions :
       paper = [status |-> "DRAFT", version |-> v, plan |-> plan,
                days |-> policy.days, staged |-> policy.staged]
  /\ signer = [s \in Signers |-> FreeSigner]
  /\ rewritten = FALSE
  /\ owed = "due"
  /\ today = 0 /\ skew = 0
  /\ cached = Powerless
  /\ contact = [day |-> 0, skew |-> 0]
  /\ watch = "idle"

-----------------------------------------------------------------------------
(* The counter *)

\* Rescheduling writes figures and rows in one transaction.
EditPlan(t) ==
  /\ owed # "PAID"
  /\ plan' = [figures |-> t, rows |-> t]
  /\ UNCHANGED <<policy, paper, signer, rewritten, owed, today, skew, cached, contact, watch>>

\* PUT /settings/policy.
EditPolicy(p) ==
  /\ policy' = p
  /\ UNCHANGED <<plan, paper, signer, rewritten, owed, today, skew, cached, contact, watch>>

\* sign reads the paper, which must still be a draft, and the plan; ...
SignRead(s) ==
  /\ signer[s].at = "none"
  /\ paper.status = "DRAFT"
  /\ signer' = [signer EXCEPT ![s] = [FreeSigner EXCEPT !.at = "rows", !.plan = plan]]
  /\ UNCHANGED <<plan, policy, paper, rewritten, owed, today, skew, cached, contact, watch>>

\* ... then the rows and the policy; ...
SignRows(s) ==
  /\ signer[s].at = "rows"
  /\ signer' = [signer EXCEPT ![s] = [at |-> "write",
                  plan |-> [figures |-> signer[s].plan.figures, rows |-> plan.rows],
                  days |-> policy.days, staged |-> policy.staged]]
  /\ UNCHANGED <<plan, policy, paper, rewritten, owed, today, skew, cached, contact, watch>>

\* ... and writes the signature with the snapshot made of them, whatever has
\* become of the paper since.  The version stays the draft's.
SignWrite(s) ==
  /\ signer[s].at = "write"
  /\ paper' = [paper EXCEPT !.status = "SIGNED", !.plan = signer[s].plan,
                            !.days = signer[s].days, !.staged = signer[s].staged]
  /\ rewritten' = (rewritten \/ paper.status # "DRAFT")
  /\ signer' = [signer EXCEPT ![s] = FreeSigner]
  /\ UNCHANGED <<plan, policy, owed, today, skew, cached, contact, watch>>

\* void asks nothing of the status it finds.
Void ==
  /\ paper' = [paper EXCEPT !.status = "VOID"]
  /\ UNCHANGED <<plan, policy, signer, rewritten, owed, today, skew, cached, contact, watch>>

\* The customer pays; the nightly engine marks what is late.
PayUp ==
  /\ owed # "PAID"
  /\ owed' = "PAID"
  /\ UNCHANGED <<plan, policy, paper, signer, rewritten, today, skew, cached, contact, watch>>

MarkOverdue ==
  /\ owed = "due" /\ today > Due + Grace
  /\ owed' = "OVERDUE"
  /\ UNCHANGED <<plan, policy, paper, signer, rewritten, today, skew, cached, contact, watch>>

-----------------------------------------------------------------------------
(* The check-in *)

\* consentForDevice: a signed paper whose plan is the plan as it stands.
Consent == paper.status = "SIGNED" /\ paper.plan = plan

DisclosesOffline == paper.version >= 1

DisclosesStages == paper.version >= 2

Longer(a, b) == IF a > b THEN a ELSE b

OfflineLockDaysPaperForgotten ==
  IF policy.days > 0 THEN Longer(policy.days, paper.days) ELSE 0

\* offlineLockDaysFor: never shorter than the figure on the paper.
OfflineLockDays ==
  IF policy.days > 0 /\ Consent /\ DisclosesOffline /\ paper.days > 0
  THEN Longer(policy.days, paper.days) ELSE 0

\* restrictionLevelFor, with one late installment.
RestrictionLevel ==
  IF policy.staged /\ owed = "OVERDUE" /\ Consent /\ DisclosesStages /\ paper.staged
  THEN 1 ELSE 0

\* buildPolicyView.
PolicyView == [days |-> OfflineLockDays, level |-> RestrictionLevel,
               overdue |-> owed = "OVERDUE", unpaid |-> owed # "PAID"]

\* A check-in whose answer arrives.  The phone saves it, notes the time, and
\* lifts what it had applied by itself.
CheckIn ==
  /\ cached' = PolicyView
  /\ contact' = [day |-> today, skew |-> skew]
  /\ watch' = IF watch = "applied" THEN "idle" ELSE watch
  /\ UNCHANGED <<plan, policy, paper, signer, rewritten, owed, today, skew>>

-----------------------------------------------------------------------------
(* The phone on its own *)

PhoneDay == today + skew

DaysOutOfContactOffByOne == Longer(0, PhoneDay - (contact.day + contact.skew) + 1)

\* Whole days since the last answer by the phone's clock, never negative.
DaysOutOfContact == Longer(0, PhoneDay - (contact.day + contact.skew))

\* An installment is late by the last figures the phone was given.
PastDue == cached.overdue \/ (cached.unpaid /\ PhoneDay > Due + Grace)

\* shouldSelfLock, asked every six hours while the phone is not restricted.
WatchDecides ==
  /\ watch = "idle"
  /\ cached.days > 0 /\ DaysOutOfContact >= cached.days /\ PastDue
  /\ watch' = "due"
  /\ UNCHANGED <<plan, policy, paper, signer, rewritten, owed, today, skew, cached, contact>>

\* The restriction is applied, or the platform refuses it.
WatchApplies ==
  /\ watch = "due"
  /\ watch' \in {"applied", "idle"}
  /\ UNCHANGED <<plan, policy, paper, signer, rewritten, owed, today, skew, cached, contact>>

NightPasses ==
  /\ today < Horizon
  /\ today' = today + 1
  /\ UNCHANGED <<plan, policy, paper, signer, rewritten, owed, skew, cached, contact, watch>>

ClockMoved(k) ==
  /\ skew' = k
  /\ UNCHANGED <<plan, policy, paper, signer, rewritten, owed, today, cached, contact, watch>>

-----------------------------------------------------------------------------
AgreeNext ==
  \/ \E t \in Terms : EditPlan(t)
  \/ \E p \in Policies : EditPolicy(p)
  \/ \E s \in Signers : SignRead(s) \/ SignRows(s) \/ SignWrite(s)
  \/ Void \/ PayUp \/ MarkOverdue
  \/ CheckIn
  \/ WatchDecides \/ WatchApplies
  \/ NightPasses
  \/ \E k \in Skews : ClockMoved(k)

AgreeSpec == AgreeInit /\ [][AgreeNext]_agreeVars

-----------------------------------------------------------------------------
\* What an answer lets the phone do is printed on the paper.
OnPaper(a) ==
  /\ a.days > 0 => /\ paper.status # "DRAFT" /\ paper.version >= 1
                   /\ paper.days > 0 /\ a.days >= paper.days
  /\ a.level > 0 => paper.status # "DRAFT" /\ paper.version >= 2 /\ paper.staged

\* "Tightening it afterwards would enforce a number this customer never agreed
\* to": however the policy and the plan are edited, the answer the
\* phone keeps never gives it more than the customer signed, unless two
\* signatures were written over each other.
PowersOnPaper == rewritten \/ OnPaper(cached)

\* A phone whose clock is left alone restricts itself only after the number of
\* days of real silence that its customer signed for, and only when the grace
\* of an installment has really run out.
NoSoonerThanSigned ==
  [][watch = "idle" /\ watch' = "due" /\ skew = contact.skew /\ skew = 0 /\ ~rewritten
     => /\ today - contact.day >= paper.days
        /\ today > Due + Grace \/ owed = "OVERDUE"]_agreeVars

=============================================================================
