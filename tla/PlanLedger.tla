----------------------------- MODULE PlanLedger -----------------------------
(***************************************************************************)
(* One financing plan and the money that reaches it: payments recorded,    *)
(* verified and reversed at the counter, fees waived, and the nightly      *)
(* overdue engine, which charges fees and restricts the handset.           *)
(*                                                                         *)
(* Each counter request is one ReadCommitted transaction: it reads the     *)
(* plan and its rows, computes, and writes absolute values.  The reads and *)
(* the writes are two steps here, so other work runs in between; the       *)
(* writes, the recalculation that follows them and the commit are one.     *)
(* What has to wait for the commit (lifting a restriction) is a third      *)
(* step.  The engine works outside any transaction from what it has read   *)
(* of the rows, and then of the plan and the device, a statement at a time.*)
(*                                                                         *)
(* The device is its status only, and always online (the commands are      *)
(* LockProtocol's); its agreement is signed.                               *)
(*                                                                         *)
(* Definitions named "...Forgotten" or "...Dropped" are faulty variants,   *)
(* as in Allocation.                                                       *)
(***************************************************************************)
EXTENDS Allocation

CONSTANTS
  N,         \* installments of the plan
  Due,       \* what each of them costs
  Amounts,   \* the amounts customers pay
  Targets,   \* the installments they aim at, 0 for none in particular
  Payments,  \* payment records
  Tellers,   \* counter requests at work at a time
  Rate,      \* late fee a day
  Cap,       \* lateFeeMaxPerInstallment
  Grace,     \* grace days; installment n is due on day n
  Warn,      \* lockWarningDays
  LastDay    \* the bound on the calendar

ASSUME AmountsAssumption == {N, Due} \subseteq Nat \ {0} /\ Amounts \subseteq Nat \ {0}
ASSUME TargetsAssumption == Targets \subseteq 0..N
ASSUME PolicyAssumption == {Rate, Cap, Grace, Warn, LastDay} \subseteq Nat
ASSUME PaymentsAssumption == IsFiniteSet(Payments)

Record == INSTANCE DeviceRecord

VARIABLES
  today,
  rows,     \* the plan's installments, as Allocation describes them
  plan,     \* [status, credit, fees]: creditBalance, outstandingLateFees
  payment,  \* the payment records
  device,   \* the device's status
  teller,   \* what each counter request is doing
  engine,   \* what the nightly run is doing
  missed,   \* what failures have left undone and nothing has made good since
            \* (history): "fees" or "status", the plan's columns; "lift" or
            \* "lock", the phone's restriction
  clashed   \* what some request has written over without having seen it
            \* (history): "money", another request's; "order", anything else

vars == <<today, rows, plan, payment, device, teller, engine, missed, clashed>>

Rows == 1..N

Restricted == {"LOCKED", "LOCK_PENDING", "OVERDUE"}

Unused == [status |-> "NONE", reversed |-> FALSE, amount |-> 0, target |-> 0, fee |-> 0]

Free == [pc |-> "free"]

Asleep == [pc |-> "asleep"]

Init ==
  /\ today = 0
  /\ rows = [n \in Rows |-> [due |-> Due, paid |-> 0, fee |-> 0, feePaid |-> 0,
                             status |-> "PENDING", waived |-> FALSE]]
  /\ plan = [status |-> "CURRENT", credit |-> 0, fees |-> 0]
  /\ payment = [p \in Payments |-> Unused]
  /\ device = "ACTIVE"
  /\ teller = [t \in Tellers |-> Free]
  /\ engine = Asleep
  /\ missed = {}
  /\ clashed = {}

NewDay ==
  /\ today < LastDay
  /\ today' = today + 1
  /\ UNCHANGED <<rows, plan, payment, device, teller, engine, missed, clashed>>

\* What a request has seen against what is there when it writes: the payment ...
SamePayment(seen, now) ==
  /\ now.status = seen.status /\ now.reversed = seen.reversed /\ now.fee = seen.fee
  /\ now.status # "NONE" => now.amount = seen.amount

\* ... the money on the rows ...
SameMoney(seen, now) == \A n \in Rows : now[n].paid = seen[n].paid /\ now[n].feePaid = seen[n].feePaid

MoneyAsSeen(job) ==
  /\ SameMoney(job.rows, rows) /\ plan.credit = job.credit
  /\ SamePayment(job.new, payment[job.payment])

\* ... and the rows altogether, with no nightly run reading or writing them.
RowsAsSeen(job) == rows = job.rows /\ engine = Asleep

Clash(kind, asSeen) == IF asSeen THEN {} ELSE {kind}

\* The payment's effect is yet to come.
Unapplied(x) == x.status # "VERIFIED" /\ ~x.reversed

\* Some request of another teller works on the payment.
Taken(p) == \E t \in Tellers : teller[t].pc \in {"apply", "reverse", "found"}
                                 /\ teller[t].payment = p

-----------------------------------------------------------------------------
(* Recording and verifying. *)

\* recordPayment without autoVerify, and the customer's own report: no effect yet.
Submit(p, amount, target) ==
  /\ payment[p].status = "NONE" /\ ~Taken(p)
  /\ payment' = [payment EXCEPT ![p] = [Unused EXCEPT !.status = "PENDING",
                                                     !.amount = amount, !.target = target]]
  /\ UNCHANGED <<today, rows, plan, device, teller, engine, missed, clashed>>

\* recordPayment: a new payment, verified at once, and the plan as it is now.
RecordRead(t, p, amount, target) ==
  /\ teller[t] = Free
  /\ payment[p].status = "NONE" /\ ~Taken(p)
  /\ teller' = [teller EXCEPT ![t] =
                  [pc |-> "apply", payment |-> p, rows |-> rows, credit |-> plan.credit,
                   new |-> [Unused EXCEPT !.amount = amount, !.target = target]]]
  /\ UNCHANGED <<today, rows, plan, payment, device, engine, missed, clashed>>

\* verifyPayment looks the payment up ...
VerifyFind(t, p) ==
  /\ teller[t] = Free
  /\ payment[p].status # "NONE" /\ Unapplied(payment[p])
  /\ teller' = [teller EXCEPT ![t] = [pc |-> "found", payment |-> p]]
  /\ UNCHANGED <<today, rows, plan, payment, device, engine, missed, clashed>>

\* A transaction that has written the payment's row and not committed.
HoldsPayment(p) == \E t \in Tellers : /\ teller[t].pc = "apply"
                                      /\ teller[t].payment = p

\* ... writes VERIFIED to it, which locks its row, and reads the plan.
VerifyRead(t) ==
  LET p == teller[t].payment
  IN  /\ teller[t].pc = "found" /\ ~HoldsPayment(p)
      /\ teller' = [teller EXCEPT ![t] =
                      [pc |-> "apply", payment |-> p, rows |-> rows, credit |-> plan.credit,
                       new |-> payment[p]]]
      /\ UNCHANGED <<today, rows, plan, payment, device, engine, missed, clashed>>

-----------------------------------------------------------------------------
(* applyPaymentEffect: the writes and the commit. *)

\* What there is to spread: the payment and the credit the request saw.
Spendable(amount, credit) == amount + credit

\* The rows after updates that name only some columns: a row the request did
\* not touch keeps what it holds now, and so do the columns it did not name.
Written(seen, new) ==
  [n \in Rows |->
     IF new[n] = seen[n] THEN rows[n]
     ELSE [rows[n] EXCEPT !.paid = new[n].paid, !.feePaid = new[n].feePaid,
                          !.status = IF Settled(new[n]) THEN "PAID" ELSE @]]

HandoverForgotten(status, now) == now

\* The last installment: the phone is the customer's.
Handover(status, now) ==
  IF status = "COMPLETED" /\ now \in Record!Releasable THEN "INACTIVE" ELSE now

LiftFlagForgotten(status, now) ==
  IF status = "OVERDUE" \/ now \notin Restricted \ {"OVERDUE"} THEN "free" ELSE "unlock"

\* resolveUnlock: what is to be done once the transaction has committed.
Lift(status, now) ==
  IF status = "OVERDUE" \/ now \notin Restricted THEN "free"
  ELSE IF now = "OVERDUE" THEN "clear"
  ELSE "unlock"

\* The payment's record, with the part of it that went to late fees.
Verified(record, fees) ==
  [record EXCEPT !.status = "VERIFIED", !.fee = IF fees > 0 THEN fees ELSE @]

\* What recalculatePlan puts right.
Recalculated == {"fees", "status"}

\* A payment looks at the restriction anew; where nothing is overdue, none is due.
LiftTried(status) == {"lift"} \cup IF status = "OVERDUE" THEN {} ELSE {"lock"}

Apply(t) ==
  LET job == teller[t]
      p == job.payment
      spread == Allocate(job.rows, job.new.target, Spendable(job.new.amount, job.credit))
      paid == Written(job.rows, spread.rows)
      status == PlanStatus(paid)
  IN  /\ job.pc = "apply"
      /\ rows' = paid
      /\ plan' = [status |-> status, credit |-> spread.left, fees |-> OutstandingFees(paid)]
      /\ payment' = [payment EXCEPT ![p] =
                       Verified(IF @.status = "NONE" THEN job.new ELSE @, spread.fees)]
      /\ device' = Handover(status, device)
      /\ teller' = [teller EXCEPT ![t] = [pc |-> Lift(status, Handover(status, device))]]
      /\ missed' = missed \ (Recalculated \cup LiftTried(status))
      /\ clashed' = clashed \cup Clash("money", MoneyAsSeen(job) /\ Unapplied(job.new))
                            \cup Clash("order", RowsAsSeen(job))
      /\ UNCHANGED <<today, engine>>

\* The phone may still be let go when its turn comes: no installment has become
\* overdue since, or the plan paid, and no nightly run is at work on it.
StillDue == engine = Asleep /\ device # "INACTIVE" /\ \A n \in Rows : rows[n].status # "OVERDUE"

\* settleUnlock, for a phone that was locked: unlockDevice reads the status afresh.
Unlock(t) ==
  /\ teller[t].pc = "unlock"
  /\ device' = IF device = "ACTIVE" \/ Record!CanMove(device, "ACTIVE") THEN "ACTIVE" ELSE device
  /\ teller' = [teller EXCEPT ![t] = Free]
  /\ clashed' = clashed \cup Clash("order", StillDue)
  /\ UNCHANGED <<today, rows, plan, payment, engine, missed>>

\* settleUnlock, for a phone that was only flagged: the status is written as it is.
ClearFlag(t) ==
  /\ teller[t].pc = "clear"
  /\ device' = "ACTIVE"
  /\ teller' = [teller EXCEPT ![t] = Free]
  /\ clashed' = clashed \cup Clash("order", StillDue)
  /\ UNCHANGED <<today, rows, plan, payment, engine, missed>>

-----------------------------------------------------------------------------
(* Reversing, waiving, failing. *)

ReverseFind(t, p) ==
  /\ teller[t] = Free
  /\ payment[p].status # "NONE" /\ ~payment[p].reversed
  /\ teller' = [teller EXCEPT ![t] =
                  [pc |-> "reverse", payment |-> p, rows |-> rows, credit |-> plan.credit,
                   new |-> payment[p]]]
  /\ UNCHANGED <<today, rows, plan, payment, device, engine, missed, clashed>>

\* reversePayment of a payment that was never verified.
CancelUnverified(t) ==
  LET p == teller[t].payment
  IN  /\ teller[t].pc = "reverse" /\ ~HoldsPayment(p)
      /\ teller[t].new.status # "VERIFIED"
      /\ payment' = [payment EXCEPT ![p].status = "FAILED", ![p].reversed = TRUE]
      /\ teller' = [teller EXCEPT ![t] = Free]
      /\ clashed' = clashed \cup Clash("money", SamePayment(teller[t].new, payment[p]))
      /\ UNCHANGED <<today, rows, plan, device, engine, missed>>

CreditLeftForgotten(credit, amount) == credit

\* The plan's credit once a reversal has taken what it can of it.
CreditLeft(credit, amount) == credit - Min({credit, amount})

StillToTakeCreditForgotten(amount, reclaimed) == amount

\* What a reversal has to find on the rows, the credit having given its part.
StillToTake(amount, reclaimed) == amount - reclaimed

TakenBackStatusForgotten(seen, new) ==
  [n \in Rows |->
     IF new[n] = seen[n] THEN rows[n]
     ELSE [rows[n] EXCEPT !.paid = new[n].paid, !.feePaid = new[n].feePaid]]

\* The rows after a reversal: the status is written as the request saw it.
TakenBack(seen, new) ==
  [n \in Rows |->
     IF new[n] = seen[n] THEN rows[n]
     ELSE [rows[n] EXCEPT !.paid = new[n].paid, !.feePaid = new[n].feePaid,
                          !.status = new[n].status]]

TakeBackPayment(t) ==
  LET job == teller[t]
      p == job.payment
      reclaimed == Min({job.credit, job.new.amount})
      left == CreditLeft(job.credit, job.new.amount)
      unpaid == ClawBack(job.rows, StillToTake(job.new.amount, reclaimed), job.new.fee)
      after == TakenBack(job.rows, unpaid.rows)
  IN  /\ job.pc = "reverse" /\ ~HoldsPayment(p)
      /\ job.new.status = "VERIFIED"
      /\ rows' = after
      /\ plan' = [status |-> PlanStatus(after),
                  credit |-> IF reclaimed > 0 THEN left ELSE plan.credit,
                  fees |-> OutstandingFees(after)]
      /\ payment' = [payment EXCEPT ![p].status = "REFUNDED", ![p].reversed = TRUE]
      /\ teller' = [teller EXCEPT ![t] = Free]
      /\ missed' = missed \ Recalculated
      /\ clashed' = clashed \cup Clash("money", MoneyAsSeen(job)) \cup Clash("order", RowsAsSeen(job))
      /\ UNCHANGED <<today, device, engine>>

\* POST /:id/waive-late-fee reads the installment before its transaction.
WaiveFind(t, n) ==
  /\ teller[t] = Free
  /\ FeeDue(rows[n]) > 0
  /\ teller' = [teller EXCEPT ![t] = [pc |-> "waive", row |-> n, feePaid |-> rows[n].feePaid]]
  /\ UNCHANGED <<today, rows, plan, payment, device, engine, missed, clashed>>

WaivedFeePaidForgotten(feePaid) == 0

\* What the fee becomes: what was paid of it when the request looked.
WaivedFee(feePaid) == feePaid

Waive(t) ==
  LET after == [rows EXCEPT ![teller[t].row].fee = WaivedFee(teller[t].feePaid),
                            ![teller[t].row].waived = TRUE]
  IN  /\ teller[t].pc = "waive"
      /\ rows' = after
      /\ plan' = [plan EXCEPT !.fees = OutstandingFees(after)]
      /\ teller' = [teller EXCEPT ![t] = Free]
      /\ missed' = missed \ {"fees"}
      /\ clashed' = clashed \cup
           Clash("order", engine = Asleep /\ rows[teller[t].row].feePaid = teller[t].feePaid)
      /\ UNCHANGED <<today, payment, device, engine>>

\* A transaction rolls back (its 15 s are up, the server stops), or the server
\* stops between the commit and what was to follow it.
GiveUp(t) ==
  /\ teller[t] # Free
  /\ teller' = [teller EXCEPT ![t] = Free]
  /\ missed' = IF teller[t].pc \in {"unlock", "clear"} THEN missed \cup {"lift"} ELSE missed
  /\ UNCHANGED <<today, rows, plan, payment, device, engine, clashed>>

-----------------------------------------------------------------------------
(* The overdue engine. *)

DaysLate(n, day) == day - (n + Grace)

\* runEvaluation reads the open rows ...
EngineRead ==
  /\ engine = Asleep
  /\ \E n \in Rows : rows[n].status # "PAID"
  /\ engine' = [pc |-> "read", day |-> today, rows |-> rows, device |-> device,
                autoLock |-> FALSE, row |-> 1, affected |-> FALSE]
  /\ UNCHANGED <<today, rows, plan, payment, device, teller, missed, clashed>>

\* ... and after them their plan, the device and the policy.
EngineStart(autoLock) ==
  /\ engine.pc = "read"
  /\ engine' = IF plan.status = "COMPLETED" THEN Asleep
               ELSE [engine EXCEPT !.pc = "charge", !.device = device, !.autoLock = autoLock]
  /\ UNCHANGED <<today, rows, plan, payment, device, teller, missed, clashed>>

Seen == engine.rows[engine.row]

Late == DaysLate(engine.row, engine.day) > 0

NextRow == [engine EXCEPT !.pc = "charge", !.row = @ + 1]

EngineSkip ==
  /\ engine.pc = "charge" /\ engine.row \in Rows
  /\ Seen.status = "PAID"
  /\ engine' = NextRow
  /\ UNCHANGED <<today, rows, plan, payment, device, teller, missed, clashed>>

AffectsForgotten(grown) == engine.affected

Affects(grown) == engine.affected \/ grown

\* The fee is written as a total, when it has grown since the snapshot.
EngineCharge ==
  LET owed == LateFee(Seen, DaysLate(engine.row, engine.day), Rate, Cap)
      grown == owed > Seen.fee
  IN  /\ engine.pc = "charge" /\ engine.row \in Rows
      /\ Seen.status # "PAID"
      /\ rows' = IF grown THEN [rows EXCEPT ![engine.row].fee = owed] ELSE rows
      /\ engine' = [engine EXCEPT !.pc = "mark", !.affected = Affects(grown)]
      /\ UNCHANGED <<today, plan, payment, device, teller, missed, clashed>>

\* The installment is marked first, the plan after it.
EngineMarkOverdue ==
  /\ engine.pc = "mark"
  /\ Late /\ Seen.status # "OVERDUE"
  /\ rows' = [rows EXCEPT ![engine.row].status = "OVERDUE"]
  /\ engine' = [engine EXCEPT !.pc = "plan"]
  /\ UNCHANGED <<today, plan, payment, device, teller, missed, clashed>>

EngineMarkPlan ==
  /\ engine.pc = "plan"
  /\ plan' = [plan EXCEPT !.status = "OVERDUE"]
  /\ engine' = [engine EXCEPT !.pc = "enforce", !.affected = TRUE]
  /\ missed' = missed \ {"status"}
  /\ UNCHANGED <<today, rows, payment, device, teller, clashed>>

\* The status a row that is not late is moved to, if any.
Reminder ==
  LET n == engine.row
      day == engine.day
  IN  IF n = day /\ Seen.status = "PENDING" THEN {"DUE_TODAY"}
      ELSE IF n < day /\ ~Late /\ Seen.status \notin {"OVERDUE", "DUE_TODAY"} THEN {"DUE_TODAY"}
      ELSE IF n > day /\ n - day <= Warn /\ Seen.status = "PENDING" THEN {"DUE_SOON"}
      ELSE {}

EngineRemind ==
  /\ engine.pc = "mark"
  /\ ~(Late /\ Seen.status # "OVERDUE")
  /\ rows' = IF Reminder = {} THEN rows
             ELSE [rows EXCEPT ![engine.row].status = CHOOSE s \in Reminder : TRUE]
  /\ engine' = NextRow
  /\ UNCHANGED <<today, plan, payment, device, teller, missed, clashed>>

\* lockDevice reads the device afresh; the flag goes by the snapshot.
Locks == engine.autoLock /\ engine.device \notin {"LOCKED", "LOCK_PENDING"}

EngineEnforce ==
  /\ engine.pc = "enforce"
  /\ device' = IF Locks
               THEN IF Record!CanMove(device, "LOCKED") THEN "LOCKED" ELSE device
               ELSE IF engine.device \in {"ACTIVE", "ENROLLED"} THEN "OVERDUE"
               ELSE device
  /\ engine' = NextRow
  /\ missed' = missed \ {"lock"}
  /\ UNCHANGED <<today, rows, plan, payment, teller, clashed>>

\* "One un-lockable device must not abort the whole nightly run."
EngineLockFails ==
  /\ engine.pc = "enforce" /\ Locks
  /\ engine' = NextRow
  /\ missed' = missed \cup {"lock"}
  /\ UNCHANGED <<today, rows, plan, payment, device, teller, clashed>>

EngineEnd ==
  /\ engine.pc = "charge" /\ engine.row \notin Rows
  /\ plan' = IF engine.affected THEN [plan EXCEPT !.fees = OutstandingFees(rows)] ELSE plan
  /\ missed' = IF engine.affected THEN missed \ {"fees"} ELSE missed
  /\ engine' = Asleep
  /\ UNCHANGED <<today, rows, payment, device, teller, clashed>>

\* What a run that ends here has not got to.
NotReached ==
  (IF engine.affected THEN {"fees"} ELSE {})
    \cup (IF engine.pc = "plan" THEN {"status"} ELSE {})
    \cup (IF engine.pc \in {"plan", "enforce"} THEN {"lock"} ELSE {})

\* A statement fails, or the server stops, and the run ends there.
EngineFails ==
  /\ engine # Asleep
  /\ engine' = Asleep
  /\ missed' = missed \cup NotReached
  /\ UNCHANGED <<today, rows, plan, payment, device, teller, clashed>>

-----------------------------------------------------------------------------

Engine ==
  \/ EngineRead \/ \E autoLock \in BOOLEAN : EngineStart(autoLock)
  \/ EngineSkip \/ EngineCharge \/ EngineMarkOverdue \/ EngineMarkPlan
  \/ EngineRemind \/ EngineEnforce \/ EngineLockFails \/ EngineEnd \/ EngineFails

Counter(t) ==
  \/ \E p \in Payments, amount \in Amounts, target \in Targets : RecordRead(t, p, amount, target)
  \/ \E p \in Payments : VerifyFind(t, p) \/ ReverseFind(t, p)
  \/ \E n \in Rows : WaiveFind(t, n)
  \/ VerifyRead(t) \/ Apply(t) \/ Unlock(t) \/ ClearFlag(t)
  \/ CancelUnverified(t) \/ TakeBackPayment(t) \/ Waive(t) \/ GiveUp(t)

Next ==
  \/ NewDay
  \/ \E p \in Payments, amount \in Amounts, target \in Targets : Submit(p, amount, target)
  \/ \E t \in Tellers : Counter(t)
  \/ Engine

Spec == Init /\ [][Next]_vars

-----------------------------------------------------------------------------
(* Properties. *)

Standing ==
  SumFunction([p \in Payments |->
                 IF payment[p].status = "VERIFIED" THEN payment[p].amount ELSE 0])

\* Every variable holds values of its kind, and no installment has more
\* principal on it than it costs.
TypeOK ==
  /\ today \in 0..LastDay
  /\ \A n \in Rows : /\ rows[n].paid \in 0..Due /\ rows[n].due = Due
                     /\ rows[n].fee \in 0..Cap /\ rows[n].feePaid \in 0..Cap
                     /\ rows[n].status \in RowStatuses /\ rows[n].waived \in BOOLEAN
  /\ plan.status \in {"CURRENT", "OVERDUE", "COMPLETED"}
  /\ plan.credit \in Nat /\ plan.fees \in Nat
  /\ \A p \in Payments :
       /\ payment[p].status \in {"NONE", "PENDING", "VERIFIED", "FAILED", "REFUNDED"}
       /\ payment[p].reversed \in BOOLEAN /\ payment[p].amount \in Amounts \cup {0}
       /\ payment[p].target \in 0..N /\ payment[p].fee \in Nat
  /\ device \in Record!Statuses
  /\ \A t \in Tellers : teller[t].pc \in {"free", "found", "apply", "unlock", "clear",
                                          "reverse", "waive"}
  /\ engine.pc \in {"asleep", "read", "charge", "mark", "plan", "enforce"}
  /\ missed \subseteq {"fees", "status", "lift", "lock"} /\ clashed \subseteq {"money", "order"}

\* Every rupee of every payment that stands is on an installment or on the
\* plan's credit, whatever overlaps (runInTransaction: "Financial writes must not
\* interleave with a concurrent read-modify-write on the same plan").
MoneyNeverLost ==
  Standing <= PrincipalPaid(rows) + FeesPaid(rows) + plan.credit

\* The same for as long as no request writes over another's money: whatever
\* payments, reversals and waivers came before it, and whatever the nightly run
\* was in the middle of (applyPaymentEffect: "anything left over becomes plan
\* credit ... instead of vanishing").
MoneyKept ==
  "money" \notin clashed => MoneyNeverLost

\* No installment is paid, and no credit held, with money the shop does not
\* have: a reversal takes back at least the principal its payment brought, if no
\* request writes over another's money.
PrincipalBacked ==
  "money" \notin clashed => PrincipalPaid(rows) + plan.credit <= Standing

\* A row that says PAID owes nothing, late fee included, after any sequence of
\* payments, reversals, waivers and nightly runs.
PaidIsSettled ==
  \A n \in Rows : rows[n].status = "PAID" => Outstanding(rows[n]) = 0

\* No late fee has more paid on it than it amounts to: a waiver leaves what was
\* paid, and a reversal takes back no fee that was not its own.
NoFeeOverpaid ==
  \A n \in Rows : rows[n].feePaid <= rows[n].fee

\* The two together: what a row says of itself is so, for as long as no request
\* writes rows it has not seen, or writes while the nightly run is at work.
RowsInOrder == clashed = {} => PaidIsSettled /\ NoFeeOverpaid

\* A plan paid in full has let the phone go, whatever restriction it was under,
\* and no late unlocking has taken it back.
CompletedIsReleased ==
  clashed = {} /\ plan.status = "COMPLETED" => device = "INACTIVE"

\* The phone is released only in the step that completes the plan, and only
\* when the payments that stand then cover every installment, if no request has
\* written over another's money.
ReleasedOnlyWhenPaid ==
  [][device' = "INACTIVE" /\ device # "INACTIVE" /\ "money" \notin clashed'
       => plan'.status = "COMPLETED" /\ Standing' >= N * Due]_vars

\* When nothing is under way, a phone is restricted exactly while an installment
\* is overdue (contract clause 4: "The restriction is lifted as soon as the
\* overdue payment is recorded"), unless a failure kept the restriction from being
\* lifted or put on and no payment or nightly run has dealt with it since, or a
\* request wrote what it had not seen.
PhoneFollowsPlan ==
  LET overdue == \E n \in Rows : rows[n].status = "OVERDUE"
  IN  engine = Asleep /\ (\A t \in Tellers : teller[t] = Free) /\ clashed = {}
        => /\ device \in Restricted => overdue \/ "lift" \in missed
           /\ overdue => device \in Restricted \cup {"INACTIVE"} \/ "lock" \in missed

\* However often the engine runs, fails or overlaps payments, no installment
\* carries more than the fee of the days it is late, and never above the cap
\* ("re-running the job never double-charges").
NoDoubleCharge ==
  \A n \in Rows : rows[n].fee <= Max({0, Min({Rate * DaysLate(n, today), Cap})})

\* Between nightly runs the plan's derived columns say what its rows say, unless
\* a run ended early and nothing has written the column since, or a request wrote
\* what it had not seen.
TotalsHonest ==
  engine = Asleep /\ clashed = {}
    => /\ plan.fees = OutstandingFees(rows) \/ "fees" \in missed
       /\ plan.status = PlanStatus(rows) \/ "status" \in missed

-----------------------------------------------------------------------------
(* What the contract says. *)

\* The engine locks a phone only when an installment past its grace period
\* still owes something (contract clause 4: "If an installment remains unpaid
\* after its grace period, the software may restrict the handset").
LockedForDebt ==
  [][device' = "LOCKED" /\ device # "LOCKED"
       => \E n \in Rows : DaysLate(n, engine.day) > 0 /\ Outstanding(rows[n]) > 0]_vars

=============================================================================
