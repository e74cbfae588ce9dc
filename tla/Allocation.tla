----------------------------- MODULE Allocation -----------------------------
(***************************************************************************)
(* The arithmetic of one financing plan: what an installment owes, how     *)
(* money is spread over the installments, how a reversal takes it back,    *)
(* and what the plan says of itself afterwards.                            *)
(*                                                                         *)
(* An installment (a row) is a record:                                     *)
(*   due, paid      amountDue, amountPaid                                  *)
(*   fee, feePaid   lateFee, lateFeePaid                                   *)
(*   status, waived status, lateFeeWaivedAt is set                         *)
(* and a plan's rows are a function of their installment number.           *)
(*                                                                         *)
(* A definition whose name says what is wrong with it ("...Forgotten",     *)
(* "...Dropped") is a faulty variant of the one it stands before; nothing  *)
(* uses it but PROJECT.json, to see that a property notices the fault.     *)
(***************************************************************************)
EXTENDS Integers, FiniteSetsExt, SequencesExt

RowStatuses == {"PENDING", "DUE_SOON", "DUE_TODAY", "OVERDUE", "PAID"}

FeeDue(row) == Max({0, row.fee - row.feePaid})

PrincipalDue(row) == Max({0, row.due - row.paid})

\* amountOutstanding.
Outstanding(row) == PrincipalDue(row) + FeeDue(row)

\* fullyPaid.
Settled(row) == row.paid >= row.due /\ row.feePaid >= row.fee

Sum(rows, Value(_)) == SumFunction([n \in DOMAIN rows |-> Value(rows[n])])

OutstandingFees(rows) == Sum(rows, FeeDue)

PrincipalPaid(rows) == Sum(rows, LAMBDA row : row.paid)

FeesPaid(rows) == Sum(rows, LAMBDA row : row.feePaid)

-----------------------------------------------------------------------------
(* Late fees. *)

LateFeeTotalForgotten(row, daysLate, rate, cap) ==
  IF row.waived \/ row.paid >= row.due \/ daysLate <= 0
  THEN 0
  ELSE row.fee + Min({rate * daysLate, cap})

\* calculateLateFee with a daily fee: the total the row should carry.
LateFee(row, daysLate, rate, cap) ==
  IF row.waived \/ row.paid >= row.due \/ daysLate <= 0
  THEN 0
  ELSE Min({rate * daysLate, cap})

-----------------------------------------------------------------------------
(* A payment.  What is folded over the rows is [rows, left, fees]: the     *)
(* rows so far, the money left, the part of it that went to late fees.     *)

\* The targeted installment goes first (0: none), then the oldest.
Queue(N, target) ==
  [i \in 1..N |-> IF target \notin 1..N \/ i > target THEN i ELSE IF i = 1 THEN target ELSE i - 1]

SettleCapDropped(spread, n) ==
  LET row == spread.rows[n]
      toFee == Min({FeeDue(row), spread.left})
      paid == [row EXCEPT !.paid = @ + spread.left - toFee, !.feePaid = @ + toFee]
  IN  IF spread.left <= 0 \/ Outstanding(row) <= 0
      THEN spread
      ELSE [rows |-> [spread.rows EXCEPT ![n] =
                        IF Settled(paid) THEN [paid EXCEPT !.status = "PAID"] ELSE paid],
            left |-> 0,
            fees |-> spread.fees + toFee]

\* One turn of the loop: late fee before principal.
Settle(spread, n) ==
  LET row == spread.rows[n]
      toFee == Min({FeeDue(row), spread.left})
      toPrincipal == Min({PrincipalDue(row), spread.left - toFee})
      paid == [row EXCEPT !.paid = @ + toPrincipal, !.feePaid = @ + toFee]
  IN  IF spread.left <= 0 \/ Outstanding(row) <= 0
      THEN spread
      ELSE [rows |-> [spread.rows EXCEPT ![n] =
                        IF Settled(paid) THEN [paid EXCEPT !.status = "PAID"] ELSE paid],
            left |-> spread.left - toFee - toPrincipal,
            fees |-> spread.fees + toFee]

Allocate(rows, target, money) ==
  FoldLeft(Settle, [rows |-> rows, left |-> money, fees |-> 0],
           Queue(Len(rows), target))

-----------------------------------------------------------------------------
(* A reversal: [rows, left, fees] with what is still to be taken back, and *)
(* the part of it that may come from late fees.                            *)

TakeBack(spread, n) ==
  LET row == spread.rows[n]
      feeBack == Min({spread.fees, row.feePaid, spread.left})
      principalBack == Min({row.paid, spread.left - feeBack})
  IN  IF feeBack + principalBack = 0
      THEN spread
      ELSE [rows |-> [spread.rows EXCEPT ![n] =
                        [row EXCEPT !.paid = @ - principalBack,
                                    !.feePaid = @ - feeBack,
                                    !.status = IF @ = "PAID" THEN "PENDING" ELSE @]],
            left |-> spread.left - feeBack - principalBack,
            fees |-> spread.fees - feeBack]

\* The newest installment first.
ClawBack(rows, money, feePortion) ==
  FoldLeft(TakeBack, [rows |-> rows, left |-> money, fees |-> feePortion],
           Reverse([n \in 1..Len(rows) |-> n]))

-----------------------------------------------------------------------------
(* recalculatePlan. *)

PlanStatus(rows) ==
  LET statuses == {rows[n].status : n \in DOMAIN rows}
  IN  IF statuses = {"PAID"} THEN "COMPLETED"
      ELSE IF "OVERDUE" \in statuses THEN "OVERDUE"
      ELSE "CURRENT"

=============================================================================
