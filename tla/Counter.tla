------------------------------ MODULE Counter -------------------------------
(***************************************************************************)
(* A financed sale and its schedule: how a plan is billed when the phone   *)
(* is sold, and billed again when the plan is restructured.                *)
(*                                                                         *)
(* Registering a sale is one transaction: the customer, the phone, the     *)
(* plan, every installment, the draft agreement and the down payment are   *)
(* there together or not at all (the enrolment code comes afterwards and   *)
(* is Enrolment's).  Rescheduling reads the plan and its rows first, and   *)
(* replaces what it then saw unpaid in a transaction of its own; payments  *)
(* and another administrator's rescheduling may land between the two.      *)
(* Payments are whole here (their own steps are PlanLedger's), and late    *)
(* fees are left out: a schedule is about principal.                       *)
(*                                                                         *)
(* Definitions named "...Forgotten" are faulty variants.                   *)
(***************************************************************************)
EXTENDS Allocation

CONSTANTS
  Imeis, Admins,
  Prices, DownPayments,  \* of phones
  Takings,               \* what a payment brings
  MaxInstallments, MaxReschedules,
  MaxReceived            \* bounds the money one plan takes

ASSUME CounterAssumption ==
  /\ MaxInstallments \in Nat \ {0} /\ {MaxReschedules, MaxReceived} \subseteq Nat
  /\ \A money \in {Prices, DownPayments, Takings} : money \subseteq Nat


VARIABLES
  sale,    \* Imeis -> {} or {[financed, rows, status, credit, received, schedules]}
  started  \* Admins -> a rescheduling that has read and not written: {} or {[imei, doomed, left, n]}

counterVars == <<sale, started>>

\* A row keeps its identity: the schedule it came with, and its place there.
InstallmentRow(schedule, n, due) ==
  [id |-> <<schedule, n>>, due |-> due, paid |-> 0, fee |-> 0, feePaid |-> 0,
   status |-> "PENDING", waived |-> FALSE]

Owed(plan) == Sum(plan.rows, PrincipalDue)

CounterTypeOK ==
  /\ \A i \in Imeis : \A s \in sale[i] :
       /\ {s.financed, s.credit, s.received, s.schedules} \subseteq Nat
       /\ s.status \in {"CURRENT", "OVERDUE", "COMPLETED"}
       /\ \A n \in DOMAIN s.rows : s.rows[n].paid <= s.rows[n].due
  /\ \A a \in Admins : \A r \in started[a] : r.imei \in Imeis /\ r.n \in 1..MaxInstallments

CounterInit ==
  /\ sale = [i \in Imeis |-> {}]
  /\ started = [a \in Admins |-> {}]

-----------------------------------------------------------------------------
ScheduleRemainderForgotten(schedule, total, n) ==
  [k \in 1..n |-> InstallmentRow(schedule, k, total \div n)]

\* buildInstallmentSchedule: equal rows, and the last one takes the rupees
\* that do not divide.
Schedule(schedule, total, n) ==
  [k \in 1..n |->
     InstallmentRow(schedule, k, (total \div n) + (IF k = n THEN total % n ELSE 0))]

\* POST /customers with a phone that is not registered yet.
Register(i, price, down, n) ==
  /\ sale[i] = {}
  /\ down < price
  /\ sale' = [sale EXCEPT ![i] =
       {[financed |-> price - down, rows |-> Schedule(0, price - down, n),
         status |-> "CURRENT", credit |-> 0, received |-> 0, schedules |-> 0]}]
  /\ UNCHANGED started

\* A sale with a payment spread over its rows, with the credit there was, to
\* the installment it aims at and then the oldest.
Paid(s, amount, target) ==
  LET spread == Allocate(s.rows, target, amount + s.credit) IN
  [s EXCEPT !.rows = spread.rows, !.credit = spread.left,
            !.received = @ + amount, !.status = PlanStatus(spread.rows)]

\* A verified payment.
Pay(i, amount, target) ==
  \E s \in sale[i] :
    /\ s.status # "COMPLETED" /\ target \in 0..Len(s.rows)
    /\ s.received + amount <= MaxReceived
    /\ sale' = [sale EXCEPT ![i] = {Paid(s, amount, target)}]
    /\ UNCHANGED started

-----------------------------------------------------------------------------
\* unpaidRows, by their ids.
Doomed(rows) ==
  {rows[n].id : n \in {x \in DOMAIN rows : rows[x].paid = 0 /\ rows[x].status # "PAID"}}

PrincipalLeft(plan) == LET paid == PrincipalPaid(plan.rows) IN
  IF paid < plan.financed THEN plan.financed - paid ELSE 0

Spared(rows, ids) ==
  FoldLeft(LAMBDA kept, row : IF row.id \in ids THEN kept ELSE Append(kept, row), <<>>, rows)

\* POST /plans/:id/reschedule looks at the plan ...
RescheduleRead(a, i, n) ==
  /\ started[a] = {}
  /\ \E s \in sale[i] :
       /\ s.status # "COMPLETED" /\ PrincipalLeft(s) > 0
       /\ started' = [started EXCEPT ![a] = {[imei |-> i, doomed |-> Doomed(s.rows), left |-> PrincipalLeft(s), n |-> n]}]
  /\ UNCHANGED sale

\* What a restructuring makes of a sale: "paid and partially-paid rows are
\* history and stay exactly as they are", what they still ask for included,
\* and what is outstanding is all that was financed less all that is paid: the
\* rest of a partly paid row is in both.
Rebilled(s, r) ==
  [s EXCEPT !.rows = Spared(s.rows, r.doomed) \o Schedule(s.schedules + 1, r.left, r.n),
            !.status = "CURRENT", !.schedules = @ + 1]

\* ... deletes the rows it saw untouched and bills what it saw outstanding.
RescheduleWrite(a) ==
  \E r \in started[a] : \E s \in sale[r.imei] :
    /\ s.schedules < MaxReschedules
    /\ sale' = [sale EXCEPT ![r.imei] = {Rebilled(s, r)}]
    /\ started' = [started EXCEPT ![a] = {}]

\* The transaction fails: the plan is as it was.
RescheduleFails(a) ==
  /\ started[a] # {}
  /\ started' = [started EXCEPT ![a] = {}]
  /\ UNCHANGED sale

CounterNext ==
  \/ \E i \in Imeis :
       \/ \E p \in Prices, d \in DownPayments, n \in 1..MaxInstallments : Register(i, p, d, n)
       \/ \E m \in Takings, t \in 0..(2 * MaxInstallments) : Pay(i, m, t)
       \/ \E a \in Admins, n \in 1..MaxInstallments : RescheduleRead(a, i, n)
  \/ \E a \in Admins : RescheduleWrite(a) \/ RescheduleFails(a)

CounterSpec == CounterInit /\ [][CounterNext]_counterVars

-----------------------------------------------------------------------------
\* Whatever is paid and restructured in between, by anybody and in any order,
\* no plan asks for less than is left of what was financed: the rows and the
\* money received (less what is kept as credit) come to the price at least,
\* also when a restructuring deletes rows that were paid after it had read
\* them, or two restructurings bill the same plan one after the other.
NeverUnderBilled ==
  \A i \in Imeis : \A s \in sale[i] : s.financed + s.credit <= Owed(s) + s.received

-----------------------------------------------------------------------------
(* What README says of restructuring *)

\* "reschedule the remaining balance when a customer genuinely can't
\* pay" (README.md:52): afterwards a plan asks for what was financed less
\* what was received, to the rupee.  The code keeps a partly paid row with the
\* rest it asks for, and bills that rest again in the new rows.
BilledInFull ==
  \A i \in Imeis : \A s \in sale[i] : Owed(s) + s.received = s.financed + s.credit

=============================================================================
