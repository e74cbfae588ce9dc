---------------------------- MODULE MCLedgerTill ----------------------------
(***************************************************************************)
(* The ledger, where a payment is an amount on a plan, and beside it the   *)
(* till, where it is a reference and a receipt.  A behaviour chooses one   *)
(* part and leaves the other module as it began: the ledger with requests  *)
(* and nightly runs by turns ("calm"), with the nightly run in the middle  *)
(* of everything ("nightly"), with two requests at a time ("counter"), or  *)
(* the till.  A part of the ledger stops once the properties except what   *)
(* has happened.                                                           *)
(***************************************************************************)
EXTENDS MCPlanLedger, Till

VARIABLE part  \* the part at work

moneyVars == <<part, vars, tillVars>>

MoneyInit == part \in {"calm", "nightly", "counter", "till"} /\ Init /\ TillInit

\* Bounds, by part: the requests at work, the payments made, the days.
AtWork(most) == Cardinality({t \in Tellers : teller'[t] # Free}) <= most

\* What is paid, and at which installment it is aimed.
Paying(aims) ==
  /\ \A p \in Payments : payment'[p].status = "PENDING" =>
       <<payment'[p].amount, payment'[p].target>> \in aims
  /\ \A t \in Tellers : teller'[t].pc = "apply" =>
       <<teller'[t].new.amount, teller'[t].new.target>> \in aims

\* The nightly run and the requests' reads and writes by turns.
ByTurns ==
  engine' # Asleep => \A t \in Tellers : teller'[t].pc \in {"free", "unlock", "clear"}

Calmly ==
  /\ part = "calm" /\ clashed = {}
  /\ AtWork(1) /\ ByTurns /\ Paying({<<3, 0>>, <<3, 2>>})

Nightly ==
  /\ part = "nightly" /\ "money" \notin clashed
  /\ AtWork(1) /\ Paying({<<3, 0>>})
  /\ today' <= 2 /\ (engine' # Asleep => today' = 2)

AtTheCounter ==
  /\ part = "counter" /\ "money" \notin clashed
  /\ Paying(Amounts \X {0}) /\ today' = 0

\* Bounds: one payment is taken back, and once what the till's properties
\* except has happened the part stops.
StillOpen ==
  /\ Cardinality({p \in paid : p.reversed}) <= 1
  /\ retyped = {} /\ contested = {} /\ outnumbered = {} /\ ~crowded

MoneyNext ==
  \/ Next /\ (Calmly \/ Nightly \/ AtTheCounter) /\ UNCHANGED <<part, tillVars>>
  \/ part = "till" /\ StillOpen /\ TillNext /\ UNCHANGED <<part, vars>>

MoneySpec == MoneyInit /\ [][MoneyNext]_moneyVars

=============================================================================
