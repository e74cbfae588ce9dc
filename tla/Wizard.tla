------------------------------- MODULE Wizard -------------------------------
(***************************************************************************)
(* Selling a phone at the counter: the five steps of the registration      *)
(* wizard (AddCustomerWizardModal), the request it sends, and what POST    *)
(* /customers does with it: two checks, one transaction and, after that,   *)
(* an enrolment code in another.  Several people sell at once, press       *)
(* again when an answer is lost, and go back to other steps, or close the  *)
(* wizard, while a request is on its way.                                  *)
(*                                                                         *)
(* A buyer stands for a CNIC; mobile numbers are Records', the schedule is *)
(* Counter's and the use of the code Enrolment's.  Whether the shop has a  *)
(* lock left is asked before the sale is written, and a "no" is one of the *)
(* ways a sale fails.                                                      *)
(*                                                                         *)
(* Definitions named "...Forgotten" are faulty variants.                   *)
(***************************************************************************)
EXTENDS FiniteSets, Naturals

CONSTANTS
  Sellers,    \* people with a wizard
  Buyers,
  Handsets,   \* IMEIs
  Untyped,    \* an empty box
  MaxPresses  \* how often the sale is approved

ASSUME WizardAssumption == Untyped \notin Buyers \cup Handsets /\ MaxPresses \in Nat

VARIABLES
  wizard,  \* Sellers -> {} (closed) or {[step, entry, shows, moved]}
  post,    \* Sellers -> the request on its way: {} or {[entry, at, own]}
  book,    \* Buyers -> "none", "active" or "inactive": the shop's customers
  sold,    \* the phones registered: [nth, buyer, handset, noLock, open]
  codes,   \* the phones an enrolment code was issued for
  presses  \* how often a sale was approved

wizardVars == <<wizard, post, book, sold, codes, presses>>

\* What is typed.  fair: the down payment is below the price.
Entries == [buyer: Buyers \cup {Untyped}, handset: Handsets \cup {Untyped},
            noLock: BOOLEAN, fair: BOOLEAN]

\* nth tells two registrations apart; open: there is money owed.
Sales == [nth: 1..MaxPresses, buyer: Buyers, handset: Handsets, noLock: BOOLEAN, open: BOOLEAN]

Shown(r) == [buyer |-> r.buyer, handset |-> r.handset, noLock |-> r.noLock]

\* moved is history: the entry was changed while its request was on its way.
\* own: the wizard that sent it is still there.
WizardTypeOK ==
  /\ \A s \in Sellers : \A w \in wizard[s] :
       /\ w.step \in 1..5 /\ w.entry \in Entries /\ w.moved \in BOOLEAN
       /\ w.shows # {} <=> w.step = 5
  /\ \A s \in Sellers : post[s] \subseteq
       [entry: Entries, at: {"way", "checked", "kept", "done"}, own: BOOLEAN]
  /\ book \in [Buyers -> {"none", "active", "inactive"}]
  /\ sold \subseteq Sales /\ codes \subseteq Handsets
  /\ presses \in 0..MaxPresses

WizardInit ==
  /\ wizard = [s \in Sellers |-> {}]
  /\ post = [s \in Sellers |-> {}]
  /\ book = [b \in Buyers |-> "none"]
  /\ sold = {} /\ codes = {}
  /\ presses = 0

-----------------------------------------------------------------------------
(* The wizard *)

\* What the seller says of the phone: its brand, Android version and store.
CheckPhoneSupport(brand, android, playStore) ==
  IF brand = "apple" \/ ~playStore \/ android = "7-" THEN "none"
  ELSE IF android = "8-10" \/ brand = "itel" THEN "partial" ELSE "full"

OpenWizard(s) ==
  /\ wizard[s] = {}
  /\ wizard' = [wizard EXCEPT ![s] =
       {[step |-> 1, shows |-> {}, moved |-> FALSE,
         entry |-> [buyer |-> Untyped, handset |-> Untyped, noLock |-> FALSE, fair |-> TRUE]]}]
  /\ UNCHANGED <<post, book, sold, codes, presses>>

\* The inputs stay enabled while the request is on its way.
Enters(s, step, w, entry) ==
  /\ w.step = step /\ entry # w.entry
  /\ wizard' = [wizard EXCEPT ![s] =
       {[w EXCEPT !.entry = entry, !.moved = \E r \in post[s] : r.own]}]
  /\ UNCHANGED <<post, book, sold, codes, presses>>

EnterCustomer(s) ==
  \E w \in wizard[s], b \in Buyers : Enters(s, 1, w, [w.entry EXCEPT !.buyer = b])

EnterPhone(s) ==
  \E w \in wizard[s], h \in Handsets : Enters(s, 2, w, [w.entry EXCEPT !.handset = h])

\* The answers to the phone check decide whether the sale has a lock.
AnswerCheck(s) ==
  \E w \in wizard[s], brand \in {"samsung", "itel", "apple"}, android \in {"11+", "8-10", "7-"},
     playStore \in BOOLEAN :
    Enters(s, 2, w, [w.entry EXCEPT !.noLock = CheckPhoneSupport(brand, android, playStore) = "none"])

EnterTerms(s) ==
  \E w \in wizard[s], f \in BOOLEAN : Enters(s, 3, w, [w.entry EXCEPT !.fair = f])

GoesTo(s, w, step) ==
  /\ wizard' = [wizard EXCEPT ![s] = {[w EXCEPT !.step = step]}]
  /\ UNCHANGED <<post, book, sold, codes, presses>>

\* The only things the wizard insists on; an empty CNIC is the server's to refuse.
Complete(w) ==
  /\ w.step = 1 => w.entry.buyer # Untyped
  /\ w.step = 2 => w.entry.handset # Untyped

NextStep(s) == \E w \in wizard[s] : w.step < 4 /\ Complete(w) /\ GoesTo(s, w, w.step + 1)

\* Going back works during a request too.
BackStep(s) == \E w \in wizard[s] : w.step \in 2..4 /\ GoesTo(s, w, w.step - 1)

\* So does the cross.  The request goes on; its answer finds nobody.
CloseWizard(s) ==
  /\ wizard[s] # {}
  /\ wizard' = [wizard EXCEPT ![s] = {}]
  /\ post' = [post EXCEPT ![s] = {[r EXCEPT !.own = FALSE] : r \in @}]
  /\ UNCHANGED <<book, sold, codes, presses>>

\* handleCreate.  Bound: a wizard opened again waits for the request of the
\* one before; the second request at a time is another seller's.
Approve(s) ==
  /\ post[s] = {} /\ presses < MaxPresses
  /\ presses' = presses + 1
  /\ \E w \in wizard[s] :
       /\ w.step = 4
       /\ post' = [post EXCEPT ![s] = {[entry |-> w.entry, at |-> "way", own |-> TRUE]}]
       /\ wizard' = [wizard EXCEPT ![s] = {[w EXCEPT !.moved = FALSE]}]
  /\ UNCHANGED <<book, sold, codes>>

\* The last page: what was sold and its code, under the name and the model
\* that stand in the form.
AnswerShown(s) ==
  \E r \in post[s] :
    /\ r.at = "done"
    /\ post' = [post EXCEPT ![s] = {}]
    /\ wizard' = [wizard EXCEPT ![s] =
         {IF r.own THEN [w EXCEPT !.step = 5, !.shows = {Shown(r.entry)}] ELSE w : w \in @}]
    /\ UNCHANGED <<book, sold, codes, presses>>

\* Refused, or lost on either way: an error toast, and the wizard stays where
\* it is, to be tried again.
SaleFails(s) ==
  /\ post[s] # {}
  /\ post' = [post EXCEPT ![s] = {}]
  /\ UNCHANGED <<wizard, book, sold, codes, presses>>

-----------------------------------------------------------------------------
(* POST /customers *)

Advances(s, r, at) == post' = [post EXCEPT ![s] = {[r EXCEPT !.at = at]}]

Registered(h) == \E q \in sold : q.handset = h

\* findDuplicate looks at active customers only.
SaleChecked(s) ==
  \E r \in post[s] :
    /\ r.at = "way"
    /\ book[r.entry.buyer] # "active" /\ ~Registered(r.entry.handset)
    /\ Advances(s, r, "checked")
    /\ UNCHANGED <<wizard, book, sold, codes, presses>>

\* (dealer, cnic) and imei are unique, a deactivated customer's included.
IndexAllows(e) == book[e.buyer] = "none" /\ ~Registered(e.handset)

AfterSaleForgotten(noLock) == "kept"

\* A phone sold without a lock needs no code.
AfterSale(noLock) == IF noLock THEN "done" ELSE "kept"

\* One transaction: the customer, the phone, the plan with its schedule, the
\* draft agreement and the down payment, or nothing.
SaleWritten(s) ==
  \E r \in post[s] :
    /\ r.at = "checked" /\ IndexAllows(r.entry) /\ r.entry.fair
    /\ book' = [book EXCEPT ![r.entry.buyer] = "active"]
    /\ sold' = sold \cup {[nth |-> Cardinality(sold) + 1, buyer |-> r.entry.buyer,
         handset |-> r.entry.handset, noLock |-> r.entry.noLock, open |-> TRUE]}
    /\ Advances(s, r, AfterSale(r.entry.noLock))
    /\ UNCHANGED <<wizard, codes, presses>>

\* The code has a transaction of its own; if it fails, the sale stays.
CodeIssued(s) ==
  \E r \in post[s] :
    /\ r.at = "kept"
    /\ codes' = codes \cup {r.entry.handset}
    /\ Advances(s, r, "done")
    /\ UNCHANGED <<wizard, book, sold, presses>>

-----------------------------------------------------------------------------
(* Later *)

PaidUp ==
  \E q \in sold :
    /\ q.open
    /\ sold' = (sold \ {q}) \cup {[q EXCEPT !.open = FALSE]}
    /\ UNCHANGED <<wizard, post, book, codes, presses>>

\* "Deactivation, never deletion", of somebody who owes nothing.
DeactivateCustomer ==
  \E b \in Buyers :
    /\ book[b] = "active" /\ \A q \in sold : q.buyer = b => ~q.open
    /\ book' = [book EXCEPT ![b] = "inactive"]
    /\ UNCHANGED <<wizard, post, sold, codes, presses>>

WizardNext ==
  \/ \E s \in Sellers :
       \/ OpenWizard(s) \/ EnterCustomer(s) \/ EnterPhone(s) \/ AnswerCheck(s) \/ EnterTerms(s)
       \/ NextStep(s) \/ BackStep(s) \/ CloseWizard(s) \/ Approve(s)
       \/ AnswerShown(s) \/ SaleFails(s)
       \/ SaleChecked(s) \/ SaleWritten(s) \/ CodeIssued(s)
  \/ PaidUp \/ DeactivateCustomer

WizardSpec == WizardInit /\ [][WizardNext]_wizardVars

-----------------------------------------------------------------------------
\* However sellers race, and however often a sale whose answer was lost is
\* approved again, a phone is registered once and a person is one customer.
NothingSoldTwice ==
  \A q, r \in sold : q # r => q.handset # r.handset /\ q.buyer # r.buyer

\* "A QR must never exist for a device the registration failed to write", nor
\* for one sold without a lock; and nobody is a customer without a phone.
WholeSales ==
  /\ \A h \in codes : \E q \in sold : q.handset = h /\ ~q.noLock
  /\ \A b \in Buyers : book[b] # "none" => \E q \in sold : q.buyer = b

\* The code on the last page is the code of the phone, and for the customer,
\* named above it, unless the form was changed under the request.
QrOfThePhoneNamed ==
  \A s \in Sellers : \A w \in wizard[s] : \A r \in w.shows :
    /\ ~w.moved => r = Shown(w.entry)
    /\ \E q \in sold : Shown(q) = r /\ (r.noLock \/ r.handset \in codes)

SoldOnce == NothingSoldTwice /\ WholeSales /\ QrOfThePhoneNamed

=============================================================================
