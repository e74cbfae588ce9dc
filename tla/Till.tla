-------------------------------- MODULE Till --------------------------------
(***************************************************************************)
(* Payments as things with a reference and a receipt: the form in which    *)
(* the counter records one (PaymentsPage), the card in which a customer    *)
(* reports a transfer (SubmitPaymentCard), the owner's confirmation, from  *)
(* the queue (PendingSubmissions) or from the list, reversal, and the      *)
(* paper the customer takes away (ReceiptModal).  What a payment does to   *)
(* its plan is PlanLedger's: here it is on the plan or it is not.          *)
(*                                                                         *)
(* A transaction reads, and writes later, as one of several: nothing it    *)
(* has read is locked.  A request goes on when its page has given up on    *)
(* it.  One dealer, whose references and receipt numbers these are.        *)
(*                                                                         *)
(* Definitions named "...Forgotten" are faulty variants.                   *)
(***************************************************************************)
EXTENDS FiniteSets, Integers

CONSTANTS
  Registers,    \* open pages of the shop, each with its form
  Jobs,         \* requests the server may be at work on
  References,   \* transaction IDs, and what the form proposes instead
  NoReference,  \* an empty reference box
  MaxClaims,    \* MAX_OPEN_SUBMISSIONS
  MaxOpenings   \* how often a form is opened

ASSUME TillAssumption ==
  /\ NoReference \notin References
  /\ MaxClaims \in Nat \ {0} /\ MaxOpenings \in Nat
  /\ IsFiniteSet(References)

VARIABLES
  paid,        \* the payments: [ref, of, claim, status, reversed, no, applied]
  slip,        \* Registers -> {} (closed) or {[nth, ref, pressed]}: the form
  handling,    \* Jobs -> {} or the request at work
  opened,      \* how often a form was opened
  papers,      \* receipts that were printed: [ref, no]
  \* history: what the properties except
  retyped,     \* openings whose reference was changed after it was sent
  contested,   \* payments written to by somebody who had read another state
  outnumbered, \* payments whose number was chosen before another was given
  crowded      \* a claim was let in by a count from before another

tillVars == <<paid, slip, handling, opened, papers, retyped, contested, outnumbered, crowded>>

Histories == <<retyped, contested, outnumbered, crowded>>

PaymentStates == {"PENDING", "VERIFIED", "FAILED", "REFUNDED"}

\* of: the opening of the form it was recorded from, 0 for a claim.  no: the
\* receipt number, 0 for none.  applied: how often it is on the plan.
PaymentRows ==
  [ref: References, of: 0..MaxOpenings, claim: BOOLEAN, status: PaymentStates,
   reversed: BOOLEAN, no: Nat, applied: Int]

\* own: the page is still waiting.  seen: the status the handler has read.
\* late: since it read, somebody else has written what it read.
Requested ==
  [what: {"record", "submit", "verify", "reverse"}, ref: References, of: 0..MaxOpenings,
   register: Registers, own: BOOLEAN, at: {"way", "read", "numbered", "done"},
   seen: PaymentStates, no: Nat, late: BOOLEAN]

TillTypeOK ==
  /\ paid \subseteq PaymentRows
  /\ \A t \in Registers :
       slip[t] \subseteq [nth: 1..opened, ref: References \cup {NoReference}, pressed: BOOLEAN]
  /\ \A c \in Jobs : handling[c] \subseteq Requested
  /\ opened \in 0..MaxOpenings
  /\ papers \subseteq [ref: References, no: Nat \ {0}]
  /\ retyped \subseteq 1..opened
  /\ contested \subseteq References /\ outnumbered \subseteq References
  /\ crowded \in BOOLEAN

TillInit ==
  /\ paid = {}
  /\ slip = [t \in Registers |-> {}]
  /\ handling = [c \in Jobs |-> {}]
  /\ opened = 0
  /\ papers = {}
  /\ retyped = {} /\ contested = {} /\ outnumbered = {} /\ crowded = FALSE

-----------------------------------------------------------------------------
(* The form at the counter *)

\* It comes with a reference: the method's first letters and the last six
\* digits of the clock, which another payment may have had.
OpenSlip(t) ==
  /\ slip[t] = {} /\ opened < MaxOpenings
  /\ opened' = opened + 1
  /\ \E x \in References :
       slip' = [slip EXCEPT ![t] = {[nth |-> opened + 1, ref |-> x, pressed |-> FALSE]}]
  /\ UNCHANGED <<paid, handling, papers, Histories>>

\* Typed over, emptied, or proposed anew because another method was chosen.
ChangeReference(t) ==
  \E f \in slip[t], x \in References \cup {NoReference} :
    /\ x # f.ref
    /\ slip' = [slip EXCEPT ![t] = {[f EXCEPT !.ref = x]}]
    /\ retyped' = IF f.pressed THEN retyped \cup {f.nth} ELSE retyped
    /\ UNCHANGED <<paid, handling, opened, papers, contested, outnumbered, crowded>>

CloseSlip(t) ==
  /\ slip[t] # {}
  /\ slip' = [slip EXCEPT ![t] = {}]
  /\ UNCHANGED <<paid, handling, opened, papers, Histories>>

\* The requests whose answer changes a page.
Waited == {r \in UNION {handling[c] : c \in Jobs} : r.what = "record" /\ r.own}

\* submitting: Record is disabled
Submitting(t) == \E r \in Waited : r.register = t

\* A request reaches the server.
Serves(c, what, t, ref, of, at, seen) ==
  /\ handling[c] = {}
  /\ handling' = [handling EXCEPT ![c] =
       {[what |-> what, ref |-> ref, of |-> of, register |-> t, own |-> TRUE,
         at |-> at, seen |-> seen, no |-> 0, late |-> FALSE]}]

\* handleRecordPayment.  For an empty box a reference is made up at every
\* press.
PressRecord(c, t) ==
  /\ ~Submitting(t)
  /\ \E f \in slip[t] :
       /\ \E x \in References : f.ref \in {x, NoReference} /\ Serves(c, "record", t, x, f.nth, "way", "PENDING")
       /\ slip' = [slip EXCEPT ![t] = {[f EXCEPT !.pressed = TRUE]}]
       /\ retyped' = IF f.pressed /\ f.ref = NoReference THEN retyped \cup {f.nth} ELSE retyped
  /\ UNCHANGED <<paid, opened, papers, contested, outnumbered, crowded>>

-----------------------------------------------------------------------------
(* The server: what a request finds.  Only the form is there to be changed   *)
(* while a request is on its way; elsewhere sending and finding are one step *)

\* findByReference: one that failed or was taken back does not count.
Known(ref) == \E p \in paid : p.ref = ref /\ p.status # "FAILED" /\ ~p.reversed

Moves(c, r) == handling' = [handling EXCEPT ![c] = {r}]

RecordLook(c) ==
  /\ \E r \in handling[c] :
       /\ r.what = "record" /\ r.at = "way" /\ ~Known(r.ref)
       /\ Moves(c, [r EXCEPT !.at = "read"])
  /\ UNCHANGED <<paid, slip, opened, papers, Histories>>

Claims == {p \in paid : p.claim /\ p.status = "PENDING"}

\* The customer's card sends a transfer's reference, and holds it still after a
\* lost answer; the same may be sent from another phone, or typed at the
\* counter.  Counts what the customer has waiting; the look for the reference
\* follows.
SubmitLook(c, t) ==
  /\ Cardinality(Claims) < MaxClaims
  /\ \E x \in References : ~Known(x) /\ Serves(c, "submit", t, x, 0, "read", "PENDING")
  /\ UNCHANGED <<paid, slip, opened, papers, Histories>>

\* "Confirm received" stands in the queue beside a claim as it was when the page
\* loaded; another press in the same queue makes it ready again.
QueueOffers(p) == p.claim

\* "Verify Payment" in the list, never disabled: of any age as well.
ListOffers(p) == p.claim

VerifyLook(c, t) ==
  /\ \E p \in paid :
       /\ QueueOffers(p) \/ ListOffers(p)
       /\ ~p.reversed /\ p.status # "VERIFIED"
       /\ Serves(c, "verify", t, p.ref, 0, "read", p.status)
  /\ UNCHANGED <<paid, slip, opened, papers, Histories>>

\* The list offers it for verified payments, the route takes any.
ReverseLook(c, t) ==
  /\ \E p \in paid : ~p.reversed /\ Serves(c, "reverse", t, p.ref, 0, "read", p.status)
  /\ UNCHANGED <<paid, slip, opened, papers, Histories>>

\* Fetched when the receipt is opened, so with the number the payment has then.
PrintReceipt ==
  /\ \E p \in paid : p.no > 0 /\ papers' = papers \cup {[ref |-> p.ref, no |-> p.no]}
  /\ UNCHANGED <<paid, slip, handling, opened, Histories>>

\* Numbers already given; Postgres returns the largest.
Given == {p.no : p \in paid}

IsNextNumberForgotten(n) == n = Cardinality({p \in paid : p.no > 0 /\ ~p.reversed}) + 1

\* nextReceiptNumber: the largest of this dealer's, plus one.
IsNextNumber(n) == \E m \in Given \cup {0} : n = m + 1 /\ \A k \in Given : k <= m

TakeNumber(c) ==
  /\ \E r \in handling[c], n \in {m + 1 : m \in Given \cup {0}} :
       /\ r.what \in {"record", "verify"} /\ r.at = "read" /\ IsNextNumber(n)
       /\ Moves(c, [r EXCEPT !.at = "numbered", !.no = n, !.late = FALSE])
  /\ UNCHANGED <<paid, slip, opened, papers, Histories>>

-----------------------------------------------------------------------------
(* The server: what a request writes *)

NotTakenForgotten(ref) == ~Known(ref)

\* @@unique([dealerId, referenceNumber]), whatever became of the payment.
NotTaken(ref) == \A p \in paid : p.ref # ref

\* A commit.  Requests of these kinds that have read are late from now on.
\* Only the form waits for its answer; elsewhere a toast and a reload follow.
Commits(c, r, kinds) ==
  handling' = [d \in Jobs |->
    IF d = c THEN {[q EXCEPT !.at = "done", !.no = 0, !.late = FALSE] : q \in {r} \cap Waited}
    ELSE {[q EXCEPT !.late = q.late \/ q.what \in kinds] : q \in handling[d]}]

Numbering(r) == outnumbered' = IF r.late THEN outnumbered \cup {r.ref} ELSE outnumbered

\* recordPayment with autoVerify: on the plan at once.
RecordWrite(c) ==
  /\ \E r \in handling[c] :
       /\ r.what = "record" /\ r.at = "numbered" /\ NotTaken(r.ref)
       /\ paid' = paid \cup {[ref |-> r.ref, of |-> r.of, claim |-> FALSE, status |-> "VERIFIED",
            reversed |-> FALSE, no |-> r.no, applied |-> 1]}
       /\ Numbering(r) /\ Commits(c, r, {"record", "verify"})
  /\ UNCHANGED <<slip, opened, papers, retyped, contested, crowded>>

\* autoVerify: false.  A claim, and nothing on the plan.
SubmitWrite(c) ==
  /\ \E r \in handling[c] :
       /\ r.what = "submit" /\ r.at = "read" /\ NotTaken(r.ref)
       /\ paid' = paid \cup {[ref |-> r.ref, of |-> 0, claim |-> TRUE, status |-> "PENDING",
            reversed |-> FALSE, no |-> 0, applied |-> 0]}
       /\ crowded' = (crowded \/ r.late)
       /\ Commits(c, r, {"submit"})
  /\ UNCHANGED <<slip, opened, papers, retyped, contested, outnumbered>>

\* The row of the payment, as it is now, gets what the handler decided.
Overwrites(r, p, q) ==
  /\ p.ref = r.ref
  /\ paid' = (paid \ {p}) \cup {q}
  /\ contested' = IF p.reversed \/ p.status # r.seen THEN contested \cup {r.ref} ELSE contested

VerifyWrite(c) ==
  /\ \E r \in handling[c], p \in paid :
       /\ r.what = "verify" /\ r.at = "numbered"
       /\ Overwrites(r, p, [p EXCEPT !.status = "VERIFIED", !.no = r.no, !.applied = @ + 1])
       /\ Numbering(r) /\ Commits(c, r, {"record", "verify"})
  /\ UNCHANGED <<slip, opened, papers, retyped, crowded>>

\* One that nobody has verified was never on the plan.
ReverseWrite(c) ==
  /\ \E r \in handling[c], p \in paid :
       /\ r.what = "reverse" /\ r.at = "read"
       /\ Overwrites(r, p,
            IF r.seen = "VERIFIED"
              THEN [p EXCEPT !.status = "REFUNDED", !.reversed = TRUE, !.applied = @ - 1]
              ELSE [p EXCEPT !.status = "FAILED", !.reversed = TRUE])
       /\ Commits(c, r, {})
  /\ UNCHANGED <<slip, opened, papers, retyped, outnumbered, crowded>>

-----------------------------------------------------------------------------
(* Answers *)

\* A recorded payment closes the form, even one opened again for another.
Answered(c) ==
  /\ \E r \in handling[c] :
       /\ r.at = "done"
       /\ slip' = IF r.own THEN [slip EXCEPT ![r.register] = {}] ELSE slip
  /\ handling' = [handling EXCEPT ![c] = {}]
  /\ UNCHANGED <<paid, opened, papers, Histories>>

\* Refused, rolled back, or the answer lost: the form stays as it is.
TillFails(c) ==
  /\ handling[c] # {}
  /\ handling' = [handling EXCEPT ![c] = {}]
  /\ UNCHANGED <<paid, slip, opened, papers, Histories>>

\* The connection breaks: the page is free again, the server goes on.
GivenUp(c) ==
  /\ \E r \in handling[c] \cap Waited : Moves(c, [r EXCEPT !.own = FALSE])
  /\ UNCHANGED <<paid, slip, opened, papers, Histories>>

TillNext ==
  \/ \E t \in Registers : OpenSlip(t) \/ ChangeReference(t) \/ CloseSlip(t)
  \/ \E c \in Jobs, t \in Registers :
       PressRecord(c, t) \/ SubmitLook(c, t) \/ VerifyLook(c, t) \/ ReverseLook(c, t)
  \/ \E c \in Jobs :
       \/ RecordLook(c) \/ TakeNumber(c)
       \/ RecordWrite(c) \/ SubmitWrite(c) \/ VerifyWrite(c) \/ ReverseWrite(c)
       \/ Answered(c) \/ TillFails(c) \/ GivenUp(c)
  \/ PrintReceipt

TillSpec == TillInit /\ [][TillNext]_tillVars

-----------------------------------------------------------------------------
\* Money handed over once is on the plan once: however often the form or the
\* card is sent again, one reference is one payment and one opening of the
\* form is one payment (unless its reference was changed in between), and a
\* payment is on its plan exactly if it stands as verified (unless two
\* requests about it crossed).
PaidOnce ==
  /\ \A p, q \in paid : p # q =>
       /\ p.ref # q.ref
       /\ p.of = q.of => p.of \in {0} \cup retyped
  /\ \A p \in paid : p.ref \notin contested =>
       p.applied = IF p.status = "VERIFIED" THEN 1 ELSE 0

\* Two receipts with one number are of one payment.  Nothing makes sure of it
\* but that each number is written before the next is chosen (the comment at
\* nextReceiptNumber counts on a row lock that nobody takes): a payment whose
\* number was overtaken is excepted.
ReceiptsTellApart ==
  \A x, y \in papers : x.no = y.no /\ x.ref # y.ref => {x.ref, y.ref} \cap outnumbered # {}

\* No customer has more claims waiting than allowed, unless two were counted
\* at once.
QueueWithin == crowded \/ Cardinality(Claims) <= MaxClaims

TillInOrder == PaidOnce /\ ReceiptsTellApart /\ QueueWithin

=============================================================================
