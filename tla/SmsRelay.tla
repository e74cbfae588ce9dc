------------------------------ MODULE SmsRelay ------------------------------
(***************************************************************************)
(* Texts to customers, sent by phones the shop has paired (SmsRelayService,*)
(* claimForRelay and the relay app).                                       *)
(*                                                                         *)
(* A phone asks for work, holds what it is given under a lease, sends each *)
(* text from its SIM and reports what happened.  A request is three        *)
(* database statements (choose, mark, read back), each a step here; the    *)
(* report is one write for each text.  Answers and reports are lost, the   *)
(* app is killed, and a lease may run out while the phone is still         *)
(* sending, because ten texts that each time out take ten minutes.         *)
(*                                                                         *)
(* A lease is named by the phone that took it.  The code stores only the   *)
(* moment the lease ends and recognises its own rows by that moment, to    *)
(* the millisecond: two polls of one millisecond have one name.            *)
(*                                                                         *)
(* Definitions named "...Forgotten" are faulty variants.                   *)
(***************************************************************************)
EXTENDS Naturals, FiniteSets

CONSTANTS
  Texts,        \* rows of the notifications table on the SMS channel
  Numbered,    \* those whose customer has a phone number on file
  Relays,       \* phones paired with the shop
  Kept,         \* those the shop keeps paired and running
  BatchSize,    \* texts a phone takes in one round
  MaxAttempts   \* MAX_ATTEMPTS

ASSUME RelayAssumption ==
  /\ Numbered \subseteq Texts /\ Kept \subseteq Relays
  /\ BatchSize \in Nat \ {0} /\ MaxAttempts \in Nat \ {0}
  /\ "none" \notin Relays

VARIABLES
  text,     \* the rows: [status, lease, lapsed, attempts]
  revoked,  \* the pairings the shop has taken back
  app,      \* what each phone is doing: [at, ids, stamp, report]
  sent,     \* how often each customer really got the text, up to 2
  unsure    \* texts once given up without knowing whether they went, or asked
            \* for by two phones in one millisecond

relayVars == <<text, revoked, app, sent, unsure>>

Unleased == "none"

NoReport == [n \in Texts |-> "none"]

At(place) == [at |-> place, ids |-> {}, stamp |-> "none", report |-> NoReport]

RelayTypeOK ==
  /\ text \in [Texts -> [status: {"NONE", "QUEUED", "SENT", "FAILED"},
                         lease: Relays \cup {Unleased}, lapsed: BOOLEAN,
                         attempts: 0..MaxAttempts]]
  /\ revoked \subseteq Relays
  /\ app \in [Relays -> [at: {"stopped", "idle", "marking", "collecting",
                              "sending", "telling"},
                         ids: SUBSET Texts, stamp: Relays \cup {"none"},
                         report: [Texts -> {"none", "sent", "failed"}]]]
  /\ sent \in [Texts -> 0..2]
  /\ unsure \subseteq Texts

RelayInit ==
  /\ text = [n \in Texts |-> [status |-> "NONE", lease |-> Unleased,
                              lapsed |-> FALSE, attempts |-> 0]]
  /\ revoked = {}
  /\ app = [p \in Relays |-> At("idle")]
  /\ sent = [n \in Texts |-> 0]
  /\ unsure = {}

-----------------------------------------------------------------------------
(* The server *)

\* A message is queued: POST /send, the engine's reminders, the receipts.
QueueText(n) ==
  /\ text[n].status = "NONE"
  /\ text' = [text EXCEPT ![n].status = "QUEUED"]
  /\ UNCHANGED <<revoked, app, sent, unsure>>

\* The rows the claim query selects: free, or held by a phone that stopped
\* answering.
Free(n) == /\ text[n].status = "QUEUED"
           /\ text[n].lease = Unleased \/ text[n].lapsed

\* A poll notes the end of the lease it would give before anything else.
\* Within one millisecond that is another request's end too.
Stamps(p) == {p} \cup {app[q].stamp : q \in {r \in Relays : app[r].at \in {"marking", "collecting"}}}

\* POST /poll of a phone whose pairing stands: the oldest free rows, as many
\* as asked for.
PollChoose(p) ==
  /\ app[p].at = "idle"
  /\ p \notin revoked
  /\ \E ids \in SUBSET {n \in Texts : Free(n)}, stamp \in Stamps(p) :
       /\ ids # {}
       /\ \/ Cardinality(ids) = BatchSize
          \/ Cardinality(ids) < BatchSize /\ ids = {n \in Texts : Free(n)}
       /\ app' = [app EXCEPT ![p] = [At("marking") EXCEPT !.ids = ids, !.stamp = stamp]]
       /\ unsure' = IF stamp = p THEN unsure ELSE unsure \cup ids
  /\ UNCHANGED <<text, revoked, sent>>

Marked(n, p) == [text[n] EXCEPT !.lease = app[p].stamp, !.lapsed = FALSE,
                                !.attempts = IF @ < MaxAttempts THEN @ + 1 ELSE @]

\* The rows a marking request still finds as it expects them.
StillFree(p) == {n \in app[p].ids : Free(n)}

\* The compare-and-set: only rows that are still free are marked.
PollMark(p) ==
  /\ app[p].at = "marking"
  /\ text' = [n \in Texts |-> IF n \in StillFree(p) THEN Marked(n, p) ELSE text[n]]
  /\ app' = [app EXCEPT ![p].at = "collecting"]
  /\ UNCHANGED <<revoked, sent, unsure>>

WonForgotten(p) == app[p].ids

\* The rows read back by the moment their lease ends.
Won(p) == {n \in app[p].ids : text[n].lease = app[p].stamp}

\* A row with no number on file is failed on the spot.
Unsendable(p) == Won(p) \ Numbered

Collect(p, at) ==
  /\ app[p].at = "collecting"
  /\ text' = [n \in Texts |->
                IF n \in Unsendable(p)
                THEN [text[n] EXCEPT !.status = "FAILED", !.lease = Unleased, !.lapsed = FALSE]
                ELSE text[n]]
  /\ app' = [app EXCEPT ![p] = [At(at) EXCEPT !.ids =
                                  IF at = "sending" THEN Won(p) \cap Numbered ELSE {}]]
  /\ UNCHANGED <<revoked, sent, unsure>>

\* The answer reaches the phone with something to send.
PollAnswered(p) == Won(p) \cap Numbered # {} /\ Collect(p, "sending")

\* It carries nothing, or never arrives: the phone waits and asks again.
PollFruitless(p) == Collect(p, "idle")

\* A lease lasts three minutes, longer than any request, and nothing renews
\* it while a phone is still sending.
LeaseRunsOut(n) ==
  /\ text[n].lease # Unleased /\ ~text[n].lapsed
  /\ \A p \in Relays : app[p].at \notin {"marking", "collecting"}
  /\ text' = [text EXCEPT ![n].lapsed = TRUE]
  /\ unsure' = unsure \cup {n}
  /\ UNCHANGED <<revoked, app, sent>>

\* POST /relays/:id/revoke.
Revoke(p) ==
  /\ p \notin revoked \cup Kept
  /\ revoked' = revoked \cup {p}
  /\ UNCHANGED <<text, app, sent, unsure>>

-----------------------------------------------------------------------------
(* The phone *)

\* What SmsSender may come back with, and what happened in fact: accepted,
\* refused, or no word within a minute, when the text may have gone.
Outcomes == {[report |-> "sent", went |-> 1],
             [report |-> "failed", went |-> 0],
             [report |-> "failed", went |-> 1]}

\* One text of the batch is handed to the SIM; after the last one the
\* results are posted.
SendOne(p, n) ==
  /\ app[p].at = "sending"
  /\ n \in app[p].ids
  /\ \E o \in Outcomes :
       /\ sent' = [sent EXCEPT ![n] = IF @ + o.went > 2 THEN 2 ELSE @ + o.went]
       /\ unsure' = IF o.report = "failed" /\ o.went = 1 THEN unsure \cup {n} ELSE unsure
       /\ app' = [app EXCEPT ![p].ids = @ \ {n}, ![p].report[n] = o.report,
                             ![p].at = IF app[p].ids = {n} THEN "telling" ELSE @]
  /\ UNCHANGED <<text, revoked>>

ReportedCapForgotten(row, what, attempts) ==
  [row EXCEPT !.lease = Unleased, !.lapsed = FALSE,
              !.status = IF what = "sent" THEN "SENT" ELSE "QUEUED"]

\* A text the phone could not send goes back to the queue until its attempts
\* are used up.
Reported(row, what, attempts) ==
  [row EXCEPT !.lease = Unleased, !.lapsed = FALSE,
              !.status = IF what = "sent" THEN "SENT"
                         ELSE IF attempts >= MaxAttempts THEN "FAILED" ELSE "QUEUED"]

\* POST /results, one text: the row is written whatever has become of it
\* since it was handed out, unless the pairing has been revoked.
TellOne(p, n) ==
  /\ app[p].at = "telling"
  /\ p \notin revoked
  /\ app[p].report[n] # "none"
  /\ text' = [text EXCEPT ![n] = Reported(@, app[p].report[n], @.attempts)]
  /\ LET left == [app[p].report EXCEPT ![n] = "none"]
     IN app' = [app EXCEPT ![p] = IF left = NoReport THEN At("idle") ELSE [@ EXCEPT !.report = left]]
  /\ UNCHANGED <<revoked, sent, unsure>>

\* The report does not get through, or the app is killed and restarted by
\* the system: what it held is forgotten.
Forget(p) ==
  /\ app[p].at \in {"sending", "telling"}
  /\ app' = [app EXCEPT ![p] = At("idle")]
  /\ UNCHANGED <<text, revoked, sent, unsure>>

\* A refused credential stops the app.
Rejected(p) ==
  /\ p \in revoked
  /\ app[p].at \in {"idle", "telling"}
  /\ app' = [app EXCEPT ![p] = At("stopped")]
  /\ UNCHANGED <<text, revoked, sent, unsure>>

\* The switch on the screen, and unpairing there: what the app held is
\* forgotten.
Stop(p) ==
  /\ p \notin Kept
  /\ app[p].at \in {"idle", "sending", "telling"}
  /\ app' = [app EXCEPT ![p] = At("stopped")]
  /\ UNCHANGED <<text, revoked, sent, unsure>>

Start(p) ==
  /\ app[p].at = "stopped"
  /\ app' = [app EXCEPT ![p] = At("idle")]
  /\ UNCHANGED <<text, revoked, sent, unsure>>

-----------------------------------------------------------------------------
RelayNext ==
  \/ \E n \in Texts : QueueText(n) \/ LeaseRunsOut(n)
  \/ \E p \in Relays :
       \/ PollChoose(p) \/ PollMark(p) \/ PollAnswered(p) \/ PollFruitless(p)
       \/ Forget(p) \/ Rejected(p) \/ Revoke(p) \/ Stop(p) \/ Start(p)
       \/ \E n \in Texts : SendOne(p, n) \/ TellOne(p, n)

\* The phone the shop keeps running goes on asking and sending, not every
\* answer and report of its is lost, and it does not lose every race for a
\* row.
RelayFairness ==
  /\ \A n \in Texts : SF_relayVars(LeaseRunsOut(n))
  /\ \A p \in Relays : WF_relayVars(PollMark(p)) /\ WF_relayVars(PollFruitless(p))
  /\ \A p \in Kept :
       /\ SF_relayVars(PollChoose(p))
       /\ SF_relayVars(PollMark(p) /\ StillFree(p) # {})
       /\ SF_relayVars(PollAnswered(p))
       /\ \A n \in Texts : SF_relayVars(SendOne(p, n)) /\ SF_relayVars(TellOne(p, n))

RelaySpec == RelayInit /\ [][RelayNext]_relayVars /\ RelayFairness

-----------------------------------------------------------------------------
\* "Nothing is marked SENT until the phone says the SIM accepted it", and
\* nothing is sent twice: a text the dashboard shows as sent has reached its
\* customer, and it went out again only after somebody had to give up not
\* knowing whether it had (a lease that ran out, a SIM that gave no answer), or
\* when two phones asked in the same millisecond.
SentOnce ==
  \A n \in Texts : /\ text[n].status = "SENT" => sent[n] > 0
                   /\ sent[n] > 1 => n \in unsure

\* No message stays in the queue for ever: it is sent, or given up, whatever
\* other phones do, as long as one keeps working.
QueueDrains ==
  \A n \in Texts : text[n].status = "QUEUED" ~> text[n].status \in {"SENT", "FAILED"}

=============================================================================
