--------------------------- MODULE SmsRelay_proofs --------------------------
(***************************************************************************)
(* Theorems about SmsRelay, for any texts, relay phones, batches and       *)
(* attempts.                                                               *)
(***************************************************************************)
EXTENDS SmsRelay, TLAPS

Rows == [status: {"NONE", "QUEUED", "SENT", "FAILED"}, lease: Relays \cup {Unleased},
         lapsed: BOOLEAN, attempts: 0..MaxAttempts]

Reports == [Texts -> {"none", "sent", "failed"}]

Phones == [at: {"stopped", "idle", "marking", "collecting", "sending", "telling"},
           ids: SUBSET Texts, stamp: Relays \cup {"none"}, report: Reports]

-----------------------------------------------------------------------------
(* Types *)

LEMMA FreshIsPhone ==
  ASSUME NEW place \in {"stopped", "idle", "marking", "collecting", "sending", "telling"}
  PROVE  /\ At(place) \in Phones
         /\ At(place).at = place /\ At(place).ids = {} /\ At(place).report = NoReport
BY DEF At, Phones, Reports, NoReport

LEMMA TypedAgain == RelayTypeOK <=>
  /\ text \in [Texts -> Rows] /\ revoked \subseteq Relays
  /\ app \in [Relays -> Phones] /\ sent \in [Texts -> 0..2] /\ unsure \subseteq Texts
BY DEF RelayTypeOK, Rows, Phones, Reports

LEMMA ReportedIsRow ==
  ASSUME NEW row \in Rows, NEW what
  PROVE  Reported(row, what, row.attempts) \in Rows
BY DEF Reported, Rows

LEMMA RelayInitTyped == RelayInit => RelayTypeOK
<1> SUFFICES ASSUME RelayInit PROVE RelayTypeOK
  OBVIOUS
<1>1. [status |-> "NONE", lease |-> Unleased, lapsed |-> FALSE, attempts |-> 0] \in Rows
  BY RelayAssumption DEF Rows
<1>2. text \in [Texts -> Rows]
  BY <1>1 DEF RelayInit
<1>3. app \in [Relays -> Phones]
  BY FreshIsPhone DEF RelayInit
<1>4. sent \in [Texts -> 0..2] /\ revoked \subseteq Relays /\ unsure \subseteq Texts
  BY DEF RelayInit
<1> QED
  BY <1>2, <1>3, <1>4, TypedAgain

LEMMA RelayTypeStep == RelayTypeOK /\ [RelayNext]_relayVars => RelayTypeOK'
<1> SUFFICES ASSUME RelayTypeOK, [RelayNext]_relayVars PROVE RelayTypeOK'
  OBVIOUS
<1>0. /\ text \in [Texts -> Rows] /\ revoked \subseteq Relays
      /\ app \in [Relays -> Phones] /\ sent \in [Texts -> 0..2] /\ unsure \subseteq Texts
  BY TypedAgain
<1> DEFINE Good == /\ text' \in [Texts -> Rows] /\ revoked' \subseteq Relays
                   /\ app' \in [Relays -> Phones] /\ sent' \in [Texts -> 0..2]
                   /\ unsure' \subseteq Texts
<1> SUFFICES Good
  BY DEF RelayTypeOK, Rows, Phones, Reports
<1>1. ASSUME NEW n \in Texts, QueueText(n) \/ LeaseRunsOut(n) PROVE Good
  <2>1. /\ [text[n] EXCEPT !.status = "QUEUED"] \in Rows
        /\ [text[n] EXCEPT !.lapsed = TRUE] \in Rows
    BY <1>0 DEF Rows
  <2>2. text' \in {[text EXCEPT ![n] = [text[n] EXCEPT !.status = "QUEUED"]],
                   [text EXCEPT ![n] = [text[n] EXCEPT !.lapsed = TRUE]]}
    BY <1>1 DEF QueueText, LeaseRunsOut
  <2>3. text' \in [Texts -> Rows]
    BY <1>0, <2>1, <2>2
  <2> QED
    BY <1>0, <1>1, <2>3 DEF QueueText, LeaseRunsOut
<1>2. ASSUME NEW p \in Relays, PollChoose(p) PROVE Good
  <2>1. PICK ids \in SUBSET {n \in Texts : Free(n)}, stamp \in Stamps(p) :
          /\ app' = [app EXCEPT ![p] = [At("marking") EXCEPT !.ids = ids, !.stamp = stamp]]
          /\ unsure' = IF stamp = p THEN unsure ELSE unsure \cup ids
    BY <1>2 DEF PollChoose
  <2>2. stamp \in Relays \cup {"none"}
    BY <1>0 DEF Stamps, Phones
  <2>3. [At("marking") EXCEPT !.ids = ids, !.stamp = stamp] \in Phones
    BY <2>2, FreshIsPhone DEF Phones
  <2> QED
    BY <1>0, <1>2, <2>1, <2>3 DEF PollChoose
<1>3. ASSUME NEW p \in Relays, PollMark(p) PROVE Good
  <2>1. ASSUME NEW n \in Texts PROVE Marked(n, p) \in Rows
    <3>1. app[p].stamp \in Relays \cup {Unleased}
      BY <1>0 DEF Phones, Unleased
    <3>2. text[n].attempts \in 0..MaxAttempts /\ MaxAttempts \in Nat
      BY <1>0, RelayAssumption DEF Rows
    <3>3. (IF text[n].attempts < MaxAttempts THEN text[n].attempts + 1 ELSE text[n].attempts)
            \in 0..MaxAttempts
      BY <3>2
    <3> QED
      BY <1>0, <3>1, <3>3 DEF Marked, Rows
  <2>2. text' \in [Texts -> Rows]
    BY <1>0, <1>3, <2>1 DEF PollMark
  <2>3. [app[p] EXCEPT !.at = "collecting"] \in Phones
    BY <1>0 DEF Phones
  <2> QED
    BY <1>0, <1>3, <2>2, <2>3 DEF PollMark
<1>4. ASSUME NEW p \in Relays, NEW at \in {"sending", "idle"}, Collect(p, at) PROVE Good
  <2>1. \A n \in Texts :
          [text[n] EXCEPT !.status = "FAILED", !.lease = Unleased, !.lapsed = FALSE] \in Rows
    BY <1>0 DEF Rows
  <2>2. text' \in [Texts -> Rows]
    BY <1>0, <1>4, <2>1 DEF Collect
  <2>3. Won(p) \cap Numbered \subseteq Texts
    BY <1>0 DEF Won, Phones
  <2>4. [At(at) EXCEPT !.ids = IF at = "sending" THEN Won(p) \cap Numbered ELSE {}] \in Phones
    BY <2>3, FreshIsPhone DEF Phones
  <2>5. app' \in [Relays -> Phones]
    BY <1>0, <1>4, <2>4 DEF Collect
  <2> QED
    BY <1>0, <1>4, <2>2, <2>5 DEF Collect
<1>5. ASSUME NEW p \in Relays, NEW n \in Texts, SendOne(p, n) PROVE Good
  <2>1. PICK o \in Outcomes :
          /\ sent' = [sent EXCEPT ![n] = IF @ + o.went > 2 THEN 2 ELSE @ + o.went]
          /\ unsure' = IF o.report = "failed" /\ o.went = 1 THEN unsure \cup {n} ELSE unsure
          /\ app' = [app EXCEPT ![p].ids = @ \ {n}, ![p].report[n] = o.report,
                                ![p].at = IF app[p].ids = {n} THEN "telling" ELSE @]
    BY <1>5 DEF SendOne
  <2>2. o.went \in {0, 1} /\ o.report \in {"sent", "failed"}
    BY DEF Outcomes
  <2>3. sent' \in [Texts -> 0..2]
    BY <1>0, <2>1, <2>2
  <2>4. [app[p] EXCEPT !.ids = @ \ {n}, !.report[n] = o.report,
                       !.at = IF app[p].ids = {n} THEN "telling" ELSE @] \in Phones
    <3>1. [app[p].report EXCEPT ![n] = o.report] \in Reports
      BY <1>0, <2>2 DEF Phones, Reports
    <3> QED
      BY <1>0, <3>1 DEF Phones
  <2>5. app' \in [Relays -> Phones]
    BY <1>0, <2>1, <2>4
  <2> QED
    BY <1>0, <1>5, <2>1, <2>3, <2>5 DEF SendOne
<1>6. ASSUME NEW p \in Relays, NEW n \in Texts, TellOne(p, n) PROVE Good
  <2>1. text' \in [Texts -> Rows]
    BY <1>0, <1>6, ReportedIsRow DEF TellOne
  <2>2. [app[p].report EXCEPT ![n] = "none"] \in Reports
    BY <1>0 DEF Phones, Reports
  <2>3. app' \in [Relays -> Phones]
    BY <1>0, <1>6, <2>2, FreshIsPhone DEF TellOne, Phones
  <2> QED
    BY <1>0, <1>6, <2>1, <2>3 DEF TellOne
<1>7. ASSUME NEW p \in Relays, Forget(p) \/ Rejected(p) \/ Revoke(p) \/ Stop(p) \/ Start(p)
      PROVE  Good
  BY <1>0, <1>7, FreshIsPhone DEF Forget, Rejected, Revoke, Stop, Start
<1>8. CASE UNCHANGED relayVars
  BY <1>0, <1>8 DEF relayVars
<1> QED
  BY <1>1, <1>2, <1>3, <1>4, <1>5, <1>6, <1>7, <1>8 DEF RelayNext, PollAnswered, PollFruitless

\* The model's state is always well formed.
THEOREM RelayTypeCorrect == RelaySpec => []RelayTypeOK
BY RelayInitTyped, RelayTypeStep, PTL DEF RelaySpec

-----------------------------------------------------------------------------
(* What is known of a text nobody has given up on *)

\* p is about to send n.
ToSend(p, n) ==
  \/ app[p].at = "collecting" /\ n \in app[p].ids /\ text[n].lease = app[p].stamp
  \/ app[p].at = "sending" /\ n \in app[p].ids

\* p has sent n, or tried to, and has not said so yet.
ToTell(p, n) == app[p].at \in {"sending", "telling"} /\ app[p].report[n] # "none"

\* Whoever is about to send a text or to tell of it holds its lease, which is
\* nobody else's, and nobody is about to send a text that has gone.
Known(n) ==
  /\ ~text[n].lapsed
  /\ \A p \in Relays :
       /\ app[p].at \in {"marking", "collecting"} /\ n \in app[p].ids => app[p].stamp = p
       /\ app[p].at = "marking" /\ n \in app[p].ids => text[n].lease # p
       /\ ToSend(p, n) \/ ToTell(p, n) => text[n].lease = p
       /\ ToTell(p, n) /\ app[p].report[n] = "failed" => sent[n] = 0
       /\ ToSend(p, n) => sent[n] = 0
  /\ sent[n] \in {0, 1}
  /\ sent[n] = 1 => text[n].status = "SENT" \/ text[n].lease # Unleased

\* Only queued rows are leased; what is marked or reported as sent has gone.
Told(n) ==
  /\ text[n].lease # Unleased => text[n].status = "QUEUED"
  /\ text[n].status = "SENT" => sent[n] > 0
  /\ \A p \in Relays : ToTell(p, n) /\ app[p].report[n] = "sent" => sent[n] > 0

OnceInv == \A n \in Texts : Told(n) /\ (n \in unsure \/ Known(n))

LEMMA OnceSafe == OnceInv => SentOnce
<1> SUFFICES ASSUME OnceInv, NEW n \in Texts
             PROVE  /\ text[n].status = "SENT" => sent[n] > 0
                    /\ sent[n] > 1 => n \in unsure
  BY DEF SentOnce
<1> QED
  BY DEF OnceInv, Told, Known

LEMMA OnceInit == RelayInit => OnceInv
<1> SUFFICES ASSUME RelayInit, NEW n \in Texts PROVE Told(n) /\ Known(n)
  BY DEF OnceInv
<1>1. text[n] = [status |-> "NONE", lease |-> Unleased, lapsed |-> FALSE, attempts |-> 0]
      /\ sent[n] = 0
  BY DEF RelayInit
<1>2. \A p \in Relays : app[p].at = "idle"
  BY FreshIsPhone DEF RelayInit
<1> QED
  BY <1>1, <1>2 DEF Told, Known, ToSend, ToTell

\* A step that leaves a row alone, and makes some phones forget what they
\* held, loses nothing that is known.
LEMMA NothingLost ==
  ASSUME NEW m \in Texts, Told(m), m \in unsure \/ Known(m),
         text'[m] = text[m], sent'[m] = sent[m], unsure \subseteq unsure',
         \A p \in Relays : app'[p] = app[p] \/ app'[p].at \in {"idle", "stopped"}
  PROVE  Told(m)' /\ (m \in unsure' \/ Known(m)')
<1>1. \A p \in Relays : /\ ToSend(p, m)' => ToSend(p, m) /\ app'[p] = app[p]
                        /\ ToTell(p, m)' => ToTell(p, m) /\ app'[p] = app[p]
  BY DEF ToSend, ToTell
<1>2. Told(m)'
  BY <1>1 DEF Told
<1>3. Known(m) => Known(m)'
  BY <1>1 DEF Known
<1> QED
  BY <1>2, <1>3

LEMMA Outside ==
  ASSUME RelayTypeOK, OnceInv, NEW n \in Texts, QueueText(n) \/ LeaseRunsOut(n)
  PROVE  OnceInv'
<1>0. text \in [Texts -> Rows] /\ sent \in [Texts -> 0..2]
  BY TypedAgain
<1> SUFFICES ASSUME NEW m \in Texts PROVE Told(m)' /\ (m \in unsure' \/ Known(m)')
  BY DEF OnceInv
<1>1. Told(m) /\ (m \in unsure \/ Known(m))
  BY DEF OnceInv
<1>2. app' = app /\ sent' = sent /\ unsure \subseteq unsure'
  BY DEF QueueText, LeaseRunsOut
<1>3. CASE m # n
  <2>1. text'[m] = text[m]
    BY <1>0, <1>3 DEF QueueText, LeaseRunsOut
  <2> QED
    BY <1>1, <1>2, <2>1, NothingLost
<1>4. CASE m = n /\ QueueText(n)
  <2>1. /\ text[m].status = "NONE" /\ text'[m].status = "QUEUED"
        /\ text'[m].lease = text[m].lease /\ text'[m].lapsed = text[m].lapsed
    BY <1>0, <1>4 DEF QueueText, Rows
  <2>2. text[m].lease = Unleased
    BY <1>1, <2>1 DEF Told
  <2>3. Told(m)'
    BY <1>1, <1>2, <2>1 DEF Told, ToTell
  <2>4. Known(m) => Known(m)'
    BY <1>2, <2>1, <2>2 DEF Known, ToSend, ToTell
  <2> QED
    BY <1>1, <1>2, <2>3, <2>4
<1>5. CASE m = n /\ LeaseRunsOut(n)
  <2>1. text'[m].status = text[m].status /\ text'[m].lease = text[m].lease
    BY <1>0, <1>5 DEF LeaseRunsOut, Rows
  <2>2. Told(m)'
    BY <1>1, <1>2, <2>1 DEF Told, ToTell
  <2> QED
    BY <1>5, <2>2 DEF LeaseRunsOut
<1> QED
  BY <1>3, <1>4, <1>5

\* A phone that asks notes the end of the lease it will give; two that share
\* one are unsure of what they ask for.
LEMMA Choosing ==
  ASSUME RelayTypeOK, OnceInv, NEW p \in Relays, PollChoose(p)
  PROVE  OnceInv'
<1>0. app \in [Relays -> Phones]
  BY TypedAgain
<1> SUFFICES ASSUME NEW m \in Texts PROVE Told(m)' /\ (m \in unsure' \/ Known(m)')
  BY DEF OnceInv
<1>1. Told(m) /\ (m \in unsure \/ Known(m)) /\ text' = text /\ sent' = sent
  BY DEF OnceInv, PollChoose
<1>2. PICK ids \in SUBSET {n \in Texts : Free(n)}, stamp \in Stamps(p) :
        /\ app' = [app EXCEPT ![p] = [At("marking") EXCEPT !.ids = ids, !.stamp = stamp]]
        /\ unsure' = IF stamp = p THEN unsure ELSE unsure \cup ids
  BY DEF PollChoose
<1>3. /\ app'[p].at = "marking" /\ app'[p].ids = ids /\ app'[p].stamp = stamp
      /\ \A q \in Relays \ {p} : app'[q] = app[q]
  BY <1>0, <1>2 DEF At
<1>4. \A q \in Relays : /\ ToSend(q, m)' => q # p /\ ToSend(q, m)
                        /\ ToTell(q, m)' => q # p /\ ToTell(q, m)
  BY <1>1, <1>3 DEF ToSend, ToTell
<1>5. Told(m)'
  BY <1>1, <1>3, <1>4 DEF Told
<1>6. ASSUME Known(m), m \notin unsure' PROVE Known(m)'
  <2>1. m \in ids => stamp = p /\ text[m].lease = Unleased
    BY <1>2, <1>6 DEF Free, Known
  <2>2. m \in ids => text[m].lease # p
    BY <2>1, RelayAssumption DEF Unleased
  <2> QED
    BY <1>1, <1>3, <1>4, <1>6, <2>1, <2>2 DEF Known
<1> QED
  BY <1>1, <1>2, <1>5, <1>6

\* Marking takes only rows that nobody holds.
LEMMA Marking ==
  ASSUME RelayTypeOK, OnceInv, NEW p \in Relays, PollMark(p)
  PROVE  OnceInv'
<1>0. app \in [Relays -> Phones] /\ text \in [Texts -> Rows]
  BY TypedAgain
<1> SUFFICES ASSUME NEW m \in Texts PROVE Told(m)' /\ (m \in unsure' \/ Known(m)')
  BY DEF OnceInv
<1>1. /\ Told(m) /\ (m \in unsure \/ Known(m)) /\ unsure' = unsure /\ sent' = sent
      /\ app[p].at = "marking"
  BY DEF OnceInv, PollMark
<1>2. /\ app'[p].at = "collecting" /\ app'[p].ids = app[p].ids /\ app'[p].stamp = app[p].stamp
      /\ \A q \in Relays \ {p} : app'[q] = app[q]
  BY <1>0 DEF PollMark, Phones
<1>3. CASE m \in StillFree(p)
  <2>1. /\ text'[m].status = text[m].status /\ text'[m].lease = app[p].stamp
        /\ ~text'[m].lapsed /\ m \in app[p].ids /\ text[m].status = "QUEUED"
    BY <1>0, <1>3 DEF PollMark, Marked, StillFree, Free, Rows
  <2>2. Told(m)'
    BY <1>1, <1>2, <2>1 DEF Told, ToTell
  <2>3. ASSUME Known(m) PROVE Known(m)'
    <3>1. app[p].stamp = p /\ text[m].lease = Unleased /\ sent[m] = 0
      BY <1>1, <1>3, <2>1, <2>3 DEF Known, StillFree, Free
    <3>2. \A q \in Relays : ~ToSend(q, m) /\ ~ToTell(q, m)
      BY <2>3, <3>1, RelayAssumption DEF Known, Unleased
    <3>3. \A q \in Relays \ {p} : ~ToSend(q, m)' /\ ~ToTell(q, m)'
      BY <1>2, <2>1, <2>3, <3>1, <3>2 DEF Known, ToSend, ToTell
    <3>4. ~ToTell(p, m)'
      BY <1>2 DEF ToTell
    <3> QED
      BY <1>1, <1>2, <2>1, <2>3, <3>1, <3>3, <3>4 DEF Known
  <2> QED
    BY <1>1, <2>2, <2>3
<1>4. CASE m \notin StillFree(p)
  <2>1. text'[m] = text[m]
    BY <1>4 DEF PollMark
  <2>2. ~ToTell(p, m)'
    BY <1>2 DEF ToTell
  <2>3. Told(m)'
    BY <1>1, <1>2, <2>1, <2>2 DEF Told, ToTell
  <2>4. ASSUME Known(m) PROVE Known(m)'
    <3>1. ~ToSend(p, m)'
      BY <1>1, <1>2, <2>1, <2>4 DEF Known, ToSend
    <3>2. \A q \in Relays \ {p} : (ToSend(q, m)' <=> ToSend(q, m)) /\ (ToTell(q, m)' <=> ToTell(q, m))
      BY <1>2, <2>1 DEF ToSend, ToTell
    <3> QED
      BY <1>1, <1>2, <2>1, <2>2, <2>4, <3>1, <3>2 DEF Known
  <2> QED
    BY <1>1, <2>3, <2>4
<1> QED
  BY <1>3, <1>4

\* The answer hands the phone what it holds the lease of; what has no number
\* is given up.
LEMMA Collecting ==
  ASSUME RelayTypeOK, OnceInv, NEW p \in Relays, NEW at \in {"sending", "idle"}, Collect(p, at)
  PROVE  OnceInv'
<1>0. app \in [Relays -> Phones] /\ text \in [Texts -> Rows]
  BY TypedAgain
<1> SUFFICES ASSUME NEW m \in Texts PROVE Told(m)' /\ (m \in unsure' \/ Known(m)')
  BY DEF OnceInv
<1>1. /\ Told(m) /\ (m \in unsure \/ Known(m)) /\ unsure' = unsure /\ sent' = sent
      /\ app[p].at = "collecting"
  BY DEF OnceInv, Collect
<1>2. /\ app'[p].at = at /\ app'[p].report = NoReport
      /\ app'[p].ids = IF at = "sending" THEN Won(p) \cap Numbered ELSE {}
      /\ \A q \in Relays \ {p} : app'[q] = app[q]
  BY <1>0 DEF Collect, At
<1>3. ~ToTell(p, m)'
  BY <1>2 DEF ToTell, NoReport
<1>4. ToSend(p, m)' => m \in Won(p) \cap Numbered
  BY <1>2 DEF ToSend
<1>5. m \in Won(p) => ToSend(p, m)
  BY <1>1 DEF Won, ToSend
<1>6. CASE m \in Unsendable(p)
  <2>1. text'[m].status = "FAILED" /\ text'[m].lease = Unleased /\ ~text'[m].lapsed
    BY <1>0, <1>6 DEF Collect, Rows
  <2>2. Told(m)'
    BY <1>1, <1>2, <1>3, <2>1 DEF Told, ToTell
  <2>3. ASSUME Known(m) PROVE Known(m)'
    <3>1. ToSend(p, m) /\ ~ToSend(p, m)'
      BY <1>4, <1>5, <1>6 DEF Unsendable
    <3>2. text[m].lease = p /\ sent[m] = 0
      BY <2>3, <3>1 DEF Known
    <3>3. \A q \in Relays \ {p} : ~ToSend(q, m) /\ ~ToTell(q, m)
      BY <2>3, <3>2 DEF Known
    <3>4. \A q \in Relays : Unleased # q
      BY RelayAssumption DEF Unleased
    <3>5. \A q \in Relays \ {p} : ~ToSend(q, m)' /\ ~ToTell(q, m)'
      BY <1>2, <2>1, <2>3, <3>3, <3>4 DEF Known, ToSend, ToTell
    <3> QED
      BY <1>1, <1>2, <1>3, <2>1, <2>3, <3>1, <3>2, <3>4, <3>5 DEF Known
  <2> QED
    BY <1>1, <2>2, <2>3
<1>7. CASE m \notin Unsendable(p)
  <2>1. text'[m] = text[m]
    BY <1>7 DEF Collect
  <2>2. \A q \in Relays : /\ ToSend(q, m)' => ToSend(q, m)
                          /\ ToTell(q, m)' => q # p /\ ToTell(q, m)
    BY <1>2, <1>3, <1>4, <1>5, <2>1 DEF ToSend, ToTell
  <2>3. Told(m)'
    BY <1>1, <1>2, <2>1, <2>2 DEF Told
  <2>4. Known(m) => Known(m)'
    BY <1>1, <1>2, <2>1, <2>2 DEF Known
  <2> QED
    BY <1>1, <2>3, <2>4
<1> QED
  BY <1>6, <1>7

\* A text goes once while its phone holds the lease.
LEMMA Sending ==
  ASSUME RelayTypeOK, OnceInv, NEW p \in Relays, NEW n \in Texts, SendOne(p, n)
  PROVE  OnceInv'
<1>0. app \in [Relays -> Phones] /\ sent \in [Texts -> 0..2]
  BY TypedAgain
<1> SUFFICES ASSUME NEW m \in Texts PROVE Told(m)' /\ (m \in unsure' \/ Known(m)')
  BY DEF OnceInv
<1>1. /\ Told(m) /\ (m \in unsure \/ Known(m)) /\ text' = text
      /\ app[p].at = "sending" /\ n \in app[p].ids
  BY DEF OnceInv, SendOne
<1>2. PICK o \in Outcomes :
        /\ sent' = [sent EXCEPT ![n] = IF @ + o.went > 2 THEN 2 ELSE @ + o.went]
        /\ unsure' = IF o.report = "failed" /\ o.went = 1 THEN unsure \cup {n} ELSE unsure
        /\ app' = [app EXCEPT ![p].ids = @ \ {n}, ![p].report[n] = o.report,
                              ![p].at = IF app[p].ids = {n} THEN "telling" ELSE @]
  BY DEF SendOne
<1>3. /\ o.report = "sent" => o.went = 1
      /\ o.went \in {0, 1} /\ o.report \in {"sent", "failed"}
  BY DEF Outcomes
<1>4. /\ app'[p].at \in {"sending", "telling"} /\ app'[p].ids = app[p].ids \ {n}
      /\ app'[p].report = [app[p].report EXCEPT ![n] = o.report]
      /\ \A q \in Relays \ {p} : app'[q] = app[q]
  BY <1>0, <1>1, <1>2 DEF Phones
<1>5. app[p].report \in [Texts -> {"none", "sent", "failed"}]
  BY <1>0 DEF Phones, Reports
<1>6. sent[n] \in 0..2 /\ sent'[n] = IF sent[n] + o.went > 2 THEN 2 ELSE sent[n] + o.went
  BY <1>0, <1>2
<1>7. CASE m = n
  <2>1. ~ToSend(p, n)' /\ app'[p].report[n] = o.report
    BY <1>4, <1>5 DEF ToSend
  <2>2. ToSend(p, n)
    BY <1>1 DEF ToSend
  <2>3. sent'[n] >= sent[n] /\ (o.report = "sent" => sent'[n] > 0)
    BY <1>3, <1>6
  <2>4. \A q \in Relays \ {p} : (ToSend(q, n)' <=> ToSend(q, n)) /\ (ToTell(q, n)' <=> ToTell(q, n))
    BY <1>1, <1>4 DEF ToSend, ToTell
  <2>5. Told(n) /\ (n \in unsure \/ Known(n))
    BY DEF OnceInv
  <2>6. Told(n)'
    <3>1. text'[n] = text[n] /\ (sent[n] > 0 => sent'[n] > 0)
      <4>1. sent[n] > 0 => sent'[n] > 0
        BY <1>3, <1>6
      <4> QED
        BY <1>1, <4>1
    <3>2. text'[n].status = "SENT" => sent'[n] > 0
      BY <2>5, <3>1 DEF Told
    <3>3. ASSUME NEW q \in Relays, ToTell(q, n)', app'[q].report[n] = "sent" PROVE sent'[n] > 0
      <4>1. CASE q = p
        BY <2>1, <2>3, <3>3, <4>1
      <4>2. CASE q # p
        BY <1>4, <2>4, <2>5, <3>1, <3>3, <4>2 DEF Told
      <4> QED
        BY <4>1, <4>2
    <3>4. text'[n].lease # Unleased => text'[n].status = "QUEUED"
      BY <2>5, <3>1 DEF Told
    <3> QED
      BY <3>2, <3>3, <3>4 DEF Told
  <2>7. ASSUME Known(n), n \notin unsure' PROVE Known(n)'
    <3>1. text[n].lease = p /\ sent[n] = 0
      BY <2>2, <2>7 DEF Known
    <3>2. \A q \in Relays \ {p} : ~ToSend(q, n)' /\ ~ToTell(q, n)'
      BY <2>4, <2>7, <3>1 DEF Known
    <3>3. sent'[n] \in {0, 1} /\ (o.report = "failed" => sent'[n] = 0)
      <4>1. ~(o.report = "failed" /\ o.went = 1)
        BY <1>2, <2>7
      <4> QED
        BY <1>3, <1>6, <3>1, <4>1
    <3>4. text[n].lease # Unleased
      BY <3>1, RelayAssumption DEF Unleased
    <3>5. \A q \in Relays :
            /\ app'[q].at \in {"marking", "collecting"} => q # p /\ app'[q] = app[q]
            /\ ToTell(q, n)' /\ app'[q].report[n] = "failed" => q = p /\ sent'[n] = 0
            /\ ToSend(q, n)' \/ ToTell(q, n)' => q = p
      BY <1>4, <2>1, <3>2, <3>3
    <3> QED
      BY <1>1, <2>1, <2>7, <3>1, <3>3, <3>4, <3>5 DEF Known
  <2> QED
    BY <1>2, <1>7, <2>5, <2>6, <2>7
<1>8. CASE m # n
  <2>1. sent'[m] = sent[m] /\ app'[p].report[m] = app[p].report[m]
    BY <1>0, <1>2, <1>4, <1>5, <1>8
  <2>2. \A q \in Relays : /\ ToSend(q, m)' => ToSend(q, m)
                          /\ ToTell(q, m)' => ToTell(q, m) /\ app'[q].report[m] = app[q].report[m]
    BY <1>1, <1>4, <2>1 DEF ToSend, ToTell
  <2>3. Told(m)'
    BY <1>1, <2>1, <2>2 DEF Told
  <2>4. Known(m) => Known(m)'
    BY <1>1, <1>4, <2>1, <2>2 DEF Known
  <2> QED
    BY <1>1, <1>2, <2>3, <2>4
<1> QED
  BY <1>7, <1>8

\* A report lets go of the lease, and is right about a text that is known.
LEMMA Telling ==
  ASSUME RelayTypeOK, OnceInv, NEW p \in Relays, NEW n \in Texts, TellOne(p, n)
  PROVE  OnceInv'
<1>0. app \in [Relays -> Phones] /\ text \in [Texts -> Rows]
  BY TypedAgain
<1> SUFFICES ASSUME NEW m \in Texts PROVE Told(m)' /\ (m \in unsure' \/ Known(m)')
  BY DEF OnceInv
<1>1. /\ Told(m) /\ (m \in unsure \/ Known(m)) /\ sent' = sent /\ unsure' = unsure
      /\ app[p].at = "telling" /\ app[p].report[n] # "none"
  BY DEF OnceInv, TellOne
<1>2. app[p].report \in [Texts -> {"none", "sent", "failed"}]
  BY <1>0 DEF Phones, Reports
<1>3. /\ \A q \in Relays \ {p} : app'[q] = app[q]
      /\ \/ app'[p].at = "idle"
         \/ app'[p].at = "telling" /\ app'[p].report = [app[p].report EXCEPT ![n] = "none"]
  BY <1>0, <1>1 DEF TellOne, At, Phones
<1>4. \A q \in Relays : /\ ToSend(q, m)' => q # p
                        /\ ToTell(q, m)' /\ q = p =>
                             ToTell(p, m) /\ m # n /\ app'[p].report[m] = app[p].report[m]
  BY <1>1, <1>2, <1>3 DEF ToSend, ToTell
<1>5. CASE m = n
  <2>1. /\ text'[m].lease = Unleased /\ ~text'[m].lapsed
        /\ text'[m].status = "SENT" <=> app[p].report[n] = "sent"
    BY <1>0, <1>5 DEF TellOne, Reported, Rows
  <2>2. ToTell(p, n)
    BY <1>1 DEF ToTell
  <2>3. Told(m)'
    BY <1>1, <1>3, <1>4, <1>5, <2>1, <2>2 DEF Told, ToTell
  <2>4. ASSUME Known(m) PROVE Known(m)'
    <3>1. text[n].lease = p
      BY <1>5, <2>2, <2>4 DEF Known
    <3>2. \A q \in Relays \ {p} : ~ToSend(q, n) /\ ~ToTell(q, n)
      BY <1>5, <2>4, <3>1 DEF Known
    <3>3. \A q \in Relays : Unleased # q
      BY RelayAssumption DEF Unleased
    <3>4. \A q \in Relays : ~ToSend(q, m)' /\ ~ToTell(q, m)'
      BY <1>3, <1>4, <1>5, <2>1, <2>4, <3>2, <3>3 DEF Known, ToSend, ToTell
    <3>5. sent[m] = 1 => text'[m].status = "SENT"
      BY <1>1, <1>2, <1>5, <2>1, <2>2, <2>4 DEF Known
    <3> QED
      BY <1>1, <1>3, <2>1, <2>4, <3>3, <3>4, <3>5 DEF Known
  <2> QED
    BY <1>1, <2>3, <2>4
<1>6. CASE m # n
  <2>1. text'[m] = text[m]
    BY <1>0, <1>6 DEF TellOne
  <2>2. \A q \in Relays : /\ ToSend(q, m)' => ToSend(q, m)
                          /\ ToTell(q, m)' => ToTell(q, m) /\ app'[q].report[m] = app[q].report[m]
    BY <1>3, <1>4, <2>1 DEF ToSend, ToTell
  <2>3. Told(m)'
    BY <1>1, <2>1, <2>2 DEF Told
  <2>4. Known(m) => Known(m)'
    BY <1>1, <1>3, <2>1, <2>2 DEF Known
  <2> QED
    BY <1>1, <2>3, <2>4
<1> QED
  BY <1>5, <1>6

LEMMA Forgetting ==
  ASSUME RelayTypeOK, OnceInv, NEW p \in Relays,
         Forget(p) \/ Rejected(p) \/ Revoke(p) \/ Stop(p) \/ Start(p)
  PROVE  OnceInv'
<1>1. app \in [Relays -> Phones]
  BY TypedAgain
<1>2. \A q \in Relays : app'[q] = app[q] \/ app'[q].at \in {"idle", "stopped"}
  BY <1>1, FreshIsPhone DEF Forget, Rejected, Revoke, Stop, Start
<1>3. text' = text /\ sent' = sent /\ unsure' = unsure
  BY DEF Forget, Rejected, Revoke, Stop, Start
<1> QED
  BY <1>2, <1>3, NothingLost DEF OnceInv

LEMMA OnceStep == RelayTypeOK /\ OnceInv /\ [RelayNext]_relayVars => OnceInv'
<1> SUFFICES ASSUME RelayTypeOK, OnceInv, [RelayNext]_relayVars PROVE OnceInv'
  OBVIOUS
<1>1. CASE UNCHANGED relayVars
  BY <1>1, NothingLost DEF relayVars, OnceInv
<1>2. CASE RelayNext
  BY <1>2, Outside, Choosing, Marking, Collecting, Sending, Telling, Forgetting
    DEF RelayNext, PollAnswered, PollFruitless
<1> QED
  BY <1>1, <1>2

\* What is shown as sent has reached its customer, and only a text somebody
\* gave up on, or two phones asked for at once, can reach them twice.
THEOREM SentAtMostOnce == RelaySpec => []SentOnce
BY RelayInitTyped, RelayTypeStep, OnceInit, OnceStep, OnceSafe, PTL DEF RelaySpec

=============================================================================
