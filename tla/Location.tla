------------------------------ MODULE Location ------------------------------
(***************************************************************************)
(* Asking a phone where it is (LocationService, the location routes,       *)
(* DpcSync.answerLocationRequest, LocationReporter).                       *)
(*                                                                         *)
(* The owner's request stays open on the device's row until a report       *)
(* closes it.  Every handler reads the row first and writes after several  *)
(* other reads, and the row is released, unlocked or paid off in between.  *)
(*                                                                         *)
(* Two phones are modelled.  The app of this repository asks for work and  *)
(* answers as its code does.  With ServerTests, check-ins that carry a fix *)
(* also arrive as the server's tests send them, asked for or not.          *)
(*                                                                         *)
(* Definitions named "...Forgotten" are faulty variants.                   *)
(***************************************************************************)
EXTENDS Naturals

CONSTANTS
  ServerTests,  \* fixes arrive the way the server's tests send them
  Reports,      \* check-ins with a fix at work at a time
  Askers        \* the owner's requests at work at a time

ASSUME LocationAssumption == ServerTests \in BOOLEAN

VARIABLES
  spot,    \* the row: [status, token, asked, fix]
  behind,  \* an installment is marked OVERDUE
  allowed,  \* the policy and a valid paper allow it
  asker,  \* the owner's requests: "none" or "write"
  report,  \* check-ins with a fix: [at, row]
  app,     \* what the app is doing: "idle", "told", "fixing" or "sending"; or "gone"
  heard,   \* the app has been told to report and has finished that round
  tried    \* the app has tried to get a fix

locVars == <<spot, behind, allowed, asker, report, app, heard, tried>>

SpotRow == [status: {"PENDING", "ACTIVE", "LOCKED", "INACTIVE"}, token: BOOLEAN,
            asked: {"no", "open", "lapsed"}, fix: BOOLEAN]

NewRow == [status |-> "PENDING", token |-> FALSE, asked |-> "no", fix |-> FALSE]

NoFixReport == [at |-> "none", row |-> NewRow]

LocTypeOK ==
  /\ spot \in SpotRow
  /\ behind \in BOOLEAN /\ allowed \in BOOLEAN
  /\ asker \in [Askers -> {"none", "write"}]
  /\ report \in [Reports -> [at: {"none", "judge", "store"}, row: SpotRow]]
  /\ app \in {"idle", "told", "fixing", "sending", "gone"}
  /\ heard \in BOOLEAN /\ tried \in BOOLEAN

LocInit ==
  /\ spot = NewRow
  /\ behind = FALSE /\ allowed \in BOOLEAN
  /\ asker = [o \in Askers |-> "none"]
  /\ report = [r \in Reports |-> NoFixReport]
  /\ app = "idle"
  /\ heard = FALSE /\ tried = FALSE

-----------------------------------------------------------------------------
(* What LocationService asks *)

\* "Restricted, self-locked, or an installment overdue": the status is the
\* row's as it was read, the installments are read now.
InRecovery(row) == row.status = "LOCKED" \/ behind

\* A request lapses after a day.
RequestOpen(row) == row.asked = "open"

Eligible(row) ==
  row.status \in {"ACTIVE", "LOCKED"} /\ row.token /\ allowed /\ InRecovery(row)

ShouldReport(row) == RequestOpen(row) /\ Eligible(row)

-----------------------------------------------------------------------------
(* The shop *)

\* POST /location-request reads the row and judges it, ...
AskRead(o) ==
  /\ asker[o] = "none"
  /\ Eligible(spot)
  /\ asker' = [asker EXCEPT ![o] = "write"]
  /\ UNCHANGED <<spot, behind, allowed, report, app, heard, tried>>

\* ... and marks it as asked, whatever it is by then.
AskWrite(o) ==
  /\ asker[o] = "write"
  /\ spot' = [spot EXCEPT !.asked = "open"]
  /\ asker' = [asker EXCEPT ![o] = "none"]
  /\ heard' = FALSE /\ tried' = FALSE
  /\ UNCHANGED <<behind, allowed, report, app>>

DayPasses ==
  /\ spot.asked = "open"
  /\ spot' = [spot EXCEPT !.asked = "lapsed"]
  /\ UNCHANGED <<behind, allowed, asker, report, app, heard, tried>>

\* The shop changes its policy, the customer signs, the paper is voided.
Agreeing ==
  /\ allowed' = ~allowed
  /\ UNCHANGED <<spot, behind, asker, report, app, heard, tried>>

\* The engine marks an installment, the customer pays.
FallBehind ==
  /\ behind' = ~behind
  /\ UNCHANGED <<spot, allowed, asker, report, app, heard, tried>>

LockChanges ==
  /\ spot.status \in {"ACTIVE", "LOCKED"}
  /\ \E s \in {"ACTIVE", "LOCKED"} : spot' = [spot EXCEPT !.status = s]
  /\ UNCHANGED <<behind, allowed, asker, report, app, heard, tried>>

\* Re-enrolment keeps the request and the stored location.
ReEnroll ==
  /\ spot.status \in {"ACTIVE", "LOCKED"}
  /\ spot' = [spot EXCEPT !.status = "PENDING", !.token = FALSE]
  /\ UNCHANGED <<behind, allowed, asker, report, app, heard, tried>>

LetGone(row) == [row EXCEPT !.status = "INACTIVE", !.asked = "no", !.fix = FALSE]

\* "A phone that belongs to its owner keeps no trace of where it was."
Release ==
  /\ spot.status # "INACTIVE"
  /\ spot' = LetGone(spot)
  /\ UNCHANGED <<behind, allowed, asker, report, app, heard, tried>>

\* unlockDevice takes a released row too (VALID_TRANSITIONS allows it), and the
\* row still has its token.
Unrelease ==
  /\ spot.status = "INACTIVE"
  /\ spot' = [spot EXCEPT !.status = "ACTIVE"]
  /\ UNCHANGED <<behind, allowed, asker, report, app, heard, tried>>

-----------------------------------------------------------------------------
(* A check-in that carries a fix *)

\* requireDevice reads the row; a released phone is refused.
ReportRead(r) ==
  /\ ServerTests
  /\ report[r].at = "none"
  /\ spot.status \in {"ACTIVE", "LOCKED"} /\ spot.token
  /\ report' = [report EXCEPT ![r] = [at |-> "judge", row |-> spot]]
  /\ UNCHANGED <<spot, behind, allowed, asker, app, heard, tried>>

Accepted(row) == ShouldReport(row)

\* acceptReport asks again whether it may be kept, of the row read before.
ReportJudge(r) ==
  /\ report[r].at = "judge"
  /\ report' = IF Accepted(report[r].row) THEN [report EXCEPT ![r].at = "store"]
               ELSE [report EXCEPT ![r] = NoFixReport]
  /\ UNCHANGED <<spot, behind, allowed, asker, app, heard, tried>>

\* The fix is stored and the request closed.
ReportStore(r) ==
  /\ report[r].at = "store"
  /\ spot' = [spot EXCEPT !.asked = "no", !.fix = TRUE]
  /\ report' = [report EXCEPT ![r] = NoFixReport]
  /\ UNCHANGED <<behind, allowed, asker, app, heard, tried>>

-----------------------------------------------------------------------------
(* The app *)

\* syncOnce: the answer says whether to report; every other part of it is
\* acted on, and the round ends.
Sync ==
  /\ app = "idle"
  /\ spot.status \in {"ACTIVE", "LOCKED"} /\ spot.token
  /\ heard' = (heard \/ ShouldReport(spot))
  /\ UNCHANGED <<spot, behind, allowed, asker, report, app, tried>>

\* A released phone is refused for good: the app unwinds and forgets.
Unwound ==
  /\ app = "idle"
  /\ spot.status = "INACTIVE" /\ spot.token
  /\ app' = "gone" /\ heard' = FALSE
  /\ UNCHANGED <<spot, behind, allowed, asker, report, tried>>

\* enroll ends with answerLocationRequest.
Enrolled ==
  /\ app \in {"idle", "gone"}
  /\ spot.status = "PENDING"
  /\ LET row == [spot EXCEPT !.status = "ACTIVE", !.token = TRUE] IN
     /\ spot' = row
     /\ app' = IF ShouldReport(row) THEN "told" ELSE "idle"
  /\ UNCHANGED <<behind, allowed, asker, report, heard, tried>>

\* takeFix: the permission is granted for this one fix, ...
TakeFix ==
  /\ app = "told"
  /\ app' = "fixing"
  /\ tried' = TRUE
  /\ UNCHANGED <<spot, behind, allowed, asker, report, heard>>

\* ... which may or may not come in time.
FixTaken ==
  /\ app = "fixing"
  /\ app' \in {"sending", "idle"}
  /\ UNCHANGED <<spot, behind, allowed, asker, report, heard, tried>>

\* The report is made through the client that redeemed the code, which was
\* made without credentials: it is refused before it leaves the phone.
SendFix ==
  /\ app = "sending"
  /\ app' = "idle"
  /\ UNCHANGED <<spot, behind, allowed, asker, report, heard, tried>>

-----------------------------------------------------------------------------
LocNext ==
  \/ \E o \in Askers : AskRead(o) \/ AskWrite(o)
  \/ DayPasses \/ Agreeing \/ FallBehind \/ LockChanges \/ ReEnroll \/ Release \/ Unrelease
  \/ \E r \in Reports : ReportRead(r) \/ ReportJudge(r) \/ ReportStore(r)
  \/ Sync \/ Unwound \/ Enrolled \/ TakeFix \/ FixTaken \/ SendFix

LocSpec == LocInit /\ [][LocNext]_locVars

-----------------------------------------------------------------------------
\* "The phone answers the next time it connects to the internet": an app that
\* has been told to report and has finished its round has tried to.
ToldPhoneTries == app = "idle" /\ heard => tried

=============================================================================
