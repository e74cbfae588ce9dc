------------------------------- MODULE Desk -------------------------------
(***************************************************************************)
(* The page from which a shop acts on one phone (DeviceDetailPage): which  *)
(* buttons it offers for the status it shows, the dialogs they open, the   *)
(* requests the dialogs send, and the reload that follows.  The handlers   *)
(* of devices.routes are one step each: what happens between their reads   *)
(* and writes is LockProtocol's.                                           *)
(*                                                                         *)
(* A page is told nothing while it stays open: a dialog is confirmed over  *)
(* a status that other desks, the phone, a payment or the nightly engine   *)
(* have changed since.  All of those are one action here, which makes any  *)
(* move the record allows at any time.                                     *)
(*                                                                         *)
(* Definitions named "...Forgotten" are faulty variants.                   *)
(***************************************************************************)
EXTENDS Naturals

CONSTANT MaxReloads    \* loads of the page on their way at a time

ASSUME DeskAssumption == MaxReloads \in Nat \ {0}

VARIABLES
  phone,   \* the record: [status, isOnline, noLock]
  page,    \* what the page shows: {} (nothing yet) or {[status, isOnline]}
  spinner, \* loading
  reloads, \* loads on their way
  dialog,  \* the open dialog: {} or {[what, seen, reason]}
  act      \* the action on its way (actionProcessing): {} or one

deskVars == <<phone, page, spinner, reloads, dialog, act>>

Record == INSTANCE DeviceRecord

Whats == {"lock", "unlock", "reEnroll", "release", "message", "edit", "reboot"}

\* Re-enrolling and releasing wait for their reason; locking and unlocking
\* leave that to the server.
NeedsReason == {"reEnroll", "release"}

\* seen is history: the status the page showed when the dialog was opened,
\* kept where a property asks for it.
WhenAsked(what, status) == IF what \in NeedsReason \cup {"unlock"} THEN status ELSE "ACTIVE"

Dialogs == [what: Whats, seen: Record!Statuses, reason: BOOLEAN]
Acts == [what: Whats, seen: Record!Statuses, reason: BOOLEAN, at: {"way", "done"}]

DeskTypeOK ==
  /\ phone \in [status: Record!Statuses, isOnline: BOOLEAN, noLock: BOOLEAN]
  /\ page \subseteq [status: Record!Statuses, isOnline: BOOLEAN]
  /\ spinner \in BOOLEAN
  /\ reloads \in 0..MaxReloads
  /\ dialog \subseteq Dialogs /\ act \subseteq Acts

\* A sale has been registered, and the page is about to load.
DeskInit ==
  /\ phone \in [status: {"PENDING"}, isOnline: {FALSE}, noLock: BOOLEAN]
  /\ page = {}
  /\ spinner = TRUE
  /\ reloads = 1
  /\ dialog = {}
  /\ act = {}

-----------------------------------------------------------------------------
(* The page *)

\* loadDeviceDetail; the agreement is fetched after the phone, and a phone
\* without one is no error.
LoadEnds ==
  /\ reloads > 0
  /\ page' = {[status |-> phone.status, isOnline |-> phone.isOnline]}
  /\ spinner' = FALSE
  /\ reloads' = reloads - 1
  /\ UNCHANGED <<phone, dialog, act>>

\* The page goes on showing what it had.
LoadFailed ==
  /\ reloads > 0
  /\ spinner' = FALSE
  /\ reloads' = reloads - 1
  /\ UNCHANGED <<phone, page, dialog, act>>

\* Left and opened again, which is how a page that failed to load is repaired.
\* Bound: not during an action.
Reopened ==
  /\ act = {} /\ reloads = 0
  /\ page' = {}
  /\ spinner' = TRUE
  /\ reloads' = 1
  /\ dialog' = {}
  /\ UNCHANGED <<phone, act>>

\* The spinner replaces the whole page, an open dialog with it.
Visible == ~spinner /\ page # {}

ShownLocked(v) == v.status \in {"LOCKED", "LOCK_PENDING"}

OfferedForgotten(v) ==
  {"message", "edit"}
  \cup (IF v.status \in {"INACTIVE", "REMOVED"} THEN {} ELSE {"release", "reboot"})
  \cup (IF phone.noLock THEN {} ELSE IF v.status \in {"ACTIVE", "OVERDUE"} THEN {"lock"} ELSE {"unlock"})
  \cup (IF phone.noLock \/ v.status \in {"PENDING", "INACTIVE", "REMOVED"} THEN {} ELSE {"reEnroll"})

\* The buttons there are for what is shown.
Offered(v) ==
  {"message", "edit"}
  \cup (IF phone.noLock \/ v.status \in {"PENDING", "INACTIVE", "REMOVED"} THEN {} ELSE {"reEnroll"})
  \cup (IF v.status \in {"INACTIVE", "REMOVED"} THEN {} ELSE {"release"})
  \cup (IF v.status # "INACTIVE" /\ v.isOnline THEN {"reboot"} ELSE {})
  \cup (IF phone.noLock \/ v.status = "INACTIVE" THEN {}
        ELSE IF ShownLocked(v) THEN {"unlock"} ELSE {"lock"})

\* A dialog covers the page.  The reasons come filled in, but for a release.
OpenDialog(what) ==
  /\ Visible /\ dialog = {} /\ what # "reboot"
  /\ \E v \in page :
       /\ what \in Offered(v)
       /\ dialog' = {[what |-> what, seen |-> WhenAsked(what, v.status), reason |-> what # "release"]}
  /\ UNCHANGED <<phone, page, spinner, reloads, act>>

\* A reason of five letters or more is typed, or deleted.
TypeReason ==
  /\ Visible
  /\ \E x \in dialog :
       dialog' = {[x EXCEPT !.reason = ~@]}
  /\ UNCHANGED <<phone, page, spinner, reloads, act>>

\* Cancel works during an action too.
CancelDialog ==
  /\ Visible /\ dialog # {}
  /\ dialog' = {}
  /\ UNCHANGED <<phone, page, spinner, reloads, act>>

Confirm ==
  /\ Visible /\ act = {}
  /\ \E x \in dialog :
       /\ x.what # "edit" /\ (x.what \in NeedsReason => x.reason)
       /\ act' = {[what |-> x.what, seen |-> x.seen, reason |-> x.reason, at |-> "way"]}
  /\ UNCHANGED <<phone, page, spinner, reloads, dialog>>

\* Rebooting asks nothing.
Reboot ==
  /\ Visible /\ act = {} /\ dialog = {}
  /\ \E v \in page :
       /\ "reboot" \in Offered(v)
       /\ act' = {[what |-> "reboot", seen |-> WhenAsked("reboot", v.status), reason |-> TRUE, at |-> "way"]}
  /\ UNCHANGED <<phone, page, spinner, reloads, dialog>>

\* The edit form (Records) saves by itself.
EditSaved ==
  /\ Visible /\ reloads < MaxReloads
  /\ \E x \in dialog : x.what = "edit"
  /\ dialog' = {}
  /\ spinner' = TRUE
  /\ reloads' = reloads + 1
  /\ UNCHANGED <<phone, page, act>>

-----------------------------------------------------------------------------
(* The server *)

\* What each handler makes of the status: the statuses it may leave, none if
\* it refuses.  The agreement may allow a lock or not.
LockHandled ==
  IF ShownLocked(phone) THEN {phone.status}
  ELSE IF phone.noLock \/ phone.status \in {"REMOVED", "PENDING"} THEN {}
  ELSE {s \in {IF phone.isOnline THEN "LOCKED" ELSE "LOCK_PENDING"} :
          Record!CanMove(phone.status, s)}

UnlockHandled ==
  IF phone.status \in {"ACTIVE", "UNLOCK_PENDING"} THEN {phone.status}
  ELSE {s \in {IF phone.isOnline THEN "ACTIVE" ELSE "UNLOCK_PENDING"} :
          Record!CanMove(phone.status, s)}

ReEnrollHandled ==
  IF phone.noLock \/ phone.status \notin Record!ReEnrollable THEN {} ELSE {"PENDING"}

ReleaseHandled == IF phone.status \in Record!Releasable THEN {"INACTIVE"} ELSE {}

MessageHandled == {phone.status}

RebootHandled == IF phone.isOnline THEN {phone.status} ELSE {}

Handled(a) ==
  IF ~a.reason THEN {}
  ELSE CASE a.what = "lock" -> LockHandled [] a.what = "unlock" -> UnlockHandled
         [] a.what = "reEnroll" -> ReEnrollHandled [] a.what = "release" -> ReleaseHandled
         [] a.what = "message" -> MessageHandled [] a.what = "reboot" -> RebootHandled

ServerActs ==
  /\ \E a \in act :
       /\ a.at = "way"
       /\ \E s \in Handled(a) :
            phone' = [phone EXCEPT !.status = s, !.isOnline = @ /\ a.what # "reEnroll"]
       /\ act' = {[a EXCEPT !.at = "done"]}
  /\ UNCHANGED <<page, spinner, reloads, dialog>>

\* The answer: a toast, the action's dialog closes, and the page loads again.
ActDone ==
  /\ reloads < MaxReloads
  /\ \E a \in act :
       /\ a.at = "done" /\ a.what # "reEnroll"
       /\ dialog' = {x \in dialog : x.what # a.what}
  /\ act' = {}
  /\ spinner' = TRUE
  /\ reloads' = reloads + 1
  /\ UNCHANGED <<phone, page>>

\* A re-enrolment leads to the QR page, from which somebody comes back.
ReEnrollDone ==
  /\ \E a \in act : a.at = "done" /\ a.what = "reEnroll"
  /\ act' = {}
  /\ dialog' = {}
  /\ page' = {}
  /\ spinner' = TRUE
  /\ reloads' = 1
  /\ UNCHANGED phone

\* Refused, or lost on either way: an error toast, and the dialog stays.
ActFailed ==
  /\ act # {}
  /\ act' = {}
  /\ UNCHANGED <<phone, page, spinner, reloads, dialog>>

\* Other desks, the phone, payments and the engine: any move of the record, an
\* enrolment and a re-enrolment.  Nothing leaves a phone ENROLLED or REMOVED, and
\* one sold without a lock is only ever released.
Elsewhere ==
  /\ \/ \E s \in Record!ValidNext[phone.status] \cup {"PENDING", "ACTIVE"} :
          /\ s \notin {"ENROLLED", "REMOVED"} /\ (phone.noLock => s = "INACTIVE")
          /\ phone' = [phone EXCEPT !.status = s]
     \/ ~phone.noLock /\ phone' = [phone EXCEPT !.isOnline = ~@]
  /\ UNCHANGED <<page, spinner, reloads, dialog, act>>

-----------------------------------------------------------------------------
DeskNext ==
  \/ Elsewhere
  \/ LoadEnds \/ LoadFailed \/ Reopened
  \/ \E w \in Whats : OpenDialog(w)
  \/ TypeReason \/ CancelDialog \/ Confirm \/ Reboot \/ EditSaved
  \/ ServerActs \/ ActDone \/ ReEnrollDone \/ ActFailed

DeskSpec == DeskInit /\ [][DeskNext]_deskVars

-----------------------------------------------------------------------------
\* The server unlocks a released phone if asked to.  Nobody asks for that who
\* was shown that it is released: only a dialog opened before, over a phone
\* that was still locked, does it.
NotTakenBackUnawares(a) ==
  phone.status = "INACTIVE" /\ phone'.status \notin {"INACTIVE", "REMOVED"} =>
    a.what = "unlock" /\ a.seen \in {"LOCKED", "LOCK_PENDING"}

\* What the page lets somebody confirm, the server does: the buttons and
\* the length of the reason on one side, and the handlers' guards on the
\* other, agree about re-enrolling and releasing.
DoneIfCurrent(a) ==
  a.what \in NeedsReason /\ a.seen = phone.status => Handled(a) # {}

\* Both of every action a desk's request does, whatever the other desks, the
\* phone and the engine did since its dialog was opened.
DeskMeansIt ==
  [][\A a \in act :
       a.at = "way" /\ (\E b \in act' : b.at # "way")
         => NotTakenBackUnawares(a) /\ DoneIfCurrent(a)]_deskVars

=============================================================================
