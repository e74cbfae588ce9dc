------------------------------- MODULE Stages -------------------------------
(***************************************************************************)
(* What the app does to the phone short of a lock: staged restrictions and *)
(* Factory Reset Protection, and handing all of it back (LockController,   *)
(* StagedRestrictions, FactoryResetProtection, DpcSync).                   *)
(*                                                                         *)
(* The app keeps in its own storage what it has done to the platform and   *)
(* works from that memory: each call to the platform is one step, and the  *)
(* note of it in storage is another.  Several check-ins may run at once    *)
(* (the worker, the boot receiver, the button), the platform may refuse,   *)
(* the app may be killed anywhere, and the customer installs and removes   *)
(* apps.                                                                   *)
(*                                                                         *)
(* The platform is modelled from the calls the app makes: a device owner   *)
(* that steps down takes its user restrictions with it, and nothing else.  *)
(*                                                                         *)
(* Definitions named "...Forgotten" are faulty variants.                   *)
(***************************************************************************)
EXTENDS Naturals

CONSTANTS
  Apps,       \* RESTRICTED_APPS
  Accounts,   \* the dealer's Google accounts, as one value each
  Threads,    \* check-ins at work at a time
  Levels,     \* the levels the server may name, out of 0 to 2
  NoAccount   \* an empty list of accounts

ASSUME StagesAssumption == NoAccount \notin Accounts /\ Levels \subseteq 0..2

VARIABLES
  blocked,    \* platform: outgoing calls and SMS are off
  suspended,  \* platform: the apps that cannot be opened
  installed,  \* platform: the apps on the phone
  frp,        \* platform: who may set the phone up after a wipe
  owner,      \* the app is device owner
  memo,       \* the app's storage: [on, apps, frp]
  round,      \* each check-in: what it was told, and how far it has come
  torn,       \* a call was refused, or done and never noted
  crossed     \* two check-ins changed the phone at the same time

stagesVars == <<blocked, suspended, installed, frp, owner, memo, round, torn, crossed>>

NoMemo == [on |-> FALSE, apps |-> {}, frp |-> NoAccount]

NoWork == [add |-> FALSE, clear |-> FALSE, suspend |-> {}, unsuspend |-> {}, held |-> {}]

NoRound == [at |-> "none", level |-> 0, frp |-> NoAccount, release |-> FALSE, work |-> NoWork]

StagesTypeOK ==
  /\ blocked \in BOOLEAN /\ owner \in BOOLEAN /\ torn \in BOOLEAN /\ crossed \in BOOLEAN
  /\ suspended \subseteq installed /\ installed \subseteq Apps
  /\ frp \in Accounts \cup {NoAccount}
  /\ memo \in [on: BOOLEAN, apps: SUBSET Apps, frp: Accounts \cup {NoAccount}]
  /\ round \in [Threads ->
       [at: {"none", "frp", "frpNote", "plan", "restrict", "onNote", "suspend", "unsuspend",
             "appsNote", "clearFrp", "stepDown", "forget"},
        level: 0..2, frp: Accounts \cup {NoAccount}, release: BOOLEAN,
        work: [add: BOOLEAN, clear: BOOLEAN, suspend: SUBSET Apps,
               unsuspend: SUBSET Apps, held: SUBSET Apps]]]

StagesInit ==
  /\ blocked = FALSE /\ suspended = {} /\ installed \in SUBSET Apps
  /\ frp = NoAccount /\ owner = TRUE
  /\ memo = NoMemo
  /\ round = [t \in Threads |-> NoRound]
  /\ torn = FALSE /\ crossed = FALSE

Go(t, place) == round' = [round EXCEPT ![t].at = place]

Busy == {t \in Threads : round[t].at # "none"}

-----------------------------------------------------------------------------
(* A check-in's answer *)

\* The answer of a check-in: Factory Reset Protection comes first.
Told(t, level, accounts) ==
  /\ round[t].at = "none" /\ owner
  /\ round' = [round EXCEPT ![t] = [NoRound EXCEPT !.at = "frp", !.level = level, !.frp = accounts]]
  /\ crossed' = (crossed \/ \E u \in Busy : round[u].release)
  /\ UNCHANGED <<blocked, suspended, installed, frp, owner, memo, torn>>

\* "No longer under management": releaseFromManagement begins with the stages.
ToldReleased(t) ==
  /\ round[t].at = "none" /\ owner
  /\ round' = [round EXCEPT ![t] = [NoRound EXCEPT !.at = "plan", !.release = TRUE]]
  /\ crossed' = (crossed \/ Busy # {})
  /\ UNCHANGED <<blocked, suspended, installed, frp, owner, memo, torn>>

\* FactoryResetProtection.next: nothing to do when the memory already holds
\* what was asked for.  A platform that refuses leaves the memory as it was,
\* and the next check-in tries again.
ApplyFrp(t) ==
  /\ round[t].at = "frp"
  /\ \/ memo.frp = round[t].frp /\ Go(t, "plan") /\ UNCHANGED frp
     \/ memo.frp # round[t].frp /\ owner /\ frp' = round[t].frp /\ Go(t, "frpNote")
     \/ memo.frp # round[t].frp /\ Go(t, "plan") /\ UNCHANGED frp
  /\ UNCHANGED <<blocked, suspended, installed, owner, memo, torn, crossed>>

NoteFrp(t) ==
  /\ round[t].at = "frpNote"
  /\ memo' = [memo EXCEPT !.frp = round[t].frp]
  /\ Go(t, "plan")
  /\ UNCHANGED <<blocked, suspended, installed, frp, owner, torn, crossed>>

-----------------------------------------------------------------------------
(* The stages *)

Wanted(level) == IF level >= 2 THEN installed ELSE {}

\* StagedRestrictions.plan: the changes that take the phone from what the
\* memory says it has to the level named.
Plan(level) ==
  [add |-> level >= 1 /\ ~memo.on, clear |-> level = 0 /\ memo.on,
   suspend |-> Wanted(level) \ memo.apps, unsuspend |-> memo.apps \ Wanted(level), held |-> {}]

AfterStages(t) == IF round[t].release THEN "clearFrp" ELSE "none"

\* An app that is no longer device owner plans nothing.
MakePlan(t) ==
  /\ round[t].at = "plan"
  /\ LET work == IF owner THEN Plan(round[t].level) ELSE NoWork
     IN round' = IF work = NoWork
                 THEN [round EXCEPT ![t] = IF AfterStages(t) = "none" THEN NoRound
                                           ELSE [@ EXCEPT !.at = "clearFrp"]]
                 ELSE [round EXCEPT ![t].at = "restrict", ![t].work = work]
  /\ crossed' = (crossed \/ \E u \in Threads : round[u].work # NoWork)
  /\ UNCHANGED <<blocked, suspended, installed, frp, owner, memo, torn>>

\* The two user restrictions are set or cleared; that the platform refuses is
\* only logged.
SetRestrictions(t) ==
  /\ round[t].at = "restrict"
  /\ LET work == round[t].work
     IN \/ /\ owner \/ ~(work.add \/ work.clear)
           /\ blocked' = IF work.add THEN TRUE ELSE IF work.clear THEN FALSE ELSE blocked
           /\ UNCHANGED torn
        \/ /\ work.add \/ work.clear
           /\ torn' = TRUE
           /\ UNCHANGED blocked
  /\ Go(t, "onNote")
  /\ UNCHANGED <<suspended, installed, frp, owner, memo, crossed>>

OnNoted(on, work) == IF work.add THEN TRUE ELSE IF work.clear THEN FALSE ELSE on

\* What was done is noted, and the suspended apps are read from the memory.
NoteOn(t) ==
  /\ round[t].at = "onNote"
  /\ memo' = [memo EXCEPT !.on = OnNoted(@, round[t].work)]
  /\ round' = [round EXCEPT ![t].at = "suspend", ![t].work.held = memo.apps]
  /\ UNCHANGED <<blocked, suspended, installed, frp, owner, torn, crossed>>

\* setPackagesSuspended names the apps it could not suspend; those are not
\* noted.
Suspend(t) ==
  /\ round[t].at = "suspend"
  /\ \E done \in SUBSET round[t].work.suspend :
       /\ owner \/ done = {}
       /\ suspended' = suspended \cup (done \cap installed)
       /\ round' = [round EXCEPT ![t].at = "unsuspend",
                      ![t].work.held = @ \cup (done \cap installed)]
  /\ UNCHANGED <<blocked, installed, frp, owner, memo, torn, crossed>>

\* Unsuspending is noted whether it works or not.
Unsuspend(t) ==
  /\ round[t].at = "unsuspend"
  /\ LET apps == round[t].work.unsuspend
     IN /\ \/ (owner \/ apps = {}) /\ suspended' = suspended \ apps /\ UNCHANGED torn
           \/ apps # {} /\ torn' = TRUE /\ UNCHANGED suspended
        /\ round' = [round EXCEPT ![t].at = "appsNote", ![t].work.held = @ \ apps]
  /\ UNCHANGED <<blocked, installed, frp, owner, memo, crossed>>

NoteApps(t) ==
  /\ round[t].at = "appsNote"
  /\ memo' = [memo EXCEPT !.apps = round[t].work.held]
  /\ round' = [round EXCEPT ![t] = IF AfterStages(t) = "none" THEN NoRound
                                   ELSE [@ EXCEPT !.at = "clearFrp", !.work = NoWork]]
  /\ UNCHANGED <<blocked, suspended, installed, frp, owner, torn, crossed>>

-----------------------------------------------------------------------------
(* Handing the phone back *)

ClearFrpByMemoForgotten(t) ==
  /\ round[t].at = "clearFrp"
  /\ \/ owner /\ memo.frp # NoAccount /\ frp' = NoAccount /\ UNCHANGED torn
     \/ memo.frp = NoAccount /\ UNCHANGED <<frp, torn>>
     \/ torn' = TRUE /\ UNCHANGED frp
  /\ Go(t, "stepDown")
  /\ UNCHANGED <<blocked, suspended, installed, owner, memo, crossed>>

\* Cleared without asking the memory; a refusal is logged.
ClearFrp(t) ==
  /\ round[t].at = "clearFrp"
  /\ \/ owner /\ frp' = NoAccount /\ UNCHANGED torn
     \/ torn' = TRUE /\ UNCHANGED frp
  /\ Go(t, "stepDown")
  /\ UNCHANGED <<blocked, suspended, installed, owner, memo, crossed>>

\* The lock and the hardening are taken off, and the app gives up device
\* owner.
StepDown(t) ==
  /\ round[t].at = "stepDown"
  /\ owner' = FALSE
  /\ blocked' = FALSE
  /\ Go(t, "forget")
  /\ UNCHANGED <<suspended, installed, frp, memo, torn, crossed>>

ForgetAll(t) ==
  /\ round[t].at = "forget"
  /\ memo' = NoMemo
  /\ round' = [round EXCEPT ![t] = NoRound]
  /\ UNCHANGED <<blocked, suspended, installed, frp, owner, torn, crossed>>

-----------------------------------------------------------------------------
(* The phone *)

\* Check-ins that have done something they have not noted yet.
Unnoted ==
  {t \in Threads :
     \/ round[t].at = "onNote" /\ (round[t].work.add \/ round[t].work.clear)
     \/ round[t].at \in {"unsuspend", "appsNote"} /\ round[t].work.held # memo.apps}

\* The app is killed: that is forgotten.
Kill ==
  /\ Busy # {}
  /\ round' = [t \in Threads |-> NoRound]
  /\ torn' = (torn \/ Unnoted # {})
  /\ UNCHANGED <<blocked, suspended, installed, frp, owner, memo, crossed>>

\* The customer installs an app, or removes one, which ends its suspension.
Install(a) ==
  /\ a \notin installed
  /\ installed' = installed \cup {a}
  /\ UNCHANGED <<blocked, suspended, frp, owner, memo, round, torn, crossed>>

Uninstall(a) ==
  /\ a \in installed
  /\ installed' = installed \ {a}
  /\ suspended' = suspended \ {a}
  /\ UNCHANGED <<blocked, frp, owner, memo, round, torn, crossed>>

-----------------------------------------------------------------------------
StagesNext ==
  \/ \E t \in Threads :
       \/ \E level \in Levels, accounts \in Accounts \cup {NoAccount} : Told(t, level, accounts)
       \/ ToldReleased(t) \/ ApplyFrp(t) \/ NoteFrp(t) \/ MakePlan(t) \/ SetRestrictions(t) \/ NoteOn(t)
       \/ Suspend(t) \/ Unsuspend(t) \/ NoteApps(t) \/ ClearFrp(t) \/ StepDown(t) \/ ForgetAll(t)
  \/ Kill
  \/ \E a \in Apps : Install(a) \/ Uninstall(a)

StagesSpec == StagesInit /\ [][StagesNext]_stagesVars

-----------------------------------------------------------------------------
\* "What was actually applied is remembered, so a later release undoes exactly
\* that": between check-ins nothing is restricted that the app does not
\* remember, unless it was killed half-way, the platform refused, or two
\* check-ins crossed.
Undoable ==
  Busy = {} /\ owner /\ ~torn /\ ~crossed => (blocked => memo.on) /\ suspended \subseteq memo.apps

\* "A phone handed back must never still demand the dealer's Google account":
\* it has its reset and its apps back, the first even when the app had lost its
\* own note of it, unless the platform refused or a check-in answered before
\* the release was still at work.
HandedBackWhole ==
  ~owner /\ Busy = {} /\ ~torn /\ ~crossed => frp = NoAccount /\ suspended = {}

\* What the app puts on a phone it can take off, and has taken off at the end.
StagesInOrder == Undoable /\ HandedBackWhole

=============================================================================
