-------------------------- MODULE Dashboard_proofs --------------------------
(***************************************************************************)
(* Theorems about the pages of the dashboard: Tabs, for any tabs, people   *)
(* and shops; Desk, for any loads under way; Screens, for any filters,     *)
(* searches, page sizes and requests; Export, for any rows and size of a   *)
(* chunk.                                                                  *)
(***************************************************************************)
EXTENDS Tabs, Desk, Screens, Export, SequenceTheorems, TLAPS

-----------------------------------------------------------------------------
(* Tabs *)

\* An owner's shop is a shop.
LEMMA OwnersShop == ShopOf \in [Owners -> Shops]
<1>1. PICK s \in Shops : TRUE
  BY TabsAssumption
<1>2. [o \in Owners |-> s] \in [Owners -> Shops]
  OBVIOUS
<1> QED
  BY <1>2 DEF ShopOf

\* What a tab shows after signing in is well typed and not in edit mode.
LEMMA ViewIsTyped ==
  ASSUME NEW u \in Everyone
  PROVE  /\ View(u) \in [user: Everyone \cup {Nobody}, shop: Shops \cup {NoShop}, edit: BOOLEAN]
         /\ ~View(u).edit
BY OwnersShop DEF View, Everyone

\* Every reachable state of the tabs is well typed.
THEOREM TabsTypeCorrect == TabsSpec => []TabsTypeOK
<1>1. TabsInit => TabsTypeOK
  BY DEF TabsInit, TabsTypeOK, SignedOut
<1>2. TabsTypeOK /\ [TabsNext]_tabVars => TabsTypeOK'
  <2> SUFFICES ASSUME TabsTypeOK, [TabsNext]_tabVars PROVE TabsTypeOK'
    OBVIOUS
  <2> USE DEF TabsTypeOK
  <2>1. ASSUME NEW w \in Windows, NEW u \in Everyone, Login(w, u) PROVE TabsTypeOK'
    BY <2>1 DEF Login
  <2>2. ASSUME NEW w \in Windows, Reload(w) PROVE TabsTypeOK'
    <3>1. stored # Nobody => stored \in Everyone
      OBVIOUS
    <3> QED
      BY <2>2, <3>1 DEF Reload, Opens, SignedOut
  <2>3. ASSUME NEW w \in Windows, ApplySession(w) PROVE TabsTypeOK'
    <3>1. PICK a \in asking[w] :
            /\ stored' = a.user
            /\ Opens(w, View(a.user))
            /\ asking' = [asking EXCEPT ![w] = {}]
            /\ UNCHANGED <<onPage, wrote>>
      BY <2>3 DEF ApplySession
    <3>2. a.user \in Everyone
      OBVIOUS
    <3> QED
      BY <3>1, <3>2, ViewIsTyped DEF Opens
  <2>4. ASSUME NEW w \in Windows, SessionFails(w) PROVE TabsTypeOK'
    BY <2>4 DEF SessionFails
  <2>5. ASSUME NEW w \in Windows, ClearSession(w) PROVE TabsTypeOK'
    BY <2>5 DEF ClearSession, Opens, SignedOut
  <2>6. ASSUME NEW w \in Windows, NEW s \in Shops \cup {NoShop}, SetSelectedDealerId(w, s)
        PROVE TabsTypeOK'
    BY <2>6 DEF SetSelectedDealerId, Opens, Opened
  <2>7. ASSUME NEW w \in Windows, NEW e \in BOOLEAN,
               tab' = [tab EXCEPT ![w].edit = e], agreed' = [agreed EXCEPT ![w] = e],
               UNCHANGED <<stored, onPage, asking, wrote>>
        PROVE TabsTypeOK'
    <3>1. tab' \in [Windows -> [user: Everyone \cup {Nobody}, shop: Shops \cup {NoShop}, edit: BOOLEAN]]
      BY <2>7
    <3> QED
      BY <2>7, <3>1
  <2>8. ASSUME NEW w \in Windows, Write(w) PROVE TabsTypeOK'
    <3>1. ActedOn(w) \in Shops \cup {NoShop}
      <4>1. onPage[w] \in Shops \cup {NoShop} /\ tab[w].shop \in Shops \cup {NoShop}
        OBVIOUS
      <4>2. stored \in Owners => ShopOf[stored] \in Shops
        BY OwnersShop
      <4> QED
        BY <4>1, <4>2 DEF ActedOn
    <3>2. stored \in Everyone /\ tab[w].user \in Everyone /\ ActedOn(w) \in Shops
      BY <2>8, <3>1 DEF Write
    <3>3. tab[w].shop \in Shops \cup {NoShop} /\ agreed[w] \in BOOLEAN
      OBVIOUS
    <3> QED
      BY <2>8, <3>2, <3>3 DEF Write
  <2>9. CASE UNCHANGED tabVars
    BY <2>9 DEF tabVars
  <2>10. ASSUME NEW w \in Windows, NEW s \in Shops \cup {NoShop}, GoTo(w, s) PROVE TabsTypeOK'
    BY <2>10 DEF GoTo
  <2> QED
    BY <2>1, <2>2, <2>3, <2>4, <2>5, <2>6, <2>7, <2>8, <2>9, <2>10 DEF TabsNext, TurnOn, TurnOff
<1> QED
  BY <1>1, <1>2, PTL DEF TabsSpec

-----------------------------------------------------------------------------
\* A platform admin's tab is in edit mode only if that was agreed to since the
\* tab last changed shop or person.
EditWasAgreed ==
  \A w \in Windows :
    tab[w].user \in Supers /\ tab[w].shop # NoShop /\ tab[w].edit => agreed[w]

\* What no tab can do by itself: change a shop that was only opened to look.
TabsInv == EditWasAgreed /\ EditsWereSwitchedOn

\* A tab that has just been given a person or a shop is back in view-only.
LEMMA OpensViewOnly ==
  ASSUME TabsTypeOK, EditWasAgreed, NEW w \in Windows, NEW view, Opens(w, view), ~view.edit
  PROVE  EditWasAgreed'
BY DEF TabsTypeOK, EditWasAgreed, Opens

\* One step of the tabs preserves the invariant.
LEMMA TabsStep ==
  ASSUME TabsTypeOK, TabsInv, [TabsNext]_tabVars
  PROVE  TabsInv'
<1> USE DEF TabsInv
<1>1. ASSUME NEW w \in Windows, NEW u \in Everyone, Login(w, u) PROVE TabsInv'
  BY <1>1 DEF Login, EditWasAgreed, EditsWereSwitchedOn
<1>2. ASSUME NEW w \in Windows, Reload(w) PROVE TabsInv'
  BY <1>2, OpensViewOnly DEF Reload, SignedOut, EditsWereSwitchedOn
<1>3. ASSUME NEW w \in Windows, ApplySession(w) PROVE TabsInv'
  <2>1. PICK a \in asking[w] : Opens(w, View(a.user)) /\ UNCHANGED <<onPage, wrote>>
    BY <1>3 DEF ApplySession
  <2>2. ~View(a.user).edit
    BY DEF View
  <2> QED
    BY <2>1, <2>2, OpensViewOnly DEF EditsWereSwitchedOn
<1>4. ASSUME NEW w \in Windows, SessionFails(w) PROVE TabsInv'
  BY <1>4 DEF SessionFails, EditWasAgreed, EditsWereSwitchedOn
<1>5. ASSUME NEW w \in Windows, ClearSession(w) PROVE TabsInv'
  BY <1>5, OpensViewOnly DEF ClearSession, SignedOut, EditsWereSwitchedOn
<1>6. ASSUME NEW w \in Windows, NEW s \in Shops \cup {NoShop}, SetSelectedDealerId(w, s)
      PROVE TabsInv'
  <2>1. ~Opened(tab[w], s).edit
    BY DEF Opened, TabsTypeOK
  <2> QED
    BY <1>6, <2>1, OpensViewOnly DEF SetSelectedDealerId, EditsWereSwitchedOn
<1>7. ASSUME NEW w \in Windows, TurnOn(w) PROVE TabsInv'
  BY <1>7 DEF TurnOn, EditWasAgreed, EditsWereSwitchedOn, TabsTypeOK
<1>8. ASSUME NEW w \in Windows, TurnOff(w) PROVE TabsInv'
  BY <1>8 DEF TurnOff, EditWasAgreed, EditsWereSwitchedOn, TabsTypeOK
<1>9. ASSUME NEW w \in Windows, Write(w) PROVE TabsInv'
  \* A write that shows the person who makes it comes from a tab that is not
  \* only viewing, and so from one in which editing was agreed to.
  <2>1. tab[w].user \in Supers /\ tab[w].shop # NoShop => agreed[w]
    BY <1>9 DEF Write, IsViewOnly, EditWasAgreed
  <2>2. EditsWereSwitchedOn'
    BY <1>9, <2>1 DEF Write, EditsWereSwitchedOn
  <2> QED
    BY <1>9, <2>2 DEF Write, EditWasAgreed
<1>10. CASE UNCHANGED tabVars
  BY <1>10 DEF tabVars, EditWasAgreed, EditsWereSwitchedOn
<1>11. ASSUME NEW w \in Windows, NEW s \in Shops \cup {NoShop}, GoTo(w, s) PROVE TabsInv'
  BY <1>11 DEF GoTo, EditWasAgreed, EditsWereSwitchedOn
<1> QED
  BY <1>1, <1>2, <1>3, <1>4, <1>5, <1>6, <1>7, <1>8, <1>9, <1>10, <1>11 DEF TabsNext

\* In any number of tabs: while a platform admin has a shop open, nothing leaves the tab that
\* was not agreed to since it was opened (the guard of AuthContext and ShopModeBanner).  A tab
\* with no shop open, as after a reload, has no guard, and one whose session another tab
\* replaced acts as somebody it does not show: of those the theorem says nothing.
THEOREM EditsSwitchedOn == TabsSpec => []EditsWereSwitchedOn
<1>1. TabsInit => TabsInv
  BY DEF TabsInit, TabsInv, EditWasAgreed, EditsWereSwitchedOn, SignedOut
<1>2. TabsTypeOK /\ TabsInv /\ [TabsNext]_tabVars => TabsInv'
  BY TabsStep
<1>3. TabsInv => EditsWereSwitchedOn
  BY DEF TabsInv
<1> QED
  BY <1>1, <1>2, <1>3, TabsTypeCorrect, PTL DEF TabsSpec

-----------------------------------------------------------------------------
(* Desk *)

Phones == [status: Record!Statuses, isOnline: BOOLEAN, noLock: BOOLEAN]
Views == [status: Record!Statuses, isOnline: BOOLEAN]

\* What a dialog, or an action confirmed from it, remembers is a status over
\* which the page offers it.  noLock never changes, so it is the phone's still.
Fits(x) ==
  /\ x.what = "unlock" => x.seen \in {"LOCKED", "LOCK_PENDING"}
  /\ x.what \in NeedsReason => x.seen \in Record!Releasable
  /\ x.what = "reEnroll" => x.seen \in Record!ReEnrollable /\ ~phone.noLock

\* The inductive invariant: types but for the counter of loads, fitting dialogs
\* and actions, and one action at a time, whose reason is there where the
\* dialog waits for it.
DeskInv ==
  /\ phone \in Phones /\ page \subseteq Views
  /\ dialog \subseteq Dialogs /\ act \subseteq Acts
  /\ \A x \in dialog : Fits(x)
  /\ \A a \in act : a.what # "edit" /\ Fits(a) /\ (a.what \in NeedsReason => a.reason)
  /\ \A a, b \in act : a = b

\* A dialog opened over a view remembers a status it is offered for.
LEMMA OpenedFits ==
  ASSUME phone \in Phones, NEW v \in Views, NEW what \in Whats, what \in Offered(v),
         NEW reason \in BOOLEAN
  PROVE  LET x == [what |-> what, seen |-> WhenAsked(what, v.status), reason |-> reason]
         IN x \in Dialogs /\ Fits(x)
<1> DEFINE x == [what |-> what, seen |-> WhenAsked(what, v.status), reason |-> reason]
<1>1. x \in Dialogs
  BY DEF Dialogs, WhenAsked, Record!Statuses, Views
<1>2. CASE what = "unlock"
  BY <1>1, <1>2 DEF Fits, WhenAsked, NeedsReason, Offered, ShownLocked
<1>3. CASE what = "reEnroll"
  BY <1>1, <1>3 DEF Fits, WhenAsked, NeedsReason, Offered, ShownLocked, Views,
    Record!Statuses, Record!Releasable, Record!ReEnrollable
<1>4. CASE what = "release"
  BY <1>1, <1>4 DEF Fits, WhenAsked, NeedsReason, Offered, ShownLocked, Views,
    Record!Statuses, Record!Releasable
<1>5. CASE what \notin {"unlock", "reEnroll", "release"}
  BY <1>1, <1>5 DEF Fits, NeedsReason
<1> QED
  BY <1>2, <1>3, <1>4, <1>5

\* The handlers leave the record with a status.
LEMMA HandledIsStatus ==
  ASSUME phone \in Phones, NEW a \in Acts, a.what # "edit"
  PROVE  Handled(a) \subseteq Record!Statuses
<1>1. /\ LockHandled \subseteq Record!Statuses /\ UnlockHandled \subseteq Record!Statuses
      /\ ReEnrollHandled \subseteq Record!Statuses /\ ReleaseHandled \subseteq Record!Statuses
      /\ MessageHandled \subseteq Record!Statuses /\ RebootHandled \subseteq Record!Statuses
  BY DEF Phones, LockHandled, UnlockHandled, ReEnrollHandled, ReleaseHandled, MessageHandled,
    RebootHandled, Record!Statuses
<1>2. a.what \in {"lock", "unlock", "reEnroll", "release", "message", "reboot"}
  BY DEF Acts, Whats
<1>3. CASE ~a.reason
  BY <1>3 DEF Handled
<1>4. CASE a.reason
  <2>1. Handled(a) \in {LockHandled, UnlockHandled, ReEnrollHandled, ReleaseHandled,
                        MessageHandled, RebootHandled}
    BY <1>2, <1>4 DEF Handled
  <2> QED
    BY <1>1, <2>1
<1> QED
  BY <1>3, <1>4

\* Fits depends on the phone's noLock only, which no step changes.
LEMMA NoLockStays ==
  ASSUME DeskInv, [DeskNext]_deskVars
  PROVE  /\ phone' \in Phones
         /\ phone'.noLock = phone.noLock
<1> USE DEF DeskInv
<1>1. CASE Elsewhere
  <2>1. \A s \in Record!Statuses : Record!ValidNext[s] \subseteq Record!Statuses
    BY DEF Record!ValidNext, Record!Statuses
  <2> QED
    BY <1>1, <2>1, ZenonT(60) DEF Elsewhere, Phones, Record!Statuses
<1>2. CASE ServerActs
  <2>1. PICK a \in act :
          \E s \in Handled(a) :
            phone' = [phone EXCEPT !.status = s, !.isOnline = @ /\ a.what # "reEnroll"]
    BY <1>2 DEF ServerActs
  <2>2. Handled(a) \subseteq Record!Statuses
    BY HandledIsStatus
  <2>3. (phone.isOnline /\ a.what # "reEnroll") \in BOOLEAN
    OBVIOUS
  <2> QED
    BY <2>1, <2>2, <2>3 DEF Phones
<1>3. CASE UNCHANGED phone
  BY <1>3
<1> QED
  BY <1>1, <1>2, <1>3 DEF DeskNext, deskVars, LoadEnds, LoadFailed, Reopened, OpenDialog, TypeReason,
    CancelDialog, Confirm, Reboot, EditSaved, ActDone, ReEnrollDone, ActFailed

LEMMA DeskInductive == DeskInit => DeskInv
BY DEF DeskInit, DeskInv, Phones, Record!Statuses

LEMMA DeskStep == DeskInv /\ [DeskNext]_deskVars => DeskInv'
<1> SUFFICES ASSUME DeskInv, [DeskNext]_deskVars PROVE DeskInv'
  OBVIOUS
<1> USE DEF DeskInv
<1>1. phone' \in Phones /\ phone'.noLock = phone.noLock
  BY NoLockStays
<1>2. \A x : Fits(x) => Fits(x)'
  BY <1>1 DEF Fits
<1>3. CASE UNCHANGED <<page, dialog, act>>
  BY <1>1, <1>2, <1>3
<1>4. CASE LoadEnds
  BY <1>1, <1>2, <1>4 DEF LoadEnds, Phones, Views
<1>5. CASE Reopened
  BY <1>1, <1>2, <1>5 DEF Reopened
<1>6. ASSUME NEW what \in Whats, OpenDialog(what) PROVE DeskInv'
  <2>1. PICK v \in page :
          /\ what \in Offered(v)
          /\ dialog' = {[what |-> what, seen |-> WhenAsked(what, v.status), reason |-> what # "release"]}
    BY <1>6 DEF OpenDialog
  <2>2. \A x \in dialog' : x \in Dialogs /\ Fits(x)
    BY <2>1, OpenedFits
  <2> QED
    BY <1>1, <1>2, <1>6, <2>2 DEF OpenDialog
<1>7. CASE TypeReason
  <2>1. PICK x \in dialog : dialog' = {[x EXCEPT !.reason = ~@]}
    BY <1>7 DEF TypeReason
  <2>2. [x EXCEPT !.reason = ~@] \in Dialogs /\ Fits([x EXCEPT !.reason = ~@])
    BY DEF Dialogs, Fits
  <2> QED
    BY <1>1, <1>2, <1>7, <2>1, <2>2 DEF TypeReason
<1>8. CASE CancelDialog
  BY <1>1, <1>2, <1>8 DEF CancelDialog
<1>9. CASE Confirm
  <2>1. PICK x \in dialog :
          /\ x.what # "edit" /\ (x.what \in NeedsReason => x.reason)
          /\ act' = {[what |-> x.what, seen |-> x.seen, reason |-> x.reason, at |-> "way"]}
    BY <1>9 DEF Confirm
  <2>2. \A a \in act' : /\ a \in Acts /\ a.what # "edit" /\ Fits(a)
                        /\ (a.what \in NeedsReason => a.reason)
    BY <2>1 DEF Dialogs, Acts, Fits
  <2> QED
    BY <1>1, <1>2, <1>9, <2>1, <2>2 DEF Confirm
<1>10. CASE Reboot
  <2> DEFINE r == [what |-> "reboot", seen |-> "ACTIVE", reason |-> TRUE, at |-> "way"]
  <2>1. act' = {r}
    <3>1. \A status : WhenAsked("reboot", status) = "ACTIVE"
      BY DEF WhenAsked, NeedsReason
    <3> QED
      BY <1>10, <3>1 DEF Reboot
  <2>2. r \in Acts
    BY DEF Acts, Whats, Record!Statuses
  <2>3. r.what # "edit" /\ Fits(r) /\ r.reason
    BY DEF Fits, NeedsReason
  <2> QED
    BY <1>1, <1>2, <1>10, <2>1, <2>2, <2>3 DEF Reboot
<1>11. CASE EditSaved
  BY <1>1, <1>2, <1>11 DEF EditSaved
<1>12. CASE ServerActs
  <2>1. PICK a \in act : act' = {[a EXCEPT !.at = "done"]}
    BY <1>12 DEF ServerActs
  <2>2. /\ [a EXCEPT !.at = "done"] \in Acts
        /\ [a EXCEPT !.at = "done"].what # "edit"
        /\ Fits([a EXCEPT !.at = "done"])
        /\ a.what \in NeedsReason => [a EXCEPT !.at = "done"].reason
    BY DEF Acts, Fits
  <2>3. [a EXCEPT !.at = "done"].what = a.what
    BY DEF Acts
  <2> QED
    BY <1>1, <1>2, <1>12, <2>1, <2>2, <2>3 DEF ServerActs
<1>13. CASE ActDone
  BY <1>1, <1>2, <1>13 DEF ActDone
<1>14. CASE ReEnrollDone
  BY <1>1, <1>2, <1>14 DEF ReEnrollDone
<1>15. CASE ActFailed
  BY <1>1, <1>2, <1>15 DEF ActFailed
<1> QED
  BY <1>3, <1>4, <1>5, <1>6, <1>7, <1>8, <1>9, <1>10, <1>11, <1>12, <1>13, <1>14, <1>15
     DEF DeskNext, deskVars, Elsewhere, LoadFailed

-----------------------------------------------------------------------------
\* The handlers take nothing back that was released, but for an unlock.
LEMMA OnlyUnlockTakesBack ==
  ASSUME phone \in Phones, phone.status = "INACTIVE", NEW a \in Acts,
         a.what \notin {"edit", "unlock"}
  PROVE  Handled(a) \subseteq {"INACTIVE"}
<1>1. a.what \in {"lock", "reEnroll", "release", "message", "reboot"}
  BY DEF Acts, Whats
<1>2. LockHandled = {}
  BY DEF LockHandled, ShownLocked, Record!CanMove, Record!ValidNext
<1>3. ReEnrollHandled = {} /\ ReleaseHandled = {}
  BY DEF ReEnrollHandled, ReleaseHandled, Record!ReEnrollable, Record!Releasable
<1>4. MessageHandled \subseteq {"INACTIVE"} /\ RebootHandled \subseteq {"INACTIVE"}
  BY DEF MessageHandled, RebootHandled
<1>5. CASE ~a.reason
  BY <1>5 DEF Handled
<1>6. CASE a.reason
  <2>1. Handled(a) \in {LockHandled, ReEnrollHandled, ReleaseHandled, MessageHandled, RebootHandled}
    BY <1>1, <1>6 DEF Handled
  <2> QED
    BY <1>2, <1>3, <1>4, <2>1
<1> QED
  BY <1>5, <1>6

\* Whatever a desk's request does, whenever it is carried out: it takes a
\* released phone back only from a dialog opened over a locked one, and a
\* re-enrolment or a release over the status it was asked for is done.
THEOREM DeskMeansWhatItSays == DeskSpec => DeskMeansIt
<1>1. DeskInv /\ [DeskNext]_deskVars =>
        [\A a \in act : a.at = "way" /\ (\E b \in act' : b.at # "way")
           => NotTakenBackUnawares(a) /\ DoneIfCurrent(a)]_deskVars
  <2> SUFFICES ASSUME DeskInv, DeskNext, NEW a \in act, a.at = "way",
                      NEW b \in act', b.at # "way"
               PROVE  NotTakenBackUnawares(a) /\ DoneIfCurrent(a)
    OBVIOUS
  <2> USE DEF DeskInv
  <2>1. DoneIfCurrent(a)
    <3>1. SUFFICES ASSUME a.what \in NeedsReason, a.seen = phone.status PROVE Handled(a) # {}
      BY DEF DoneIfCurrent
    <3>2. CASE a.what = "reEnroll"
      <4>1. ReEnrollHandled = {"PENDING"}
        BY <3>1, <3>2 DEF Fits, ReEnrollHandled
      <4> QED
        BY <3>1, <3>2, <4>1 DEF Handled
    <3>3. CASE a.what = "release"
      <4>1. ReleaseHandled = {"INACTIVE"}
        BY <3>1, <3>3 DEF Fits, ReleaseHandled
      <4> QED
        BY <3>1, <3>3, <4>1 DEF Handled
    <3> QED
      BY <3>1, <3>2, <3>3 DEF NeedsReason
  <2>2. ServerActs
    BY DEF DeskNext, Elsewhere, LoadEnds, LoadFailed, Reopened, OpenDialog, TypeReason,
      CancelDialog, Confirm, Reboot, EditSaved, ActDone, ReEnrollDone, ActFailed
  <2>3. NotTakenBackUnawares(a)
    <3>1. SUFFICES ASSUME phone.status = "INACTIVE", phone'.status \notin {"INACTIVE", "REMOVED"}
                   PROVE  a.what = "unlock" /\ a.seen \in {"LOCKED", "LOCK_PENDING"}
      BY DEF NotTakenBackUnawares
    <3>2. PICK c \in act :
            \E s \in Handled(c) :
              phone' = [phone EXCEPT !.status = s, !.isOnline = @ /\ c.what # "reEnroll"]
      BY <2>2 DEF ServerActs
    <3>3. c = a /\ phone'.status \in Handled(a)
      BY <3>2 DEF Phones
    <3>4. a.what = "unlock"
      BY <3>1, <3>3, OnlyUnlockTakesBack
    <3> QED
      BY <3>4 DEF Fits
  <2> QED
    BY <2>1, <2>3
<1> QED
  BY <1>1, DeskInductive, DeskStep, PTL DEF DeskSpec, DeskMeansIt

-----------------------------------------------------------------------------
(* Screens *)

\* What the newest request asked for: it is the last of those under way, or
\* the one whose answer is in the table.
NewestAsksForIt ==
  ~outrun /\ ~unsubmitted =>
    /\ newest = "due" => flight[Len(flight)] = want
    /\ newest = "shown" => shown.query = want

ScreensInv ==
  /\ ScreensTypeOK
  /\ newest = "due" => flight # <<>>
  /\ NewestAsksForIt
  /\ shown.page = Least(shown.query.page, shown.pages)
  /\ ~turned => want.page = 1

LEMMA ScreensTyping ==
  ScreensTypeOK <=>
    /\ screen \in Lists
    /\ want \in Queries /\ shown \in [query: Queries, page: 1..MaxPages, pages: 1..MaxPages]
    /\ flight \in Seq(Queries) /\ Len(flight) <= MaxInFlight
    /\ acting \in SUBSET Queries
    /\ newest \in {"due", "shown", "lost"}
    /\ loading \in BOOLEAN /\ turned \in BOOLEAN /\ unsubmitted \in BOOLEAN /\ outrun \in BOOLEAN
BY DEF ScreensTypeOK

\* One request, and two.
LEMMA FewQueries ==
  ASSUME NEW p \in Queries, NEW q \in Queries
  PROVE  /\ <<q>> \in Seq(Queries) /\ <<q>> # <<>> /\ <<q>>[Len(<<q>>)] = q
         /\ <<p, q>> \in Seq(Queries) /\ <<p, q>> # <<>> /\ <<p, q>>[Len(<<p, q>>)] = q
OBVIOUS

LEMMA ScreenRecords ==
  /\ \A q \in Queries : /\ \A f \in Filters : [q EXCEPT !.filter = f] \in Queries
                        /\ \A s \in Searches : [q EXCEPT !.search = s] \in Queries
                        /\ \A z \in PageSizes : [q EXCEPT !.size = z, !.page = 1] \in Queries
                        /\ \A p \in 1..MaxPages : [q EXCEPT !.page = p] \in Queries
                        /\ FirstPage(q) \in Queries /\ FirstPage(q).page = 1
                        /\ q.page \in 1..MaxPages
<1> SUFFICES ASSUME NEW q \in Queries
             PROVE  /\ \A f \in Filters : [q EXCEPT !.filter = f] \in Queries
                    /\ \A s \in Searches : [q EXCEPT !.search = s] \in Queries
                    /\ \A z \in PageSizes : [q EXCEPT !.size = z, !.page = 1] \in Queries
                    /\ \A p \in 1..MaxPages : [q EXCEPT !.page = p] \in Queries
                    /\ FirstPage(q) \in Queries /\ FirstPage(q).page = 1
                    /\ q.page \in 1..MaxPages
  OBVIOUS
<1>1. 1 \in 1..MaxPages  BY ScreensAssumption
<1>2. \A f \in Filters : [q EXCEPT !.filter = f] \in Queries  BY DEF Queries
<1>3. \A s \in Searches : [q EXCEPT !.search = s] \in Queries  BY DEF Queries
<1>4. \A z \in PageSizes : [q EXCEPT !.size = z, !.page = 1] \in Queries  BY <1>1 DEF Queries
<1>5. \A p \in 1..MaxPages : [q EXCEPT !.page = p] \in Queries  BY DEF Queries
<1>6. [q EXCEPT !.page = 1].page = 1 /\ q.page \in 1..MaxPages  BY DEF Queries
<1> QED  BY <1>1, <1>2, <1>3, <1>4, <1>5, <1>6 DEF FirstPage

\* An answer taken out leaves the others in their order.
LEMMA OthersWait ==
  ASSUME NEW s \in Seq(Queries), NEW i \in 1..Len(s)
  PROVE  LET rest == SubSeq(s, 1, i - 1) \o SubSeq(s, i + 1, Len(s)) IN
         /\ rest \in Seq(Queries) /\ Len(rest) = Len(s) - 1
         /\ i # Len(s) => rest # <<>> /\ rest[Len(rest)] = s[Len(s)]
<1> DEFINE a == SubSeq(s, 1, i - 1)
           b == SubSeq(s, i + 1, Len(s))
<1>1. a \in Seq(Queries) /\ Len(a) = i - 1  OBVIOUS
<1>2. b \in Seq(Queries) /\ Len(b) = Len(s) - i  OBVIOUS
<1>3. i # Len(s) => b[Len(b)] = s[Len(s)]
  <2>1. ASSUME i # Len(s) PROVE b[Len(s) - i] = s[i + (Len(s) - i)]  BY <2>1
  <2>2. Len(b) = Len(s) - i /\ i + (Len(s) - i) = Len(s)  BY <1>2
  <2> HIDE DEF b
  <2> QED  BY <2>1, <2>2
<1> HIDE DEF a, b
<1>4. (a \o b) \in Seq(Queries) /\ Len(a \o b) = Len(s) - 1  BY <1>1, <1>2
<1>5. i # Len(s) => (a \o b)[Len(a \o b)] = b[Len(b)]  BY <1>1, <1>2, <1>4, SMTT(40)
<1>6. i # Len(s) => (a \o b) # <<>>  BY <1>4
<1> QED  BY <1>3, <1>4, <1>5, <1>6 DEF a, b

\* Whatever is sent last is the newest request.
LEMMA SentIsNewest ==
  ASSUME ScreensTypeOK, NEW q \in Seq(Queries), q # <<>>, Send(q)
  PROVE  /\ flight' \in Seq(Queries) /\ Len(flight') <= MaxInFlight /\ flight' # <<>>
         /\ flight'[Len(flight')] = q[Len(q)]
         /\ newest' = "due" /\ {loading', unsubmitted', outrun'} \subseteq BOOLEAN
BY ScreensAssumption DEF ScreensTypeOK, Send

\* A control that asks for the list again asks for what it says now.
LEMMA AskingStep ==
  ASSUME ScreensInv, NEW q \in Seq(Queries), q # <<>>, Send(q), q[Len(q)] = want',
         want' \in Queries, turned' \in BOOLEAN, ~turned' => want'.page = 1,
         UNCHANGED <<screen, shown, acting>>
  PROVE  ScreensInv'
BY SentIsNewest DEF ScreensInv, ScreensTypeOK, NewestAsksForIt

LEMMA ScreensControls ==
  ASSUME ScreensInv,
         \/ \E f \in Filters : SetFilter(f)
         \/ \E z \in PageSizes : SetLimit(z)
         \/ \E s \in Searches : Type(s)
         \/ \E p \in 1..MaxPages : TurnPage(p)
         \/ Submit
  PROVE  ScreensInv'
<1> USE ScreenRecords DEF ScreensInv
<1>0. want \in Queries  BY DEF ScreensTypeOK
<1>1. ASSUME NEW f \in Filters, SetFilter(f) PROVE ScreensInv'
  <2>1. want' = FirstPage([want EXCEPT !.filter = f]) /\ turned' = FALSE
        /\ UNCHANGED <<screen, shown, acting>> /\ Send(Loads(want, want'))
    BY <1>1 DEF SetFilter
  <2>2. want' \in Queries /\ want'.page = 1  BY <1>0, <2>1
  <2>3. [want' EXCEPT !.page = want.page] \in Queries  BY <1>0, <2>2
  <2>4. /\ Loads(want, want') \in Seq(Queries) /\ Loads(want, want') # <<>>
        /\ Loads(want, want')[Len(Loads(want, want'))] = want'
    BY <2>2, <2>3, FewQueries DEF Loads
  <2> QED  BY <2>1, <2>2, <2>4, AskingStep
<1>2. ASSUME NEW z \in PageSizes, SetLimit(z) PROVE ScreensInv'
  <2>1. want' = [want EXCEPT !.size = z, !.page = 1] /\ turned' = FALSE
        /\ UNCHANGED <<screen, shown, acting>> /\ Send(<<want'>>)
    BY <1>2 DEF SetLimit
  <2>2. want' \in Queries /\ want'.page = 1
    BY <1>0, <2>1 DEF Queries
  <2> QED  BY <2>1, <2>2, AskingStep, FewQueries
<1>3. ASSUME NEW s \in Searches, Type(s) PROVE ScreensInv'
  <2>1. want' = FirstPage([want EXCEPT !.search = s]) /\ turned' = FALSE
        /\ UNCHANGED <<screen, shown, acting>>
    BY <1>3 DEF Type
  <2>2. want' \in Queries /\ want'.page = 1  BY <1>0, <2>1
  <2>3. CASE want'.page = want.page
    BY <1>3, <2>1, <2>2, <2>3 DEF Type, ScreensTypeOK, NewestAsksForIt
  <2>4. CASE want'.page # want.page
    BY <1>3, <2>1, <2>2, <2>4, AskingStep, FewQueries DEF Type
  <2> QED  BY <2>3, <2>4
<1>4. ASSUME NEW p \in 1..MaxPages, TurnPage(p) PROVE ScreensInv'
  <2>1. want' = [want EXCEPT !.page = p] /\ turned' = TRUE /\ UNCHANGED <<screen, shown, acting>>
        /\ Send(IF p = want.page THEN <<>> ELSE <<want'>>)
    BY <1>4 DEF TurnPage
  <2>2. want' \in Queries  BY <1>0, <2>1
  <2>3. CASE p = want.page
    <3>1. want' = want  BY <1>0, <2>1, <2>3 DEF Queries
    <3>2. Send(<<>>)  BY <2>1, <2>3
    <3>3. UNCHANGED <<flight, loading, newest, unsubmitted, outrun>>
      <4>1. flight' = flight \o <<>>  BY <3>2 DEF Send
      <4>2. flight' = flight  BY <4>1, ScreensTyping, ConcatEmptySeq
      <4> QED  BY <3>2, <4>2, ScreensTyping DEF Send
    <3> QED  BY <2>1, <3>1, <3>3 DEF ScreensTypeOK, NewestAsksForIt
  <2>4. CASE p # want.page
    BY <2>1, <2>2, <2>4, AskingStep, FewQueries
  <2> QED  BY <2>3, <2>4
<1>5. ASSUME Submit PROVE ScreensInv'
  <2>1. UNCHANGED <<screen, want, shown, acting, turned>> /\ Send(<<want>>)  BY <1>5 DEF Submit
  <2>2. turned \in BOOLEAN  BY ScreensTyping
  <2> QED  BY <1>0, <2>1, <2>2, AskingStep, FewQueries
<1> QED  BY <1>1, <1>2, <1>3, <1>4, <1>5

LEMMA ScreensActions ==
  ASSUME ScreensInv, ActBegins \/ ActEnds \/ ActFails
  PROVE  ScreensInv'
<1> USE DEF ScreensInv
<1>1. CASE ActBegins  BY <1>1 DEF ActBegins, ScreensTypeOK, NewestAsksForIt
<1>2. CASE ActFails  BY <1>2 DEF ActFails, ScreensTypeOK, NewestAsksForIt
<1>3. CASE ActEnds
  <2>1. PICK known \in acting : /\ flight' = Append(flight, known)
                                /\ outrun' = (known # want)
                                /\ unsubmitted' = (unsubmitted /\ known.search # want.search)
    BY <1>3 DEF ActEnds
  <2>2. /\ Len(flight) < MaxInFlight /\ loading' = TRUE /\ newest' = "due" /\ acting' = {}
        /\ UNCHANGED <<screen, want, shown, turned>>
    BY <1>3 DEF ActEnds
  <2>3. known \in Queries  BY DEF ScreensTypeOK
  <2>4. flight' \in Seq(Queries) /\ Len(flight') <= MaxInFlight /\ flight' # <<>>
        /\ flight'[Len(flight')] = known
    BY <2>1, <2>2, <2>3, ScreensAssumption DEF ScreensTypeOK
  <2>5. ScreensTypeOK'  BY <2>1, <2>2, <2>4 DEF ScreensTypeOK
  <2>6. NewestAsksForIt'  BY <2>1, <2>2, <2>4 DEF NewestAsksForIt
  <2> QED  BY <2>2, <2>4, <2>5, <2>6
<1> QED  BY <1>1, <1>2, <1>3

LEMMA ScreensAnswers ==
  ASSUME ScreensInv, NEW i \in 1..MaxInFlight, NEW n \in 1..MaxPages, Fails(i) \/ Lands(i, n)
  PROVE  ScreensInv'
<1> USE DEF ScreensInv
<1>1. i \in 1..Len(flight) /\ flight \in Seq(Queries)
  BY DEF Fails, Lands, ScreensTypeOK
<1>2. /\ flight' \in Seq(Queries) /\ Len(flight') = Len(flight) - 1
      /\ i # Len(flight) => flight' # <<>> /\ flight'[Len(flight')] = flight[Len(flight)]
  BY <1>1, OthersWait DEF Fails, Lands, Without
<1>3. flight[i] \in Queries  BY <1>1
<1>4. /\ loading' = FALSE /\ UNCHANGED <<screen, want, acting, turned, unsubmitted, outrun>>
      /\ newest' \in {"due", "shown", "lost"}
      /\ newest' = "due" => newest = "due" /\ i # Len(flight)
  BY DEF Fails, Lands, ScreensTypeOK
<1>5. CASE Fails(i)
  <2>1. shown' = shown /\ (newest' = "shown" => newest = "shown")  BY <1>5 DEF Fails
  <2>2. ScreensTypeOK'
    <3>1. {loading', turned', unsubmitted', outrun'} \subseteq BOOLEAN  BY <1>4, ScreensTyping
    <3>2. Len(flight') <= MaxInFlight  BY <1>1, <1>2, ScreensTyping, ScreensAssumption
    <3> QED  BY <1>2, <1>4, <2>1, <3>1, <3>2 DEF ScreensTypeOK
  <2> QED  BY <1>2, <1>4, <2>1, <2>2 DEF NewestAsksForIt
<1>6. CASE Lands(i, n)
  <2>1. /\ shown' = [query |-> flight[i], page |-> Least(flight[i].page, n), pages |-> n]
        /\ newest' = "shown" => newest = "due" /\ i = Len(flight)
    BY <1>6 DEF Lands
  <2>2. Least(flight[i].page, n) \in 1..MaxPages  BY <1>3, ScreenRecords DEF Least
  <2>3. shown' \in [query: Queries, page: 1..MaxPages, pages: 1..MaxPages]
        /\ shown'.page = Least(shown'.query.page, shown'.pages) /\ shown'.query = flight[i]
    BY <1>3, <2>1, <2>2
  <2>4. ScreensTypeOK'
    <3>1. {loading', turned', unsubmitted', outrun'} \subseteq BOOLEAN  BY <1>4, ScreensTyping
    <3>2. Len(flight') <= MaxInFlight  BY <1>1, <1>2, ScreensTyping, ScreensAssumption
    <3> QED  BY <1>2, <1>4, <2>3, <3>1, <3>2 DEF ScreensTypeOK
  <2>5. NewestAsksForIt'
    BY <1>1, <1>2, <1>4, <2>1, <2>3 DEF NewestAsksForIt
  <2> QED  BY <1>2, <1>4, <2>3, <2>4, <2>5
<1> QED  BY <1>5, <1>6

LEMMA ScreensInitOK == ScreensInit => ScreensInv
<1> SUFFICES ASSUME ScreensInit PROVE ScreensInv  OBVIOUS
<1>1. PICK f \in Filters, s \in Searches, z \in PageSizes, n \in 1..MaxPages :
        /\ want = [filter |-> f, search |-> s, size |-> z, page |-> 1]
        /\ shown = [query |-> want, page |-> 1, pages |-> n]
  BY DEF ScreensInit
<1>2. want \in Queries /\ want.page = 1  BY <1>1, ScreensAssumption DEF Queries
<1>3. shown \in [query: Queries, page: 1..MaxPages, pages: 1..MaxPages]
      /\ shown.query = want /\ shown.page = 1 /\ shown.pages = n
  BY <1>1, <1>2, ScreensAssumption
<1>4. Least(1, n) = 1  BY DEF Least
<1>5. ScreensTypeOK
  <2>1. flight = <<>> /\ <<>> \in Seq(Queries) /\ Len(<<>>) = 0  BY DEF ScreensInit
  <2>2. Len(flight) <= MaxInFlight /\ flight \in Seq(Queries)  BY <2>1, ScreensAssumption
  <2>3. /\ screen \in Lists /\ loading = FALSE /\ newest = "shown" /\ acting = {}
        /\ turned = FALSE /\ unsubmitted = FALSE /\ outrun = FALSE
    BY DEF ScreensInit
  <2> QED  BY <1>2, <1>3, <2>2, <2>3, ScreensTyping
<1> QED  BY <1>2, <1>3, <1>4, <1>5 DEF ScreensInit, ScreensInv, NewestAsksForIt

LEMMA ScreensStep == ScreensInv /\ [ScreensNext]_screenVars => ScreensInv'
<1>1. ASSUME ScreensInv, UNCHANGED screenVars PROVE ScreensInv'
  BY <1>1 DEF screenVars, ScreensInv, ScreensTypeOK, NewestAsksForIt
<1>2. ASSUME ScreensInv, ScreensNext PROVE ScreensInv'
  <2>1. 1 \in 1..MaxPages  BY ScreensAssumption
  <2> QED  BY <1>2, <2>1, ScreensControls, ScreensActions, ScreensAnswers DEF ScreensNext
<1> QED  BY <1>1, <1>2

LEMMA ScreensImplies == ScreensInv => ScreenIsCurrent
<1> SUFFICES ASSUME ScreensInv, AtRest, ~outrun, ~unsubmitted
             PROVE  /\ [shown.query EXCEPT !.page = want.page] = want
                    /\ shown.page = Least(want.page, shown.pages)
                    /\ ~turned => shown.page = 1
  BY DEF ScreenIsCurrent
<1>1. shown.query = want /\ want \in Queries
  BY DEF ScreensInv, ScreensTypeOK, NewestAsksForIt, AtRest
<1>2. [want EXCEPT !.page = want.page] = want  BY <1>1 DEF Queries
<1>3. shown.page = Least(want.page, shown.pages) /\ shown.pages \in 1..MaxPages
  BY <1>1 DEF ScreensInv, ScreensTypeOK
<1>4. ~turned => Least(want.page, shown.pages) = 1
  BY <1>3, ScreensAssumption DEF ScreensInv, Least
<1> QED  BY <1>1, <1>2, <1>3, <1>4

\* For any filters, searches, page sizes and requests under way: what a list
\* asks for, waits for and shows keeps its type.
THEOREM ScreensTypeCorrect == ScreensSpec => []ScreensTypeOK
<1>1. ScreensInv => ScreensTypeOK  BY DEF ScreensInv
<1> QED  BY <1>1, ScreensInitOK, ScreensStep, PTL DEF ScreensSpec

\* A list at rest shows what its controls ask for, with the exceptions that
\* ScreenIsCurrent names, for any number of requests under way and any answers.
THEOREM ListsAreCurrent == ScreensSpec => []ScreenIsCurrent
BY ScreensInitOK, ScreensStep, ScreensImplies, PTL DEF ScreensSpec

-----------------------------------------------------------------------------
(* Export *)

InFile(r, s) == \E i \in 1..Len(s) : s[i] = r

\* A row stands further down the list than n others.
Below(r, n) == \E p \in 1..Len(table) : p > n /\ table[p] = r

\* A row that is expected has been collected, or is in the answer being read,
\* or still lies beyond the chunks asked for.
NothingPassed ==
  /\ answer.rows = {} => \A r \in expected : InFile(r, rows) \/ Below(r, (export.page - 1) * CHUNK_SIZE)
  /\ \A got \in answer.rows, r \in expected :
       InFile(r, rows) \/ InFile(r, got) \/ Below(r, export.page * CHUNK_SIZE)
  /\ answer.rows = {} => \A total \in answer.total : total = Len(table)
  /\ \A got \in answer.rows, total \in answer.total, r \in expected :
       InFile(r, rows) \/ InFile(r, got) \/ total > export.page * CHUNK_SIZE

ExportShape ==
  /\ ExportTypeOK
  /\ export.at # "asking" => answer = Unread
  /\ export.at = "asking" => export.page <= MAX_CHUNKS
  /\ answer \in [rows: SUBSET Seq(Rows), total: SUBSET Nat]
  /\ \A g, h \in answer.rows : g = h
  /\ \A m, n \in answer.total : m = n

ExportInv ==
  /\ ExportShape
  /\ export.at = "asking" /\ ~slid => NothingPassed
  /\ export.at = "done" /\ ~slid /\ export.pages < export.page => \A r \in expected : InFile(r, rows)

-----------------------------------------------------------------------------
(* Sequences of rows *)

LEMMA RowsJoined ==
  ASSUME NEW s \in Seq(Rows), NEW t \in Seq(Rows)
  PROVE  /\ s \o t \in Seq(Rows) /\ Len(s \o t) = Len(s) + Len(t)
         /\ Len(s) \in Nat /\ Len(t) \in Nat
         /\ \A p \in 1..Len(s) : (s \o t)[p] = s[p]
         /\ \A p \in 1..Len(t) : (s \o t)[Len(s) + p] = t[p]
OBVIOUS

LEMMA SliceOfTable ==
  ASSUME table \in Seq(Rows), NEW chunk \in Nat \ {0}
  PROVE  /\ Slice(chunk) \in Seq(Rows)
         /\ \A r : Below(r, (chunk - 1) * CHUNK_SIZE) => InFile(r, Slice(chunk)) \/ Below(r, chunk * CHUNK_SIZE)
<1> DEFINE m == (chunk - 1) * CHUNK_SIZE
           n == IF chunk * CHUNK_SIZE < Len(table) THEN chunk * CHUNK_SIZE ELSE Len(table)
<1>1. m \in Nat /\ chunk * CHUNK_SIZE \in Nat /\ m <= chunk * CHUNK_SIZE /\ n \in Nat /\ n <= Len(table)
  BY ExportAssumption
<1>2. Slice(chunk) = SubSeq(table, m + 1, n)  BY DEF Slice
<1>3. \A p \in 1..Len(table) : p > chunk * CHUNK_SIZE \/ p <= n  BY <1>1
<1> HIDE DEF m, n
<1>4. SubSeq(table, m + 1, n) \in Seq(Rows)  BY <1>1
<1>5. ASSUME NEW p \in 1..Len(table), p > m, p <= n
      PROVE  p - m \in 1..Len(Slice(chunk)) /\ Slice(chunk)[p - m] = table[p]
  BY <1>1, <1>2, <1>5
<1>6. ASSUME NEW r, Below(r, m) PROVE InFile(r, Slice(chunk)) \/ Below(r, chunk * CHUNK_SIZE)
  <2>1. PICK p \in 1..Len(table) : p > m /\ table[p] = r  BY <1>6 DEF Below
  <2>2. CASE p > chunk * CHUNK_SIZE  BY <2>1, <2>2 DEF Below
  <2>3. CASE p <= n  BY <1>5, <2>1, <2>3 DEF InFile
  <2> QED  BY <1>3, <2>2, <2>3
<1> QED  BY <1>2, <1>4, <1>6 DEF m

\* What is added to the file leaves in it what was there.
LEMMA FileGrows ==
  ASSUME NEW s \in Seq(Rows), NEW t \in Seq(Rows), NEW r
  PROVE  /\ s \o t \in Seq(Rows)
         /\ InFile(r, s) \/ InFile(r, t) => InFile(r, s \o t)
<1>1. s \o t \in Seq(Rows) /\ Len(s \o t) = Len(s) + Len(t)  OBVIOUS
<1>2. ASSUME NEW i \in 1..Len(s), s[i] = r PROVE InFile(r, s \o t)
  <2>1. i \in 1..Len(s \o t) /\ (s \o t)[i] = r  BY <1>1, <1>2
  <2> QED  BY <2>1 DEF InFile
<1>3. ASSUME NEW i \in 1..Len(t), t[i] = r PROVE InFile(r, s \o t)
  <2>1. Len(s) + i \in 1..Len(s \o t) /\ (s \o t)[Len(s) + i] = r  BY <1>1, <1>3
  <2> QED  BY <2>1 DEF InFile
<1> QED  BY <1>1, <1>2, <1>3 DEF InFile

\* Enough pages for all there is, and no more rows than fit on them.
LEMMA PagesHoldAll ==
  ASSUME NEW total \in Nat
  PROVE  /\ Pages(total) \in Nat \ {0}
         /\ \A chunk \in Nat : chunk >= Pages(total) => total <= chunk * CHUNK_SIZE
<1> USE ExportAssumption
<1>1. TotalPages(total) \in Nat \ {0} /\ total <= TotalPages(total) * CHUNK_SIZE  BY DEF TotalPages
<1>2. ASSUME NEW chunk \in Nat, NEW p \in Nat, chunk >= p PROVE p * CHUNK_SIZE <= chunk * CHUNK_SIZE
  BY <1>2
<1>3. ASSUME NEW chunk \in Nat, chunk >= TotalPages(total) PROVE total <= chunk * CHUNK_SIZE
  <2>1. TotalPages(total) * CHUNK_SIZE <= chunk * CHUNK_SIZE  BY <1>1, <1>2, <1>3
  <2>2. TotalPages(total) * CHUNK_SIZE \in Nat /\ chunk * CHUNK_SIZE \in Nat  BY <1>1
  <2> HIDE DEF TotalPages
  <2> QED  BY <1>1, <2>1, <2>2
<1> QED  BY <1>1, <1>3 DEF Pages

\* A row goes in anywhere, or comes to the top: the others keep their order
\* and stand no higher than before.
LEMMA OthersSinkAdded ==
  ASSUME table \in Seq(Rows), NEW a \in Rows, NEW i \in 1..(Len(table) + 1),
         table' = InsertAt(table, i, a)
  PROVE  /\ table' \in Seq(Rows)
         /\ \A r, n : n \in Nat /\ Below(r, n) => Below(r, n)'
<1> DEFINE u == SubSeq(table, 1, i - 1)
           v == SubSeq(table, i, Len(table))
<1>1. u \in Seq(Rows) /\ Len(u) = i - 1  OBVIOUS
<1>2. v \in Seq(Rows) /\ Len(v) = Len(table) - i + 1  OBVIOUS
<1>3. \A p \in 1..(i - 1) : u[p] = table[p]  OBVIOUS
<1>4. \A p \in i..Len(table) : v[p - i + 1] = table[p]  OBVIOUS
<1>5. table' = u \o <<a>> \o v  BY DEF InsertAt
<1> HIDE DEF u, v
<1>6. /\ table' \in Seq(Rows) /\ Len(table') = Len(table) + 1
      /\ \A p \in 1..(i - 1) : table'[p] = table[p]
      /\ \A p \in i..Len(table) : table'[p + 1] = table[p]
  <2> DEFINE w == u \o <<a>>
  <2>0. <<a>> \in Seq(Rows) /\ Len(<<a>>) = 1 /\ Len(table) \in Nat  OBVIOUS
  <2>1. w \in Seq(Rows) /\ Len(w) = i /\ \A p \in 1..(i - 1) : w[p] = u[p]  BY <1>1, <2>0, RowsJoined
  <2>2. table' = w \o v  BY <1>5
  <2> HIDE DEF w
  <2>3. /\ w \o v \in Seq(Rows) /\ Len(w \o v) = i + (Len(table) - i + 1)
        /\ \A p \in 1..i : (w \o v)[p] = w[p]
        /\ \A p \in 1..(Len(table) - i + 1) : (w \o v)[i + p] = v[p]
    BY <1>2, <2>1, RowsJoined
  <2>4. i + (Len(table) - i + 1) = Len(table) + 1  BY <2>0
  <2>5. ASSUME NEW p \in 1..(i - 1) PROVE (w \o v)[p] = table[p]
    BY <1>3, <2>1, <2>3
  <2>6. ASSUME NEW p \in i..Len(table) PROVE (w \o v)[p + 1] = table[p]
    <3>1. p - i + 1 \in 1..(Len(table) - i + 1) /\ i + (p - i + 1) = p + 1  BY <2>0
    <3> QED  BY <1>4, <2>3, <3>1
  <2> QED  BY <2>2, <2>3, <2>4, <2>5, <2>6
<1>7. ASSUME NEW r, NEW n \in Nat, Below(r, n) PROVE Below(r, n)'
  <2>1. PICK p \in 1..Len(table) : p > n /\ table[p] = r  BY <1>7 DEF Below
  <2>2. CASE p < i
    <3>1. p \in 1..Len(table') /\ table'[p] = r  BY <1>6, <2>1, <2>2
    <3> QED  BY <2>1, <3>1 DEF Below
  <2>3. CASE p >= i
    <3>1. p + 1 \in 1..Len(table') /\ table'[p + 1] = r /\ p + 1 > n  BY <1>6, <2>1, <2>3
    <3> QED  BY <3>1 DEF Below
  <2> QED  BY <2>2, <2>3
<1> QED  BY <1>6, <1>7

LEMMA OthersSinkChanged ==
  ASSUME table \in Seq(Rows), NEW i \in 1..Len(table),
         table' = <<table[i]>> \o RemoveAt(table, i)
  PROVE  /\ table' \in Seq(Rows)
         /\ \A r, n : n \in Nat /\ Below(r, n) /\ r # table[i] => Below(r, n)'
<1> DEFINE u == SubSeq(table, 1, i - 1)
           v == SubSeq(table, i + 1, Len(table))
           w == <<table[i]>>
<1>1. u \in Seq(Rows) /\ Len(u) = i - 1  OBVIOUS
<1>2. v \in Seq(Rows) /\ Len(v) = Len(table) - i  OBVIOUS
<1>3. \A p \in 1..(i - 1) : u[p] = table[p]  OBVIOUS
<1>4. \A p \in (i + 1)..Len(table) : v[p - i] = table[p]  OBVIOUS
<1>5. table' = w \o (u \o v)  BY DEF RemoveAt
<1>6. w \in Seq(Rows) /\ Len(w) = 1  OBVIOUS
<1> HIDE DEF u, v, w
<1>7. /\ table' \in Seq(Rows) /\ Len(table') = Len(table)
      /\ \A p \in 1..(i - 1) : table'[p + 1] = table[p]
      /\ \A p \in (i + 1)..Len(table) : table'[p] = table[p]
  <2> DEFINE x == u \o v
  <2>0. Len(table) \in Nat /\ (i - 1) + (Len(table) - i) = Len(table) - 1  OBVIOUS
  <2>1. /\ x \in Seq(Rows) /\ Len(x) = Len(table) - 1
        /\ \A p \in 1..(i - 1) : x[p] = u[p]
        /\ \A p \in 1..(Len(table) - i) : x[i - 1 + p] = v[p]
    <3>1. /\ u \o v \in Seq(Rows) /\ Len(u \o v) = Len(u) + Len(v)
          /\ \A p \in 1..Len(u) : (u \o v)[p] = u[p]
          /\ \A p \in 1..Len(v) : (u \o v)[Len(u) + p] = v[p]
      BY <1>1, <1>2, RowsJoined
    <3> QED  BY <1>1, <1>2, <2>0, <3>1
  <2>2. table' = w \o x  BY <1>5
  <2> HIDE DEF x
  <2>3. /\ w \o x \in Seq(Rows) /\ Len(w \o x) = 1 + (Len(table) - 1)
        /\ \A p \in 1..(Len(table) - 1) : (w \o x)[1 + p] = x[p]
    <3>1. /\ w \o x \in Seq(Rows) /\ Len(w \o x) = Len(w) + Len(x)
          /\ \A p \in 1..Len(x) : (w \o x)[Len(w) + p] = x[p]
      BY <1>6, <2>1, RowsJoined
    <3> QED  BY <1>6, <2>0, <2>1, <3>1
  <2>4. 1 + (Len(table) - 1) = Len(table)  BY <2>0
  <2>5. ASSUME NEW p \in 1..(i - 1) PROVE (w \o x)[p + 1] = table[p]
    <3>1. p \in 1..(Len(table) - 1) /\ 1 + p = p + 1  BY <2>0
    <3> QED  BY <1>3, <2>1, <2>3, <3>1
  <2>6. ASSUME NEW p \in (i + 1)..Len(table) PROVE (w \o x)[p] = table[p]
    <3>1. /\ p - 1 \in 1..(Len(table) - 1) /\ 1 + (p - 1) = p
          /\ p - i \in 1..(Len(table) - i) /\ i - 1 + (p - i) = p - 1
      BY <2>0
    <3>2. (w \o x)[1 + (p - 1)] = x[p - 1]  BY <2>3, <3>1
    <3>3. x[i - 1 + (p - i)] = v[p - i]  BY <2>1, <3>1
    <3> QED  BY <1>4, <3>1, <3>2, <3>3
  <2> QED  BY <2>2, <2>3, <2>4, <2>5, <2>6
<1>8. ASSUME NEW r, NEW n \in Nat, Below(r, n), r # table[i] PROVE Below(r, n)'
  <2>1. PICK p \in 1..Len(table) : p > n /\ table[p] = r  BY <1>8 DEF Below
  <2>2. CASE p < i
    <3>1. p \in 1..(i - 1) /\ p + 1 \in 1..Len(table) /\ p + 1 > n  BY <2>1, <2>2
    <3>2. Len(table') = Len(table) /\ table'[p + 1] = r  BY <1>7, <2>1, <3>1
    <3> QED  BY <3>1, <3>2 DEF Below
  <2>3. CASE p > i
    <3>1. p \in 1..Len(table') /\ table'[p] = r  BY <1>7, <2>1, <2>3
    <3> QED  BY <2>1, <3>1 DEF Below
  <2>4. p # i  BY <1>8, <2>1
  <2> QED  BY <2>2, <2>3, <2>4
<1> QED  BY <1>7, <1>8

-----------------------------------------------------------------------------
(* The steps *)

LEMMA ExportInitOK == ExportInit => ExportInv
<1> SUFFICES ASSUME ExportInit PROVE ExportInv  OBVIOUS
<1>1. PICK m \in 0..3 : table \in [1..m -> Rows]  BY DEF ExportInit, Tables, SeqOf
<1>2. table \in Seq(Rows)  BY <1>1
<1>3. answer = Unread /\ Unread \in [rows: SUBSET Seq(Rows), total: SUBSET Nat]
      /\ Unread.rows = {} /\ Unread.total = {}
  BY DEF ExportInit, Unread
<1>4. export = Idle /\ Idle.at = "idle" /\ Idle \in [at: {"idle", "asking", "done", "failed"},
                                                page: 1..(MAX_CHUNKS + 1), pages: Nat \ {0}]
  BY ExportAssumption DEF ExportInit, Idle
<1>5. rows = <<>> /\ <<>> \in Seq(Rows) /\ expected = {} /\ slid = FALSE  BY DEF ExportInit
<1>6. ExportTypeOK  BY <1>2, <1>3, <1>4, <1>5 DEF ExportTypeOK
<1> QED  BY <1>3, <1>4, <1>5, <1>6 DEF ExportInv, ExportShape

LEMMA ExportClickStep ==
  ASSUME ExportInv, Click \/ ExportFails
  PROVE  ExportInv'
<1>1. answer' = Unread /\ Unread \in [rows: SUBSET Seq(Rows), total: SUBSET Nat]
      /\ Unread.rows = {} /\ Unread.total = {} /\ table' = table /\ rows' = <<>> /\ <<>> \in Seq(Rows)
  BY DEF Click, ExportFails, Unread
<1>2. /\ export' \in [at: {"idle", "asking", "done", "failed"}, page: 1..(MAX_CHUNKS + 1), pages: Nat \ {0}]
      /\ export'.page = 1 /\ export'.at \in {"idle", "asking"} /\ export'.page <= MAX_CHUNKS
  BY ExportAssumption DEF Click, ExportFails, Idle
<1>3. table \in Seq(Rows)  BY DEF ExportInv, ExportShape, ExportTypeOK
<1>4. ExportTypeOK'
  <2>1. ToSet(table) \subseteq Rows  BY <1>3 DEF ToSet
  <2>2. expected' \subseteq Rows /\ slid' \in BOOLEAN
    BY <2>1 DEF Click, ExportFails, ExportInv, ExportShape, ExportTypeOK
  <2> QED  BY <1>1, <1>2, <1>3, <2>2 DEF ExportTypeOK
<1>5. ExportShape'  BY <1>1, <1>2, <1>4 DEF ExportShape
<1>6. ASSUME export'.at = "asking", ~slid' PROVE NothingPassed'
  <2>1. Click  BY <1>6 DEF ExportFails, Idle
  <2>2. expected' = ToSet(table)  BY <2>1 DEF Click
  <2>3. \A r \in expected' : \E p \in 1..Len(table) : table[p] = r  BY <1>3, <2>2 DEF ToSet
  <2>4. (export'.page - 1) * CHUNK_SIZE = 0  BY <1>2, ExportAssumption
  <2>5. \A r \in expected' : Below(r, 0)'  BY <1>1, <1>3, <2>3 DEF Below
  <2> QED  BY <1>1, <2>4, <2>5 DEF NothingPassed
<1> QED  BY <1>2, <1>5, <1>6 DEF ExportInv

LEMMA ExportReadStep ==
  ASSUME ExportInv, ReadRows \/ ReadTotal
  PROVE  ExportInv'
<1>1. UNCHANGED <<table, export, rows, expected, slid>> /\ export.at = "asking"
  BY DEF ReadRows, ReadTotal
<1>2. /\ table \in Seq(Rows) /\ export.page \in Nat \ {0} /\ Len(table) \in Nat
      /\ answer \in [rows: SUBSET Seq(Rows), total: SUBSET Nat]
  BY ExportAssumption DEF ExportInv, ExportShape, ExportTypeOK
<1>3. CASE ReadRows
  <2>1. answer' = [answer EXCEPT !.rows = {Slice(export.page)}] /\ answer.rows = {}
    BY <1>3 DEF ReadRows
  <2>2. Slice(export.page) \in Seq(Rows)  BY <1>2, SliceOfTable
  <2>3. answer' \in [rows: SUBSET Seq(Rows), total: SUBSET Nat]
        /\ answer'.rows = {Slice(export.page)} /\ answer'.total = answer.total
    BY <1>2, <2>1, <2>2
  <2>4. ExportShape'
    BY <1>1, <2>3 DEF ExportInv, ExportShape, ExportTypeOK
  <2>5. ASSUME ~slid PROVE NothingPassed'
    <3>1. NothingPassed  BY <1>1, <2>5 DEF ExportInv
    <3>2. \A r \in expected : InFile(r, rows) \/ InFile(r, Slice(export.page))
                               \/ Below(r, export.page * CHUNK_SIZE)
      BY <1>2, <2>1, <3>1, SliceOfTable DEF NothingPassed
    <3>3. \A r : Below(r, export.page * CHUNK_SIZE) => Len(table) > export.page * CHUNK_SIZE
      BY <1>2, ExportAssumption DEF Below
    <3>4. \A r : Below(r, export.page * CHUNK_SIZE)' <=> Below(r, export.page * CHUNK_SIZE)
      BY <1>1 DEF Below
    <3> QED  BY <1>1, <2>1, <2>3, <3>1, <3>2, <3>3, <3>4 DEF NothingPassed
  <2> QED  BY <1>1, <2>4, <2>5 DEF ExportInv
<1>4. CASE ReadTotal
  <2>1. answer' = [answer EXCEPT !.total = {Len(table)}] /\ answer.total = {}
    BY <1>4 DEF ReadTotal
  <2>3. answer' \in [rows: SUBSET Seq(Rows), total: SUBSET Nat]
        /\ answer'.rows = answer.rows /\ answer'.total = {Len(table)}
    BY <1>2, <2>1
  <2>4. ExportShape'
    BY <1>1, <2>3 DEF ExportInv, ExportShape, ExportTypeOK
  <2>5. ASSUME ~slid PROVE NothingPassed'
    <3>1. NothingPassed  BY <1>1, <2>5 DEF ExportInv
    <3>3. \A r : Below(r, export.page * CHUNK_SIZE) => Len(table) > export.page * CHUNK_SIZE
      BY <1>2, ExportAssumption DEF Below
    <3>4. \A r, n : Below(r, n)' <=> Below(r, n')
      BY <1>1 DEF Below
    <3> QED  BY <1>1, <2>3, <3>1, <3>3, <3>4 DEF NothingPassed
  <2> QED  BY <1>1, <2>4, <2>5 DEF ExportInv
<1> QED  BY <1>3, <1>4

LEMMA ExportAddStep ==
  ASSUME ExportInv, AddToFile
  PROVE  ExportInv'
<1>1. PICK got \in answer.rows, total \in answer.total :
        /\ rows' = rows \o Corrected(export.page, got, total)
        /\ export' = [at |-> IF export.page < Pages(total) /\ export.page < MAX_CHUNKS
                             THEN "asking" ELSE "done",
                      page |-> export.page + 1, pages |-> Pages(total)]
  BY DEF AddToFile
<1>2. answer' = Unread /\ UNCHANGED <<table, expected, slid>>  BY DEF AddToFile
<1>3. /\ table \in Seq(Rows) /\ rows \in Seq(Rows) /\ export.page \in 1..(MAX_CHUNKS + 1)
      /\ got \in Seq(Rows) /\ total \in Nat /\ export.at = "asking" /\ export.page <= MAX_CHUNKS
  <2>1. answer # Unread  BY <1>1 DEF Unread
  <2> QED  BY <1>1, <2>1 DEF ExportInv, ExportShape, ExportTypeOK
<1>4. Pages(total) \in Nat \ {0}  BY <1>3, PagesHoldAll
<1>5. Corrected(export.page, got, total) \in Seq(Rows)
  BY <1>3, <1>4, SliceOfTable DEF Corrected, Pages
<1>6. \A r : InFile(r, got) => InFile(r, Corrected(export.page, got, total))
  <2>1. \A r : InFile(r, got) => got # <<>>  BY <1>3 DEF InFile
  <2> QED  BY <2>1 DEF Corrected
<1>7. rows' \in Seq(Rows) /\ \A r : InFile(r, rows) \/ InFile(r, got) => InFile(r, rows')
  BY <1>1, <1>3, <1>5, <1>6, FileGrows
<1>8. /\ export' \in [at: {"idle", "asking", "done", "failed"}, page: 1..(MAX_CHUNKS + 1), pages: Nat \ {0}]
      /\ export'.page = export.page + 1 /\ export'.pages = Pages(total)
      /\ export'.at = "asking" => export'.page <= MAX_CHUNKS
  BY <1>1, <1>3, <1>4, ExportAssumption
<1>9. answer' \in [rows: SUBSET Seq(Rows), total: SUBSET Nat] /\ answer'.rows = {} /\ answer'.total = {}
  BY <1>2 DEF Unread
<1>10. ExportShape'
  BY <1>2, <1>7, <1>8, <1>9 DEF ExportInv, ExportShape, ExportTypeOK
<1>11. ASSUME export'.at = "asking", ~slid' PROVE NothingPassed'
  <2>1. NothingPassed  BY <1>2, <1>3, <1>11 DEF ExportInv
  <2>2. export'.page - 1 = export.page  BY <1>3, <1>8
  <2>3. \A r \in expected : InFile(r, rows') \/ Below(r, export.page * CHUNK_SIZE)
    BY <1>1, <1>7, <2>1 DEF NothingPassed
  <2>4. \A r, n : Below(r, n)' <=> Below(r, n')  BY <1>2 DEF Below
  <2> QED  BY <1>2, <1>9, <2>2, <2>3, <2>4 DEF NothingPassed
<1>12. ASSUME export'.at = "done", ~slid', export'.pages < export'.page
       PROVE  \A r \in expected' : InFile(r, rows')
  <2>1. NothingPassed  BY <1>2, <1>3, <1>12 DEF ExportInv
  <2>2. export.page >= Pages(total)  BY <1>3, <1>4, <1>8, <1>12
  <2>3. total <= export.page * CHUNK_SIZE
    <3>1. export.page \in Nat  BY <1>3, ExportAssumption
    <3> QED  BY <1>3, <2>2, <3>1, PagesHoldAll
  <2>4. export.page * CHUNK_SIZE \in Nat  BY <1>3, ExportAssumption
  <2>5. ~(total > export.page * CHUNK_SIZE)  BY <1>3, <2>3, <2>4
  <2> QED  BY <1>1, <1>2, <1>7, <2>1, <2>5 DEF NothingPassed
<1> QED  BY <1>10, <1>11, <1>12 DEF ExportInv

\* Nothing of the export itself changes, and what is expected stands no
\* higher.
LEMMA ExportTableMoves ==
  ASSUME ExportInv, table' \in Seq(Rows), UNCHANGED <<export, answer, rows>>,
         expected' \subseteq expected, slid' \in BOOLEAN,
         ~slid' => /\ ~slid
                   /\ answer.total = {} \/ answer.rows # {}
                   /\ \A r, n : r \in expected' /\ n \in Nat /\ Below(r, n) => Below(r, n)'
  PROVE  ExportInv'
<1>1. ExportShape'  BY DEF ExportInv, ExportShape, ExportTypeOK
<1>2. export.page \in Nat \ {0} /\ (export.page - 1) * CHUNK_SIZE \in Nat /\ export.page * CHUNK_SIZE \in Nat
  BY ExportAssumption, SMTT(40) DEF ExportInv, ExportShape, ExportTypeOK
<1>3. ASSUME export.at = "asking", ~slid' PROVE NothingPassed'
  <2>1. NothingPassed  BY <1>3 DEF ExportInv
  <2>2. answer.total = {} \/ answer.rows # {}  BY <1>3
  <2>3. \A r \in expected' :
          /\ Below(r, (export.page - 1) * CHUNK_SIZE) => Below(r, (export.page - 1) * CHUNK_SIZE)'
          /\ Below(r, export.page * CHUNK_SIZE) => Below(r, export.page * CHUNK_SIZE)'
    BY <1>2, <1>3
  <2> QED  BY <2>1, <2>2, <2>3 DEF NothingPassed
<1>4. ASSUME export.at = "done", ~slid', export.pages < export.page
      PROVE  \A r \in expected' : InFile(r, rows)
  BY <1>4 DEF ExportInv
<1> QED  BY <1>1, <1>3, <1>4 DEF ExportInv

LEMMA ExportTableStep ==
  ASSUME ExportInv, NEW i \in 1..(Len(table) + 1),
         RowChanged(i) \/ RowLeaves(i) \/ \E r \in Rows : RowAdded(r, i)
  PROVE  ExportInv'
<1>1. table \in Seq(Rows) /\ slid \in BOOLEAN  BY DEF ExportInv, ExportShape, ExportTypeOK
<1>2. ASSUME NEW r \in Rows, RowAdded(r, i) PROVE ExportInv'
  <2>1. table' = InsertAt(table, i, r) /\ UNCHANGED <<export, answer, rows, expected>>
        /\ slid' = (slid \/ (answer.total # {} /\ answer.rows = {}))
    BY <1>2 DEF RowAdded
  <2>2. table' \in Seq(Rows) /\ \A x, n : n \in Nat /\ Below(x, n) => Below(x, n)'
    BY <1>1, <2>1, OthersSinkAdded
  <2> QED  BY <1>1, <2>1, <2>2, ExportTableMoves
<1>3. CASE RowChanged(i)
  <2>1. /\ i \in 1..Len(table) /\ table' = <<table[i]>> \o RemoveAt(table, i)
        /\ UNCHANGED <<export, answer, rows>> /\ expected' = expected \ {table[i]}
        /\ slid' = (slid \/ (answer.total # {} /\ answer.rows = {}))
    BY <1>3 DEF RowChanged
  <2>2. table' \in Seq(Rows) /\ \A x, n : n \in Nat /\ Below(x, n) /\ x # table[i] => Below(x, n)'
    BY <1>1, <2>1, OthersSinkChanged
  <2> QED  BY <1>1, <2>1, <2>2, ExportTableMoves
<1>4. CASE RowLeaves(i)
  <2>1. /\ i \in 1..Len(table) /\ table' = RemoveAt(table, i)
        /\ UNCHANGED <<export, answer, rows>> /\ expected' = expected \ {table[i]} /\ slid' = TRUE
    BY <1>4 DEF RowLeaves
  <2>2. table' \in Seq(Rows)  BY <1>1, <2>1 DEF RemoveAt
  <2> QED  BY <2>1, <2>2, ExportTableMoves
<1> QED  BY <1>2, <1>3, <1>4

LEMMA ExportStep == ExportInv /\ [ExportNext]_exportVars => ExportInv'
<1>1. ASSUME ExportInv, UNCHANGED exportVars PROVE ExportInv'
  BY <1>1, SMTT(20) DEF exportVars, ExportInv, ExportShape, ExportTypeOK, NothingPassed, Below
<1>2. ASSUME ExportInv, ExportNext PROVE ExportInv'
  BY <1>2, ExportClickStep, ExportReadStep, ExportAddStep, ExportTableStep DEF ExportNext
<1> QED  BY <1>1, <1>2

LEMMA ExportImplies == ExportInv => ExportLosesNothing
<1>1. \A r : rows \in Seq(Rows) /\ InFile(r, rows) => r \in ToSet(rows)  BY DEF InFile, ToSet
<1> QED  BY <1>1 DEF ExportInv, ExportShape, ExportTypeOK, ExportLosesNothing

\* For any rows, chunk size and greatest number of chunks: the export keeps its
\* types.
THEOREM ExportTypeCorrect == ExportSpec => []ExportTypeOK
<1>1. ExportInv => ExportTypeOK  BY DEF ExportInv, ExportShape
<1> QED  BY <1>1, ExportInitOK, ExportStep, PTL DEF ExportSpec

\* An export that asked for every chunk there is holds every row that kept its
\* place or moved down meanwhile, for any list, however it changes.
THEOREM FileIsWhole == ExportSpec => []ExportLosesNothing
BY ExportInitOK, ExportStep, ExportImplies, PTL DEF ExportSpec

=============================================================================
