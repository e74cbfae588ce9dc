------------------------------ MODULE Records ------------------------------
(***************************************************************************)
(* The forms that correct what is on record, with several people at them:  *)
(* a customer's details (EditCustomerModal), a phone's (EditDeviceModal)   *)
(* and a shop's settings (SettingsPage), down to the checks and the writes *)
(* of customers.routes, devices.routes and settings.routes.                *)
(*                                                                         *)
(* Of a record, one plain column is kept and one that identifies it: the   *)
(* mobile number of a customer, the IMEI of a phone.  The settings page    *)
(* has two cards, of which the profile stands for the first column and the *)
(* policy for the second.                                                  *)
(*                                                                         *)
(* Definitions named "...Forgotten" are faulty variants.                   *)
(***************************************************************************)
EXTENDS FiniteSets, Naturals

CONSTANTS
  Kinds,       \* which of the forms are tried
  Editors,     \* people with a form
  Subjects,    \* the records
  NoSubject,   \* what a closed form is about
  Plain,       \* what the plain column may hold, ...
  Identities,  \* ... and the identifying one
  MaxLoads,    \* answers on their way to one settings page
  MaxSaves     \* how often Save is pressed

ASSUME RecordsAssumption ==
  /\ Kinds \subseteq {"customer", "device", "settings"}
  /\ NoSubject \notin Subjects /\ Plain # {} /\ Identities # {}
  /\ MaxLoads \in Nat \ {0} /\ MaxSaves \in Nat

VARIABLES
  kind,    \* which of the forms this is
  records, \* the database: Subjects -> columns
  form,    \* Editors -> [of, copy, typed, touched, abreast]
  sent,    \* Editors -> the request on its way: {} or one
  loads,   \* Editors -> the shops a settings page has asked for
  saves    \* how often Save was pressed

recordVars == <<kind, records, form, sent, loads, saves>>

Fields == {"plain", "identity"}
Columns == [plain: Plain, identity: Identities]

\* touched and abreast are history: which fields the editor has changed since
\* the form was filled; and, for settings, that the form was filled from the
\* shop it is about, which nobody else has changed since.
Forms == [of: Subjects \cup {NoSubject}, copy: Columns, typed: Columns,
          touched: SUBSET Fields, abreast: BOOLEAN]

\* raced is history too: an identity was written after this request's check.
Posts == [of: Subjects, row: Columns, due: SUBSET Fields, touched: SUBSET Fields,
          checked: BOOLEAN, abreast: BOOLEAN, raced: BOOLEAN]

RecordsTypeOK ==
  /\ kind \in Kinds
  /\ records \in [Subjects -> Columns]
  /\ form \in [Editors -> Forms]
  /\ \A e \in Editors : sent[e] \subseteq Posts /\ Cardinality(sent[e]) <= 1
  /\ loads \in [Editors -> SUBSET Subjects]
  /\ saves \in 0..MaxSaves

\* What the settings page holds before anything was loaded.
Defaults == [plain |-> CHOOSE v \in Plain : TRUE, identity |-> CHOOSE v \in Identities : TRUE]

Blank == [of |-> NoSubject, copy |-> Defaults, typed |-> Defaults,
          touched |-> {}, abreast |-> FALSE]

Same(t, u) == t.identity = u.identity

RecordsInit ==
  /\ kind \in Kinds
  /\ records \in [Subjects -> Columns]
  /\ kind # "settings" => \A s, t \in Subjects : s # t => ~Same(records[s], records[t])
  /\ form = [e \in Editors |-> Blank]
  /\ sent = [e \in Editors |-> {}]
  /\ loads = [e \in Editors |-> {}]
  /\ saves = 0

-----------------------------------------------------------------------------
(* Filling the form *)

\* The page of a customer or a phone loads, and its Edit button fills the form
\* with what was loaded; nothing on the page changes in between.
OpenForm(e, s) ==
  /\ kind # "settings" /\ form[e].of = NoSubject
  /\ form' = [form EXCEPT ![e] =
       [of |-> s, copy |-> records[s], typed |-> records[s], touched |-> {}, abreast |-> FALSE]]
  /\ UNCHANGED <<kind, records, sent, loads, saves>>

\* The settings page opens, or another shop is selected: the form now saves
\* into that shop, and shows the one before until an answer lands.
SelectShop(e, s) ==
  /\ kind = "settings" /\ form[e].of # s
  /\ Cardinality(loads[e]) < MaxLoads
  /\ form' = [form EXCEPT ![e] = [@ EXCEPT !.of = s, !.touched = {}, !.abreast = FALSE]]
  /\ loads' = [loads EXCEPT ![e] = @ \cup {s}]
  /\ UNCHANGED <<kind, records, sent, saves>>

\* The fill leaves out a switch the form has.
FilledForgotten(f, row) == [f EXCEPT !.plain = row.plain]

Filled(f, row) == [c \in DOMAIN f |-> row[c]]

\* A form filled again; near: with the shop it is about, as that shop is.
FilledAgain(f, row, near) ==
  [f EXCEPT !.typed = Filled(@, row), !.touched = {}, !.abreast = near]

\* GET /settings: what the shop holds then.  The answer fills the form
\* whichever shop it is about.
LoadLands(e) ==
  \E s \in loads[e] :
    /\ form' = [form EXCEPT ![e] =
         FilledAgain(@, records[s], s = form[e].of /\ sent[e] = {})]
    /\ loads' = [loads EXCEPT ![e] = @ \ {s}]
    /\ UNCHANGED <<kind, records, sent, saves>>

\* The form keeps what it has.
LoadFails(e) ==
  \E s \in loads[e] :
    /\ loads' = [loads EXCEPT ![e] = @ \ {s}]
    /\ UNCHANGED <<kind, records, form, sent, saves>>

-----------------------------------------------------------------------------
(* Editing and saving *)

\* Bound: the inputs stay enabled while a save is on its way, but what is
\* typed then is as if typed after it.
Types(e, c, v) ==
  /\ form[e].of # NoSubject /\ sent[e] = {} /\ form[e].typed[c] # v
  /\ form' = [form EXCEPT ![e].typed[c] = v, ![e].touched = @ \cup {c}]
  /\ UNCHANGED <<kind, records, sent, loads, saves>>

EditCustomer(e) ==
  /\ kind = "customer"
  /\ (\E v \in Plain : Types(e, "plain", v)) \/ (\E v \in Identities : Types(e, "identity", v))

EditDevice(e) == kind = "device" /\ \E v \in Plain : Types(e, "plain", v)

\* The correction has a section of its own, and is given up by typing the IMEI
\* there was: an empty box.
TypeImei(e) == kind = "device" /\ \E v \in Identities : Types(e, "identity", v)

EditProfile(e) == kind = "settings" /\ \E v \in Plain : Types(e, "plain", v)

EditPolicyCard(e) == kind = "settings" /\ \E v \in Identities : Types(e, "identity", v)

\* Cancel, the cross and Escape, none of which works during a save.
CloseForm(e) ==
  /\ kind # "settings" /\ form[e].of # NoSubject /\ sent[e] = {}
  /\ form' = [form EXCEPT ![e] = Blank]
  /\ UNCHANGED <<kind, records, sent, loads, saves>>

ChangedForgotten(f) == DOMAIN f.typed

\* "Send only what actually changed."
Changed(f) == {c \in DOMAIN f.typed : f.typed[c] # f.copy[c]}

\* What Save may send.  Each card of the settings page sends all it shows,
\* changed or not.
Sendable(f) == IF kind = "settings" THEN {{c} : c \in Fields} ELSE {Changed(f)} \ {{}}

Save(e) ==
  /\ form[e].of # NoSubject /\ sent[e] = {} /\ saves < MaxSaves
  /\ saves' = saves + 1
  /\ \E due \in Sendable(form[e]) :
       sent' = [sent EXCEPT ![e] =
         {[of |-> form[e].of, row |-> form[e].typed, due |-> due, touched |-> form[e].touched,
           checked |-> FALSE, abreast |-> form[e].abreast, raced |-> FALSE]}]
  /\ UNCHANGED <<kind, records, form, loads>>

\* A phone's IMEI goes in a request of its own, after the rest was accepted.
NextPart(r) == IF kind = "device" /\ "plain" \in r.due THEN {"plain"} ELSE r.due

\* Somebody else's record has the identity this one would get.
Taken(r) == \E s \in Subjects \ {r.of} : Same(records[s], r.row)

DuplicateCustomer(r) == kind = "customer" /\ "identity" \in r.due /\ Taken(r)

ImeiTaken(r) == kind = "device" /\ NextPart(r) = {"identity"} /\ Taken(r)

\* It is looked for first, ...
SaveChecked(e) ==
  \E r \in sent[e] :
    /\ ~r.checked
    /\ sent' = [sent EXCEPT ![e] = 
         IF DuplicateCustomer(r) \/ ImeiTaken(r) THEN {} ELSE {[r EXCEPT !.checked = TRUE]}]
    /\ UNCHANGED <<kind, records, form, loads, saves>>

\* ... and written after.  An IMEI has a unique index, a mobile number none.
IndexRefuses(r) == ImeiTaken(r)

RowSaved(r) == [c \in Fields |-> IF c \in NextPart(r) THEN r.row[c] ELSE records[r.of][c]]

\* The other requests that passed their checks before this write, ...
RacedBy(r, x) ==
  IF r.checked /\ "identity" \in NextPart(x) THEN [r EXCEPT !.raced = TRUE] ELSE r

\* ... and what was filled before it.
PostBehind(q, x) == [RacedBy(q, x) EXCEPT !.abreast = @ /\ q.of # x.of]
FormBehind(f, x) == [f EXCEPT !.abreast = @ /\ f.of # x.of]

\* The answer arrives: the next part is sent, or the form closes, except the
\* settings page.  Or it is lost, and the form stays as it is.
SaveWritten(e) ==
  \E r \in sent[e] :
    /\ r.checked /\ ~IndexRefuses(r)
    /\ records' = [records EXCEPT ![r.of] = RowSaved(r)]
    /\ \E answered \in BOOLEAN :
         LET rest == r.due \ NextPart(r)
             done == answered /\ rest = {} /\ kind # "settings"
         IN /\ sent' = [x \in Editors |->
                 IF x # e THEN {PostBehind(q, r) : q \in sent[x]}
                 ELSE IF answered /\ rest # {}
                 THEN {[r EXCEPT !.due = rest, !.checked = FALSE, !.raced = FALSE]} ELSE {}]
            /\ form' = [x \in Editors |->
                 IF x # e THEN FormBehind(form[x], r) ELSE IF done THEN Blank ELSE form[x]]
    /\ UNCHANGED <<kind, loads, saves>>

\* The request never arrives, or is refused: by the index, by a schema, for
\* want of a right.
SaveFails(e) ==
  /\ sent[e] # {}
  /\ sent' = [sent EXCEPT ![e] = {}]
  /\ UNCHANGED <<kind, records, form, loads, saves>>

-----------------------------------------------------------------------------
RecordsNext ==
  \E e \in Editors :
    \/ \E s \in Subjects : OpenForm(e, s) \/ SelectShop(e, s)
    \/ LoadLands(e) \/ LoadFails(e)
    \/ EditCustomer(e) \/ EditDevice(e) \/ TypeImei(e) \/ EditProfile(e) \/ EditPolicyCard(e)
    \/ CloseForm(e) \/ Save(e) \/ SaveChecked(e) \/ SaveWritten(e) \/ SaveFails(e)

RecordsSpec == RecordsInit /\ [][RecordsNext]_recordVars

-----------------------------------------------------------------------------
Saves(e, r) == r \in sent[e] /\ r.checked /\ \A q \in sent'[e] : ~q.checked

\* "An edit cannot accidentally blank out a field the user never touched":
\* whatever somebody else saved in the meantime, however often a save failed
\* half way and was repeated, a save changes only columns its editor had
\* changed in the form.  A settings page keeps to that only while it shows the
\* shop it saves into as that shop is.
OnlyWhatWasTouched(r) ==
  \A c \in Fields : records'[r.of][c] # records[r.of][c] =>
    c \in r.touched \/ (kind = "settings" /\ ~r.abreast)

\* "Changing CNIC or phone must not create a duplicate of another customer":
\* true of a save that no other save overtook between its check and its write.
NoTwinMade(r) ==
  kind # "settings" /\ ~Same(records'[r.of], records[r.of]) /\ ~r.raced =>
    \A s \in Subjects \ {r.of} : ~Same(records'[s], records'[r.of])

SavedAsMeant ==
  [][\A e \in Editors, r \in UNION {sent[x] : x \in Editors} :
       Saves(e, r) => OnlyWhatWasTouched(r) /\ NoTwinMade(r)]_recordVars

=============================================================================
