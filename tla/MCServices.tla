----------------------------- MODULE MCServices -----------------------------
(***************************************************************************)
(* The components beside the lock protocol and the ledger, in one model    *)
(* with one part of it at work: the parts share no state that changes, so  *)
(* a behaviour chooses a part and leaves the others as they began.         *)
(***************************************************************************)
EXTENDS Agreement, Stages, Location, Accounts, Counter, Screens, Export, Tabs,
  Records, Desk, Wizard

VARIABLE part  \* the part at work

servicesVars == <<part, agreeVars, stagesVars, locVars, accountVars, counterVars,
                  screenVars, exportVars, tabVars, recordVars, deskVars, wizardVars>>

Parts == {"agreement", "stages", "location", "accounts", "counter", "screens", "export",
          "tabs", "records", "desk", "wizard"}

TestedPolicies ==
  {[days |-> 0, staged |-> TRUE], [days |-> 1, staged |-> FALSE], [days |-> 2, staged |-> TRUE]}

One(S) == CHOOSE x \in S : TRUE

\* The parts that are not at work begin in one of the ways they may.
Resting(p) ==
  CASE p = "agreement" ->
         /\ policy = One(Policies)
         /\ paper.version = One(Versions)
         /\ plan.figures = One(Terms)
    [] p = "stages" -> installed = {}
    [] p = "location" -> allowed
    [] p = "accounts" -> account[One(People)].active
    [] p = "screens" -> /\ screen = DevicesPage /\ shown.pages = 1
                        /\ want = [filter |-> One(Filters), search |-> One(Searches),
                                      size |-> One(PageSizes), page |-> 1]
    [] p = "export" -> table = <<>>
    [] p = "desk" -> phone.noLock
    [] OTHER -> TRUE

\* The records differ to begin with, in one way that stands for all.
RecordsDiffer == records = One({r \in [Subjects -> Columns] :
  \A s, t \in Subjects : s # t => ~Same(r[s], r[t])})

AtWork(p) == part = p \/ Resting(p)

ServicesInit ==
  /\ part \in Parts
  /\ AgreeInit /\ AtWork("agreement")
  /\ StagesInit /\ AtWork("stages")
  /\ LocInit /\ AtWork("location")
  /\ AccountsInit /\ AtWork("accounts")
  /\ CounterInit
  /\ ScreensInit /\ AtWork("screens")
  /\ ExportInit /\ AtWork("export")
  /\ TabsInit
  /\ RecordsDiffer /\ RecordsInit /\ (part = "records" \/ kind = One(Kinds))
  /\ DeskInit /\ AtWork("desk")
  /\ WizardInit

\* Only part p takes a step.
Only(p) ==
  /\ part = p /\ UNCHANGED part
  /\ IF p = "agreement" THEN TRUE ELSE UNCHANGED agreeVars
  /\ IF p = "stages" THEN TRUE ELSE UNCHANGED stagesVars
  /\ IF p = "location" THEN TRUE ELSE UNCHANGED locVars
  /\ IF p = "accounts" THEN TRUE ELSE UNCHANGED accountVars
  /\ IF p = "counter" THEN TRUE ELSE UNCHANGED counterVars
  /\ IF p = "screens" THEN TRUE ELSE UNCHANGED screenVars
  /\ IF p = "export" THEN TRUE ELSE UNCHANGED exportVars
  /\ IF p = "tabs" THEN TRUE ELSE UNCHANGED tabVars
  /\ IF p = "records" THEN TRUE ELSE UNCHANGED recordVars
  /\ IF p = "desk" THEN TRUE ELSE UNCHANGED deskVars
  /\ IF p = "wizard" THEN TRUE ELSE UNCHANGED wizardVars

\* Bounds.  One editor goes through every record, the others keep to one.  Of
\* the settings pages, the first changes policies and the others the profile,
\* and no answer is on its way when Save is pressed a second time.
EditorsWithin ==
  LET first == One(Editors) IN
  /\ \A e \in Editors \ {first} : form[e].of \in {NoSubject, One(Subjects)}
  /\ kind = "settings" =>
       /\ saves > 1 => \A e \in Editors : loads[e] = {}
       /\ form[first].touched \subseteq {"identity"}
       /\ \A e \in Editors \ {first} : form[e].touched \subseteq {"plain"}

\* One seller goes through everything; the others have filled their wizards
\* before, with the first buyer and the first phone, and stay.  Sales without
\* a lock, and ones the server refuses for their terms, are the second buyer's.
SellersWithin ==
  LET first == One(Sellers) IN
  /\ \A s \in Sellers \ {first} :
       /\ \A r \in post[s] : r.own
       /\ \A w \in wizard[s] :
            /\ w.entry.buyer \in {Untyped, One(Buyers)}
            /\ w.entry.handset \in {Untyped, One(Handsets)}
            /\ ~w.entry.noLock /\ w.entry.fair /\ ~w.moved
            /\ w.step < 4 => wizard[first] = {} /\ post[first] = {} /\ sold = {}
  /\ \A w \in wizard[first] :
       /\ w.entry.noLock \/ ~w.entry.fair => w.entry.buyer # One(Buyers)
       /\ w.entry.noLock => w.entry.fair
  /\ \A q \in sold : q.buyer # One(Buyers) => q.open

\* Bounds.  Once the event that a part's properties except for good has
\* happened (its history variable is set), they say nothing more and the part
\* stops; passwords are guessed at for one person, and the second page size is
\* tried with one filter and search.
StillOpen ==
  /\ ~rewritten /\ ~torn /\ ~crossed /\ ~late /\ ~outrun
  /\ \A p \in People \ {One(People)} : strikes[p] = 0
  /\ want.size # One(PageSizes) =>
       want.filter = One(Filters) /\ want.search = One(Searches)
  /\ EditorsWithin /\ SellersWithin

ServicesNext ==
  /\ StillOpen
  /\ \/ part = "agreement" /\ AgreeNext /\ Only("agreement")
     \/ part = "stages" /\ StagesNext /\ Only("stages")
     \/ part = "location" /\ LocNext /\ Only("location")
     \/ part = "accounts" /\ AccountsNext /\ Only("accounts")
     \/ part = "counter" /\ CounterNext /\ Only("counter")
     \/ part = "screens" /\ ScreensNext /\ Only("screens")
     \/ part = "export" /\ ExportNext /\ Only("export")
     \/ part = "tabs" /\ TabsNext /\ Only("tabs")
     \/ part = "records" /\ RecordsNext /\ Only("records")
     \/ part = "desk" /\ DeskNext /\ Only("desk")
     \/ part = "wizard" /\ WizardNext /\ Only("wizard")

ServicesSpec == ServicesInit /\ [][ServicesNext]_servicesVars

\* The part at work keeps its types, of which the counter's says that no row
\* is paid more than it asks for.
ServicesTypeOK ==
  CASE part = "agreement" -> AgreeTypeOK [] part = "stages" -> StagesTypeOK
    [] part = "location" -> LocTypeOK [] part = "accounts" -> AccountsTypeOK
    [] part = "counter" -> CounterTypeOK [] part = "screens" -> ScreensTypeOK
    [] part = "export" -> ExportTypeOK [] part = "tabs" -> TabsTypeOK
    [] part = "records" -> RecordsTypeOK [] part = "desk" -> DeskTypeOK
    [] part = "wizard" -> WizardTypeOK

=============================================================================
