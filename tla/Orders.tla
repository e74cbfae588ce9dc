------------------------------- MODULE Orders -------------------------------
(***************************************************************************)
(* How a shop comes to its locks: the sign-up form (RegisterPage), what    *)
(* the server makes of it (POST /auth/register-dealer), the platform's     *)
(* list of orders (PlatformDashboardPage), the page on which it gives any  *)
(* shop a pack (LicensesPage) and the giving (LicenseService.issuePack).   *)
(* Money arrives outside the program: the platform's people know of it and *)
(* give what was paid for and is not yet among the packs they are shown.   *)
(*                                                                         *)
(* Definitions named "...Forgotten" are faulty variants.                   *)
(***************************************************************************)
EXTENDS FiniteSets, Integers

CONSTANTS
  Boxes, Spellings,  \* an address is a mailbox and a way of writing it
  PackSizes,
  NoOrder,
  Applicants,        \* people at a sign-up form
  Offices,           \* open pages of the platform's people
  EveryShop,         \* no shop selected
  PackIds, Slips     \* packs and payments there may be

ASSUME OrdersAssumption ==
  /\ NoOrder \notin PackSizes /\ EveryShop \notin [box: Boxes, spelling: Spellings]
  /\ IsFiniteSet(PackIds) /\ IsFiniteSet(Slips)

VARIABLES
  shops,   \* the dealers: [email, order]
  signup,  \* Applicants -> {} or {[email, size, at, repicked]}: the form
  signing, \* Applicants -> sign-ups at the server
  money,   \* payments that have arrived: [shop, size, slip]
  packs,   \* [id, shop, size, by, told]
  office,  \* Offices -> {} or the page
  fetches, \* Offices -> loads under way
  giving,  \* Offices -> requests to give a pack
  \* history: what the properties except
  raced,   \* mailboxes signed up twice at once, written differently
  blind    \* shops given a pack by a page that could not know of another

orderVars == <<shops, signup, signing, money, packs, office, fetches, giving, raced, blind>>

SignupVars == <<shops, signup, signing, raced>>
GivingVars == <<packs, office, fetches, giving, blind>>

Emails == [box: Boxes, spelling: Spellings]
ShopRows == [email: Emails, order: PackSizes \cup {NoOrder}]

\* repicked: another size was picked while the form was on its way.
SignupForms ==
  [email: Emails, size: PackSizes, at: {"open", "sent", "done"}, repicked: BOOLEAN]

Signings ==
  [email: Emails, size: PackSizes, own: BOOLEAN, at: {"way", "checked", "written"}]

\* by: the page it was given from.  told: that page was told so.
PackRows == [id: PackIds, shop: Emails, size: PackSizes, by: Offices, told: BOOLEAN]

\* What a load brings: the orders waiting, or the packs of a shop.
Fetches ==
  [of: Emails \cup {EveryShop}, orders: SUBSET ShopRows, known: SUBSET PackIds, after: BOOLEAN]

\* mixed: two loads were under way at once.  busy: its buttons are disabled.
OfficePages ==
  [kind: {"orders", "locks"}, chosen: Emails \cup {EveryShop}, of: Emails \cup {EveryShop},
   orders: SUBSET ShopRows, known: SUBSET PackIds,
   mixed: BOOLEAN, failed: BOOLEAN, busy: BOOLEAN]

\* sure: the page was up to date as far as it could tell.  wrote: the pack.
Givings ==
  [shop: Emails, size: PackSizes, known: SUBSET PackIds, sure: BOOLEAN, own: BOOLEAN,
   wrote: SUBSET PackIds]

OrdersTypeOK ==
  /\ shops \subseteq ShopRows
  /\ \A w \in Applicants : signup[w] \subseteq SignupForms /\ signing[w] \subseteq Signings
  /\ money \subseteq [shop: Emails, size: PackSizes, slip: Slips]
  /\ packs \subseteq PackRows
  /\ \A a \in Offices :
       office[a] \subseteq OfficePages /\ fetches[a] \subseteq Fetches /\ giving[a] \subseteq Givings
  /\ raced \subseteq Boxes /\ blind \subseteq Emails

OrdersInit ==
  /\ shops = {} /\ money = {} /\ packs = {} /\ raced = {} /\ blind = {}
  /\ signup = [w \in Applicants |-> {}] /\ signing = [w \in Applicants |-> {}]
  /\ office = [a \in Offices |-> {}] /\ fetches = [a \in Offices |-> {}]
  /\ giving = [a \in Offices |-> {}]

-----------------------------------------------------------------------------
(* Signing up *)

OpenSignup(w) ==
  /\ signup[w] = {}
  /\ \E e \in Emails, n \in PackSizes :
       signup' = [signup EXCEPT ![w] = {[email |-> e, size |-> n, at |-> "open", repicked |-> FALSE]}]
  /\ UNCHANGED <<shops, signing, raced, money, GivingVars>>

FillSignup(w) ==
  /\ \E f \in signup[w], e \in Emails, n \in PackSizes :
       /\ f.at = "open"
       /\ signup' = [signup EXCEPT ![w] = {[f EXCEPT !.email = e, !.size = n]}]
  /\ UNCHANGED <<shops, signing, raced, money, GivingVars>>

\* The buttons with the usual sizes stay enabled while the form is on its way.
PickPack(w) ==
  /\ \E f \in signup[w], n \in PackSizes :
       /\ f.at = "sent" /\ n # f.size
       /\ signup' = [signup EXCEPT ![w] = {[f EXCEPT !.size = n, !.repicked = TRUE]}]
  /\ UNCHANGED <<shops, signing, raced, money, GivingVars>>

\* "Open my dashboard", or the tab is closed.
LeaveSignup(w) ==
  /\ signup[w] # {}
  /\ signup' = [signup EXCEPT ![w] = {}]
  /\ signing' = [signing EXCEPT ![w] = {[r EXCEPT !.own = FALSE] : r \in @}]
  /\ UNCHANGED <<shops, raced, money, GivingVars>>

SendSignup(w) ==
  /\ \E f \in signup[w] :
       /\ f.at = "open"
       /\ signup' = [signup EXCEPT ![w] = {[f EXCEPT !.at = "sent", !.repicked = FALSE]}]
       /\ signing' = [signing EXCEPT ![w] = @ \cup
            {[email |-> f.email, size |-> f.size, own |-> TRUE, at |-> "way"]}]
  /\ UNCHANGED <<shops, raced, money, GivingVars>>

\* Two looks for the address, however it is written.
SignedUp(email) == \E s \in shops : s.email.box = email.box

SigningMoves(w, r, at) == signing' = [signing EXCEPT ![w] = (@ \ {r}) \cup {[r EXCEPT !.at = at]}]

SignupChecked(w) ==
  /\ \E r \in signing[w] :
       r.at = "way" /\ ~SignedUp(r.email) /\ SigningMoves(w, r, "checked")
  /\ UNCHANGED <<shops, signup, raced, money, GivingVars>>

\* Dealer.email and User.email are unique as they are written.
AddressFree(email) == \A s \in shops : s.email # email

\* The shop, its owner's login and its policy, in one transaction.  The pack is
\* noted, and no lock given.
SignupWritten(w) ==
  /\ \E r \in signing[w] :
       /\ r.at = "checked" /\ AddressFree(r.email)
       /\ shops' = shops \cup {[email |-> r.email, order |-> r.size]}
       /\ raced' = IF SignedUp(r.email) THEN raced \cup {r.email.box} ELSE raced
       /\ SigningMoves(w, r, "written")
  /\ UNCHANGED <<signup, money, GivingVars>>

\* The screen that says what to pay for shows the form.
SignupAnswered(w) ==
  /\ \E r \in signing[w] :
       /\ r.at = "written"
       /\ signing' = [signing EXCEPT ![w] = @ \ {r}]
       /\ signup' = IF r.own THEN [signup EXCEPT ![w] = {[f EXCEPT !.at = "done"] : f \in @}] ELSE signup
  /\ UNCHANGED <<shops, raced, money, GivingVars>>

FormFreed(w, r) ==
  signup' = IF r.own THEN [signup EXCEPT ![w] = {[f EXCEPT !.at = "open"] : f \in @}] ELSE signup

\* Refused, rolled back, or the answer lost.
SignupFails(w) ==
  /\ \E r \in signing[w] :
       signing' = [signing EXCEPT ![w] = @ \ {r}] /\ FormFreed(w, r)
  /\ UNCHANGED <<shops, raced, money, GivingVars>>

\* The connection breaks: the form is free again, the server goes on.
SignupGivenUp(w) ==
  /\ \E r \in signing[w] :
       /\ r.own /\ r.at # "written"
       /\ signing' = [signing EXCEPT ![w] = (@ \ {r}) \cup {[r EXCEPT !.own = FALSE]}]
       /\ FormFreed(w, r)
  /\ UNCHANGED <<shops, raced, money, GivingVars>>

\* A shop pays, for what it ordered or for any pack.
Pays ==
  /\ \E s \in shops, n \in PackSizes, i \in Slips :
       /\ \A m \in money : m.slip # i
       /\ money' = money \cup {[shop |-> s.email, size |-> n, slip |-> i]}
  /\ UNCHANGED <<SignupVars, GivingVars>>

-----------------------------------------------------------------------------
(* The platform's pages *)

\* awaitingPayment
OrdersWaiting == {s \in shops : s.order # NoOrder /\ \A k \in packs : k.shop # s.email}

PacksOf(e) == {k \in packs : e \in {k.shop, EveryShop}}

\* What the server answers a page that asks now.  It could be asked to later,
\* and would then know more.
FetchNow(kind, e, after) ==
  [of |-> e, after |-> after,
   orders |-> IF kind = "orders" THEN OrdersWaiting ELSE {},
   known |-> IF kind = "locks" THEN {k.id : k \in PacksOf(e)} ELSE {}]

OpenPage(a) ==
  /\ office[a] = {}
  /\ \E kind \in {"orders", "locks"}, e \in {s.email : s \in shops} \cup {EveryShop} :
       /\ kind = "orders" => e = EveryShop
       /\ office' = [office EXCEPT ![a] =
            {[kind |-> kind, chosen |-> e, of |-> e, orders |-> {}, known |-> {},
              mixed |-> FALSE, failed |-> FALSE, busy |-> FALSE]}]
       /\ fetches' = [fetches EXCEPT ![a] = {FetchNow(kind, e, FALSE)}]
  /\ UNCHANGED <<SignupVars, money, packs, giving, blind>>

ClosePage(a) ==
  /\ office[a] # {}
  /\ office' = [office EXCEPT ![a] = {}]
  /\ fetches' = [fetches EXCEPT ![a] = {}]
  /\ giving' = [giving EXCEPT ![a] = {[r EXCEPT !.own = FALSE] : r \in @}]
  /\ UNCHANGED <<SignupVars, money, packs, blind>>

\* The page asks for the data of e.
Asks(a, p, e, after) ==
  /\ office' = [office EXCEPT ![a] = {[p EXCEPT !.mixed = p.mixed \/ fetches[a] # {}]}]
  /\ fetches' = [fetches EXCEPT ![a] = @ \cup {FetchNow(p.kind, e, after)}]

\* selectedDealerId: the page loads anew and shows the shop before meanwhile.
ChooseShop(a) ==
  /\ \E p \in office[a], e \in {s.email : s \in shops} \cup {EveryShop} :
       /\ p.kind = "locks" /\ e # p.chosen
       /\ Asks(a, [p EXCEPT !.chosen = e], e, FALSE)
  /\ UNCHANGED <<SignupVars, money, packs, giving, blind>>

TryAgain(a) ==
  /\ \E p \in office[a] : p.kind = "orders" /\ p.failed /\ Asks(a, p, EveryShop, FALSE)
  /\ UNCHANGED <<SignupVars, money, packs, giving, blind>>

FetchLands(a) ==
  /\ \E p \in office[a], l \in fetches[a] :
       /\ office' = [office EXCEPT ![a] =
            {[p EXCEPT !.of = l.of, !.orders = l.orders, !.known = l.known, !.failed = FALSE,
               !.busy = p.busy /\ ~l.after]}]
       /\ fetches' = [fetches EXCEPT ![a] = @ \ {l}]
  /\ UNCHANGED <<SignupVars, money, packs, giving, blind>>

FetchFails(a) ==
  /\ \E p \in office[a], l \in fetches[a] :
       /\ office' = [office EXCEPT ![a] = {[p EXCEPT !.failed = TRUE, !.busy = p.busy /\ ~l.after]}]
       /\ fetches' = [fetches EXCEPT ![a] = @ \ {l}]
  /\ UNCHANGED <<SignupVars, money, packs, giving, blind>>

-----------------------------------------------------------------------------
(* Giving locks *)

PaidFor(e, n) == {m \in money : m.shop = e /\ m.size = n}
PacksGiven(e, n) == {k \in packs : k.shop = e /\ k.size = n}

UpToDate(a, p) ==
  /\ fetches[a] = {} /\ ~p.mixed /\ ~p.failed
  /\ p.kind = "locks" => p.of = p.chosen

\* Press: more was paid for than the page shows as given.
Gives(a, p, e, n) ==
  /\ ~p.busy
  /\ Cardinality({k \in PacksGiven(e, n) : k.id \in p.known}) < Cardinality(PaidFor(e, n))
  /\ office' = [office EXCEPT ![a] = {[p EXCEPT !.busy = TRUE]}]
  /\ giving' = [giving EXCEPT ![a] = @ \cup
       {[shop |-> e, size |-> n, known |-> p.known, sure |-> UpToDate(a, p), own |-> TRUE,
         wrote |-> {}]}]
  /\ UNCHANGED <<SignupVars, money, packs, fetches, blind>>

\* "Has the shop paid?", asked over an order in the list as it was loaded.
GiveOrder(a) ==
  \E p \in office[a] : p.kind = "orders" /\ \E s \in p.orders : Gives(a, p, s.email, s.order)

\* Any size, without a question, to the shop that is selected.
GivePack(a) ==
  \E p \in office[a], n \in PackSizes :
    p.kind = "locks" /\ p.chosen # EveryShop /\ Gives(a, p, p.chosen, n)

OrderClosed(e) == {IF s.email = e THEN [s EXCEPT !.order = NoOrder] ELSE s : s \in shops}

\* issuePack: the pack and its locks, whatever was given before, and the
\* shop's order is over, whatever its size.
PackGiven(a) ==
  /\ \E r \in giving[a], i \in PackIds :
       LET unknown == {k \in packs : k.shop = r.shop /\ k.id \notin r.known} IN
       /\ r.wrote = {} /\ \A k \in packs : k.id # i
       /\ packs' = packs \cup {[id |-> i, shop |-> r.shop, size |-> r.size, by |-> a, told |-> FALSE]}
       /\ shops' = OrderClosed(r.shop)
       /\ giving' = [giving EXCEPT ![a] = (@ \ {r}) \cup {[r EXCEPT !.wrote = {i}]}]
       /\ blind' = IF unknown # {} /\ (~r.sure \/ ~r.own \/ \E k \in unknown : k.by # a \/ ~k.told)
                     THEN blind \cup {r.shop} ELSE blind
  /\ UNCHANGED <<signup, signing, raced, money, office, fetches>>

LoadAgainForgotten(a, p, e) == office' = [office EXCEPT ![a] = {[p EXCEPT !.busy = FALSE]}] /\ UNCHANGED fetches

\* With the shop that was selected when the button was pressed.
LoadAgain(a, p, e) == Asks(a, p, e, TRUE)

GiveAnswered(a) ==
  /\ \E r \in giving[a] :
       /\ r.wrote # {}
       /\ giving' = [giving EXCEPT ![a] = @ \ {r}]
       /\ IF r.own
            THEN /\ \E p \in office[a] : LoadAgain(a, p, IF p.kind = "orders" THEN EveryShop ELSE r.shop)
                 /\ packs' = {IF k.id \in r.wrote THEN [k EXCEPT !.told = TRUE] ELSE k : k \in packs}
            ELSE UNCHANGED <<office, fetches, packs>>
  /\ UNCHANGED <<SignupVars, money, blind>>

\* A message, and the page as it was: the order is still in the list.
Freed(a, r) ==
  office' = IF r.own THEN [office EXCEPT ![a] = {[p EXCEPT !.busy = FALSE] : p \in @}] ELSE office

\* Refused, rolled back, or the answer lost.
GiveFails(a) ==
  /\ \E r \in giving[a] : giving' = [giving EXCEPT ![a] = @ \ {r}] /\ Freed(a, r)
  /\ UNCHANGED <<SignupVars, money, packs, fetches, blind>>

GiveGivenUp(a) ==
  /\ \E r \in giving[a] :
       /\ r.own /\ r.wrote = {}
       /\ giving' = [giving EXCEPT ![a] = (@ \ {r}) \cup {[r EXCEPT !.own = FALSE]}]
       /\ Freed(a, r)
  /\ UNCHANGED <<SignupVars, money, packs, fetches, blind>>

OrdersNext ==
  \/ \E w \in Applicants :
       \/ OpenSignup(w) \/ FillSignup(w) \/ PickPack(w) \/ LeaveSignup(w) \/ SendSignup(w)
       \/ SignupChecked(w) \/ SignupWritten(w) \/ SignupAnswered(w)
       \/ SignupFails(w) \/ SignupGivenUp(w)
  \/ Pays
  \/ \E a \in Offices :
       \/ OpenPage(a) \/ ClosePage(a) \/ ChooseShop(a) \/ TryAgain(a)
       \/ FetchLands(a) \/ FetchFails(a) \/ GiveOrder(a) \/ GivePack(a)
       \/ PackGiven(a) \/ GiveAnswered(a) \/ GiveFails(a) \/ GiveGivenUp(a)

OrdersSpec == OrdersInit /\ [][OrdersNext]_orderVars

-----------------------------------------------------------------------------
\* A mailbox has one shop, unless two sign-ups crossed that write it differently
\* (the check does not mind the spelling, the index does).
OneShopEach ==
  \A s, t \in shops : s.email.box = t.email.box => s = t \/ s.email.box \in raced

\* What the last screen asks a shop to pay for is what it ordered, unless
\* another size was picked while the form was on its way.
AsksForTheOrder ==
  \A w \in Applicants : \A f \in signup[w] : f.at = "done" /\ ~f.repicked =>
    \E s \in shops : s.email = f.email /\ s.order \in {f.size, NoOrder}

\* An order leaves the platform's list with locks given, never without.
OrdersWait ==
  \A s \in shops : s.order = NoOrder => \E k \in packs : k.shop = s.email

\* Nobody is given a pack that was not paid for.  A payment gives one: a page
\* that was told of a pack does not give it again.  Excepted is a shop with a
\* pack the page could not know of: given elsewhere, its answer lost, the
\* request itself given up before, or the page not up to date.
GivenOnce ==
  \A e \in Emails \ blind, n \in PackSizes :
    Cardinality(PacksGiven(e, n)) <= Cardinality(PaidFor(e, n))

OrdersInOrder == OneShopEach /\ AsksForTheOrder /\ OrdersWait /\ GivenOnce

=============================================================================
