-------------------------------- MODULE Tabs --------------------------------
(***************************************************************************)
(* One browser, several tabs: who is signed in, which shop a platform      *)
(* admin has opened, and whether it may be written to (AuthContext,        *)
(* api.ts, ShopModeBanner).                                                *)
(*                                                                         *)
(* What a tab shows lives in the tab.  The token every request carries     *)
(* lives in localStorage, which all the tabs share: signing in, signing    *)
(* out or reloading in one tab changes who the others act as, and nothing  *)
(* tells them.                                                             *)
(*                                                                         *)
(* The page of a phone or a customer is a URL of its own: it is there      *)
(* again after a reload, which forgets the shop that was opened, and the   *)
(* browser's Back button returns to it with another shop open.  The server *)
(* acts on the record's shop, whichever is open in the tab.                *)
(*                                                                         *)
(* Definitions named "...Forgotten" are faulty variants.                   *)
(***************************************************************************)
EXTENDS Naturals

CONSTANTS Windows, Supers, Owners, Shops, Nobody, NoShop

ASSUME TabsAssumption ==
  /\ Shops # {} /\ NoShop \notin Shops
  /\ Supers \cap Owners = {} /\ Nobody \notin Supers \cup Owners

VARIABLES
  stored,  \* whose token localStorage holds
  tab,     \* Windows -> what it shows: [user, shop, edit]
  onPage,  \* Windows -> the shop whose record is on the page, or NoShop
  asking,  \* Windows -> a session on its way: {} or {[user, how]}
  agreed,  \* Windows -> edit mode was agreed to since this was last opened
  wrote    \* the last write the server accepted: {} or {[by, seen, opened, of, agreed]}

tabVars == <<stored, tab, onPage, asking, agreed, wrote>>

Everyone == Supers \cup Owners
SignedOut == [user |-> Nobody, shop |-> NoShop, edit |-> FALSE]

TabsTypeOK ==
  /\ stored \in Everyone \cup {Nobody}
  /\ tab \in [Windows -> [user: Everyone \cup {Nobody}, shop: Shops \cup {NoShop}, edit: BOOLEAN]]
  /\ onPage \in [Windows -> Shops \cup {NoShop}]
  /\ asking \in [Windows -> SUBSET [user: Everyone, how: {"login", "restore"}]]
  /\ agreed \in [Windows -> BOOLEAN]
  /\ wrote \subseteq [by: Everyone, seen: Everyone, opened: Shops \cup {NoShop}, of: Shops,
                    agreed: BOOLEAN]

TabsInit ==
  /\ stored = Nobody
  /\ tab = [w \in Windows |-> SignedOut]
  /\ onPage = [w \in Windows |-> NoShop]
  /\ asking = [w \in Windows |-> {}]
  /\ agreed = [w \in Windows |-> FALSE]
  /\ wrote = {}

-----------------------------------------------------------------------------
\* The tab has a new person or a new shop in it.
Opens(w, view) ==
  /\ tab' = [tab EXCEPT ![w] = view]
  /\ agreed' = [agreed EXCEPT ![w] = FALSE]

\* An owner always works in the shop the server names; a platform admin's
\* account has none.
ShopOf == CHOOSE f \in [Owners -> Shops] : TRUE

View(user) ==
  [user |-> user, shop |-> IF user \in Owners THEN ShopOf[user] ELSE NoShop, edit |-> FALSE]

OpenedForgotten(v, s) == [v EXCEPT !.shop = s]

\* "Every change of shop starts back in view-only."
Opened(v, s) == [v EXCEPT !.shop = s, !.edit = FALSE]

\* The sign-in form is only there for a tab that shows nobody.
Login(w, user) ==
  /\ tab[w].user = Nobody /\ asking[w] = {}
  /\ asking' = [asking EXCEPT ![w] = {[user |-> user, how |-> "login"]}]
  /\ UNCHANGED <<stored, tab, onPage, agreed, wrote>>

\* A page load asks who the stored token belongs to.  The URL stays.
Reload(w) ==
  /\ Opens(w, SignedOut)
  /\ asking' = [asking EXCEPT ![w] =
       IF stored = Nobody THEN {} ELSE {[user |-> stored, how |-> "restore"]}]
  /\ UNCHANGED <<stored, onPage, wrote>>

\* applySession: either answer carries a token, and it is stored.
ApplySession(w) ==
  \E a \in asking[w] :
    /\ stored' = a.user
    /\ Opens(w, View(a.user))
    /\ asking' = [asking EXCEPT ![w] = {}]
    /\ UNCHANGED <<onPage, wrote>>

\* A wrong password leaves things as they are; a session that cannot be
\* restored is removed, from the storage too.
SessionFails(w) ==
  \E a \in asking[w] :
    /\ stored' = IF a.how = "restore" THEN Nobody ELSE stored
    /\ asking' = [asking EXCEPT ![w] = {}]
    /\ UNCHANGED <<tab, onPage, agreed, wrote>>

\* Signing out, or any answer of 401 (clearSession).
ClearSession(w) ==
  /\ tab[w].user # Nobody
  /\ stored' = Nobody
  /\ Opens(w, SignedOut)
  /\ UNCHANGED <<onPage, asking, wrote>>

\* The shop menu, the platform dashboard, "Back to platform": each goes home.
SetSelectedDealerId(w, s) ==
  /\ tab[w].user \in Supers
  /\ Opens(w, Opened(tab[w], s))
  /\ onPage' = [onPage EXCEPT ![w] = NoShop]
  /\ UNCHANGED <<stored, asking, wrote>>

\* A link to a record, or Back to one: an owner sees only the shop's own, a
\* platform admin every shop's.
GoTo(w, s) ==
  /\ tab[w].user # Nobody
  /\ tab[w].user \in Owners => s \in {NoShop, ShopOf[tab[w].user]}
  /\ onPage' = [onPage EXCEPT ![w] = s]
  /\ UNCHANGED <<stored, tab, asking, agreed, wrote>>

\* The banner's two buttons.
TurnOn(w) ==
  /\ tab[w].user \in Supers /\ tab[w].shop # NoShop
  /\ tab' = [tab EXCEPT ![w].edit = TRUE]
  /\ agreed' = [agreed EXCEPT ![w] = TRUE]
  /\ UNCHANGED <<stored, onPage, asking, wrote>>

TurnOff(w) ==
  /\ tab[w].user \in Supers /\ tab[w].shop # NoShop
  /\ tab' = [tab EXCEPT ![w].edit = FALSE]
  /\ agreed' = [agreed EXCEPT ![w] = FALSE]
  /\ UNCHANGED <<stored, onPage, asking, wrote>>

IsViewOnly(v) == v.user \in Supers /\ v.shop # NoShop /\ ~v.edit

\* The shop the server acts on: the record's; or else, for a sale or the
\* settings, the account's own, and for a platform admin the one opened.
ActedOn(w) ==
  CASE onPage[w] # NoShop -> onPage[w]
    [] stored \in Owners -> ShopOf[stored]
    [] OTHER -> tab[w].shop

\* A sale, a payment, a lock: refused in the browser while a shop is open and
\* only being viewed, otherwise sent with the token that is stored by now.
Write(w) ==
  /\ tab[w].user # Nobody
  /\ ~IsViewOnly(tab[w])
  /\ stored # Nobody /\ ActedOn(w) # NoShop
  /\ stored \in Owners => ActedOn(w) = ShopOf[stored]
  /\ wrote' = {[by |-> stored, seen |-> tab[w].user, opened |-> tab[w].shop, of |-> ActedOn(w),
                agreed |-> agreed[w]]}
  /\ UNCHANGED <<stored, tab, onPage, asking, agreed>>

TabsNext ==
  \E w \in Windows :
    \/ Reload(w) \/ ApplySession(w) \/ SessionFails(w) \/ ClearSession(w)
    \/ TurnOn(w) \/ TurnOff(w) \/ Write(w)
    \/ \E u \in Everyone : Login(w, u)
    \/ \E s \in Shops \cup {NoShop} : SetSelectedDealerId(w, s) \/ GoTo(w, s)

TabsSpec == TabsInit /\ [][TabsNext]_tabVars

-----------------------------------------------------------------------------
\* While a platform admin has a shop open, so that the banner is up, nothing
\* leaves the tab that was not agreed to since the shop was opened, whatever
\* was opened, closed, left or signed into in between.
\* The exceptions are a tab whose session another tab replaced, which acts as
\* somebody it does not show, and a tab with no shop open: there is no banner
\* and no guard in it, also when a reload has just closed the shop and the
\* page of one of its phones is still there.  What was agreed to is that the
\* shop that is open may be changed; a page of another shop's is not asked
\* about again.
EditsWereSwitchedOn ==
  \A x \in wrote : x.by = x.seen /\ x.by \in Supers /\ x.opened # NoShop => x.agreed

=============================================================================
