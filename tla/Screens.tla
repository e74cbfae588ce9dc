------------------------------- MODULE Screens ------------------------------
(***************************************************************************)
(* The dashboard's lists: what a table shows against what its filters ask  *)
(* for (usePagination, Pagination and the list pages).                     *)
(*                                                                         *)
(* A page asks again whenever one of the values its effect watches         *)
(* changes.  Nothing cancels an older request and nothing tells an older   *)
(* answer from a newer one, so answers land in any order; a failed one     *)
(* leaves the rows that were there.  How many pages the server has for a   *)
(* query changes all the time.                                             *)
(*                                                                         *)
(* Definitions named "...Forgotten" are faulty variants.                   *)
(***************************************************************************)
EXTENDS Naturals, Sequences

CONSTANTS
  Filters,     \* shop, status tab, brand: everything a page reloads for
  Searches,    \* what may be in the search box
  PageSizes,   \* rows for each page
  MaxPages,    \* pages a query may have
  MaxInFlight  \* requests of one screen under way at a time

ASSUME ScreensAssumption == MaxPages \in Nat \ {0} /\ MaxInFlight \in Nat

VARIABLES
  screen,       \* which list is open
  want,         \* what the controls say: [filter, search, size, page]
  flight,       \* requests under way, oldest first
  loading,      \* the page says so: set by every request, cleared by any answer
  shown,        \* what the table holds: [query, page, pages]
  newest,       \* the newest request's answer: due, shown or lost (failed or overwritten)
  acting,       \* the action of the page at work, by what it will ask for, if any
  turned,       \* somebody turned the page since the filters last changed
  unsubmitted,  \* the search box has changed since the last request
  outrun        \* an action reloaded the list as it was when it began

screenVars == <<screen, want, flight, loading, shown, newest, acting, turned, unsubmitted, outrun>>

Queries == [filter: Filters, search: Searches, size: PageSizes, page: 1..MaxPages]

\* The lists: whether they have a search box, and an action that reloads
\* them (behind a dialog that covers the page, or in the open).
DevicesPage == [search |-> TRUE, action |-> "covered"]
CustomersPage == [search |-> TRUE, action |-> "covered"]
PaymentsPage == [search |-> TRUE, action |-> "open"]
InstallmentsPage == [search |-> FALSE, action |-> "open"]
AuditLogsPage == [search |-> TRUE, action |-> "none"]
TransactionsPage == [search |-> FALSE, action |-> "none"]
NotificationsPage == [search |-> FALSE, action |-> "open"]
EnrollmentPage == [search |-> FALSE, action |-> "open"]

Lists == {DevicesPage, CustomersPage, PaymentsPage, InstallmentsPage, AuditLogsPage,
          TransactionsPage, NotificationsPage, EnrollmentPage}

ScreensTypeOK ==
  /\ screen \in Lists
  /\ want \in Queries /\ shown \in [query: Queries, page: 1..MaxPages, pages: 1..MaxPages]
  /\ flight \in Seq(Queries) /\ Len(flight) <= MaxInFlight
  /\ acting \in SUBSET Queries
  /\ newest \in {"due", "shown", "lost"}
  /\ {loading, turned, unsubmitted, outrun} \subseteq BOOLEAN

\* The page has opened and its first request has been answered.
ScreensInit ==
  /\ screen \in Lists
  /\ \E f \in Filters, s \in Searches, z \in PageSizes, n \in 1..MaxPages :
       /\ want = [filter |-> f, search |-> s, size |-> z, page |-> 1]
       /\ shown = [query |-> want, page |-> 1, pages |-> n]
  /\ flight = <<>> /\ loading = FALSE
  /\ newest = "shown" /\ acting = {}
  /\ turned = FALSE /\ unsubmitted = FALSE /\ outrun = FALSE

-----------------------------------------------------------------------------
\* The page's controls can be reached unless a dialog covers them.
Uncovered == acting = {} \/ screen.action = "open"

\* Requests leave, oldest first, with what the controls say at that moment.
Send(queries) ==
  /\ Len(flight) + Len(queries) <= MaxInFlight
  /\ flight' = flight \o queries
  /\ loading' = (loading \/ queries # <<>>)
  /\ newest' = IF queries = <<>> THEN newest ELSE "due"
  /\ unsubmitted' = (unsubmitted /\ queries = <<>>)
  /\ outrun' = (outrun /\ queries = <<>>)

FirstPageForgotten(q) == q

\* usePagination puts a list whose filters have changed back on its first page.
FirstPage(q) == [q EXCEPT !.page = 1]

\* The effects run in order: the page is to be reset, the list is asked for
\* with the page it still has, and once more when the reset has come through.
Loads(old, new) ==
  IF new.page = old.page THEN <<new>> ELSE <<[new EXCEPT !.page = old.page], new>>

\* A tab, a brand, the shop.
SetFilter(f) ==
  /\ Uncovered
  /\ f # want.filter
  /\ want' = FirstPage([want EXCEPT !.filter = f])
  /\ Send(Loads(want, want'))
  /\ turned' = FALSE
  /\ UNCHANGED <<screen, shown, acting>>

\* Page and size are set together, and asked for once.  Both wait while the
\* page says it is loading.
SetLimit(z) ==
  /\ Uncovered /\ ~loading
  /\ z # want.size
  /\ want' = [want EXCEPT !.size = z, !.page = 1]
  /\ Send(<<want'>>)
  /\ turned' = FALSE
  /\ UNCHANGED <<screen, shown, acting>>

\* Typing resets the page like any filter, but only a page that changed is
\* asked for again: on the first page the text waits for Enter.
Type(s) ==
  /\ Uncovered
  /\ screen.search /\ s # want.search
  /\ want' = FirstPage([want EXCEPT !.search = s])
  /\ turned' = FALSE
  /\ IF want'.page = want.page
     THEN unsubmitted' = TRUE /\ UNCHANGED <<flight, loading, newest, outrun>>
     ELSE Send(<<want'>>)
  /\ UNCHANGED <<screen, shown, acting>>

Submit ==
  /\ Uncovered
  /\ screen.search
  /\ Send(<<want>>)
  /\ UNCHANGED <<screen, want, shown, acting, turned>>

\* The numbered buttons, shown when there is more than one page, follow the
\* last answer, not the controls.
TurnPage(p) ==
  /\ Uncovered /\ ~loading
  /\ shown.pages > 1 /\ p <= shown.pages
  /\ want' = [want EXCEPT !.page = p]
  /\ Send(IF p = want.page THEN <<>> ELSE <<want'>>)
  /\ turned' = TRUE
  /\ UNCHANGED <<screen, shown, acting>>

\* Locking, verifying, pairing, running the engine: the handler keeps the
\* reload of the render it was clicked in.
ActBegins ==
  /\ screen.action # "none" /\ acting = {}
  /\ acting' = {want}
  /\ UNCHANGED <<screen, want, flight, loading, shown, newest, turned, unsubmitted, outrun>>

\* It succeeds and reloads the list it knew.
ActEnds ==
  /\ Len(flight) < MaxInFlight
  /\ \E known \in acting :
       /\ flight' = Append(flight, known)
       /\ outrun' = (known # want)
       /\ unsubmitted' = (unsubmitted /\ known.search # want.search)
  /\ loading' = TRUE /\ newest' = "due" /\ acting' = {}
  /\ UNCHANGED <<screen, want, shown, turned>>

ActFails ==
  /\ acting # {}
  /\ acting' = {}
  /\ UNCHANGED <<screen, want, flight, loading, shown, newest, turned, unsubmitted, outrun>>

Without(i) == SubSeq(flight, 1, i - 1) \o SubSeq(flight, i + 1, Len(flight))

Least(a, b) == IF a < b THEN a ELSE b

\* Any answer may be the next to land.  Past the end the server returns the
\* last page it has.
Lands(i, pages) ==
  /\ i \in 1..Len(flight)
  /\ shown' = [query |-> flight[i], page |-> Least(flight[i].page, pages), pages |-> pages]
  /\ newest' = IF newest # "due" THEN "lost" ELSE IF i = Len(flight) THEN "shown" ELSE "due"
  /\ flight' = Without(i) /\ loading' = FALSE
  /\ UNCHANGED <<screen, want, acting, turned, unsubmitted, outrun>>

\* A request fails: the table stays as it is.
Fails(i) ==
  /\ i \in 1..Len(flight)
  /\ flight' = Without(i) /\ loading' = FALSE
  /\ newest' = IF newest = "due" /\ i = Len(flight) THEN "lost" ELSE newest
  /\ UNCHANGED <<screen, want, shown, acting, turned, unsubmitted, outrun>>

-----------------------------------------------------------------------------
ScreensNext ==
  \/ \E f \in Filters : SetFilter(f)
  \/ \E z \in PageSizes : SetLimit(z)
  \/ \E s \in Searches : Type(s)
  \/ \E p \in 1..MaxPages : TurnPage(p)
  \/ Submit \/ ActBegins \/ ActEnds \/ ActFails
  \/ \E i \in 1..MaxInFlight : Fails(i) \/ \E n \in 1..MaxPages : Lands(i, n)

ScreensSpec == ScreensInit /\ [][ScreensNext]_screenVars

-----------------------------------------------------------------------------
AtRest == flight = <<>> /\ newest = "shown"

\* "Otherwise filtering while on page 7 shows an empty table": a list that has
\* come to rest shows what its controls ask for, its first page after every
\* change of filter, as long as the newest answer arrived and arrived last,
\* the search was sent off, and no action reloaded what had since changed.
ScreenIsCurrent ==
  AtRest /\ ~outrun /\ ~unsubmitted =>
    /\ [shown.query EXCEPT !.page = want.page] = want
    /\ shown.page = Least(want.page, shown.pages)
    /\ ~turned => shown.page = 1

=============================================================================
