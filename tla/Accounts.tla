------------------------------ MODULE Accounts ------------------------------
(***************************************************************************)
(* Staff accounts of a shop: signing in, passwords and who may manage whom *)
(* (AuthService, the users routes, requireAuth).                           *)
(*                                                                         *)
(* Every request is authorised and reads the row of the account it is      *)
(* about in one step and writes it in a later one; other requests come     *)
(* between, and a request may die before its write.  What a super admin    *)
(* does from outside the shop, and the passwords themselves, are left out: *)
(* a password is right or wrong, and temporary or the owner's own.         *)
(*                                                                         *)
(* Definitions named "...Forgotten" are faulty variants.                   *)
(***************************************************************************)
EXTENDS Naturals

CONSTANTS
  People,       \* who may come to have an account
  Requests,     \* requests at work at a time
  MaxFailed     \* MAX_FAILED_ATTEMPTS

ASSUME AccountsAssumption == MaxFailed \in Nat \ {0}

VARIABLES
  account,   \* the rows: [role, active, temp, fails, blocked]
  request,   \* [at, actor, target, row, overtaken]: what it will write
  strikes,   \* wrong passwords in a row that were not answered by a block
  rushed,    \* accounts whose counters overlapping sign-ins have written
  late       \* a request was carried out although its maker had just been
             \* changed by another

accountVars == <<account, request, strikes, rushed, late>>

Row == [role: {"none", "DEALER_ADMIN", "DEALER_STAFF"}, active: BOOLEAN, temp: BOOLEAN,
        fails: 0..MaxFailed, blocked: BOOLEAN]

NoAccountRow == [role |-> "none", active |-> FALSE, temp |-> FALSE, fails |-> 0, blocked |-> FALSE]

NoRequest == [at |-> "none", actor |-> "none", target |-> "none", row |-> NoAccountRow,
              overtaken |-> FALSE]

AccountsTypeOK ==
  /\ account \in [People -> Row]
  /\ request \in [Requests -> [at: {"none", "fail", "enter", "set", "create", "setRole", "setActive"},
                               actor: People \cup {"none"}, target: People \cup {"none"},
                               row: Row, overtaken: BOOLEAN]]
  /\ strikes \in [People -> 0..MaxFailed]
  /\ rushed \subseteq People
  /\ late \in BOOLEAN

\* A shop is registered with its owner's account.
AccountsInit ==
  /\ \E o \in People :
       account = [p \in People |->
                    IF p = o THEN [NoAccountRow EXCEPT !.role = "DEALER_ADMIN", !.active = TRUE]
                    ELSE NoAccountRow]
  /\ request = [q \in Requests |-> NoRequest]
  /\ strikes = [p \in People |-> 0]
  /\ rushed = {} /\ late = FALSE

Exists(p) == account[p].role # "none"

\* A request begins: what it is to write is settled by what it read.
Begin(q, what) ==
  /\ request[q].at = "none"
  /\ request' = [request EXCEPT ![q] = what]
  /\ UNCHANGED <<account, strikes, late>>

Signing == {"fail", "enter", "set"}

\* The requests about passwords and their counters.
BeginSigning(q, at, p, row) ==
  /\ Begin(q, [NoRequest EXCEPT !.at = at, !.target = p, !.row = row])
  /\ rushed' = IF \E r \in Requests : request[r].at \in Signing /\ request[r].target = p
               THEN rushed \cup {p} ELSE rushed

\* Once the counters are cleared with nothing else under way they are right.
StillRushed(q) ==
  {p \in rushed : p # request[q].target
                 \/ \E r \in Requests \ {q} : request[r].at \in Signing /\ request[r].target = p}

-----------------------------------------------------------------------------
(* Signing in *)

FailedResetForgotten(row) ==
  [row EXCEPT !.fails = @ + 1, !.blocked = row.fails + 1 >= MaxFailed]

FailedBlockForgotten(row) ==
  IF row.fails + 1 >= MaxFailed THEN [row EXCEPT !.fails = 0] ELSE [row EXCEPT !.fails = @ + 1]

\* The count is one more than was read; at the limit it starts again and the
\* account is blocked.
Failed(row) ==
  IF row.fails + 1 >= MaxFailed THEN [row EXCEPT !.fails = 0, !.blocked = TRUE]
  ELSE [row EXCEPT !.fails = @ + 1]

Cleared(row) == [row EXCEPT !.fails = 0, !.blocked = FALSE]

Counters(p) == [NoAccountRow EXCEPT !.fails = account[p].fails]

\* A password is judged by the row as it was read; a deactivated or blocked
\* account is refused before.
LoginWrong(q, p) ==
  /\ account[p].active /\ ~account[p].blocked
  /\ BeginSigning(q, "fail", p, Failed(Counters(p)))

LoginRight(q, p) ==
  /\ account[p].active /\ ~account[p].blocked
  /\ BeginSigning(q, "enter", p, NoAccountRow)

\* Only the counter columns are written: the block when there is one.
LoginFails(q) ==
  LET p == request[q].target
  IN /\ request[q].at = "fail"
     /\ account' = [account EXCEPT ![p].fails = request[q].row.fails,
                                   ![p].blocked = request[q].row.blocked \/ @]
     /\ strikes' = [strikes EXCEPT ![p] = IF account'[p].blocked THEN 0
                                          ELSE IF @ < MaxFailed THEN @ + 1 ELSE @]
     /\ request' = [request EXCEPT ![q] = NoRequest]
     /\ UNCHANGED <<rushed, late>>

LoginSucceeds(q) ==
  LET p == request[q].target
  IN /\ request[q].at = "enter"
     /\ account' = [account EXCEPT ![p] = Cleared(@)]
     /\ strikes' = [strikes EXCEPT ![p] = 0]
     /\ rushed' = StillRushed(q)
     /\ request' = [request EXCEPT ![q] = NoRequest]
     /\ UNCHANGED late

\* Fifteen minutes pass.
BlockEnds(p) ==
  /\ account[p].blocked
  /\ account' = [account EXCEPT ![p].blocked = FALSE]
  /\ UNCHANGED <<request, strikes, rushed, late>>

-----------------------------------------------------------------------------
(* What a session may do *)

\* requireAuth: the row is read again for every request, and nothing in the
\* token but the user's id counts.
SignedIn(p) == account[p].active

\* The role a token was issued with, and no look at the row.
ManagerByTokenForgotten(p) == account[p].role = "DEALER_ADMIN"

\* requireDealerAdmin, past the gate of a temporary password.
Manager(p) == SignedIn(p) /\ account[p].role = "DEALER_ADMIN" /\ ~account[p].temp

\* changePassword, the current one being right.
ChangePassword(q, p) ==
  /\ SignedIn(p)
  /\ BeginSigning(q, "set", p, NoAccountRow)

\* resetPassword, of anybody in the shop, the actor included.
ResetPassword(q, a, p) ==
  /\ Manager(a) /\ Exists(p)
  /\ BeginSigning(q, "set", p, [NoAccountRow EXCEPT !.temp = TRUE])

\* POST / makes an account with a password the admin knows.
CreateUser(q, a, p, role) ==
  /\ Manager(a) /\ ~Exists(p)
  /\ Begin(q, [NoRequest EXCEPT !.at = "create", !.actor = a, !.target = p,
                 !.row = [NoAccountRow EXCEPT !.role = role, !.active = TRUE, !.temp = TRUE]])
  /\ UNCHANGED rushed

\* PATCH /:id and DELETE /:id: nobody changes their own role or deactivates
\* themselves.
SetRole(q, a, p, role) ==
  /\ Manager(a) /\ Exists(p) /\ (a = p => role = account[p].role)
  /\ Begin(q, [NoRequest EXCEPT !.at = "setRole", !.actor = a, !.target = p, !.row.role = role])
  /\ UNCHANGED rushed

SetActive(q, a, p, active) ==
  /\ Manager(a) /\ Exists(p) /\ (a = p => active)
  /\ Begin(q, [NoRequest EXCEPT !.at = "setActive", !.actor = a, !.target = p, !.row.active = active])
  /\ UNCHANGED rushed

-----------------------------------------------------------------------------
(* The writes *)

\* A password lands, in the columns it names.
PasswordSet(q) ==
  LET p == request[q].target
  IN /\ request[q].at = "set"
     /\ account' = [account EXCEPT ![p] = [Cleared(@) EXCEPT !.temp = request[q].row.temp]]
     /\ strikes' = [strikes EXCEPT ![p] = 0]
     /\ rushed' = StillRushed(q)
     /\ request' = [request EXCEPT ![q] = NoRequest]
     /\ UNCHANGED late

\* An account appears; the e-mail address is unique, so a second one fails.
UserCreated(q) ==
  LET p == request[q].target
  IN /\ request[q].at = "create"
     /\ account' = [account EXCEPT ![p] = IF Exists(p) THEN @ ELSE request[q].row]
     /\ request' = [request EXCEPT ![q] = NoRequest]
     /\ UNCHANGED <<strikes, rushed, late>>

\* An account is changed, in the column the request named.  (A request that
\* names both is one after the other.)
UserUpdated(q) ==
  LET p == request[q].target  row == request[q].row
  IN /\ \/ /\ request[q].at = "setRole"
           /\ account' = [account EXCEPT ![p].role = row.role]
        \/ /\ request[q].at = "setActive"
           /\ account' = [account EXCEPT ![p].active = row.active]
     /\ late' = (late \/ request[q].overtaken)
     /\ request' = [r \in Requests |->
                      IF r = q THEN NoRequest
                      ELSE IF request[r].actor = p THEN [request[r] EXCEPT !.overtaken = TRUE]
                      ELSE request[r]]
     /\ UNCHANGED <<strikes, rushed>>

\* A request dies before its write.
RequestDies(q) ==
  /\ request[q].at # "none"
  /\ request' = [request EXCEPT ![q] = NoRequest]
  /\ UNCHANGED <<account, strikes, rushed, late>>

-----------------------------------------------------------------------------
AccountsNext ==
  \/ \E q \in Requests, p \in People :
       \/ LoginWrong(q, p) \/ LoginRight(q, p) \/ ChangePassword(q, p)
       \/ \E a \in People, role \in {"DEALER_ADMIN", "DEALER_STAFF"} :
            \/ ResetPassword(q, a, p)
            \/ CreateUser(q, a, p, role)
            \/ SetRole(q, a, p, role)
            \/ \E active \in BOOLEAN : SetActive(q, a, p, active)
  \/ \E q \in Requests :
       \/ LoginFails(q) \/ LoginSucceeds(q) \/ PasswordSet(q)
       \/ UserCreated(q) \/ UserUpdated(q) \/ RequestDies(q)
  \/ \E p \in People : BlockEnds(p)

AccountsSpec == AccountsInit /\ [][AccountsNext]_accountVars

-----------------------------------------------------------------------------
\* "Guard rails that prevent an admin from locking everyone out": however the
\* admins of a shop create, demote and deactivate each other, one is left who
\* can, unless a request is carried out for somebody who was changed between
\* its authorisation and its write.
SomeoneCanManage ==
  late \/ \E p \in People : account[p].active /\ account[p].role = "DEALER_ADMIN"

\* "Account is temporarily blocked after this many consecutive failures": no
\* account takes that many wrong passwords in a row unblocked, as long as its
\* sign-ins do not overlap.
BlockedInTime == \A p \in People : p \in rushed \/ strikes[p] < MaxFailed

=============================================================================
