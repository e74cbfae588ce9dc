--------------------------- MODULE Accounts_proofs --------------------------
(***************************************************************************)
(* Theorems about Accounts, for any number of people and of requests at    *)
(* work, and any limit on wrong passwords.                                 *)
(***************************************************************************)
EXTENDS Accounts, TLAPS

RequestType == [at: {"none", "fail", "enter", "set", "create", "setRole", "setActive"},
                actor: People \cup {"none"}, target: People \cup {"none"},
                row: Row, overtaken: BOOLEAN]

\* The count on a row stays below the limit: at the limit it starts again.
BelowLimit(row) == row.fails < MaxFailed

\* What a request at work was let in with: an account to work on, and, where it
\* changes one, somebody who asked for it.
LetIn(job) ==
  /\ BelowLimit(job.row)
  /\ job.at # "none" => job.target \in People
  /\ job.at \notin {"none", "create"} => account[job.target].role # "none"
  /\ job.at \in {"setRole", "setActive"} => job.actor \in People
  /\ job.at \in {"create", "setRole"} => job.row.role # "none"

\* A person without an account has not signed in.
NewPerson(p) == account[p].role = "none" => ~account[p].active /\ strikes[p] = 0

Sound ==
  /\ account \in [People -> Row] /\ \A p \in People : BelowLimit(account[p]) /\ NewPerson(p)
  /\ request \in [Requests -> RequestType] /\ \A q \in Requests : LetIn(request[q])
  /\ strikes \in [People -> 0..MaxFailed]
  /\ rushed \subseteq People
  /\ late \in BOOLEAN

\* Nobody's row: no account, nothing counted.
LEMMA EmptyRows ==
  /\ NoAccountRow \in Row /\ BelowLimit(NoAccountRow)
  /\ NoRequest \in RequestType /\ NoRequest.at = "none" /\ LetIn(NoRequest)
BY AccountsAssumption DEF NoAccountRow, NoRequest, Row, RequestType, BelowLimit, LetIn

\* A wrong password leaves a count below the limit.
LEMMA FailedIsRow ==
  ASSUME NEW row \in Row, BelowLimit(row)
  PROVE  Failed(row) \in Row /\ BelowLimit(Failed(row)) /\ Failed(row).role = row.role
<1>1. row.fails + 1 \in Nat /\ 0 < MaxFailed /\ MaxFailed \in Nat
  BY AccountsAssumption DEF Row
<1>2. CASE row.fails + 1 >= MaxFailed
  <2>1. Failed(row) = [row EXCEPT !.fails = 0, !.blocked = TRUE]
    BY <1>2 DEF Failed
  <2>2. 0 \in 0..MaxFailed
    BY <1>1
  <2> QED
    BY <1>1, <2>1, <2>2 DEF Row, BelowLimit
<1>3. CASE ~(row.fails + 1 >= MaxFailed)
  <2>1. row.fails + 1 < MaxFailed /\ row.fails + 1 \in 0..MaxFailed
    BY <1>1, <1>3
  <2>2. Failed(row) = [row EXCEPT !.fails = row.fails + 1]
    BY <1>3 DEF Failed
  <2> QED
    BY <2>1, <2>2 DEF Row, BelowLimit
<1> QED
  BY <1>2, <1>3

-----------------------------------------------------------------------------
(* Accounts and requests stay sound *)

\* A request that begins.
LEMMA BeginsSound ==
  ASSUME Sound, NEW q \in Requests, NEW job \in RequestType, LetIn(job),
         Begin(q, job), rushed' \subseteq People
  PROVE  Sound'
<1>1. request' \in [Requests -> RequestType]
  BY DEF Begin, Sound
<1>2. ASSUME NEW r \in Requests PROVE LetIn(request[r])'
  BY DEF Begin, Sound, LetIn
<1> QED
  BY <1>1, <1>2 DEF Begin, Sound, NewPerson

\* The requests that begin by looking at a person's password or counters.
LEMMA SigningSound ==
  ASSUME Sound, NEW q \in Requests, NEW at \in Signing, NEW p \in People, NEW row \in Row,
         account[p].role # "none", BelowLimit(row), BeginSigning(q, at, p, row)
  PROVE  Sound'
<1> DEFINE job == [NoRequest EXCEPT !.at = at, !.target = p, !.row = row]
<1>1. job \in RequestType
  BY EmptyRows DEF RequestType, Signing
<1>2. LetIn(job)
  BY DEF NoRequest, LetIn, Signing
<1>3. rushed' \subseteq People
  BY DEF BeginSigning, Sound
<1>4. Begin(q, job)
  BY DEF BeginSigning
<1> HIDE DEF job
<1> QED
  BY <1>1, <1>2, <1>3, <1>4, BeginsSound

\* The requests that change an account or make one.
LEMMA ChangingSound ==
  ASSUME Sound, NEW q \in Requests, NEW at \in {"create", "setRole", "setActive"},
         NEW a \in People, NEW p \in People, NEW row \in Row, BelowLimit(row),
         at # "create" => account[p].role # "none",
         at # "setActive" => row.role # "none",
         Begin(q, [NoRequest EXCEPT !.at = at, !.actor = a, !.target = p, !.row = row]),
         UNCHANGED rushed
  PROVE  Sound'
<1> DEFINE job == [NoRequest EXCEPT !.at = at, !.actor = a, !.target = p, !.row = row]
<1>1. job \in RequestType
  BY EmptyRows DEF RequestType
<1>2. LetIn(job)
  BY DEF NoRequest, LetIn
<1>3. rushed' \subseteq People
  BY DEF Sound
<1>4. Begin(q, job)
  OBVIOUS
<1> HIDE DEF job
<1> QED
  BY <1>1, <1>2, <1>3, <1>4, BeginsSound

\* A step that takes no account away and ends or marks requests only.
LEMMA EndsSound ==
  ASSUME Sound,
         account' \in [People -> Row],
         \A p \in People : /\ BelowLimit(account'[p])
                           /\ account[p].role # "none" => account'[p].role # "none"
                           /\ NewPerson(p)',
         request' \in [Requests -> RequestType],
         \A r \in Requests : \/ request'[r] = NoRequest
                             \/ request'[r] = [request[r] EXCEPT !.overtaken = TRUE]
                             \/ request'[r] = request[r],
         strikes' \in [People -> 0..MaxFailed], rushed' \subseteq People, late' \in BOOLEAN
  PROVE  Sound'
<1>1. ASSUME NEW r \in Requests PROVE LetIn(request[r])'
  <2>1. LetIn(request[r]) /\ request[r] \in RequestType
    BY DEF Sound
  <2>2. CASE request'[r] = NoRequest
    BY <2>2, EmptyRows DEF LetIn
  <2>3. CASE request'[r] = request[r]
    BY <2>1, <2>3 DEF LetIn
  <2>4. CASE request'[r] = [request[r] EXCEPT !.overtaken = TRUE]
    BY <2>1, <2>4 DEF LetIn, RequestType
  <2> QED
    BY <2>2, <2>3, <2>4
<1> QED
  BY <1>1 DEF Sound

\* One request ends.
LEMMA OneEnds ==
  ASSUME Sound, NEW q \in Requests, request' = [request EXCEPT ![q] = NoRequest]
  PROVE  /\ request' \in [Requests -> RequestType]
         /\ \A r \in Requests : \/ request'[r] = NoRequest
                                \/ request'[r] = [request[r] EXCEPT !.overtaken = TRUE]
                                \/ request'[r] = request[r]
BY EmptyRows DEF Sound

\* The requests that begin.
LEMMA BeginningsSound ==
  ASSUME Sound, NEW q \in Requests, NEW p \in People,
         \/ LoginWrong(q, p) \/ LoginRight(q, p) \/ ChangePassword(q, p)
         \/ \E a \in People, role \in {"DEALER_ADMIN", "DEALER_STAFF"} :
              \/ ResetPassword(q, a, p) \/ CreateUser(q, a, p, role) \/ SetRole(q, a, p, role)
              \/ \E active \in BOOLEAN : SetActive(q, a, p, active)
  PROVE  Sound'
<1>0. account[p] \in Row /\ BelowLimit(account[p]) /\ NewPerson(p)
  BY DEF Sound
<1>1. CASE LoginWrong(q, p)
  <2>1. Counters(p) \in Row /\ BelowLimit(Counters(p))
    BY <1>0, EmptyRows DEF Counters, Row, BelowLimit
  <2>2. account[p].role # "none"
    BY <1>0, <1>1 DEF LoginWrong, NewPerson
  <2> QED
    BY <1>1, <2>1, <2>2, FailedIsRow, SigningSound DEF LoginWrong, Signing
<1>2. CASE LoginRight(q, p) \/ ChangePassword(q, p)
  <2>1. account[p].role # "none"
    BY <1>0, <1>2 DEF LoginRight, ChangePassword, SignedIn, NewPerson
  <2> QED
    BY <1>2, <2>1, EmptyRows, SigningSound DEF LoginRight, ChangePassword, Signing
<1>3. ASSUME NEW a \in People, ResetPassword(q, a, p) PROVE Sound'
  <2>1. [NoAccountRow EXCEPT !.temp = TRUE] \in Row /\ BelowLimit([NoAccountRow EXCEPT !.temp = TRUE])
    BY EmptyRows DEF Row, BelowLimit
  <2> QED
    BY <1>3, <2>1, SigningSound DEF ResetPassword, Exists, Signing
<1>4. ASSUME NEW a \in People, NEW role \in {"DEALER_ADMIN", "DEALER_STAFF"},
             CreateUser(q, a, p, role)
      PROVE  Sound'
  <2> DEFINE row == [NoAccountRow EXCEPT !.role = role, !.active = TRUE, !.temp = TRUE]
  <2>1. row \in Row /\ BelowLimit(row) /\ row.role # "none"
    BY EmptyRows DEF Row, BelowLimit
  <2> HIDE DEF row
  <2>2. Begin(q, [NoRequest EXCEPT !.at = "create", !.actor = a, !.target = p, !.row = row])
    BY <1>4 DEF CreateUser, row
  <2>3. UNCHANGED rushed
    BY <1>4 DEF CreateUser
  <2> QED
    BY <2>1, <2>2, <2>3, ChangingSound
<1>5. ASSUME NEW a \in People, NEW role \in {"DEALER_ADMIN", "DEALER_STAFF"}, SetRole(q, a, p, role)
      PROVE  Sound'
  <2> DEFINE row == [NoAccountRow EXCEPT !.role = role]
  <2>1. row \in Row /\ BelowLimit(row) /\ row.role # "none"
    BY EmptyRows DEF Row, BelowLimit
  <2> HIDE DEF row
  <2>2. Begin(q, [NoRequest EXCEPT !.at = "setRole", !.actor = a, !.target = p, !.row = row])
    BY <1>5, ZenonT(60) DEF SetRole, row, NoRequest
  <2>3. UNCHANGED rushed /\ account[p].role # "none"
    BY <1>5 DEF SetRole, Exists
  <2> QED
    BY <2>1, <2>2, <2>3, ChangingSound, ZenonT(60)
<1>6. ASSUME NEW a \in People, NEW active \in BOOLEAN, SetActive(q, a, p, active) PROVE Sound'
  <2> DEFINE row == [NoAccountRow EXCEPT !.active = active]
  <2>1. row \in Row /\ BelowLimit(row)
    BY EmptyRows DEF Row, BelowLimit
  <2> HIDE DEF row
  <2>2. Begin(q, [NoRequest EXCEPT !.at = "setActive", !.actor = a, !.target = p, !.row = row])
    BY <1>6 DEF SetActive, row, NoRequest
  <2>3. UNCHANGED rushed /\ account[p].role # "none"
    BY <1>6 DEF SetActive, Exists
  <2> QED
    BY <2>1, <2>2, <2>3, ChangingSound
<1> QED
  BY <1>1, <1>2, <1>3, <1>4, <1>5, <1>6

\* The requests that end.
LEMMA EndingsSound ==
  ASSUME Sound, NEW q \in Requests,
         \/ LoginFails(q) \/ LoginSucceeds(q) \/ PasswordSet(q)
         \/ UserCreated(q) \/ UserUpdated(q) \/ RequestDies(q)
  PROVE  Sound'
<1> DEFINE p == request[q].target
<1>0. /\ request[q] \in RequestType /\ LetIn(request[q])
      /\ account \in [People -> Row] /\ strikes \in [People -> 0..MaxFailed]
      /\ rushed \subseteq People /\ late \in BOOLEAN
  BY DEF Sound
<1>a. \A x \in People : account[x] \in Row /\ BelowLimit(account[x]) /\ NewPerson(x)
  BY DEF Sound
<1>b. request[q].at # "none" => p \in People
  BY <1>0 DEF LetIn
<1>c. request[q].at \notin {"none", "create"} => account[p].role # "none"
  BY <1>0 DEF LetIn
<1>1. CASE LoginFails(q)
  <2>1. p \in People /\ account[p].role # "none" /\ request[q].row \in Row /\ BelowLimit(request[q].row)
    BY <1>0, <1>1, <1>b, <1>c DEF LoginFails, LetIn, RequestType
  <2> DEFINE row == [account[p] EXCEPT !.fails = request[q].row.fails,
                                       !.blocked = request[q].row.blocked \/ @]
  <2>2. account' = [account EXCEPT ![p] = row]
    BY <1>0, <1>1, <2>1 DEF LoginFails
  <2>3. row \in Row /\ BelowLimit(row) /\ row.role # "none"
    BY <1>a, <2>1 DEF Row, BelowLimit
  <2>4. account' \in [People -> Row] /\ \A x \in People :
          /\ BelowLimit(account'[x])
          /\ account[x].role # "none" => account'[x].role # "none"
          /\ account'[x].role = "none" => x # p /\ account'[x] = account[x]
    <3> HIDE DEF row, p
    <3> QED
      BY <1>0, <1>a, <2>1, <2>2, <2>3, SMTT(40)
  <2>5. strikes' \in [People -> 0..MaxFailed] /\ \A x \in People \ {p} : strikes'[x] = strikes[x]
    <3>1. strikes[p] < MaxFailed => strikes[p] + 1 \in 0..MaxFailed
      BY <1>0, <2>1, AccountsAssumption
    <3> QED
      BY <1>0, <1>1, <2>1, <3>1, AccountsAssumption DEF LoginFails
  <2>6. \A x \in People : NewPerson(x)'
    BY <1>a, <2>4, <2>5 DEF NewPerson
  <2>7. request' = [request EXCEPT ![q] = NoRequest] /\ UNCHANGED <<rushed, late>>
    BY <1>1 DEF LoginFails
  <2> HIDE DEF row, p
  <2> QED
    BY <1>0, <2>4, <2>5, <2>6, <2>7, OneEnds, EndsSound
<1>2. CASE LoginSucceeds(q) \/ PasswordSet(q)
  <2>1. p \in People /\ account[p].role # "none" /\ request[q].row \in Row
    BY <1>0, <1>2, <1>b, <1>c DEF LoginSucceeds, PasswordSet, RequestType
  <2>2. PICK row \in {Cleared(account[p]), [Cleared(account[p]) EXCEPT !.temp = request[q].row.temp]} :
          account' = [account EXCEPT ![p] = row]
    BY <1>0, <1>2, <2>1 DEF LoginSucceeds, PasswordSet
  <2>3. row \in Row /\ BelowLimit(row) /\ row.role # "none"
    <3>1. 0 \in 0..MaxFailed /\ 0 < MaxFailed
      BY AccountsAssumption
    <3>2. account[p] \in Row /\ request[q].row.temp \in BOOLEAN
      BY <1>a, <2>1 DEF Row
    <3>3. Cleared(account[p]) \in Row /\ Cleared(account[p]).fails = 0
          /\ Cleared(account[p]).role # "none"
      BY <2>1, <3>1, <3>2 DEF Cleared, Row
    <3>4. row.fails = 0 /\ row.role # "none" /\ row \in Row
      BY <2>2, <3>2, <3>3 DEF Row
    <3> QED
      BY <3>1, <3>4 DEF BelowLimit
  <2>4. account' \in [People -> Row] /\ \A x \in People :
          /\ BelowLimit(account'[x])
          /\ account[x].role # "none" => account'[x].role # "none"
          /\ account'[x].role = "none" => x # p /\ account'[x] = account[x]
    <3> HIDE DEF p
    <3> QED
      BY <1>0, <1>a, <2>1, <2>2, <2>3
  <2>5. strikes' \in [People -> 0..MaxFailed] /\ \A x \in People \ {p} : strikes'[x] = strikes[x]
    BY <1>0, <1>2, AccountsAssumption DEF LoginSucceeds, PasswordSet
  <2>6. \A x \in People : NewPerson(x)'
    BY <1>a, <2>4, <2>5 DEF NewPerson
  <2>7. request' = [request EXCEPT ![q] = NoRequest] /\ late' = late /\ rushed' \subseteq People
    BY <1>0, <1>2 DEF LoginSucceeds, PasswordSet, StillRushed
  <2> HIDE DEF p
  <2> QED
    BY <1>0, <2>4, <2>5, <2>6, <2>7, OneEnds, EndsSound
<1>3. CASE UserCreated(q)
  <2>1. /\ p \in People /\ request[q].row \in Row /\ BelowLimit(request[q].row)
        /\ request[q].row.role # "none"
    BY <1>0, <1>3, <1>b DEF UserCreated, RequestType, LetIn
  <2>2. account' = [account EXCEPT ![p] = request[q].row] \/ account' = account
    BY <1>0, <1>3, <2>1 DEF UserCreated
  <2>3. account' \in [People -> Row] /\ \A x \in People :
          /\ BelowLimit(account'[x])
          /\ account[x].role # "none" => account'[x].role # "none"
          /\ account'[x].role = "none" => account'[x] = account[x]
    <3> HIDE DEF p
    <3> QED
      BY <1>0, <1>a, <2>1, <2>2
  <2>4. request' = [request EXCEPT ![q] = NoRequest] /\ UNCHANGED <<strikes, rushed, late>>
    BY <1>3 DEF UserCreated
  <2>5. \A x \in People : NewPerson(x)'
    BY <1>a, <2>3, <2>4 DEF NewPerson
  <2> HIDE DEF p
  <2> QED
    BY <1>0, <2>3, <2>4, <2>5, OneEnds, EndsSound
<1>4. CASE UserUpdated(q)
  <2>1. /\ p \in People /\ account[p].role # "none" /\ request[q].row \in Row
        /\ request[q].at = "setRole" => request[q].row.role # "none"
    BY <1>0, <1>4, <1>b, <1>c DEF UserUpdated, RequestType, LetIn
  <2>2. PICK row \in {[account[p] EXCEPT !.role = request[q].row.role],
                      [account[p] EXCEPT !.active = request[q].row.active]} :
          /\ account' = [account EXCEPT ![p] = row]
          /\ row.role # "none"
    BY <1>0, <1>4, <1>a, <2>1 DEF UserUpdated, Row
  <2>3. row \in Row /\ BelowLimit(row)
    BY <1>a, <2>1, <2>2 DEF Row, BelowLimit
  <2>4. account' \in [People -> Row] /\ \A x \in People :
          /\ BelowLimit(account'[x])
          /\ account[x].role # "none" => account'[x].role # "none"
          /\ account'[x].role = "none" => account'[x] = account[x]
    <3> HIDE DEF p
    <3> QED
      BY <1>0, <1>a, <2>1, <2>2, <2>3
  <2>5. /\ request' \in [Requests -> RequestType]
        /\ \A r \in Requests : \/ request'[r] = NoRequest
                               \/ request'[r] = [request[r] EXCEPT !.overtaken = TRUE]
                               \/ request'[r] = request[r]
    <3>1. request' = [r \in Requests |->
                        IF r = q THEN NoRequest
                        ELSE IF request[r].actor = p THEN [request[r] EXCEPT !.overtaken = TRUE]
                        ELSE request[r]]
      BY <1>4 DEF UserUpdated
    <3>2. ASSUME NEW r \in Requests
          PROVE  request[r] \in RequestType /\ [request[r] EXCEPT !.overtaken = TRUE] \in RequestType
      BY <3>2, ZenonT(60) DEF Sound, RequestType
    <3> HIDE DEF p
    <3> QED
      BY <3>1, <3>2, EmptyRows
  <2>6. UNCHANGED <<strikes, rushed>> /\ late' \in BOOLEAN
    BY <1>0, <1>4 DEF UserUpdated, RequestType
  <2>7. \A x \in People : NewPerson(x)'
    BY <1>a, <2>4, <2>6 DEF NewPerson
  <2> HIDE DEF p
  <2> QED
    BY <1>0, <2>4, <2>5, <2>6, <2>7, EndsSound
<1>5. CASE RequestDies(q)
  <2>1. \A x \in People : NewPerson(x)'
    BY <1>5, <1>a DEF RequestDies, NewPerson
  <2>2. request' = [request EXCEPT ![q] = NoRequest] /\ UNCHANGED <<account, strikes, rushed, late>>
    BY <1>5 DEF RequestDies
  <2> HIDE DEF p
  <2> QED
    BY <1>0, <1>a, <2>1, <2>2, OneEnds, EndsSound
<1> QED
  BY <1>1, <1>2, <1>3, <1>4, <1>5

\* A block that ends.
LEMMA BlockEndsSound ==
  ASSUME Sound, NEW p \in People, BlockEnds(p)
  PROVE  Sound'
<1>1. account[p] \in Row /\ account \in [People -> Row]
  BY DEF Sound
<1>2. [account[p] EXCEPT !.blocked = FALSE] \in Row
  BY <1>1 DEF Row
<1>3. account' \in [People -> Row] /\ \A x \in People :
        /\ account'[x].fails = account[x].fails /\ account'[x].role = account[x].role
        /\ account'[x].active = account[x].active
  BY <1>1, <1>2 DEF BlockEnds, Row
<1>4. \A x \in People : BelowLimit(account'[x]) /\ NewPerson(x)'
  BY <1>3 DEF BlockEnds, Sound, BelowLimit, NewPerson
<1>5. UNCHANGED <<request, strikes, rushed, late>>
  BY DEF BlockEnds
<1> QED
  BY <1>3, <1>4, <1>5, EndsSound DEF Sound

\* Accounts and requests stay well typed, and what a request was let in with
\* stays there until it is carried out.
LEMMA AlwaysSound == AccountsSpec => []Sound
<1>1. AccountsInit => Sound
  <2> SUFFICES ASSUME AccountsInit PROVE Sound
    OBVIOUS
  <2>1. PICK o \in People :
          account = [p \in People |->
                       IF p = o THEN [NoAccountRow EXCEPT !.role = "DEALER_ADMIN", !.active = TRUE]
                       ELSE NoAccountRow]
    BY DEF AccountsInit
  <2>2. LET row == [NoAccountRow EXCEPT !.role = "DEALER_ADMIN", !.active = TRUE]
        IN row \in Row /\ BelowLimit(row)
    BY EmptyRows DEF Row, BelowLimit
  <2>3. account \in [People -> Row] /\ \A p \in People : BelowLimit(account[p])
    BY <2>1, <2>2, EmptyRows
  <2>4. \A p \in People : NewPerson(p)
    BY <2>1, AccountsAssumption DEF AccountsInit, NewPerson, NoAccountRow
  <2>5. request \in [Requests -> RequestType] /\ \A q \in Requests : LetIn(request[q])
    BY EmptyRows DEF AccountsInit
  <2>6. strikes \in [People -> 0..MaxFailed] /\ rushed \subseteq People /\ late \in BOOLEAN
    <3>1. 0 \in 0..MaxFailed
      BY AccountsAssumption
    <3> QED
      BY <3>1 DEF AccountsInit
  <2> QED
    BY <2>3, <2>4, <2>5, <2>6 DEF Sound
<1>2. Sound /\ [AccountsNext]_accountVars => Sound'
  <2> SUFFICES ASSUME Sound, [AccountsNext]_accountVars PROVE Sound'
    OBVIOUS
  <2>1. CASE UNCHANGED accountVars
    BY <2>1 DEF accountVars, Sound, NewPerson, LetIn
  <2> QED
    BY <2>1, BeginningsSound, EndingsSound, BlockEndsSound DEF AccountsNext
<1> QED
  BY <1>1, <1>2, PTL DEF AccountsSpec

\* Accounts, requests and counters stay well typed: no count ever passes the
\* limit on wrong passwords (users rows, AuthService).
THEOREM AccountsTypeCorrect == AccountsSpec => []AccountsTypeOK
<1>1. Sound => AccountsTypeOK
  BY DEF Sound, AccountsTypeOK, RequestType
<1> QED
  BY <1>1, AlwaysSound, PTL

-----------------------------------------------------------------------------
(* Somebody can manage *)

CanManage(p) == account[p].active /\ account[p].role = "DEALER_ADMIN"

\* Who asked for a change, and was not changed since, can manage still, and the
\* change does not take that away from themselves.
Entitled(job) ==
  job.at \in {"setRole", "setActive"} /\ ~job.overtaken =>
    /\ CanManage(job.actor)
    /\ job.actor = job.target => /\ job.at = "setRole" => job.row.role = "DEALER_ADMIN"
                                 /\ job.at = "setActive" => job.row.active

ManageInv ==
  late \/ ((\E p \in People : CanManage(p)) /\ (\A q \in Requests : Entitled(request[q])))

\* A step that leaves everybody who can manage as they are, and adds no request
\* but one whose maker is entitled to it.
LEMMA ManagersKept ==
  ASSUME ManageInv, Sound', UNCHANGED late,
         \A p \in People : CanManage(p) => CanManage(p)',
         \A q \in Requests : \/ request'[q] = request[q]
                             \/ request'[q].at \notin {"setRole", "setActive"}
                             \/ Entitled(request'[q])
  PROVE  ManageInv'
<1>1. CASE late
  BY <1>1 DEF ManageInv
<1>2. CASE ~late
  <2>1. PICK p \in People : CanManage(p)
    BY <1>2 DEF ManageInv
  <2>2. CanManage(p)'
    BY <2>1
  <2>3. ASSUME NEW q \in Requests PROVE Entitled(request[q])'
    <3>1. LetIn(request[q])'
      BY DEF Sound
    <3>2. request'[q].at \in {"setRole", "setActive"} => request'[q].actor \in People
      BY <3>1 DEF LetIn
    <3>3. request'[q].at \in {"setRole", "setActive"} => Entitled(request'[q])
      BY <1>2 DEF ManageInv
    <3> QED
      BY <3>2, <3>3 DEF Entitled
  <2> QED
    BY <2>2, <2>3 DEF ManageInv
<1> QED
  BY <1>1, <1>2

\* A request that begins is entitled to what it asks.
LEMMA BeginsEntitled ==
  ASSUME Sound, ManageInv, Sound', NEW q \in Requests, NEW p \in People,
         \/ LoginWrong(q, p) \/ LoginRight(q, p) \/ ChangePassword(q, p)
         \/ \E a \in People, role \in {"DEALER_ADMIN", "DEALER_STAFF"} :
              \/ ResetPassword(q, a, p) \/ CreateUser(q, a, p, role) \/ SetRole(q, a, p, role)
              \/ \E active \in BOOLEAN : SetActive(q, a, p, active)
  PROVE  ManageInv'
<1>1. ASSUME NEW job, Begin(q, job), job.at \notin {"setRole", "setActive"} \/ Entitled(job)
      PROVE  ManageInv'
  <2>1. UNCHANGED <<account, late>> /\ request' = [request EXCEPT ![q] = job]
    BY <1>1 DEF Begin
  <2>2. \A r \in Requests : request'[r] = request[r] \/ request'[r] = job
    BY <2>1 DEF Sound
  <2> QED
    BY <1>1, <2>1, <2>2, ManagersKept DEF CanManage
<1>2. ASSUME NEW at \in Signing, NEW row, BeginSigning(q, at, p, row) PROVE ManageInv'
  <2> DEFINE job == [NoRequest EXCEPT !.at = at, !.target = p, !.row = row]
  <2>1. job.at \notin {"setRole", "setActive"}
    BY DEF NoRequest, Signing
  <2>2. Begin(q, job)
    BY <1>2 DEF BeginSigning
  <2> HIDE DEF job
  <2> QED
    BY <1>1, <2>1, <2>2
<1>3. CASE LoginWrong(q, p) \/ LoginRight(q, p) \/ ChangePassword(q, p)
  BY <1>2, <1>3 DEF LoginWrong, LoginRight, ChangePassword, Signing
<1>4. ASSUME NEW a \in People, ResetPassword(q, a, p) PROVE ManageInv'
  BY <1>2, <1>4 DEF ResetPassword, Signing
<1>5. ASSUME NEW a \in People, NEW role, CreateUser(q, a, p, role) PROVE ManageInv'
  <2> DEFINE job == [NoRequest EXCEPT !.at = "create", !.actor = a, !.target = p,
                       !.row = [NoAccountRow EXCEPT !.role = role, !.active = TRUE, !.temp = TRUE]]
  <2>1. job.at = "create"
    BY SMTT(40) DEF NoRequest
  <2>2. Begin(q, job)
    BY <1>5 DEF CreateUser
  <2> HIDE DEF job
  <2> QED
    BY <1>1, <2>1, <2>2
<1>6. ASSUME NEW a \in People, NEW role, SetRole(q, a, p, role) PROVE ManageInv'
  <2> DEFINE job == [NoRequest EXCEPT !.at = "setRole", !.actor = a, !.target = p, !.row.role = role]
  <2>1. job.at = "setRole" /\ job.actor = a /\ job.target = p /\ job.row.role = role
    BY ZenonT(60) DEF NoRequest, NoAccountRow
  <2>2. Entitled(job)
    <3> HIDE DEF job
    <3> QED
      BY <1>6, <2>1, ZenonT(60) DEF SetRole, Manager, SignedIn, CanManage, Entitled
  <2>3. Begin(q, job)
    BY <1>6 DEF SetRole
  <2> HIDE DEF job
  <2> QED
    BY <1>1, <2>2, <2>3
<1>7. ASSUME NEW a \in People, NEW active, SetActive(q, a, p, active) PROVE ManageInv'
  <2> DEFINE job == [NoRequest EXCEPT !.at = "setActive", !.actor = a, !.target = p, !.row.active = active]
  <2>1. job.at = "setActive" /\ job.actor = a /\ job.target = p /\ job.row.active = active
    BY SMTT(40) DEF NoRequest, NoAccountRow
  <2>2. Entitled(job)
    <3> HIDE DEF job
    <3> QED
      BY <1>7, <2>1 DEF SetActive, Manager, SignedIn, CanManage, Entitled
  <2>3. Begin(q, job)
    BY <1>7 DEF SetActive
  <2> HIDE DEF job
  <2> QED
    BY <1>1, <2>2, <2>3
<1> QED
  BY <1>3, <1>4, <1>5, <1>6, <1>7

\* A request that ends without changing who can manage.
LEMMA EndsEntitled ==
  ASSUME Sound, ManageInv, Sound', NEW q \in Requests,
         LoginFails(q) \/ LoginSucceeds(q) \/ PasswordSet(q) \/ UserCreated(q) \/ RequestDies(q)
  PROVE  ManageInv'
<1> DEFINE p == request[q].target
<1>1. account \in [People -> Row] /\ request \in [Requests -> RequestType] /\ LetIn(request[q])
  BY DEF Sound
<1>2. UNCHANGED late /\ request' = [request EXCEPT ![q] = NoRequest]
  BY DEF LoginFails, LoginSucceeds, PasswordSet, UserCreated, RequestDies
<1>3. \A r \in Requests : request'[r] = request[r] \/ request'[r].at \notin {"setRole", "setActive"}
  BY <1>1, <1>2, EmptyRows
<1>4. ASSUME NEW x \in People, CanManage(x) PROVE CanManage(x)'
  <2>0. account[x] \in Row
    BY <1>1
  <2>1. CASE LoginFails(q)
    BY <1>1, <1>4, <2>0, <2>1 DEF LoginFails, CanManage, Row
  <2>2. CASE LoginSucceeds(q)
    BY <1>1, <1>4, <2>0, <2>2 DEF LoginSucceeds, Cleared, CanManage, Row
  <2>3. CASE PasswordSet(q)
    BY <1>1, <1>4, <2>0, <2>3 DEF PasswordSet, Cleared, CanManage, Row
  <2>4. CASE UserCreated(q)
    BY <1>1, <1>4, <2>4 DEF UserCreated, Exists, CanManage
  <2>5. CASE RequestDies(q)
    BY <1>4, <2>5 DEF RequestDies, CanManage
  <2> QED
    BY <2>1, <2>2, <2>3, <2>4, <2>5
<1> QED
  BY <1>2, <1>3, <1>4, ManagersKept

\* A change that is carried out: its maker can manage afterwards, and whoever it
\* was about has nothing pending that counts.
LEMMA UpdateEntitled ==
  ASSUME Sound, ManageInv, Sound', NEW q \in Requests, UserUpdated(q)
  PROVE  ManageInv'
<1>0. PICK a \in People, p \in People : a = request[q].actor /\ p = request[q].target
  BY DEF Sound, UserUpdated, LetIn
<1>1. /\ account \in [People -> Row] /\ request[q] \in RequestType /\ LetIn(request[q])
      /\ request[q].at \in {"setRole", "setActive"}
  BY DEF Sound, UserUpdated
<1>2. late' = (late \/ request[q].overtaken)
  BY DEF UserUpdated
<1>3. CASE late \/ request[q].overtaken
  BY <1>2, <1>3 DEF ManageInv
<1>4. CASE ~late /\ ~request[q].overtaken
  <2>1. Entitled(request[q]) /\ CanManage(a)
    BY <1>0, <1>1, <1>4 DEF ManageInv, Entitled
  <2>2. \A x \in People : x # p => account'[x] = account[x]
    BY <1>0, <1>1 DEF UserUpdated
  <2>3. CanManage(a)'
    <3>1. CASE a # p
      BY <1>1, <2>1, <2>2, <3>1 DEF CanManage
    <3>2. CASE a = p /\ request[q].at = "setRole"
      BY <1>0, <1>1, <1>4, <2>1, <3>2 DEF UserUpdated, CanManage, Entitled, Row
    <3>3. CASE a = p /\ request[q].at = "setActive"
      BY <1>0, <1>1, <1>4, <2>1, <3>3 DEF UserUpdated, CanManage, Entitled, Row
    <3> QED
      BY <1>1, <3>1, <3>2, <3>3
  <2>4. ASSUME NEW r \in Requests PROVE Entitled(request[r])'
    <3>1. request'[r] = IF r = q THEN NoRequest
                        ELSE IF request[r].actor = p THEN [request[r] EXCEPT !.overtaken = TRUE]
                        ELSE request[r]
      BY <1>0 DEF UserUpdated
    <3>2. request[r] \in RequestType /\ LetIn(request[r]) /\ Entitled(request[r])
      BY <1>4 DEF Sound, ManageInv
    <3>3. CASE r = q
      BY <3>1, <3>3, EmptyRows DEF Entitled
    <3>4. CASE r # q /\ request[r].actor = p
      BY <3>1, <3>2, <3>4 DEF Entitled, RequestType
    <3>5. CASE r # q /\ request[r].actor # p
      <4>1. request'[r] = request[r]
        BY <3>1, <3>5
      <4>2. request[r].at \in {"setRole", "setActive"} =>
              account'[request[r].actor] = account[request[r].actor]
        BY <2>2, <3>2, <3>5 DEF LetIn
      <4> QED
        BY <3>2, <4>1, <4>2 DEF Entitled, CanManage
    <3> QED
      BY <3>3, <3>4, <3>5
  <2> QED
    BY <1>1, <2>3, <2>4 DEF ManageInv
<1> QED
  BY <1>3, <1>4

\* However many admins there are and however they create, demote and deactivate
\* each other, a shop is left with one who can, unless a request was carried out
\* for somebody changed after it was let in (users.routes.ts).
THEOREM SomebodyManages == AccountsSpec => []SomeoneCanManage
<1>1. AccountsInit => ManageInv
  <2> SUFFICES ASSUME AccountsInit PROVE ManageInv
    OBVIOUS
  <2>1. \E p \in People : CanManage(p)
    BY DEF AccountsInit, CanManage, NoAccountRow
  <2>2. \A q \in Requests : Entitled(request[q])
    BY EmptyRows DEF AccountsInit, Entitled
  <2> QED
    BY <2>1, <2>2 DEF ManageInv
<1>2. Sound /\ Sound' /\ ManageInv /\ [AccountsNext]_accountVars => ManageInv'
  <2> SUFFICES ASSUME Sound, Sound', ManageInv, [AccountsNext]_accountVars PROVE ManageInv'
    OBVIOUS
  <2>1. CASE UNCHANGED accountVars
    BY <2>1, ManagersKept DEF accountVars, CanManage
  <2>2. ASSUME NEW p \in People, BlockEnds(p) PROVE ManageInv'
    <3>1. \A x \in People : CanManage(x) => CanManage(x)'
      BY <2>2 DEF BlockEnds, CanManage, Sound, Row
    <3> QED
      BY <2>2, <3>1, ManagersKept DEF BlockEnds
  <2> QED
    BY <2>1, <2>2, BeginsEntitled, EndsEntitled, UpdateEntitled DEF AccountsNext
<1>3. ManageInv => SomeoneCanManage
  BY DEF ManageInv, CanManage, SomeoneCanManage
<1> QED
  BY <1>1, <1>2, <1>3, AlwaysSound, PTL DEF AccountsSpec

-----------------------------------------------------------------------------
(* The block comes in time *)

SigningFor(p) == {q \in Requests : request[q].at \in Signing /\ request[q].target = p}

\* Of an account whose sign-ins have not overlapped: the row counts no less than
\* was tried, one request at most is about it, and a wrong password will be
\* counted on what the row says now.
Counted(p) ==
  /\ strikes[p] <= account[p].fails
  /\ \A q, r \in SigningFor(p) : q = r
  /\ \A q \in SigningFor(p) : request[q].at = "fail" => request[q].row = Failed(Counters(p))

CountInv == \A p \in People : p \in rushed \/ Counted(p)

\* A step that adds no request about a person's password and leaves the person's
\* counters alone.
LEMMA CountersKept ==
  ASSUME NEW p \in People, p \in rushed \/ Counted(p), p \in rushed => p \in rushed',
         strikes'[p] <= account'[p].fails \/ (strikes'[p] = strikes[p] /\ account'[p].fails = account[p].fails),
         SigningFor(p) # {} => account'[p].fails = account[p].fails,
         \A q \in Requests :
           \/ request'[q].at \notin Signing
           \/ request'[q].at = request[q].at /\ request'[q].target = request[q].target
              /\ request'[q].row = request[q].row
  PROVE  (p \in rushed \/ Counted(p))'
<1>1. SigningFor(p)' \subseteq SigningFor(p)
  BY DEF SigningFor
<1>2. ASSUME Counted(p) PROVE Counted(p)'
  <2>1. strikes'[p] <= account'[p].fails
    BY <1>2 DEF Counted
  <2>2. \A q, r \in SigningFor(p)' : q = r
    BY <1>1, <1>2 DEF Counted
  <2>3. ASSUME NEW q \in SigningFor(p)', request'[q].at = "fail"
        PROVE  request'[q].row = Failed(Counters(p))'
    <3>1. q \in Requests /\ request'[q].at \in Signing /\ q \in SigningFor(p)
      BY <1>1, <2>3 DEF SigningFor
    <3>2. request'[q].row = request[q].row /\ request[q].at = "fail"
      BY <2>3, <3>1
    <3>3. Counters(p)' = Counters(p)
      BY <3>1 DEF Counters
    <3>4. Failed(Counters(p))' = Failed(Counters(p))
      BY <3>3 DEF Failed
    <3> QED
      BY <1>2, <3>1, <3>2, <3>4 DEF Counted
  <2> QED
    BY <2>1, <2>2, <2>3 DEF Counted
<1> QED
  BY <1>2

\* A request about a password begins: a second one for the same person is told.
LEMMA SigningCounted ==
  ASSUME Sound, CountInv, NEW q \in Requests, NEW at \in Signing, NEW p \in People, NEW row,
         at = "fail" => row = Failed(Counters(p)), BeginSigning(q, at, p, row)
  PROVE  CountInv'
<1> DEFINE job == [NoRequest EXCEPT !.at = at, !.target = p, !.row = row]
<1>1. job.at = at /\ job.target = p /\ job.row = row
  BY DEF NoRequest
<1>2. /\ request' = [request EXCEPT ![q] = job] /\ request[q].at = "none"
      /\ UNCHANGED <<account, strikes>>
      /\ rushed' = IF SigningFor(p) # {} THEN rushed \cup {p} ELSE rushed
  BY DEF BeginSigning, Begin, SigningFor
<1> HIDE DEF job
<1>3. \A r \in Requests : request'[r] = IF r = q THEN job ELSE request[r]
  BY <1>2 DEF Sound
<1>4. ASSUME NEW x \in People, x # p PROVE (x \in rushed \/ Counted(x))'
  <2>1. SigningFor(x)' = SigningFor(x)
    BY <1>1, <1>2, <1>3, <1>4 DEF SigningFor, Signing
  <2>2. \A r \in SigningFor(x) : request'[r] = request[r]
    BY <1>2, <1>3 DEF SigningFor, Signing
  <2>3. Counters(x)' = Counters(x) /\ Failed(Counters(x))' = Failed(Counters(x))
    BY <1>2 DEF Counters, Failed
  <2>4. Counted(x) => Counted(x)'
    BY <1>2, <2>1, <2>2, <2>3 DEF Counted
  <2> QED
    BY <1>2, <2>4 DEF CountInv
<1>5. (p \in rushed \/ Counted(p))'
  <2>1. CASE SigningFor(p) # {} \/ p \in rushed
    BY <1>2, <2>1
  <2>2. CASE SigningFor(p) = {} /\ p \notin rushed
    <3>1. SigningFor(p)' \subseteq {q}
      BY <1>3, <2>2 DEF SigningFor
    <3>2. Failed(Counters(p))' = Failed(Counters(p))
      BY <1>2 DEF Counters, Failed
    <3>3. request'[q] = job
      BY <1>3
    <3> QED
      BY <1>1, <1>2, <2>2, <3>1, <3>2, <3>3 DEF CountInv, Counted
  <2> QED
    BY <2>1, <2>2
<1> QED
  BY <1>4, <1>5 DEF CountInv

\* A wrong password is counted.
LEMMA FailCounted ==
  ASSUME Sound, CountInv, NEW q \in Requests, LoginFails(q)
  PROVE  CountInv'
<1>0. PICK p \in People : p = request[q].target
  BY DEF Sound, LoginFails, LetIn
<1>1. /\ account \in [People -> Row] /\ strikes \in [People -> 0..MaxFailed]
      /\ request \in [Requests -> RequestType] /\ MaxFailed \in Nat \ {0}
  BY AccountsAssumption DEF Sound
<1>2. /\ request[q].at = "fail" /\ UNCHANGED rushed
      /\ request' = [request EXCEPT ![q] = NoRequest]
      /\ account' = [account EXCEPT ![p].fails = request[q].row.fails,
                                    ![p].blocked = request[q].row.blocked \/ @]
      /\ strikes' = [strikes EXCEPT ![p] = IF account'[p].blocked THEN 0
                                           ELSE IF @ < MaxFailed THEN @ + 1 ELSE @]
  BY <1>0 DEF LoginFails
<1>3. ASSUME NEW x \in People, x # p PROVE (x \in rushed \/ Counted(x))'
  <2>1. account'[x] = account[x] /\ strikes'[x] = strikes[x]
    BY <1>1, <1>2, <1>3
  <2>2. \A r \in Requests : request'[r] = request[r] \/ request'[r].at \notin Signing
    BY <1>1, <1>2, EmptyRows DEF Signing
  <2> QED
    BY <1>2, <2>1, <2>2, CountersKept DEF CountInv
<1>4. CASE p \in rushed
  BY <1>2, <1>3, <1>4 DEF CountInv
<1>5. CASE p \notin rushed
  <2>1. q \in SigningFor(p) /\ Counted(p)
    BY <1>0, <1>2, <1>5 DEF SigningFor, Signing, CountInv
  <2>2. request[q].row = Failed(Counters(p)) /\ \A r \in SigningFor(p) : r = q
    BY <1>2, <2>1 DEF Counted
  <2>3. SigningFor(p)' = {}
    BY <1>1, <1>2, <2>2, EmptyRows DEF SigningFor, Signing
  <2>4. account[p].fails \in Nat /\ Counters(p).fails = account[p].fails /\ ~Counters(p).blocked
    BY <1>1 DEF Counters, NoAccountRow, Row
  <2>5. Counters(p) \in Row /\ request[q].row \in Row
    BY <1>1, EmptyRows DEF Counters, Row, RequestType
  <2>6. /\ account'[p].fails = request[q].row.fails
        /\ request[q].row.blocked => account'[p].blocked
    <3>1. account[p] \in Row /\ account[p].blocked \in BOOLEAN /\ request[q].row.blocked \in BOOLEAN
      BY <1>1, <2>5 DEF Row
    <3>2. account'[p] = [account[p] EXCEPT !.fails = request[q].row.fails,
                                           !.blocked = request[q].row.blocked \/ @]
      BY <1>1, <1>2
    <3>3. account'[p].fails = request[q].row.fails
      BY <3>1, <3>2 DEF Row
    <3>4. account'[p].blocked = (request[q].row.blocked \/ account[p].blocked)
      BY <3>1, <3>2 DEF Row
    <3> QED
      BY <3>1, <3>3, <3>4
  <2>7. strikes'[p] = IF account'[p].blocked THEN 0
                      ELSE IF strikes[p] < MaxFailed THEN strikes[p] + 1 ELSE strikes[p]
    BY <1>1, <1>2
  <2>8. strikes'[p] <= account'[p].fails
    <3>1. CASE account[p].fails + 1 >= MaxFailed
      <4>1. request[q].row = [Counters(p) EXCEPT !.fails = 0, !.blocked = TRUE]
        BY <2>2, <2>4, <3>1 DEF Failed
      <4>2. request[q].row.fails = 0 /\ request[q].row.blocked
        BY <2>5, <4>1 DEF Row
      <4> QED
        BY <2>6, <2>7, <4>2
    <3>2. CASE ~(account[p].fails + 1 >= MaxFailed)
      <4>1. request[q].row = [Counters(p) EXCEPT !.fails = account[p].fails + 1]
        BY <2>2, <2>4, <3>2 DEF Failed
      <4>2. request[q].row.fails = account[p].fails + 1
        BY <2>5, <4>1 DEF Row
      <4>3. strikes[p] <= account[p].fails /\ strikes[p] \in Nat
        BY <1>1, <2>1 DEF Counted
      <4>4. strikes'[p] <= account[p].fails + 1
        BY <1>1, <2>4, <2>7, <4>3
      <4> QED
        BY <2>6, <4>2, <4>4
    <3> QED
      BY <3>1, <3>2
  <2> QED
    BY <1>3, <2>3, <2>8 DEF Counted, CountInv
<1> QED
  BY <1>4, <1>5

\* The counters are cleared: whoever is no longer exempt has nothing under way.
LEMMA ClearCounted ==
  ASSUME Sound, CountInv, NEW q \in Requests, LoginSucceeds(q) \/ PasswordSet(q)
  PROVE  CountInv'
<1>0. PICK p \in People : p = request[q].target
  BY DEF Sound, LoginSucceeds, PasswordSet, LetIn
<1>1. /\ account \in [People -> Row] /\ strikes \in [People -> 0..MaxFailed]
      /\ request \in [Requests -> RequestType] /\ rushed \subseteq People
  BY DEF Sound
<1>2. /\ request[q].at \in Signing /\ rushed' = StillRushed(q)
      /\ request' = [request EXCEPT ![q] = NoRequest]
      /\ strikes' = [strikes EXCEPT ![p] = 0]
  BY <1>0 DEF LoginSucceeds, PasswordSet, Signing
<1>3. /\ \A x \in People : x # p => account'[x] = account[x]
      /\ account'[p].fails = 0
  <2>1. account[p] \in Row
    BY <1>1
  <2>2. PICK row \in {Cleared(account[p]), [Cleared(account[p]) EXCEPT !.temp = request[q].row.temp]} :
          account' = [account EXCEPT ![p] = row]
    BY <1>0, <1>1 DEF LoginSucceeds, PasswordSet
  <2>3. row.fails = 0
    BY <2>1, <2>2 DEF Cleared, Row
  <2> QED
    BY <1>1, <2>2, <2>3
<1>4. \A r \in Requests : request'[r] = request[r] \/ request'[r].at \notin Signing
  BY <1>1, <1>2, EmptyRows DEF Signing
<1>5. ASSUME NEW x \in People, x # p PROVE (x \in rushed \/ Counted(x))'
  <2>1. x \in rushed => x \in rushed'
    BY <1>0, <1>2, <1>5 DEF StillRushed
  <2>2. strikes'[x] = strikes[x] /\ account'[x] = account[x]
    BY <1>1, <1>2, <1>3, <1>5
  <2> QED
    BY <1>4, <2>1, <2>2, CountersKept DEF CountInv
<1>6. (p \in rushed \/ Counted(p))'
  <2>1. strikes'[p] <= account'[p].fails
    BY <1>1, <1>2, <1>3
  <2>2. CASE \E r \in Requests \ {q} : r \in SigningFor(p)
    <3>1. p \in rushed
      <4>1. q \in SigningFor(p)
        BY <1>0, <1>2 DEF SigningFor
      <4> QED
        BY <2>2, <4>1 DEF CountInv, Counted
    <3> QED
      BY <1>0, <1>2, <2>2, <3>1 DEF StillRushed, SigningFor
  <2>3. CASE ~\E r \in Requests \ {q} : r \in SigningFor(p)
    <3>1. SigningFor(p)' = {}
      BY <1>1, <1>2, <2>3, EmptyRows DEF SigningFor, Signing
    <3> QED
      BY <2>1, <3>1 DEF Counted
  <2> QED
    BY <2>2, <2>3
<1> QED
  BY <1>5, <1>6 DEF CountInv

\* The other requests leave the counters of whoever has an account alone.
LEMMA OthersCounted ==
  ASSUME Sound, CountInv, NEW q \in Requests, UserCreated(q) \/ UserUpdated(q) \/ RequestDies(q)
  PROVE  CountInv'
<1>1. /\ account \in [People -> Row] /\ strikes \in [People -> 0..MaxFailed]
      /\ request \in [Requests -> RequestType] /\ LetIn(request[q])
  BY DEF Sound
<1>2. UNCHANGED <<strikes, rushed>>
  BY DEF UserCreated, UserUpdated, RequestDies
<1>3. ASSUME NEW r \in Requests
      PROVE  \/ request'[r].at \notin Signing
             \/ request'[r].at = request[r].at /\ request'[r].target = request[r].target
                /\ request'[r].row = request[r].row
  <2>1. request[r] \in RequestType
    BY <1>1
  <2>2. \/ request'[r] = NoRequest
        \/ request'[r] = [request[r] EXCEPT !.overtaken = TRUE]
        \/ request'[r] = request[r]
    BY <1>1 DEF UserCreated, UserUpdated, RequestDies
  <2> QED
    BY <2>1, <2>2, EmptyRows DEF RequestType, Signing
<1>4. ASSUME NEW x \in People
      PROVE  \/ account'[x].fails = account[x].fails
             \/ account[x].role = "none" /\ account'[x].fails \in Nat
  <2>0. account[x] \in Row
    BY <1>1
  <2>1. CASE UserCreated(q)
    <3>1. request[q].row \in Row
      BY <1>1 DEF RequestType
    <3>2. account'[x] = account[x] \/ (account[x].role = "none" /\ account'[x] = request[q].row)
      BY <1>1, <2>1 DEF UserCreated, Exists
    <3> QED
      BY <3>1, <3>2 DEF Row
  <2>2. CASE UserUpdated(q)
    <3>1. CASE request[q].at = "setRole"
      BY <1>1, <2>0, <2>2, <3>1 DEF UserUpdated, Row
    <3>2. CASE request[q].at = "setActive"
      BY <1>1, <2>0, <2>2, <3>2 DEF UserUpdated, Row
    <3> QED
      BY <2>2, <3>1, <3>2 DEF UserUpdated
  <2>3. CASE RequestDies(q)
    BY <2>3 DEF RequestDies
  <2> QED
    BY <2>1, <2>2, <2>3
<1>5. ASSUME NEW x \in People PROVE (x \in rushed \/ Counted(x))'
  <2>1. account[x].role = "none" => strikes[x] = 0 /\ SigningFor(x) = {}
    <3>1. account[x].role = "none" => strikes[x] = 0
      BY DEF Sound, NewPerson
    <3>2. \A r \in SigningFor(x) : account[x].role # "none"
      BY DEF Sound, LetIn, SigningFor, Signing
    <3> QED
      BY <3>1, <3>2
  <2>2. strikes'[x] <= account'[x].fails \/ (strikes'[x] = strikes[x] /\ account'[x].fails = account[x].fails)
    BY <1>2, <1>4, <2>1
  <2>3. SigningFor(x) # {} => account'[x].fails = account[x].fails
    BY <1>4, <2>1
  <2>4. (x \in rushed \/ Counted(x)) /\ (x \in rushed => x \in rushed')
    BY <1>2 DEF CountInv
  <2> QED
    BY <1>3, <2>2, <2>3, <2>4, CountersKept
<1> QED
  BY <1>5 DEF CountInv

\* A request that begins, and a block that ends.
LEMMA BeginsCounted ==
  ASSUME Sound, CountInv, NEW q \in Requests, NEW p \in People,
         \/ LoginWrong(q, p) \/ LoginRight(q, p) \/ ChangePassword(q, p)
         \/ \E a \in People, role \in {"DEALER_ADMIN", "DEALER_STAFF"} :
              \/ ResetPassword(q, a, p) \/ CreateUser(q, a, p, role) \/ SetRole(q, a, p, role)
              \/ \E active \in BOOLEAN : SetActive(q, a, p, active)
  PROVE  CountInv'
<1>1. CASE LoginWrong(q, p) \/ LoginRight(q, p) \/ ChangePassword(q, p)
  BY <1>1, SigningCounted DEF LoginWrong, LoginRight, ChangePassword, Signing
<1>2. ASSUME NEW a \in People, ResetPassword(q, a, p) PROVE CountInv'
  BY <1>2, SigningCounted DEF ResetPassword, Signing
<1>3. ASSUME NEW job, Begin(q, job), job.at \notin Signing, UNCHANGED rushed PROVE CountInv'
  <2>1. UNCHANGED <<account, strikes>> /\ \A r \in Requests : request'[r] = request[r] \/ request'[r] = job
    BY <1>3 DEF Begin, Sound
  <2>2. ASSUME NEW x \in People PROVE (x \in rushed \/ Counted(x))'
    BY <1>3, <2>1, CountersKept DEF CountInv
  <2> QED
    BY <2>2 DEF CountInv
<1>4. ASSUME NEW a \in People, NEW role, CreateUser(q, a, p, role) PROVE CountInv'
  <2> DEFINE job == [NoRequest EXCEPT !.at = "create", !.actor = a, !.target = p,
                       !.row = [NoAccountRow EXCEPT !.role = role, !.active = TRUE, !.temp = TRUE]]
  <2>1. job.at \notin Signing
    BY ZenonT(60) DEF NoRequest, Signing
  <2>2. Begin(q, job) /\ UNCHANGED rushed
    BY <1>4 DEF CreateUser
  <2> HIDE DEF job
  <2> QED
    BY <1>3, <2>1, <2>2
<1>5. ASSUME NEW a \in People, NEW role, SetRole(q, a, p, role) PROVE CountInv'
  <2> DEFINE job == [NoRequest EXCEPT !.at = "setRole", !.actor = a, !.target = p, !.row.role = role]
  <2>1. job.at \notin Signing
    BY ZenonT(60) DEF NoRequest, Signing
  <2>2. Begin(q, job) /\ UNCHANGED rushed
    BY <1>5 DEF SetRole
  <2> HIDE DEF job
  <2> QED
    BY <1>3, <2>1, <2>2
<1>6. ASSUME NEW a \in People, NEW active, SetActive(q, a, p, active) PROVE CountInv'
  <2> DEFINE job == [NoRequest EXCEPT !.at = "setActive", !.actor = a, !.target = p, !.row.active = active]
  <2>1. job.at \notin Signing
    BY DEF NoRequest, Signing
  <2>2. Begin(q, job) /\ UNCHANGED rushed
    BY <1>6 DEF SetActive
  <2> HIDE DEF job
  <2> QED
    BY <1>3, <2>1, <2>2
<1> QED
  BY <1>1, <1>2, <1>4, <1>5, <1>6

\* No account takes as many wrong passwords in a row as the limit says without a
\* block, as long as its sign-ins do not overlap (AuthService.registerFailure).
THEOREM BlockComesInTime == AccountsSpec => []BlockedInTime
<1>1. AccountsInit => CountInv
  <2> SUFFICES ASSUME AccountsInit, NEW p \in People PROVE Counted(p)
    BY DEF CountInv
  <2>1. strikes[p] = 0 /\ account[p].fails = 0
    BY DEF AccountsInit, NoAccountRow
  <2>2. SigningFor(p) = {}
    BY EmptyRows DEF AccountsInit, SigningFor, Signing
  <2> QED
    BY <2>1, <2>2 DEF Counted
<1>2. Sound /\ CountInv /\ [AccountsNext]_accountVars => CountInv'
  <2> SUFFICES ASSUME Sound, CountInv, [AccountsNext]_accountVars PROVE CountInv'
    OBVIOUS
  <2>1. CASE UNCHANGED accountVars
    BY <2>1, CountersKept DEF accountVars, CountInv
  <2>2. ASSUME NEW p \in People, BlockEnds(p) PROVE CountInv'
    <3>1. \A x \in People : account'[x].fails = account[x].fails
      BY <2>2 DEF BlockEnds, Sound, Row
    <3>2. UNCHANGED <<request, strikes, rushed>>
      BY <2>2 DEF BlockEnds
    <3>3. ASSUME NEW x \in People PROVE (x \in rushed \/ Counted(x))'
      BY <3>1, <3>2, CountersKept DEF CountInv
    <3> QED
      BY <3>3 DEF CountInv
  <2> QED
    BY <2>1, <2>2, BeginsCounted, FailCounted, ClearCounted, OthersCounted DEF AccountsNext
<1>3. Sound /\ CountInv => BlockedInTime
  <2> SUFFICES ASSUME Sound, CountInv, NEW p \in People, p \notin rushed PROVE strikes[p] < MaxFailed
    BY DEF BlockedInTime
  <2>1. /\ strikes[p] <= account[p].fails /\ account[p].fails < MaxFailed
        /\ strikes[p] \in 0..MaxFailed /\ account[p].fails \in 0..MaxFailed
    BY DEF CountInv, Counted, Sound, BelowLimit, Row
  <2> QED
    BY <2>1, AccountsAssumption
<1> QED
  BY <1>1, <1>2, <1>3, AlwaysSound, PTL DEF AccountsSpec

=============================================================================
