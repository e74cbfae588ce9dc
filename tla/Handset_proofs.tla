--------------------------- MODULE Handset_proofs ---------------------------
(***************************************************************************)
(* Theorems about what runs on the phone: Agreement, for any figures,      *)
(* policies, versions of the terms, signing requests, clocks and days;     *)
(* Stages, for any check-ins and apps; Location, for any reports.          *)
(***************************************************************************)
EXTENDS Agreement, Stages, Location, TLAPS

-----------------------------------------------------------------------------
(* Agreement *)

LEMMA LimitsAreNat == Limits \subseteq Nat
BY AgreementAssumption DEF Limits

LEMMA LongerIsLonger ==
  ASSUME NEW a \in Int, NEW b \in Int
  PROVE  Longer(a, b) \in {a, b} /\ Longer(a, b) >= a /\ Longer(a, b) >= b
BY DEF Longer

\* One lemma for the counter, one for the check-in, one for the phone.
CounterStep ==
  \/ \E t \in Terms : EditPlan(t)
  \/ \E p \in Policies : EditPolicy(p)
  \/ \E s \in Signers : SignRead(s) \/ SignRows(s) \/ SignWrite(s)
  \/ Void \/ PayUp \/ MarkOverdue

PhoneStep ==
  WatchDecides \/ WatchApplies \/ NightPasses \/ \E k \in Skews : ClockMoved(k)

LEMMA Steps ==
  [AgreeNext]_agreeVars =>
    CounterStep \/ CheckIn \/ PhoneStep \/ UNCHANGED agreeVars
BY DEF AgreeNext, CounterStep, PhoneStep

\* A request's own copy is a row's.
LEMMA SignerTyped ==
  ASSUME AgreeTypeOK, NEW s \in Signers, SignRead(s) \/ SignRows(s) \/ SignWrite(s)
  PROVE  AgreeTypeOK'
<1>1. FreeSigner \in [at: {"none", "rows", "write"}, plan: Plans, days: Limits, staged: BOOLEAN]
  BY DEF AgreeTypeOK, FreeSigner, Limits
<1>2. CASE SignRead(s)
  BY <1>1, <1>2 DEF SignRead, AgreeTypeOK
<1>3. CASE SignRows(s)
  <2>1. signer[s].plan.figures \in Terms /\ plan.rows \in Terms
    BY DEF AgreeTypeOK, Plans
  <2>2. policy.days \in Limits /\ policy.staged \in BOOLEAN
    BY AgreementAssumption DEF AgreeTypeOK, Limits
  <2> DEFINE made == [at |-> "write",
                      plan |-> [figures |-> signer[s].plan.figures, rows |-> plan.rows],
                      days |-> policy.days, staged |-> policy.staged]
  <2>3. made \in [at: {"none", "rows", "write"}, plan: Plans, days: Limits, staged: BOOLEAN]
    BY <2>1, <2>2 DEF Plans
  <2>4. signer' = [signer EXCEPT ![s] = made]
    BY <1>3 DEF SignRows
  <2> QED
    BY <1>3, <2>3, <2>4 DEF SignRows, AgreeTypeOK
<1>4. CASE SignWrite(s)
  BY <1>1, <1>4 DEF SignWrite, AgreeTypeOK
<1> QED
  BY <1>2, <1>3, <1>4

LEMMA ViewTyped == AgreeTypeOK => PolicyView \in Answers
<1> SUFFICES ASSUME AgreeTypeOK PROVE PolicyView \in Answers
  OBVIOUS
<1>1. policy.days \in Limits /\ paper.days \in Limits /\ 0 \in Limits
  BY DEF AgreeTypeOK, Limits
<1>2. OfflineLockDays \in {0, policy.days, paper.days}
  BY DEF OfflineLockDays, Longer
<1>3. RestrictionLevel \in 0..1
  BY DEF RestrictionLevel
<1> QED
  BY <1>1, <1>2, <1>3 DEF PolicyView, Answers

LEMMA AgreeInitTyped == AgreeInit => AgreeTypeOK
<1> SUFFICES ASSUME AgreeInit PROVE AgreeTypeOK
  OBVIOUS
<1>1. plan \in Plans
  BY DEF AgreeInit, Plans
<1>2. policy.days \in Limits /\ policy.staged \in BOOLEAN /\ 0 \in Limits
  BY AgreementAssumption DEF AgreeInit, Limits
<1>3. FreeSigner \in [at: {"none", "rows", "write"}, plan: Plans, days: Limits, staged: BOOLEAN]
  BY <1>1, <1>2 DEF FreeSigner
<1>4. Powerless \in Answers
  BY <1>2 DEF Powerless, Answers
<1>5. 0 \in 0..Horizon /\ 0 \in Skews
  BY AgreementAssumption
<1>6. paper \in [status: {"DRAFT", "SIGNED", "VOID"}, version: Versions, plan: Plans,
                days: Limits, staged: BOOLEAN]
  BY <1>1, <1>2 DEF AgreeInit
<1>7. signer \in [Signers ->
        [at: {"none", "rows", "write"}, plan: Plans, days: Limits, staged: BOOLEAN]]
  BY <1>3 DEF AgreeInit
<1> QED
  BY <1>1, <1>4, <1>5, <1>6, <1>7 DEF AgreeInit, AgreeTypeOK

LEMMA AgreeTypeStep == AgreeTypeOK /\ [AgreeNext]_agreeVars => AgreeTypeOK'
<1> SUFFICES ASSUME AgreeTypeOK, [AgreeNext]_agreeVars PROVE AgreeTypeOK'
  OBVIOUS
<1>1. ASSUME NEW t \in Terms, EditPlan(t) PROVE AgreeTypeOK'
  BY <1>1 DEF EditPlan, AgreeTypeOK, Plans
<1>2. ASSUME NEW p \in Policies, EditPolicy(p) PROVE AgreeTypeOK'
  BY <1>2 DEF EditPolicy, AgreeTypeOK
<1>3. CASE \E s \in Signers : SignRead(s) \/ SignRows(s) \/ SignWrite(s)
  BY <1>3, SignerTyped
<1>4. CASE Void \/ PayUp \/ MarkOverdue
  BY <1>4 DEF Void, PayUp, MarkOverdue, AgreeTypeOK
<1>5. CASE CheckIn
  BY <1>5, ViewTyped DEF CheckIn, AgreeTypeOK
<1>6. CASE WatchDecides \/ WatchApplies
  BY <1>6 DEF WatchDecides, WatchApplies, AgreeTypeOK
<1>7. CASE NightPasses
  BY <1>7, AgreementAssumption DEF NightPasses, AgreeTypeOK
<1>8. ASSUME NEW k \in Skews, ClockMoved(k) PROVE AgreeTypeOK'
  BY <1>8 DEF ClockMoved, AgreeTypeOK
<1>9. CASE UNCHANGED agreeVars
  BY <1>9 DEF agreeVars, AgreeTypeOK
<1> QED
  BY <1>1, <1>2, <1>3, <1>4, <1>5, <1>6, <1>7, <1>8, <1>9, Steps DEF CounterStep, PhoneStep

\* The model's state is always well formed.
THEOREM AgreeTypeCorrect == AgreeSpec => []AgreeTypeOK
BY AgreeInitTyped, AgreeTypeStep, PTL DEF AgreeSpec

-----------------------------------------------------------------------------
(* The paper *)

LEMMA PaperInit == AgreeInit => PowersOnPaper
BY DEF AgreeInit, PowersOnPaper, OnPaper, Powerless

\* What the server answers is on the paper as it stands.
LEMMA ViewOnPaper == AgreeTypeOK => OnPaper(PolicyView)
<1> SUFFICES ASSUME AgreeTypeOK PROVE OnPaper(PolicyView)
  OBVIOUS
<1>1. policy.days \in Nat /\ paper.days \in Nat
  <2>1. policy.days \in Nat
    BY AgreementAssumption DEF AgreeTypeOK
  <2>2. paper.days \in Limits
    BY DEF AgreeTypeOK
  <2> QED
    BY <2>1, <2>2, LimitsAreNat
<1>2. OfflineLockDays > 0 => /\ Consent /\ DisclosesOffline /\ paper.days > 0
                             /\ OfflineLockDays >= paper.days
  BY <1>1, LongerIsLonger DEF OfflineLockDays
<1>3. RestrictionLevel > 0 => Consent /\ DisclosesStages /\ paper.staged
  BY DEF RestrictionLevel
<1> QED
  BY <1>2, <1>3 DEF OnPaper, PolicyView, Consent, DisclosesOffline, DisclosesStages

\* Nothing is signed over a draft that gives the phone any power, and a paper
\* that is no draft is signed over only as an exception.
LEMMA PaperStep ==
  AgreeTypeOK /\ PowersOnPaper /\ [AgreeNext]_agreeVars => PowersOnPaper'
<1> SUFFICES ASSUME AgreeTypeOK, PowersOnPaper, [AgreeNext]_agreeVars PROVE PowersOnPaper'
  OBVIOUS
<1>1. ASSUME NEW s \in Signers, SignWrite(s) PROVE PowersOnPaper'
  <2>1. CASE paper.status # "DRAFT"
    BY <1>1, <2>1 DEF SignWrite, PowersOnPaper
  <2>2. CASE paper.status = "DRAFT" /\ OnPaper(cached)
    BY <1>1, <2>2 DEF SignWrite, PowersOnPaper, OnPaper
  <2>3. CASE rewritten
    BY <1>1, <2>3 DEF SignWrite, PowersOnPaper
  <2> QED
    BY <2>1, <2>2, <2>3 DEF PowersOnPaper
<1>2. CASE Void
  BY <1>2 DEF Void, PowersOnPaper, OnPaper, AgreeTypeOK
<1>3. CASE CheckIn
  BY <1>3, ViewOnPaper DEF CheckIn, PowersOnPaper, OnPaper
<1>4. CASE UNCHANGED <<paper, rewritten, cached>>
  BY <1>4 DEF PowersOnPaper, OnPaper
<1>5. \/ \E s \in Signers : SignWrite(s)
      \/ Void \/ CheckIn \/ UNCHANGED <<paper, rewritten, cached>>
  BY Steps DEF CounterStep, PhoneStep, EditPlan, EditPolicy, SignRead, SignRows, PayUp,
    MarkOverdue, WatchDecides, WatchApplies, NightPasses, ClockMoved, agreeVars
<1> QED
  BY <1>1, <1>2, <1>3, <1>4, <1>5

\* The answer the phone keeps never gives it more than its customer signed,
\* however policy, plan and paper are edited and whenever the answer arrives.
THEOREM NoMoreThanSigned == AgreeSpec => []PowersOnPaper
BY AgreeInitTyped, AgreeTypeStep, PaperInit, PaperStep, PTL DEF AgreeSpec

-----------------------------------------------------------------------------
(* The days *)

\* An installment is marked late, and the phone is told so, only after its
\* grace.
LateInv == owed = "OVERDUE" \/ cached.overdue => today > Due + Grace

LEMMA LateInit == AgreeInit => LateInv
BY DEF AgreeInit, LateInv, Powerless

LEMMA LateStep == AgreeTypeOK /\ LateInv /\ [AgreeNext]_agreeVars => LateInv'
<1> SUFFICES ASSUME AgreeTypeOK, LateInv, [AgreeNext]_agreeVars PROVE LateInv'
  OBVIOUS
<1>1. today \in Int /\ Due \in Int /\ Grace \in Int
  BY AgreementAssumption DEF AgreeTypeOK
<1>2. CASE PayUp \/ MarkOverdue
  BY <1>1, <1>2 DEF PayUp, MarkOverdue, LateInv
<1>3. CASE CheckIn
  <2>1. cached'.overdue <=> owed = "OVERDUE"
    BY <1>3 DEF CheckIn, PolicyView
  <2>2. owed' = owed /\ today' = today
    BY <1>3 DEF CheckIn
  <2> QED
    BY <1>1, <2>1, <2>2 DEF LateInv
<1>4. CASE NightPasses
  BY <1>1, <1>4 DEF NightPasses, LateInv
<1>5. CASE UNCHANGED <<owed, today, cached>>
  BY <1>5 DEF LateInv
<1>6. \/ PayUp \/ MarkOverdue \/ CheckIn \/ NightPasses
      \/ UNCHANGED <<owed, today, cached>>
  BY Steps DEF CounterStep, PhoneStep, EditPlan, EditPolicy, SignRead, SignRows, SignWrite, Void,
    WatchDecides, WatchApplies, ClockMoved, agreeVars
<1> QED
  BY <1>2, <1>3, <1>4, <1>5, <1>6

\* The step in which the phone decides.
LEMMA DecidedInTime ==
  AgreeTypeOK /\ PowersOnPaper /\ LateInv /\ [AgreeNext]_agreeVars =>
    (watch = "idle" /\ watch' = "due" /\ skew = contact.skew /\ skew = 0 /\ ~rewritten
       => /\ today - contact.day >= paper.days
          /\ today > Due + Grace \/ owed = "OVERDUE")
<1> SUFFICES ASSUME AgreeTypeOK, PowersOnPaper, LateInv, [AgreeNext]_agreeVars,
                    watch = "idle", watch' = "due", skew = contact.skew, skew = 0, ~rewritten
             PROVE  /\ today - contact.day >= paper.days
                    /\ today > Due + Grace
  OBVIOUS
<1>1. WatchDecides
  BY Steps DEF CounterStep, PhoneStep, EditPlan, EditPolicy, SignRead, SignRows, SignWrite, Void,
    PayUp, MarkOverdue, CheckIn, WatchApplies, NightPasses, ClockMoved, agreeVars
<1>2. /\ today \in Int /\ contact.day \in Int /\ Due \in Int /\ Grace \in Int
      /\ paper.days \in Nat /\ cached.days \in Nat
  BY AgreementAssumption, LimitsAreNat DEF AgreeTypeOK, Answers
<1>3. cached.days >= paper.days /\ cached.days > 0
  BY <1>1 DEF WatchDecides, PowersOnPaper, OnPaper
<1>4. DaysOutOfContact >= cached.days /\ PastDue
  BY <1>1 DEF WatchDecides
<1>5. PhoneDay = today
  BY <1>2 DEF PhoneDay
<1>6. DaysOutOfContact \in {0, today - contact.day}
  BY <1>2, <1>5, LongerIsLonger DEF DaysOutOfContact
<1>7. today - contact.day >= paper.days
  BY <1>2, <1>3, <1>4, <1>6
<1>8. today > Due + Grace
  BY <1>4, <1>5 DEF PastDue, LateInv
<1> QED
  BY <1>7, <1>8

\* A phone whose clock is left alone restricts itself only after the days of
\* silence its customer signed for and after the grace of an installment.
THEOREM NoSooner == AgreeSpec => NoSoonerThanSigned
<1>1. AgreeSpec => [](AgreeTypeOK /\ PowersOnPaper /\ LateInv)
  BY AgreeInitTyped, AgreeTypeStep, PaperInit, PaperStep, LateInit, LateStep, PTL DEF AgreeSpec
<1>2. AgreeTypeOK /\ PowersOnPaper /\ LateInv /\ [AgreeNext]_agreeVars =>
        [watch = "idle" /\ watch' = "due" /\ skew = contact.skew /\ skew = 0 /\ ~rewritten
           => /\ today - contact.day >= paper.days
              /\ today > Due + Grace \/ owed = "OVERDUE"]_agreeVars
  BY DecidedInTime
<1> QED
  BY <1>1, <1>2, PTL DEF AgreeSpec, NoSoonerThanSigned

-----------------------------------------------------------------------------
(* Stages *)

Working == {"restrict", "onNote", "suspend", "unsuspend", "appsNote"}

Ending == {"clearFrp", "stepDown", "forget"}

Doing(w) == w.add \/ w.clear \/ w.suspend # {} \/ w.unsuspend # {}

\* A check-in has work exactly where it carries a plan out, and only one that
\* hands the phone back comes to the steps after it.
PlacesOK ==
  \A t \in Threads :
    /\ round[t].at \in Working => Doing(round[t].work)
    /\ round[t].at \notin Working => round[t].work = NoWork
    /\ round[t].at \in Ending => round[t].release
    /\ round[t].release => round[t].at # "none" /\ round[t].level = 0

\* What it means that check-ins have not crossed.
OneAtWork ==
  /\ \A t, u \in Threads : round[t].at \in Working /\ round[u].at \in Working => t = u
  /\ \A t, u \in Threads : round[t].release /\ round[u].at # "none" => t = u
  /\ ~owner => \A t \in Threads : round[t].at \in {"none", "forget"}

\* What is on the phone and not in the memory is in the hands of the check-in
\* that is about to note it.
Remembered ==
  LET at(places) == {t \in Threads : round[t].at \in places} IN
  /\ at({"onNote"}) = {} => (blocked => memo.on)
  /\ at({"unsuspend", "appsNote"}) = {} => suspended \subseteq memo.apps
  /\ \A t \in at({"restrict"}) :
       /\ round[t].work.add => ~memo.on
       /\ round[t].work.clear => memo.on
  /\ \A t \in at({"onNote"}) : blocked => OnNoted(memo.on, round[t].work)
  /\ \A t \in at({"suspend"}) : round[t].work.held = memo.apps
  /\ \A t \in at({"unsuspend", "appsNote"}) : suspended \subseteq round[t].work.held

\* One that hands the phone back takes off all there is.
TakesAllOff ==
  /\ \A t \in Threads : round[t].release =>
       /\ round[t].at \in {"restrict", "onNote"} =>
            round[t].work.suspend = {} /\ memo.apps \subseteq round[t].work.unsuspend
       /\ round[t].at \in {"suspend", "unsuspend"} =>
            round[t].work.suspend = {} /\ round[t].work.held \subseteq round[t].work.unsuspend
       /\ round[t].at = "appsNote" => round[t].work.held = {}
       /\ round[t].at \in Ending => suspended = {}
       /\ round[t].at \in {"stepDown", "forget"} => frp = NoAccount
       /\ round[t].at = "forget" => ~blocked
  /\ ~owner => frp = NoAccount /\ suspended = {}

StagesInv ==
  /\ StagesTypeOK
  /\ PlacesOK
  /\ ~crossed => OneAtWork
  /\ ~torn /\ ~crossed => Remembered /\ TakesAllOff

Works == [add: BOOLEAN, clear: BOOLEAN, suspend: SUBSET Apps, unsuspend: SUBSET Apps, held: SUBSET Apps]

Rounds ==
  [at: {"none", "frp", "frpNote", "plan", "restrict", "onNote", "suspend", "unsuspend",
        "appsNote", "clearFrp", "stepDown", "forget"},
   level: 0..2, frp: Accounts \cup {NoAccount}, release: BOOLEAN, work: Works]

LEMMA StagesRecords ==
  /\ NoWork \in Works /\ NoRound \in Rounds /\ NoRound.at = "none" /\ ~NoRound.release
  /\ NoRound.work = NoWork /\ ~Doing(NoWork) /\ NoRound.level = 0
  /\ StagesTypeOK => round \in [Threads -> Rounds]
BY DEF NoWork, NoRound, Works, Rounds, Doing, StagesTypeOK

\* The platform and the memory, without the check-ins.
PhoneTyped ==
  /\ blocked \in BOOLEAN /\ owner \in BOOLEAN /\ torn \in BOOLEAN /\ crossed \in BOOLEAN
  /\ suspended \subseteq installed /\ installed \subseteq Apps
  /\ frp \in Accounts \cup {NoAccount}
  /\ memo \in [on: BOOLEAN, apps: SUBSET Apps, frp: Accounts \cup {NoAccount}]

LEMMA StagesTyping == StagesTypeOK <=> PhoneTyped /\ round \in [Threads -> Rounds]
BY DEF StagesTypeOK, PhoneTyped, Rounds, Works

LEMMA RoundFields ==
  ASSUME NEW r \in Rounds
  PROVE  /\ r.frp \in Accounts \cup {NoAccount} /\ r.level \in 0..2 /\ r.work \in Works
         /\ r.work.suspend \subseteq Apps /\ r.work.unsuspend \subseteq Apps /\ r.work.held \subseteq Apps
         /\ r.work.add \in BOOLEAN /\ r.work.clear \in BOOLEAN /\ r.release \in BOOLEAN
BY DEF Rounds, Works

\* A check-in goes on to another step, with a plan, or with what it holds.
LEMMA RoundGoesOn ==
  ASSUME NEW r \in Rounds, NEW w \in Works, NEW h \in SUBSET Apps,
         NEW p \in {"plan", "restrict", "suspend", "unsuspend", "appsNote", "clearFrp"}
  PROVE  /\ [r EXCEPT !.at = p] \in Rounds
         /\ [r EXCEPT !.at = p, !.work = w] \in Rounds
         /\ [r EXCEPT !.at = p, !.work.held = h] \in Rounds
<1>1. [r.work EXCEPT !.held = h] \in Works
  BY RoundFields DEF Works
<1> QED  BY <1>1 DEF Rounds

LEMMA PlanIsWork ==
  ASSUME StagesTypeOK, NEW level \in 0..2
  PROVE  /\ Plan(level) \in Works
         /\ Plan(level) # NoWork => Doing(Plan(level))
BY StagesTyping DEF Plan, Wanted, PhoneTyped, Works, NoWork, Doing

LEMMA StagesInitOK == StagesInit => StagesInv
<1> SUFFICES ASSUME StagesInit PROVE StagesInv  OBVIOUS
<1> USE StagesRecords DEF StagesInit
<1>1. StagesTypeOK
  BY StagesTyping DEF PhoneTyped, NoMemo
<1>2. PlacesOK  BY DEF PlacesOK, Working, Ending
<1>3. OneAtWork  BY DEF OneAtWork, Working
<1>4. Remembered  BY DEF Remembered
<1>5. TakesAllOff  BY DEF TakesAllOff
<1> QED  BY <1>1, <1>2, <1>3, <1>4, <1>5 DEF StagesInv

LEMMA StagesToldStep ==
  ASSUME StagesInv, NEW t \in Threads, NEW level \in Levels, NEW accounts \in Accounts \cup {NoAccount}, Told(t, level, accounts)
  PROVE  StagesInv'
<1> USE StagesRecords, StagesAssumption DEF StagesInv
<1>1. StagesTypeOK'
  <2>1. PhoneTyped'
    BY StagesTyping DEF PhoneTyped, Told, NoMemo
  <2>2. round' \in [Threads -> Rounds]
    BY StagesTyping DEF PhoneTyped, Rounds, Works, Told, Go
  <2> QED  BY <2>1, <2>2, StagesTyping DEF StagesTypeOK, PhoneTyped, Rounds, Works
<1>2. PlacesOK'
  BY DEF StagesTypeOK, PlacesOK, Told, Go, Working, Ending, Doing
<1>3. ASSUME ~crossed' PROVE OneAtWork'
  BY <1>3 DEF StagesTypeOK, PlacesOK, OneAtWork, Told, Go, Working, Ending, Busy
<1>4. ASSUME ~torn', ~crossed' PROVE Remembered'
  BY <1>4 DEF StagesTypeOK, PlacesOK, OneAtWork, Remembered, Told, Go, Working, Ending, Busy
<1>5. ASSUME ~torn', ~crossed' PROVE TakesAllOff'
  BY <1>5 DEF StagesTypeOK, PlacesOK, OneAtWork, Remembered, TakesAllOff, Told, Go, Working, Ending, Busy
<1> QED  BY <1>1, <1>2, <1>3, <1>4, <1>5

LEMMA StagesToldReleasedStep ==
  ASSUME StagesInv, NEW t \in Threads, ToldReleased(t)
  PROVE  StagesInv'
<1> USE StagesRecords, StagesAssumption DEF StagesInv
<1>1. StagesTypeOK'
  <2>1. PhoneTyped'
    BY StagesTyping DEF PhoneTyped, ToldReleased, NoMemo
  <2>2. round' \in [Threads -> Rounds]
    BY StagesTyping DEF PhoneTyped, Rounds, Works, ToldReleased, Go
  <2> QED  BY <2>1, <2>2, StagesTyping DEF StagesTypeOK, PhoneTyped, Rounds, Works
<1>2. PlacesOK'
  BY DEF StagesTypeOK, PlacesOK, ToldReleased, Go, Working, Ending, Doing
<1>3. ASSUME ~crossed' PROVE OneAtWork'
  <2>1. \A u \in Threads : round[u].at = "none"  BY <1>3 DEF ToldReleased, Busy
  <2>2. /\ owner' /\ round'[t].at = "plan"
        /\ \A u \in Threads : u # t => round'[u] = round[u]
    BY StagesTyping DEF ToldReleased, PhoneTyped
  <2>3. \A u \in Threads : round'[u].at # "none" => u = t  BY <2>1, <2>2
  <2>4. \A u \in Threads : ~round[u].release  BY <2>1 DEF PlacesOK
  <2> QED  BY <2>1, <2>2, <2>3, <2>4 DEF OneAtWork, Working
<1>4. ASSUME ~torn', ~crossed' PROVE Remembered'
  BY <1>4 DEF StagesTypeOK, PlacesOK, OneAtWork, Remembered, ToldReleased, Go, Working, Ending, Busy
<1>5. ASSUME ~torn', ~crossed' PROVE TakesAllOff'
  BY <1>5 DEF StagesTypeOK, PlacesOK, OneAtWork, Remembered, TakesAllOff, ToldReleased, Go, Working, Ending, Busy
<1> QED  BY <1>1, <1>2, <1>3, <1>4, <1>5

LEMMA StagesApplyFrpStep ==
  ASSUME StagesInv, NEW t \in Threads, ApplyFrp(t)
  PROVE  StagesInv'
<1> USE StagesRecords, StagesAssumption DEF StagesInv
<1>1. StagesTypeOK'
  <2>1. PhoneTyped'
    <3>1. round[t].frp \in Accounts \cup {NoAccount}  BY StagesTyping, RoundFields
    <3> QED  BY <3>1, StagesTyping DEF PhoneTyped, ApplyFrp
  <2>2. round' \in [Threads -> Rounds]
    BY StagesTyping, SMTT(30) DEF PhoneTyped, Rounds, Works, ApplyFrp, Go
  <2> QED  BY <2>1, <2>2, StagesTyping DEF StagesTypeOK, PhoneTyped, Rounds, Works
<1>2. PlacesOK'
  BY SMTT(30) DEF StagesTypeOK, PlacesOK, ApplyFrp, Go, Working, Ending, Doing
<1>3. ASSUME ~crossed' PROVE OneAtWork'
  BY <1>3, SMTT(30) DEF StagesTypeOK, PlacesOK, OneAtWork, ApplyFrp, Go, Working, Ending, Busy
<1>4. ASSUME ~torn', ~crossed' PROVE Remembered'
  BY <1>4, SMTT(30) DEF StagesTypeOK, PlacesOK, OneAtWork, Remembered, ApplyFrp, Go, Working, Ending, Busy
<1>5. ASSUME ~torn', ~crossed' PROVE TakesAllOff'
  <2>1. /\ UNCHANGED <<blocked, suspended, installed, owner, memo>>
        /\ round'[t].at \in {"plan", "frpNote"} /\ round[t].at = "frp"
        /\ \A u \in Threads : u # t => round'[u] = round[u]
        /\ frp' = frp \/ owner
    <3>1. \E p \in {"plan", "frpNote"} : round' = [round EXCEPT ![t].at = p]  BY DEF ApplyFrp, Go
    <3>2. /\ round'[t].at \in {"plan", "frpNote"} /\ \A u \in Threads : u # t => round'[u] = round[u]
      BY <3>1, StagesTyping DEF Rounds
    <3> QED  BY <3>2 DEF ApplyFrp
  <2>2. OneAtWork /\ TakesAllOff  BY <1>5 DEF ApplyFrp
  <2>3. \A u \in Threads : round[u].release => u = t  BY <2>1, <2>2 DEF OneAtWork
  <2>4. owner  BY <2>1, <2>2 DEF OneAtWork
  <2>5. \A u \in Threads : round'[u].release => u = t  BY <2>1, <2>3
  <2> QED  BY <2>1, <2>4, <2>5 DEF TakesAllOff, Ending
<1> QED  BY <1>1, <1>2, <1>3, <1>4, <1>5

LEMMA StagesNoteFrpStep ==
  ASSUME StagesInv, NEW t \in Threads, NoteFrp(t)
  PROVE  StagesInv'
<1> USE StagesRecords, StagesAssumption DEF StagesInv
<1>1. StagesTypeOK'
  <2>1. PhoneTyped'
    <3>1. round[t].frp \in Accounts \cup {NoAccount}  BY StagesTyping, RoundFields
    <3> QED  BY <3>1, StagesTyping, ZenonT(60) DEF PhoneTyped, NoteFrp
  <2>2. round' \in [Threads -> Rounds]
    BY StagesTyping, RoundGoesOn DEF NoteFrp, Go
  <2> QED  BY <2>1, <2>2, StagesTyping DEF StagesTypeOK, PhoneTyped, Rounds, Works
<1>2. PlacesOK'
  BY DEF StagesTypeOK, PlacesOK, NoteFrp, Go, Working, Ending, Doing
<1>3. ASSUME ~crossed' PROVE OneAtWork'
  BY <1>3 DEF StagesTypeOK, PlacesOK, OneAtWork, NoteFrp, Go, Working, Ending, Busy
<1>4. ASSUME ~torn', ~crossed' PROVE Remembered'
  BY <1>4 DEF StagesTypeOK, PlacesOK, OneAtWork, Remembered, NoteFrp, Go, Working, Ending, Busy
<1>5. ASSUME ~torn', ~crossed' PROVE TakesAllOff'
  BY <1>5 DEF StagesTypeOK, PlacesOK, OneAtWork, Remembered, TakesAllOff, NoteFrp, Go, Working, Ending, Busy
<1> QED  BY <1>1, <1>2, <1>3, <1>4, <1>5

LEMMA StagesMakePlanStep ==
  ASSUME StagesInv, NEW t \in Threads, MakePlan(t)
  PROVE  StagesInv'
<1> USE StagesRecords, StagesAssumption DEF StagesInv
<1>1. StagesTypeOK'
  <2>1. PhoneTyped'
    BY StagesTyping, ZenonT(60) DEF PhoneTyped, MakePlan, NoMemo, Plan, Wanted, AfterStages
  <2>2. round' \in [Threads -> Rounds]
    <3>1. round[t] \in Rounds /\ round[t].level \in 0..2  BY StagesTyping, RoundFields
    <3>2. Plan(round[t].level) \in Works  BY <3>1, PlanIsWork
    <3> QED  BY <3>1, <3>2, RoundGoesOn, StagesTyping DEF MakePlan
  <2> QED  BY <2>1, <2>2, StagesTyping DEF StagesTypeOK, PhoneTyped, Rounds, Works
<1>2. PlacesOK'
  BY SMTT(30) DEF StagesTypeOK, PlacesOK, MakePlan, Go, Working, Ending, Doing, Plan, Wanted, AfterStages
<1>3. ASSUME ~crossed' PROVE OneAtWork'
  BY <1>3 DEF StagesTypeOK, PlacesOK, OneAtWork, MakePlan, Go, Working, Ending, Busy, Plan, Wanted, AfterStages
<1>4. ASSUME ~torn', ~crossed' PROVE Remembered'
  BY <1>4 DEF StagesTypeOK, PlacesOK, OneAtWork, Remembered, MakePlan, Go, Working, Ending, Busy, Plan, Wanted, AfterStages
<1>5. ASSUME ~torn', ~crossed' PROVE TakesAllOff'
  <2>1. /\ UNCHANGED <<blocked, suspended, installed, owner, memo, frp>>
        /\ round[t].at = "plan" /\ round'[t].release = round[t].release
        /\ \A u \in Threads : u # t => round'[u] = round[u]
    <3>1. round'[t].release = round[t].release
      <4>1. \E r \in Rounds : round' = [round EXCEPT ![t] = r] /\ r.release = round[t].release
        <5>1. round[t] \in Rounds /\ round[t].level \in 0..2 /\ round[t].release \in BOOLEAN
          BY StagesTyping, RoundFields
        <5>2. Plan(round[t].level) \in Works  BY <5>1, PlanIsWork
        <5>3. round[t].release => [round[t] EXCEPT !.at = "clearFrp"] \in Rounds
          BY <5>1, ZenonT(60) DEF Rounds
        <5>4. [round[t] EXCEPT !.at = "restrict", !.work = Plan(round[t].level)] \in Rounds
          BY <5>1, <5>2, RoundGoesOn
        <5>5. CASE owner /\ Plan(round[t].level) # NoWork
          <6>1. round' = [round EXCEPT ![t] =
                           [@ EXCEPT !.at = "restrict", !.work = Plan(round[t].level)]]
            BY <5>5 DEF MakePlan
          <6>2. [round[t] EXCEPT !.at = "restrict", !.work = Plan(round[t].level)].release = round[t].release
            BY <5>1 DEF Rounds
          <6> QED  BY <5>4, <6>1, <6>2
        <5>6. CASE ~(owner /\ Plan(round[t].level) # NoWork)
          <6>1. round' = [round EXCEPT ![t] = IF AfterStages(t) = "none" THEN NoRound
                                              ELSE [@ EXCEPT !.at = "clearFrp"]]
            BY <5>6 DEF MakePlan
          <6>2. CASE round[t].release
            <7>1. round' = [round EXCEPT ![t] = [@ EXCEPT !.at = "clearFrp"]]
              BY <6>1, <6>2 DEF AfterStages
            <7>2. [round[t] EXCEPT !.at = "clearFrp"].release = round[t].release  BY <5>1 DEF Rounds
            <7> QED  BY <5>3, <6>2, <7>1, <7>2
          <6>3. CASE ~round[t].release
            <7>1. round' = [round EXCEPT ![t] = NoRound]  BY <6>1, <6>3 DEF AfterStages
            <7>2. NoRound.release = round[t].release  BY <5>1, <6>3 DEF NoRound
            <7> QED  BY <7>1, <7>2
          <6> QED  BY <6>2, <6>3
        <5> QED  BY <5>5, <5>6
      <4> QED  BY <4>1, StagesTyping
    <3>2. \A u \in Threads : u # t => round'[u] = round[u]  BY StagesTyping DEF MakePlan
    <3> QED  BY <3>1, <3>2 DEF MakePlan
  <2>2. OneAtWork /\ TakesAllOff /\ Remembered  BY <1>5 DEF MakePlan
  <2>3. \A u \in Threads : round[u].release => u = t  BY <2>1, <2>2 DEF OneAtWork
  <2>4. owner  BY <2>1, <2>2 DEF OneAtWork
  <2>5. ASSUME round[t].release
        PROVE  /\ round'[t].at \in {"restrict", "clearFrp"}
               /\ round'[t].at = "restrict" =>
                    round'[t].work.suspend = {} /\ memo.apps \subseteq round'[t].work.unsuspend
               /\ round'[t].at = "clearFrp" => suspended = {}
    <3>1. round[t].level = 0  BY <2>5 DEF PlacesOK
    <3>2. Plan(round[t].level).suspend = {} /\ Plan(round[t].level).unsuspend = memo.apps
      BY <3>1 DEF Plan, Wanted
    <3>3. \A u \in Threads : u # t => round[u].at = "none"  BY <2>2, <2>5 DEF OneAtWork
    <3>4. suspended \subseteq memo.apps  BY <2>1, <2>2, <3>3 DEF Remembered
    <3>5. CASE Plan(round[t].level) = NoWork
      <4>1. suspended = {}  BY <3>2, <3>4, <3>5 DEF NoWork
      <4>2. round' = [round EXCEPT ![t] = [@ EXCEPT !.at = "clearFrp"]]
        BY <2>4, <2>5, <3>5 DEF MakePlan, AfterStages
      <4> QED  BY <4>1, <4>2, StagesTyping DEF Rounds
    <3>6. CASE Plan(round[t].level) # NoWork
      <4>1. round' = [round EXCEPT ![t].at = "restrict", ![t].work = Plan(round[t].level)]
        BY <2>4, <3>6 DEF MakePlan
      <4>2. round'[t].at = "restrict" /\ round'[t].work = Plan(round[t].level)
        BY <4>1, StagesTyping DEF Rounds
      <4> QED  BY <4>2, <3>2
    <3> QED  BY <3>5, <3>6
  <2>6. \A u \in Threads : round'[u].release => u = t  BY <2>1, <2>3
  <2> QED  BY <2>1, <2>4, <2>5, <2>6 DEF TakesAllOff, Ending
<1> QED  BY <1>1, <1>2, <1>3, <1>4, <1>5

LEMMA StagesRestrictStep ==
  ASSUME StagesInv, NEW t \in Threads, SetRestrictions(t)
  PROVE  StagesInv'
<1> USE StagesRecords, StagesAssumption DEF StagesInv
<1>1. StagesTypeOK'
  <2>1. PhoneTyped'
    BY StagesTyping DEF PhoneTyped, SetRestrictions, NoMemo, OnNoted
  <2>2. round' \in [Threads -> Rounds]
    BY StagesTyping, SMTT(40) DEF PhoneTyped, Rounds, Works, SetRestrictions, Go, OnNoted
  <2> QED  BY <2>1, <2>2, StagesTyping DEF StagesTypeOK, PhoneTyped, Rounds, Works
<1>2. PlacesOK'
  BY DEF StagesTypeOK, PlacesOK, SetRestrictions, Go, Working, Ending, Doing, OnNoted
<1>3. ASSUME ~crossed' PROVE OneAtWork'
  BY <1>3 DEF StagesTypeOK, PlacesOK, OneAtWork, SetRestrictions, Go, Working, Ending, Busy, OnNoted
<1>4. ASSUME ~torn', ~crossed' PROVE Remembered'
  <2>1. /\ UNCHANGED <<suspended, installed, owner, memo, frp>>
        /\ round[t].at = "restrict" /\ round'[t].at = "onNote"
        /\ round'[t].release = round[t].release /\ round'[t].work = round[t].work
        /\ \A u \in Threads : u # t => round'[u] = round[u]
    BY StagesTyping DEF SetRestrictions, Go, Rounds
  <2>0. UNCHANGED torn \/ torn' = TRUE  BY DEF SetRestrictions
  <2>2. OneAtWork /\ Remembered /\ UNCHANGED torn
    <3>1. UNCHANGED torn /\ ~torn  BY <1>4, <2>0
    <3>2. ~crossed  BY <1>4 DEF SetRestrictions
    <3> QED  BY <3>1, <3>2
  <2>3. \A u \in Threads : round[u].at \in Working => u = t  BY <2>1, <2>2 DEF OneAtWork, Working
  <2>4. /\ blocked => memo.on
        /\ suspended \subseteq memo.apps
        /\ round[t].work.add => ~memo.on
        /\ round[t].work.clear => memo.on
    BY <2>1, <2>2, <2>3 DEF Remembered, Working
  <2>5. blocked' = IF round[t].work.add THEN TRUE ELSE IF round[t].work.clear THEN FALSE ELSE blocked
    BY <1>4, <2>2 DEF SetRestrictions
  <2>6. blocked' => OnNoted(memo.on, round[t].work)  BY <2>4, <2>5 DEF OnNoted
  <2>7. \A u \in Threads : round'[u].at \in Working => u = t  BY <2>1, <2>3
  <2> QED  BY <2>1, <2>4, <2>6, <2>7 DEF Remembered, Working
<1>5. ASSUME ~torn', ~crossed' PROVE TakesAllOff'
  <2>1. /\ UNCHANGED <<suspended, installed, owner, memo, frp>>
        /\ round[t].at = "restrict" /\ round'[t].at = "onNote"
        /\ round'[t].release = round[t].release /\ round'[t].work = round[t].work
        /\ \A u \in Threads : u # t => round'[u] = round[u]
    BY StagesTyping DEF SetRestrictions, Go, Rounds
  <2>0. UNCHANGED torn \/ torn' = TRUE  BY DEF SetRestrictions
  <2>2. OneAtWork /\ TakesAllOff /\ Remembered
    <3>1. ~torn  BY <1>5, <2>0
    <3>2. ~crossed  BY <1>5 DEF SetRestrictions
    <3> QED  BY <3>1, <3>2
  <2>3. \A u \in Threads : round[u].release => u = t  BY <2>1, <2>2 DEF OneAtWork
  <2>4. owner  BY <2>1, <2>2 DEF OneAtWork
  <2>5. \A u \in Threads : round'[u].release => u = t  BY <2>1, <2>3
  <2> QED  BY <2>1, <2>2, <2>4, <2>5 DEF TakesAllOff, Ending
<1> QED  BY <1>1, <1>2, <1>3, <1>4, <1>5

LEMMA StagesNoteOnStep ==
  ASSUME StagesInv, NEW t \in Threads, NoteOn(t)
  PROVE  StagesInv'
<1> USE StagesRecords, StagesAssumption DEF StagesInv
<1>1. StagesTypeOK'
  <2>1. PhoneTyped'
    BY StagesTyping DEF PhoneTyped, NoteOn, NoMemo, OnNoted
  <2>2. round' \in [Threads -> Rounds]
    <3>1. round[t] \in Rounds /\ memo.apps \in SUBSET Apps  BY StagesTyping DEF PhoneTyped
    <3> QED  BY <3>1, RoundGoesOn, StagesTyping DEF NoteOn
  <2> QED  BY <2>1, <2>2, StagesTyping DEF StagesTypeOK, PhoneTyped, Rounds, Works
<1>2. PlacesOK'
  BY DEF StagesTypeOK, PlacesOK, NoteOn, Go, Working, Ending, Doing, OnNoted
<1>3. ASSUME ~crossed' PROVE OneAtWork'
  BY <1>3 DEF StagesTypeOK, PlacesOK, OneAtWork, NoteOn, Go, Working, Ending, Busy, OnNoted
<1>4. ASSUME ~torn', ~crossed' PROVE Remembered'
  BY <1>4 DEF StagesTypeOK, PlacesOK, OneAtWork, Remembered, NoteOn, Go, Working, Ending, Busy, OnNoted
<1>5. ASSUME ~torn', ~crossed' PROVE TakesAllOff'
  BY <1>5 DEF StagesTypeOK, PlacesOK, OneAtWork, Remembered, TakesAllOff, NoteOn, Go, Working, Ending, Busy, OnNoted
<1> QED  BY <1>1, <1>2, <1>3, <1>4, <1>5

LEMMA StagesSuspendStep ==
  ASSUME StagesInv, NEW t \in Threads, Suspend(t)
  PROVE  StagesInv'
<1> USE StagesRecords, StagesAssumption DEF StagesInv
<1>1. StagesTypeOK'
  <2>1. PhoneTyped'
    BY StagesTyping, ZenonT(60) DEF PhoneTyped, Suspend, NoMemo
  <2>2. round' \in [Threads -> Rounds]
    <3>1. round[t] \in Rounds /\ round[t].work.held \subseteq Apps /\ round[t].work.suspend \subseteq Apps
      BY StagesTyping, RoundFields
    <3>2. PICK done \in SUBSET round[t].work.suspend :
            round' = [round EXCEPT ![t].at = "unsuspend", ![t].work.held = @ \cup (done \cap installed)]
      BY DEF Suspend
    <3>3. round[t].work.held \cup (done \cap installed) \in SUBSET Apps  BY <3>1
    <3> QED  BY <3>1, <3>2, <3>3, RoundGoesOn, StagesTyping
  <2> QED  BY <2>1, <2>2, StagesTyping DEF StagesTypeOK, PhoneTyped, Rounds, Works
<1>2. PlacesOK'
  BY DEF StagesTypeOK, PlacesOK, Suspend, Go, Working, Ending, Doing
<1>3. ASSUME ~crossed' PROVE OneAtWork'
  BY <1>3 DEF StagesTypeOK, PlacesOK, OneAtWork, Suspend, Go, Working, Ending, Busy
<1>4. ASSUME ~torn', ~crossed' PROVE Remembered'
  BY <1>4 DEF StagesTypeOK, PlacesOK, OneAtWork, Remembered, Suspend, Go, Working, Ending, Busy
<1>5. ASSUME ~torn', ~crossed' PROVE TakesAllOff'
  BY <1>5 DEF StagesTypeOK, PlacesOK, OneAtWork, Remembered, TakesAllOff, Suspend, Go, Working, Ending, Busy
<1> QED  BY <1>1, <1>2, <1>3, <1>4, <1>5

LEMMA StagesUnsuspendStep ==
  ASSUME StagesInv, NEW t \in Threads, Unsuspend(t)
  PROVE  StagesInv'
<1> USE StagesRecords, StagesAssumption DEF StagesInv
<1>1. StagesTypeOK'
  <2>1. PhoneTyped'
    BY StagesTyping DEF PhoneTyped, Unsuspend, NoMemo
  <2>2. round' \in [Threads -> Rounds]
    <3>1. round[t] \in Rounds /\ round[t].work.held \ round[t].work.unsuspend \in SUBSET Apps
      BY StagesTyping, RoundFields
    <3>2. round' = [round EXCEPT ![t].at = "appsNote", ![t].work.held = @ \ round[t].work.unsuspend]
      BY DEF Unsuspend
    <3> QED  BY <3>1, <3>2, RoundGoesOn, StagesTyping
  <2> QED  BY <2>1, <2>2, StagesTyping DEF StagesTypeOK, PhoneTyped, Rounds, Works
<1>2. PlacesOK'
  BY DEF StagesTypeOK, PlacesOK, Unsuspend, Go, Working, Ending, Doing
<1>3. ASSUME ~crossed' PROVE OneAtWork'
  BY <1>3 DEF StagesTypeOK, PlacesOK, OneAtWork, Unsuspend, Go, Working, Ending, Busy
<1>4. ASSUME ~torn', ~crossed' PROVE Remembered'
  BY <1>4 DEF StagesTypeOK, PlacesOK, OneAtWork, Remembered, Unsuspend, Go, Working, Ending, Busy
<1>5. ASSUME ~torn', ~crossed' PROVE TakesAllOff'
  BY <1>5 DEF StagesTypeOK, PlacesOK, OneAtWork, Remembered, TakesAllOff, Unsuspend, Go, Working, Ending, Busy
<1> QED  BY <1>1, <1>2, <1>3, <1>4, <1>5

LEMMA StagesNoteAppsStep ==
  ASSUME StagesInv, NEW t \in Threads, NoteApps(t)
  PROVE  StagesInv'
<1> USE StagesRecords, StagesAssumption DEF StagesInv
<1>1. StagesTypeOK'
  <2>1. PhoneTyped'
    <3>1. round[t].work.held \subseteq Apps  BY StagesTyping, RoundFields, ZenonT(60)
    <3> QED  BY <3>1, StagesTyping DEF PhoneTyped, NoteApps
  <2>2. round' \in [Threads -> Rounds]
    BY RoundGoesOn, StagesTyping DEF NoteApps
  <2> QED  BY <2>1, <2>2, StagesTyping DEF StagesTypeOK, PhoneTyped, Rounds, Works
<1>2. PlacesOK'
  BY DEF StagesTypeOK, PlacesOK, NoteApps, Go, Working, Ending, Doing, AfterStages
<1>3. ASSUME ~crossed' PROVE OneAtWork'
  BY <1>3 DEF StagesTypeOK, PlacesOK, OneAtWork, NoteApps, Go, Working, Ending, Busy, AfterStages
<1>4. ASSUME ~torn', ~crossed' PROVE Remembered'
  BY <1>4 DEF StagesTypeOK, PlacesOK, OneAtWork, Remembered, NoteApps, Go, Working, Ending, Busy, AfterStages
<1>5. ASSUME ~torn', ~crossed' PROVE TakesAllOff'
  BY <1>5 DEF StagesTypeOK, PlacesOK, OneAtWork, Remembered, TakesAllOff, NoteApps, Go, Working, Ending, Busy, AfterStages
<1> QED  BY <1>1, <1>2, <1>3, <1>4, <1>5

LEMMA StagesClearFrpStep ==
  ASSUME StagesInv, NEW t \in Threads, ClearFrp(t)
  PROVE  StagesInv'
<1> USE StagesRecords, StagesAssumption DEF StagesInv
<1>1. StagesTypeOK'
  <2>1. PhoneTyped'
    BY StagesTyping DEF PhoneTyped, ClearFrp, NoMemo
  <2>2. round' \in [Threads -> Rounds]
    BY StagesTyping, SMTT(40) DEF PhoneTyped, Rounds, Works, ClearFrp, Go
  <2> QED  BY <2>1, <2>2, StagesTyping DEF StagesTypeOK, PhoneTyped, Rounds, Works
<1>2. PlacesOK'
  BY DEF StagesTypeOK, PlacesOK, ClearFrp, Go, Working, Ending, Doing
<1>3. ASSUME ~crossed' PROVE OneAtWork'
  BY <1>3 DEF StagesTypeOK, PlacesOK, OneAtWork, ClearFrp, Go, Working, Ending, Busy
<1>4. ASSUME ~torn', ~crossed' PROVE Remembered'
  BY <1>4 DEF StagesTypeOK, PlacesOK, OneAtWork, Remembered, ClearFrp, Go, Working, Ending, Busy
<1>5. ASSUME ~torn', ~crossed' PROVE TakesAllOff'
  BY <1>5 DEF StagesTypeOK, PlacesOK, OneAtWork, Remembered, TakesAllOff, ClearFrp, Go, Working, Ending, Busy
<1> QED  BY <1>1, <1>2, <1>3, <1>4, <1>5

LEMMA StagesStepDownStep ==
  ASSUME StagesInv, NEW t \in Threads, StepDown(t)
  PROVE  StagesInv'
<1> USE StagesRecords, StagesAssumption DEF StagesInv
<1>1. StagesTypeOK'
  <2>1. PhoneTyped'
    BY StagesTyping DEF PhoneTyped, StepDown, NoMemo
  <2>2. round' \in [Threads -> Rounds]
    BY StagesTyping DEF PhoneTyped, Rounds, Works, StepDown, Go
  <2> QED  BY <2>1, <2>2, StagesTyping DEF StagesTypeOK, PhoneTyped, Rounds, Works
<1>2. PlacesOK'
  BY DEF StagesTypeOK, PlacesOK, StepDown, Go, Working, Ending, Doing
<1>3. ASSUME ~crossed' PROVE OneAtWork'
  BY <1>3 DEF StagesTypeOK, PlacesOK, OneAtWork, StepDown, Go, Working, Ending, Busy
<1>4. ASSUME ~torn', ~crossed' PROVE Remembered'
  BY <1>4 DEF StagesTypeOK, PlacesOK, OneAtWork, Remembered, StepDown, Go, Working, Ending, Busy
<1>5. ASSUME ~torn', ~crossed' PROVE TakesAllOff'
  BY <1>5 DEF StagesTypeOK, PlacesOK, OneAtWork, Remembered, TakesAllOff, StepDown, Go, Working, Ending, Busy
<1> QED  BY <1>1, <1>2, <1>3, <1>4, <1>5

LEMMA StagesForgetAllStep ==
  ASSUME StagesInv, NEW t \in Threads, ForgetAll(t)
  PROVE  StagesInv'
<1> USE StagesRecords, StagesAssumption DEF StagesInv
<1>1. StagesTypeOK'
  <2>1. PhoneTyped'
    BY StagesTyping DEF PhoneTyped, ForgetAll, NoMemo
  <2>2. round' \in [Threads -> Rounds]
    BY StagesTyping DEF PhoneTyped, Rounds, Works, ForgetAll, Go
  <2> QED  BY <2>1, <2>2, StagesTyping DEF StagesTypeOK, PhoneTyped, Rounds, Works
<1>2. PlacesOK'
  BY DEF StagesTypeOK, PlacesOK, ForgetAll, Go, Working, Ending, Doing
<1>3. ASSUME ~crossed' PROVE OneAtWork'
  BY <1>3 DEF StagesTypeOK, PlacesOK, OneAtWork, ForgetAll, Go, Working, Ending, Busy
<1>4. ASSUME ~torn', ~crossed' PROVE Remembered'
  <2>1. /\ UNCHANGED <<blocked, suspended>> /\ memo' = NoMemo
        /\ round[t].at = "forget" /\ round'[t] = NoRound
        /\ \A u \in Threads : u # t => round'[u] = round[u]
    BY StagesTyping DEF ForgetAll
  <2>2. OneAtWork /\ TakesAllOff  BY <1>4 DEF ForgetAll
  <2>3. round[t].release  BY <2>1 DEF PlacesOK, Ending
  <2>4. suspended = {} /\ ~blocked  BY <2>1, <2>2, <2>3 DEF TakesAllOff, Ending
  <2>5. \A u \in Threads : u # t => round[u].at = "none"  BY <2>2, <2>3 DEF OneAtWork
  <2>6. \A u \in Threads : round'[u].at = "none"  BY <2>1, <2>5
  <2> QED  BY <2>1, <2>4, <2>6 DEF Remembered
<1>5. ASSUME ~torn', ~crossed' PROVE TakesAllOff'
  BY <1>5 DEF StagesTypeOK, PlacesOK, OneAtWork, Remembered, TakesAllOff, ForgetAll, Go, Working, Ending, Busy
<1> QED  BY <1>1, <1>2, <1>3, <1>4, <1>5

LEMMA StagesKillStep ==
  ASSUME StagesInv, Kill
  PROVE  StagesInv'
<1> USE StagesRecords, StagesAssumption DEF StagesInv
<1>1. /\ round' = [t \in Threads |-> NoRound]
      /\ torn' = (torn \/ Unnoted # {})
      /\ UNCHANGED <<blocked, suspended, installed, frp, owner, memo, crossed>>
  BY DEF Kill
<1>2. StagesTypeOK'
  BY <1>1, StagesTyping DEF StagesTypeOK, PhoneTyped, Rounds, Works
<1>3. PlacesOK'  BY <1>1 DEF PlacesOK, Working, Ending
<1>4. OneAtWork'  BY <1>1 DEF OneAtWork, Working
<1>5. ASSUME ~torn', ~crossed' PROVE Remembered'
  <2>1. Remembered /\ Unnoted = {}  BY <1>1, <1>5, StagesTyping DEF PhoneTyped
  <2>2. blocked => memo.on
    <3>1. CASE \E t \in Threads : round[t].at = "onNote"
      <4>1. PICK t \in Threads : round[t].at = "onNote"  BY <3>1
      <4>2. ~round[t].work.add /\ ~round[t].work.clear  BY <2>1, <4>1 DEF Unnoted
      <4> QED  BY <2>1, <4>1, <4>2 DEF Remembered, OnNoted
    <3> QED  BY <2>1, <3>1 DEF Remembered
  <2>3. suspended \subseteq memo.apps
    <3>1. CASE \E t \in Threads : round[t].at \in {"unsuspend", "appsNote"}
      <4>1. PICK t \in Threads : round[t].at \in {"unsuspend", "appsNote"}  BY <3>1
      <4>2. round[t].work.held = memo.apps  BY <2>1, <4>1 DEF Unnoted
      <4> QED  BY <2>1, <4>1, <4>2 DEF Remembered
    <3> QED  BY <2>1, <3>1 DEF Remembered
  <2> QED  BY <1>1, <2>2, <2>3 DEF Remembered
<1>6. ASSUME ~torn', ~crossed' PROVE TakesAllOff'
  <2>1. TakesAllOff  BY <1>1, <1>6, StagesTyping DEF PhoneTyped
  <2> QED  BY <1>1, <2>1 DEF TakesAllOff
<1> QED  BY <1>2, <1>3, <1>4, <1>5, <1>6

\* What the customer installs is not suspended, and what is removed is no
\* longer.
LEMMA StagesAppsStep ==
  ASSUME StagesInv, NEW a \in Apps, Install(a) \/ Uninstall(a)
  PROVE  StagesInv'
<1> USE DEF StagesInv
<1>1. /\ UNCHANGED <<blocked, frp, owner, memo, round, torn, crossed>>
      /\ suspended' \subseteq suspended
  BY DEF Install, Uninstall
<1>2. StagesTypeOK'
  BY <1>1, StagesTyping DEF PhoneTyped, Install, Uninstall, StagesTypeOK, Rounds, Works
<1>3. PlacesOK'  BY <1>1 DEF PlacesOK
<1>4. ~crossed' => OneAtWork'  BY <1>1 DEF OneAtWork
<1>5. ASSUME ~torn', ~crossed' PROVE Remembered'
  BY <1>1, <1>5 DEF Remembered
<1>6. ASSUME ~torn', ~crossed' PROVE TakesAllOff'
  BY <1>1, <1>6 DEF TakesAllOff
<1> QED  BY <1>2, <1>3, <1>4, <1>5, <1>6

LEMMA StagesStep == StagesInv /\ [StagesNext]_stagesVars => StagesInv'
<1>1. ASSUME StagesInv, UNCHANGED stagesVars PROVE StagesInv'
  BY <1>1 DEF stagesVars, StagesInv, StagesTypeOK, PlacesOK, OneAtWork, Remembered, TakesAllOff
<1>2. ASSUME StagesInv, StagesNext PROVE StagesInv'
  BY <1>2, StagesToldStep, StagesToldReleasedStep, StagesApplyFrpStep, StagesNoteFrpStep,
     StagesMakePlanStep, StagesRestrictStep, StagesNoteOnStep, StagesSuspendStep,
     StagesUnsuspendStep, StagesNoteAppsStep, StagesClearFrpStep, StagesStepDownStep,
     StagesForgetAllStep, StagesKillStep, StagesAppsStep DEF StagesNext
<1> QED  BY <1>1, <1>2

LEMMA StagesImplies == StagesInv => StagesInOrder
<1> SUFFICES ASSUME StagesInv PROVE Undoable /\ HandedBackWhole  BY DEF StagesInOrder
<1>1. Busy = {} => \A t \in Threads : round[t].at = "none"  BY DEF Busy
<1>2. Undoable  BY <1>1 DEF StagesInv, Undoable, Remembered
<1>3. HandedBackWhole  BY <1>1 DEF StagesInv, HandedBackWhole, TakesAllOff
<1> QED  BY <1>2, <1>3

\* For any check-ins at work, apps, accounts and levels, however often the app
\* is killed and the platform refuses: the phone, the app's notes and the
\* check-ins keep their types.
THEOREM StagesTypeCorrect == StagesSpec => []StagesTypeOK
<1>1. StagesInv => StagesTypeOK  BY DEF StagesInv
<1> QED  BY <1>1, StagesInitOK, StagesStep, PTL DEF StagesSpec

\* What a check-in puts on the phone the app knows how to take off, and a phone
\* handed back has its apps and its reset again (RestrictionPlanner and the
\* order of LockController's calls and notes), for any of the above.
THEOREM WhatIsPutOnComesOff == StagesSpec => []StagesInOrder
BY StagesInitOK, StagesStep, StagesImplies, PTL DEF StagesSpec

-----------------------------------------------------------------------------
(* Location *)

LocReports == [at: {"none", "judge", "store"}, row: SpotRow]

LEMMA SpotRows ==
  /\ NewRow \in SpotRow /\ NoFixReport \in LocReports
  /\ \A row \in SpotRow :
       /\ LetGone(row) \in SpotRow /\ [row EXCEPT !.asked = "open"] \in SpotRow
       /\ [row EXCEPT !.asked = "lapsed"] \in SpotRow /\ [row EXCEPT !.asked = "no", !.fix = TRUE] \in SpotRow
       /\ [at |-> "judge", row |-> row] \in LocReports
       /\ \A s \in {"PENDING", "ACTIVE", "LOCKED", "INACTIVE"} :
            /\ [row EXCEPT !.status = s] \in SpotRow
            /\ \A t \in BOOLEAN : [row EXCEPT !.status = s, !.token = t] \in SpotRow
BY DEF NewRow, NoFixReport, LocReports, SpotRow, LetGone

LEMMA LocTypeStep == LocTypeOK /\ [LocNext]_locVars => LocTypeOK'
<1> SUFFICES ASSUME LocTypeOK, [LocNext]_locVars PROVE LocTypeOK'
  OBVIOUS
<1> USE SpotRows DEF LocTypeOK
<1>0. report \in [Reports -> LocReports]  BY DEF LocReports
<1>1. CASE \E o \in Askers : AskRead(o) \/ AskWrite(o)
  BY <1>1 DEF AskRead, AskWrite
<1>2. CASE DayPasses \/ Agreeing \/ FallBehind \/ LockChanges \/ ReEnroll \/ Release \/ Unrelease
  <2>1. spot' \in SpotRow
    BY <1>2, ZenonT(60) DEF DayPasses, Agreeing, FallBehind, LockChanges, ReEnroll, Release, Unrelease
  <2> QED  BY <1>2, <2>1 DEF DayPasses, Agreeing, FallBehind, LockChanges, ReEnroll, Release, Unrelease
<1>3. ASSUME NEW r \in Reports, ReportRead(r) \/ ReportJudge(r) \/ ReportStore(r)
      PROVE  LocTypeOK'
  <2>1. report' \in [Reports -> LocReports]
    <3>0. report[r] \in LocReports  BY <1>0
    <3>1. [report[r] EXCEPT !.at = "store"] \in LocReports  BY <3>0 DEF LocReports
    <3> QED  BY <1>0, <1>3, <3>1 DEF ReportRead, ReportJudge, ReportStore
  <2>2. spot' \in SpotRow
    BY <1>3 DEF ReportRead, ReportJudge, ReportStore
  <2> QED  BY <1>3, <2>1, <2>2 DEF ReportRead, ReportJudge, ReportStore, LocReports
<1>4. CASE Sync \/ Unwound \/ Enrolled \/ TakeFix \/ FixTaken \/ SendFix
  BY <1>4 DEF Sync, Unwound, Enrolled, TakeFix, FixTaken, SendFix, ShouldReport, RequestOpen, Eligible,
     InRecovery
<1>5. CASE UNCHANGED locVars
  BY <1>5 DEF locVars
<1> QED  BY <1>1, <1>2, <1>3, <1>4, <1>5 DEF LocNext

LEMMA LocInitTyped == LocInit => LocTypeOK
<1>2. LocInit => spot \in SpotRow /\ report \in [Reports -> LocReports]
  BY SpotRows DEF LocInit
<1> QED  BY <1>2 DEF LocInit, LocTypeOK, LocReports

\* For any number of requests and reports under way: the row, the app and the
\* requests keep their types.
THEOREM LocationTypeCorrect == LocSpec => []LocTypeOK
BY LocInitTyped, LocTypeStep, PTL DEF LocSpec

=============================================================================
