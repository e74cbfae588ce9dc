# Formal model of the AL MAS handset-financing system

A shop sells a phone on installments. The server (`server/`, Express over
Postgres through Prisma) keeps the plan, the payments, the signed agreement and
one record per handset; the Android app on the phone (`android/dpc`, a device
owner) asks the server from time to time what it should do and restricts or frees
the phone. A second app (`android/sms-relay`) sends the shop's texts, a web
dashboard (`client/`) is what the staff see. These modules describe that system, TLC
checks them on small instances, and TLAPS proves for every instance the safety
properties that the passing runs check (section 5 says which).

    tlc -config LockEnrolment.cfg MCLockEnrolment.tla     model-check a run
    tlc -config Services.cfg MCServices.tla
    tlapm LockProtocol_proofs.tla                         check the proofs

Every definition that stands for code is listed in `PROJECT.json` under `map`
with its file and lines. Paths below are relative to `src/`.

## 1. Inventory

| component | state it keeps | operations | hard behaviour | what makes it correct |
|---|---|---|---|---|
| device lock protocol: `server/src/services/DeviceManagementService.ts`, `routes/dpc.routes.ts`, `middleware/deviceAuth.ts`, `android/dpc` (`DpcSync`, `LockController`) | the record's status, pending command, `isOnline`, credential hash; on the phone the credential, device ownership, the applied lock | lock, unlock, flag, clear, check-in, acknowledge, reconcile | handlers decide on one read and write later; requests and answers are lost; several threads of the app talk at once | nobody who never signed is restricted; a phone handed back is free for good; a queued command settles; a phone that should be free is let go |
| release: `DeviceReleaseService.ts` | status INACTIVE | by staff, by the last payment | the phone learns of it only from a refused check-in; handing back takes many steps on the phone, each of which may fail or be overtaken by another thread | it does learn; once handed back it stays free |
| enrolment: `EnrollmentService.ts`, `enrollment.routes.ts`, `EnrollActivity.kt` | QR codes and their states, credential | issue, claim, enrol, expire | claim, record and credential are separate writes; answer lost | one code enrols one phone |
| contracts: `ContractService.ts`, `contractTerms.ts` | contract status, terms snapshot and hash | generate, sign, void; drift of the plan | consent checked long before a lock acts | no lock without a standing signature |
| offline rule: `OfflineLockPolicy.ts`, `OfflineLockRule.kt`, `OfflineWatchdogWorker.kt` | days limit cached on the phone | phone locks itself after long silence | clocks, stale cache | only with consent, only when overdue |
| payments ledger: `PaymentService.ts`, `payments.routes.ts`, `installments.routes.ts` | payments, installment rows, plan totals and credit | record, submit, verify, reverse, cancel, waive, reschedule | ReadCommitted transactions write absolute values from earlier reads; the unlock comes after the commit | no money lost or invented; paid means settled; the last payment frees the phone |
| overdue engine: `OverdueEngine.ts`, `Scheduler.ts` | rows' status and fees, plan status, device status | nightly run | works outside a transaction, from what it read first, statement by statement | no double charge; locks only for debt |
| installment math: `InstallmentMath.ts` | none | schedule, late fee, outstanding | rounding, month ends | rows sum to the financed amount |
| licences: `LicenseService.ts` | locks bought and which phone holds each | claim with five tries | spent before the code is claimed, raced by enrolments | a managed phone is paid for |
| SMS relay: `SmsRelayService.ts`, `claimForRelay`, `RelayService.kt`, `SmsSender.kt` | texts, leases, attempts; on the phone the batch at work | queue, poll in three statements, send, report, revoke | a lease expires under a phone still sending; answers and reports lost | sent once, gives up after the cap, the queue drains |
| staged restrictions and factory reset protection: `StagedRestrictions.ts/.kt`, `LockController.kt` | what the platform blocks; what the app remembers of it | apply a level, hand back | a call and the note of it are two steps; check-ins cross | what was applied is undone |
| location requests: `LocationService.ts`, `LocationReporter.kt` | open request, stored fix | ask, serve, report, withdraw | every handler writes after reading | a phone told to report tries |
| accounts: `AuthService.ts`, `users.routes.ts`, `middleware/auth.ts` | role, active, temporary password, failed count, block | sign in, passwords, create, change role, deactivate | counters read and written back; two admins about each other | an admin is left; the block comes in time |
| dashboard: `AuthContext.tsx`, `api.ts`, `ShopModeBanner.tsx`, `usePagination.ts`, list pages, `ExportButton.tsx` | token in localStorage; per tab the user, opened shop, edit mode; per list its controls and rows | sign in, open a shop, edit, filter, turn pages, export | tabs share one token; answers out of order; rows move during an export | edits of an opened shop were agreed to; a list shows what it asks for; an export loses nothing |
| registration: `AddCustomerWizardModal.tsx`, `POST /customers` | a wizard's boxes and step; customers, phones, codes | fill in, approve, retry, close; deactivate a customer | two checks, a transaction and, after it, a code in another; answers lost; sellers compete | a phone is sold once, and the QR shown is its own |
| forms: `EditCustomerModal.tsx`, `EditDeviceModal.tsx`, `SettingsPage.tsx` and the `PATCH`/`PUT` handlers behind them | a copy of the record, what was changed in it | open, type, save, select another shop | several editors with copies of different ages; the duplicate check apart from the write; a page loaded late | a save changes what its editor changed, and makes no twin |
| page of one phone: `DeviceDetailPage.tsx`, `devices.routes.ts` | what it shows, the open dialog, the action under way | lock, unlock, re-enrol, release, message, reboot | confirmed over a status that has moved since | what was confirmed is what happens |
| till: `PaymentsPage.tsx`, `SubmitPaymentCard.tsx`, `PendingSubmissions.tsx`, `ReceiptModal.tsx`, `payments.routes.ts` | references, receipt numbers, claims waiting for the owner | record, submit, verify, reverse, print | a lost answer and a second press; numbers and limits read without a lock | money handed over once is on its plan once; receipts tell payments apart; claims stay within their limit |
| shop sign-up and orders of locks: `RegisterPage.tsx`, `auth.routes.ts`, `PlatformDashboardPage.tsx`, `LicensesPage.tsx`, `LicenseService.issuePack` | shops, the order each came with, packs; lists on the platform's pages | sign up, list orders, give a pack | a second request after a lost answer; lists loaded twice or of another shop; addresses written in two ways | one shop for an address, with the order it made; one pack for a payment |
| data import: `scripts/import-store-json.ts` | the sets of ids and keys met | dry run, run, rerun | cannot run against this schema (section 7) | |
| notifications, audit trail, site, deployment | see `PROJECT.json`, `components` | | | |

They interact through shared rows (the device record is written by staff
requests, the engine, payments, the release and the phone's own requests; the
plan by payments and the engine), through service calls (the engine and the
payments call `lockDevice`, `unlockDevice` and `release`; every lock asks
`consentForDevice`) and through messages (check-in, acknowledgement and
enrolment, always started by the phone). The server is one Node process, but
every `await` lets other handlers run, so each handler is several steps.

Two components of the same name in different modules describe the same rows from
two sides: the contract row is an answer in `LockProtocol` and a row with requests on
it in `Agreement`; a code is one in `LockProtocol` and many in `Enrolment`; a plan has
payments statement by statement in `PlanLedger` and whole payments under a changing
schedule in `Counter`; a payment is an amount in `PlanLedger` and a reference with a
receipt in `Till`; a pack is spent in `Enrolment` and given in `Orders`.

`PROJECT.json` lists under `hazards` what can go wrong, at the line where it
would, with the properties that would notice and, where there is none yet, why.

## 2. Modules

| module | models | kind |
|---|---|---|
| `DeviceRecord` | the device row: statuses, `VALID_TRANSITIONS`, what each handler writes | operators |
| `LockProtocol` | server handlers, app threads, agreement, QR code, simulator | state machine |
| `HandsetPromise` | what the person holding the phone is promised | abstract specification |
| `MCLockProtocol` | symmetry | model checking |
| `Allocation` | the arithmetic of a plan: fees, allocation, reversal, plan status | operators |
| `PlanLedger` | payments, waivers, the nightly engine on one plan and its phone | state machine |
| `MCPlanLedger` | symmetry | model checking |
| `Enrolment` | codes, licences, redemptions and clerks competing | state machine |
| `SmsRelay` | the texts, their leases and the phones that send them | state machine |
| `Agreement` | the signed paper, and the offline limit and stages that follow from it | state machine |
| `Stages` | what the app does to the platform short of a lock, and undoes | state machine |
| `Location` | requests for a phone's location | state machine |
| `Accounts` | signing in and managing staff | state machine |
| `Till` | a payment's form, reference, receipt, and the claims customers make | state machine |
| `Orders` | how a shop signs up and comes to its locks | state machine |
| `Counter` | a sale's schedule, billed again by rescheduling; uses `Allocation` | state machine |
| `Screens`, `Export`, `Tabs` | the dashboard's lists, its CSV export, its sessions | state machines |
| `Wizard` | selling a phone: the registration wizard and `POST /customers` | state machine |
| `Records` | the forms that correct a customer, a phone or a shop's settings | state machine |
| `Desk` | the page of one phone; its transitions come from `DeviceRecord` | state machine |
| `LockProtocol_proofs`, `Enrolment_proofs`, `SmsRelay_proofs`, `Accounts_proofs` | theorems about the module of that name | proofs |
| `Ledger_proofs` | theorems about `Allocation`, `PlanLedger` and `Counter` | proofs |
| `Handset_proofs` | theorems about `Agreement`, `Stages` and `Location` | proofs |
| `Dashboard_proofs` | theorems about `Tabs`, `Desk`, `Screens` and `Export` | proofs |
| `Shop_proofs` | theorems about `Wizard`, `Records`, `Orders` and `Till` | proofs |
| `MCLockEnrolment` | `LockProtocol` as deployed, `LockProtocol` with the simulator, `Enrolment` or `Orders` | model checking |
| `MCLedgerTill` | `PlanLedger` by turns, with the nightly run in the middle, or with two requests at a time; or `Till` | model checking |
| `MCLockLiveness` | `LockProtocol`, `SmsRelay` or `Enrolment`, with fairness | model checking |
| `MCServices` | one of `Agreement`, `Stages`, `Location`, `Accounts`, `Counter`, `Screens`, `Export`, `Tabs`, `Records`, `Desk`, `Wizard` | model checking |

The last four hold parts that share no state that changes. A variable `part`, chosen at
the start, says which part is at work; the others stay as they began. The state space is
the sum of the parts', and each part has its own bounds.

Operators named `...Forgotten` or `...Dropped` are faulty variants. Nothing in the
specifications uses them; `PROJECT.json` (`mutants`) pairs each property with one
of them, to show that the property notices such a fault in the code.

### LockProtocol

* `device` is the row. A handler is a job of `staff` (dashboard, engine, payments) or
  of `call` (the phone's requests): a read step that chooses the job under the
  handler's guards (`LockRead`, `LockConsent`, `UnlockRead`, `FlagRead`, `ClearRead`,
  `ReleaseRead`, `ReEnrollRead`; `CheckIn`, `Acknowledge`, `Enroll`), then the steps
  that carry it out (`StaffWrite`; `CheckInWrite`, `AckReread`, `AckWrite`,
  `EnrollReread`, `EnrollWrite`, `EnrollIssue`). A write names its columns and
  leaves the others as they are *then*, as the `UPDATE` does.
* `agreement` is the answer of `consentForDevice`; `signedAt` remembers that a
  signature was ever given. `Sign` is one step.
* `phone` is what outlives the app's threads: credential, device ownership, applied
  lock, cached permission to lock itself, and `released`, the preference set when the
  app has let the phone go. `sync[s]` is a thread of the app: idle, waiting, holding an
  answer, in the middle of a lock or a release, about to acknowledge. `applyLock` and
  `releaseLock` are a test and, after the calls to the platform, a note of what came of
  them (`BeginLock`, `FinishLock`, `FinishLift`); no lock in the app keeps two threads
  from running them at once. Letting the phone go is four steps (`Unwind`, `StepDown`,
  `ClearPrefs`, `MarkReleased`), because other threads run between them; `stepDown`
  swallows a refusal, so `released` does not mean that the app has stepped down.
  `restricted` is `prefs.lockApplied`: the calls of a lock that was cut short before
  its note are not in the model, nor in what the app knows of itself.
* Lost messages: a request that never arrives, or is answered 401, changes nothing,
  so sending and authenticating are one step (`CheckIn`); a lost answer, a timeout
  (15 s to connect, 20 s to read), an app killed are `Interrupt`; a handler that
  throws or a server that restarts is `StaffFails`, `CallFails`.
* `Wipe` is a factory reset and a new provisioning. The simulator's actions are in
  `Simulator`; in production the set is empty, because its routes are not mounted.
* Left out: lock reasons and messages, telemetry, phones sold without a lock
  (refused everywhere), reporting of the offline lock, factory reset protection,
  staged restrictions, identity edits (`Records`). One redeemable code exists at a time. A fresh credential is one nobody holds.

### PlanLedger

* `rows`, `plan`, `payment` are the tables' columns that decide anything;
  `device` is the phone's status, always online and under a signed agreement (the
  commands are `LockProtocol`'s). Its transitions come from `DeviceRecord`.
* A counter request reads (`RecordRead`, `VerifyRead`, `ReverseFind`, `WaiveFind`) and
  later writes (`Apply`, `TakeBackPayment`, `CancelUnverified`, `Waive`), from what it
  read, to the columns the code names. The writes of one transaction, the
  recalculation after them and its commit are one step: the rows they write are
  locked until then, and the recalculation sees what is committed at that moment.
  `verifyPayment` locks the payment's row before it reads the plan, which is
  `HoldsPayment`. Nothing else keeps two requests of one plan apart, and the model does not either. `Unlock` and `ClearFlag` come after the commit. `GiveUp` is a
  rollback, or a server that stops between the commit and the unlock.
* A run of the engine reads the open rows (`EngineRead`), then their plan, device and
  policy (`EngineStart`), and then charges a row, marks it, marks the plan and enforces, row by row from
  what it read; only `lockDevice` reads the device again. `EngineLockFails` is the phone
  that cannot be locked, which the run passes over; `EngineFails` ends the run anywhere.
* Day `n` is the due date of installment `n`; fees are daily with a cap
  (`calculateLateFee`), since a daily fee grows between runs. A fee charged once is
  the case `Cap = Rate`.
* Left out: references and receipts (`Till`), notifications, cancelled plans,
  staged restrictions, rescheduling (`Counter`), and automatic unlock switched off
  (`autoUnlockEnabled`: the shop then unlocks by hand, which is `LockProtocol`'s). An unlock that
  fails is reported to the teller, who is told to unlock by hand: the request stays
  before `Unlock` until that is done, or gives up (`GiveUp`).

### The other modules

What they have in common with the two above: a request that awaits is a step for each
read and each write (`GenerateRead`, `GenerateRetire`, `GenerateCreate`;
`PollChoose`, `PollMark`, `Collect`; `SignRead`, `SignWrite`), working from what it
read; it may die between any two. Calls that are compare-and-set in the code
(`Claimable`, `SpendWins`, `StillFree`) are one step that tests and sets.

Several properties hold only while some race does not happen, and the code does not
prevent that race. A history variable records that it has happened, and the property
excepts it by name; what it records is reachable in the model, and each is a hazard
in `PROJECT.json`:

| variable | what has happened | where |
|---|---|---|
| `PlanLedger!clashed` | a request wrote over what it had not seen: "money", amounts; "order", anything else of the rows, or anything while the nightly run was at work | `PaymentService.ts:289`, `OverdueEngine.ts:126` |
| `PlanLedger!missed` | a failure left the fees, the plan's status, a lift or a lock undone, and nothing has made it good since | `OverdueEngine.ts:126-220`, `PaymentService.ts:175` |
| `Enrolment!revived` | a failed redemption wrote WAITING over what its code had become | `EnrollmentService.ts:327` |
| `SmsRelay!unsure` | a lease ran out, a SIM gave no answer, or two polls shared a millisecond: nobody knows whether the text went | `SmsRelayService.ts:24`, `repositories/index.ts:812` |
| `Agreement!rewritten` | a signature was written over a signed or voided paper | `ContractService.ts:117` |
| `Stages!torn` | a platform call was refused, or done and never noted | `LockController.kt:185-202` |
| `Stages!crossed` | two check-ins changed the phone at the same time | `DpcSync.kt:71` |
| `Accounts!rushed` | sign-ins of one account overlapped | `AuthService.ts:126` |
| `Accounts!late` | a request was carried out for somebody changed since it was let in | `users.routes.ts:133` |
| `Screens!outrun`, `unsubmitted` | an action reloaded the list as it was when it began; a search was typed and not sent | list pages |
| `Export!slid`, `expected` | a row left, or was added between two statements; rows that jump to the top drop out of `expected` | `repositories/index.ts:323` |
| `Records`' `abreast` turned false | the settings page showed something else than the shop it saves into: defaults, the shop before, a late answer | `SettingsPage.tsx:60`, `:91` |
| `Records`' `raced` | two saves of one mobile number overlapped; no unique index catches them | `customers.routes.ts:452` |
| `Wizard`'s `moved` | a box was changed, or Back pressed, while the sale was on its way | `AddCustomerWizardModal.tsx:570` |
| `Desk`'s `seen` | an unlock was confirmed over a phone released since its dialog was opened | `DeviceDetailPage.tsx:109` |
| `Till!retyped` | a form's reference was changed, or left empty, after it had been sent | `PaymentsPage.tsx:117` |
| `Till!contested` | a payment was verified or reversed by two requests that had both read it before | `PaymentService.ts:289` |
| `Till!outnumbered` | a receipt number was the highest when it was read and no longer when it was written | `repositories/index.ts:500` |
| `Till!crowded` | a claim was counted among those waiting before another was let in | `payments.routes.ts:220` |
| `Orders!raced` | two sign-ups of one mailbox, written differently, overlapped | `auth.routes.ts:72` |
| `Orders!blind` | a pack was given from a page that could not know of another: given elsewhere, its answer lost, its request given up, or the page out of date | `PlatformDashboardPage.tsx:169` |
| `Orders`' `mixed`, `repicked` | two loads of one page crossed; another pack was picked while the form was on its way | `LicensesPage.tsx:94`, `RegisterPage.tsx:244-312` |
| `Tabs`' `by # seen` | another tab has replaced the session this one shows | `AuthContext.tsx:62` |
| `Tabs`' `opened = NoShop` | a write from a page with no shop open, as after a reload: there is no banner and no guard | `AuthContext.tsx:100`, `:190` |

What each leaves out:

* `Enrolment`: the statuses of a managed phone (`LockProtocol`'s), the answer lost on
  its way, codes without a device, what a pack costs. `handset` is set back by a
  re-enrolment and let go by a release.
* `SmsRelay`: pairing (a phone is paired before it polls), the relay's counters, its
  heartbeat. `Outcomes` are what `SmsManager` may report.
* `Agreement`: the text and hashes of the paper (a hash stands for the figures it is taken
  from), identity photos. One installment; figures are abstract values that are equal or not.
* `Stages`: `lock task`, the uninstall block, which are set and lifted together with device
  ownership. The platform is known only by the calls: a device owner that steps down takes
  its user restrictions with it, not the suspensions nor the reset accounts.
* `Location`: coordinates. A report that read the row before a release stores its fix after it,
  against `LocationService.ts:24` "A released phone loses its stored location with everything
  else": reachable, and no property excepts it away. `ServerTests` lets reports arrive as the server's tests send
  them, because the app as it is never sends one after enrolment (finding 6).
* `Accounts`: password hashes, tokens (only the user's id in a token counts, the row is
  read again), rate limits. A request that names a role and an active flag is one after the
  other.
* `Counter`: late fees and dates; payments are whole. A payment or another restructuring between
  the read and the write of one is there.
* `Till`: what a payment does to its plan (`PlanLedger`'s): it is on the plan or it is not. One
  dealer, whose references and numbers these are. A request goes on when its page has given up.
* `Orders`: prices and notes, and the way the money takes: it arrives outside the program, and the
  platform's people give what was paid for and is not among the packs they are shown.
* `Screens`, `Export`, `Tabs`: layout. Rows are names; how many pages the server has is
  anything. In `Tabs` a write acts on the shop whose record is on the page, as the server does,
  whichever shop the tab has open. A page reloaded while a shop was open is there again without
  the shop, and what it then writes was never agreed to: a page of a phone is a URL, the shop is
  not. The property is about tabs with a shop open, where the banner is.
* `Wizard`: mobile numbers (`Records`), the schedule (`Counter`), what is done with the code
  (`Enrolment`). `POST /customers` counts the locks left before it writes and reserves none,
  so two sales may pass on one lock; that is one of the ways a sale may go, and the lock is
  spent at enrolment. The duplicate check looks at active customers, the unique index at all,
  so a deactivated customer cannot be registered again: the model has both.
* `Records`: of a record one plain and one identifying column; that a CNIC and a mobile number
  are both looked up is one identity; every customer is active; the audit rows of a save.
* `Desk`: handlers are one step (their reads and writes are `LockProtocol`'s), and everybody
  else is `Elsewhere`, any move the record allows at any time. The page offers a lock on a
  phone that is still PENDING and the server refuses it: only re-enrolling and releasing are
  held to being done whenever they are offered.

## 3. Runs

| run | what it asks | bounds | result |
|---|---|---|---|
| `lock_enrolment` | lock: refinement of `HandsetPromise` (nobody who never signed is restricted, no attempt to restrict begins without device ownership), `HandedBackStaysFree`, status and command, and `NothingLocksUnsigned`; a managed phone is paid for, a code works once; shops come by their packs in order (`OrdersInOrder`) | lock: 1 staff request, 1 phone request, 2 credentials, and either 2 app threads as deployed or 1 with the simulator; enrolment: 2 phones, 2 codes, 1 lock bought, 2 redemptions, 1 clerk, 1 claim try; orders: 2 mailboxes in 2 spellings, 2 sizes, 1 applicant, 2 pages, 3 packs, 2 payments | holds, 1 083 932 states |
| `lock_liveness` | queued commands settle, unlocked phones are let go, releases arrive; the SMS queue drains and sends once, no code stays stuck | lock: 1, 1, 1, 1; relay: 1 text, 2 phones of which 1 is kept, batches of 1, 2 attempts; enrolment: 1 phone, code, lock, redemption, clerk, 2 claim tries | holds, 23 777 states |
| `locked_without_ack` | "it is LOCKED when the handset acknowledges" | 1, 1, 1, 1 | violated |
| `release_undone` | a released record stays released | 1, 1, 1, 1 | violated |
| `lock_after_void` | a voided agreement restricts nothing | 1, 1, 1, 1 | violated |
| `two_live_codes` | a phone has one code that can be redeemed | 1 phone, 2 codes, 2 clerks | violated |
| `ledger` | rows (`RowsInOrder`), totals and phone agree, money, fees and release are right (`MoneyKept`, `PrincipalBacked`, `NoDoubleCharge`, `ReleasedOnlyWhenPaid`), with requests and runs failing anywhere; till: money handed over once is on its plan once, receipts tell payments apart, claims stay within their limit (`TillInOrder`) | 2 installments of 2, 2 payments, fee 1 a day up to 2; by turns: payments of 3 towards the second or none in particular, 4 days; with the run in between: payments of 3, the run on day 2; two requests at a time: payments of 1 or 3, one day, no run; till: 1 page, 2 requests, 2 references, 1 claim at a time, 1 opening | holds, 1 349 633 states |
| `ledger_two_tellers` | money with two payments at once | 1 installment, 2 payments | violated |
| `ledger_lock_no_debt` | a lock has a debt behind it | 2 installments, 2 payments, 3 days | violated |
| `billed_twice` | a restructured plan asks for the balance | a phone of 5, 1 down, payments 1 and 3, up to 2 installments, 1 admin | violated |
| `services` | the properties below, part by part | below | holds, 1 590 501 states |
| `location_unanswered` | a phone told to report tries to | 1 report, 1 request, the app as it is | violated |

The parts of `services`:

| part | properties | bounds |
|---|---|---|
| agreement | `PowersOnPaper`: the phone is never told more than the customer signed; `NoSoonerThanSigned`: it restricts itself only after the signed days of silence and the grace | 2 values of figures, 3 policies (0, 1, 2 days, with and without stages), terms 0 and 2, 1 signer, clock 0 or 1 day ahead, 3 days |
| stages | `StagesInOrder`: between check-ins the app remembers what is restricted, and a phone handed back has its reset and its apps | 1 app, 1 account, 2 check-ins at once, levels 0 to 2 |
| location | `ServicesTypeOK` only, so that every step that `location_unanswered` leaves out is exercised | 1 report, 1 request |
| accounts | `SomeoneCanManage`, `BlockedInTime` | 2 people, 2 requests, block after 2 wrong passwords (5 in the code) |
| counter | `NeverUnderBilled`: settlement plus receipts is never less than the price | a phone of 5, down payments 0 and 1, payments 1 and 3, up to 2 installments and 2 reschedulings, 1 admin |
| screens | `ScreenIsCurrent` | 2 filters, 2 searches, 2 page sizes, 2 pages, 2 requests under way |
| export | `ExportLosesNothing` | 3 rows, chunks of 1, 3 chunks |
| tabs | `EditsWereSwitchedOn` | 2 tabs, 1 platform admin, 1 owner, 2 shops |
| wizard | `SoldOnce`: no phone and no customer twice, no customer without a phone and no code without a sale, the QR page names the phone its code is for | 2 sellers, 2 buyers, 2 phones, 2 presses |
| records | `SavedAsMeant`: a save changes only what its editor changed, and makes no twin | 3 forms, 2 editors, 2 records, 2 plain values, 3 identities, 2 answers on their way, 2 saves |
| desk | `DeskMeansIt`: no desk takes a released phone back knowing it is released; what it offers on a phone as it is, the server does | 1 reload on its way |

`ServicesTypeOK` is the type invariant of the part at work.

Why the bounds are enough. Every handler does at most a read, a check and a write,
so two of them show every overwriting, and a phone request and a staff request are two.
Two app threads show a thread acting on an answer from before another's; two
credentials, one that replaces another. In the part with two threads (`Deployed`) the deal stands once
it is signed and no code runs out; in the part with the simulator (`Simulated`) the app keeps to one thread and the
offline rule is off, and the phone is enrolled once, gets no code after that, and is not reset. All of this safety is also
proved without bounds (section 5). In the ledger two rows separate "targeted", "oldest" and
"newest"; amounts that pay less than a row, a row and a part, and two of which pay
everything or more, give partial payments, spreading and credit, and let one payment be
reversed under the other; three or four days let both rows become late and a daily fee grow between runs.
Two requests at a time, and the run between any two statements of one, are parts of their own; any
number of requests together with the run is the proofs'. A payment
aimed at the first of two rows goes where one aimed at none in particular goes, so the
second is the only target worth a state. Any number of rows, payments and days is the proofs'.

For the codes, two redemptions of one code, of two codes for one phone, and for one last
lock are all there with two of each. The relay's liveness needs two phones, one to hold a
lease while the other waits, and two attempts, so that a text is tried again before it is
given up. Two is what separates a filter from another, a page from the first, a tab from
the other, an admin from a second one; three rows and three chunks let a row move past a
chunk already read. A lower `MaxFailed` only makes the limit come sooner, and is
arbitrary in the proof.

Further bounds are named `StillOpen` in the composites: once a failed redemption has brought
a code back no further one is issued; once a permanent exception above has happened the part
stops (in the ledger, `clashed` as far as the part's properties except it), since its properties
then say nothing more; passwords are guessed for one of the
people; the second page size is tried with one filter and one search. `EditorsWithin` lets one
editor go through both records while the other keeps to one, and of two settings pages one
changes the policy and the other the profile. `SellersWithin` lets one seller do anything while
the other has filled in the first buyer and the first phone and stays with them: what two
sellers compete for is there, and so is a seller who does both. `OrdersWithin` lets a shop sign up
before money arrives and be given its packs after, and allows one of four second things at a
time: a second shop, size, payment or page. In the till one payment is taken back.

In the passing runs deadlock is checked for the lock protocol's safety; it is not
checked for `lock_liveness`, whose cut of `Next` may stop when the deal is over,
nor for the ledger, whose calendar and payments are bounded (`LastDay`,
`Payments`), nor for `services`, whose parts end where their bounds do. In
`lock_enrolment` the enrolment and orders parts may stutter, so that only the lock can deadlock.

The lock queue exists only with the simulator: in production nothing sets `isOnline`
back to false, so no command is ever queued. That is what `locked_without_ack` is
about, why one part of `lock_enrolment` has the simulator's actions, and why `lock_liveness`
has the one that takes a phone offline.

### Fairness

`MCLockLiveness!LiveSpec` starts from a deal in progress. `Fairness` says:

* a request let in by the server ends, if only by failing (`CallEnds`, weak): Express
  answers or throws; and one that is made again and again is not cut off by failure
  every time (strong);
* a thread of the app does not wait for ever (`ThreadMoves`, weak): its HTTP calls
  have timeouts, and its calls to the platform return;
* the check-in is repeated as long as the phone is enrolled, and of infinitely many
  attempts some arrive, are answered and are acted on (strong): WorkManager's
  periodic work survives restarts (`BootReceiver`, `CheckInScheduler`). The
  acknowledgement likewise; Android's refusal to apply or lift a lock is not permanent, and a
  release cut short is begun again by the next check-in and goes through in the end
  (`Unwind`, `StepDown`, `ClearPrefs`).

For the relay (`RelayFairness`) and the codes (`EnrolFairness`):

* a phone the shop keeps goes on polling, and of infinitely many polls some are let through
  (strong): `RelayService.loop` polls for ever with a back-off, is a foreground service and
  is started at boot. A poll under way ends, if only without an answer (weak), a text it holds
  is sent and reported in the end, and a lease runs out (strong: time passes). Nothing is assumed of a phone that is switched off or
  revoked;
* the clean-up of stale codes runs every hour (weak), and codes grow old (weak).

The three parts are disjoint, so a condition `WF(Lock(A) \/ Relay(B) \/ Enrol(C))` is, in a
behaviour of one part, the condition on that part's action alone; `LiveFairness` pairs the
conditions in this way only to keep their number, and so the check's cost, small. For the same
reason it asks less than `Fairness` of two actions of one part joined by "or".

Nothing is assumed of the staff, the simulator or the network otherwise. `DealStep`
leaves out wipes and new enrolments, which end what the properties promise; the
agreement is fixed because it only limits the staff.

## 4. Findings

1. `locked_without_ack`: the record says LOCKED although no handset has applied
   anything, against `server/src/routes/dpc.routes.ts:32-34` and `README.md:72`.
2. `release_undone`: `unlockDevice` takes a released (INACTIVE) record back to ACTIVE;
   the phone is never handed back, against `DeviceReleaseService.ts:18-19`.
3. `lock_after_void`: a void reaches no lock that is already decided, queued,
   delivered or cached, against `contracts.routes.ts:153-154` and `ContractService.void`.
4. `ledger_two_tellers`: two payments on one plan at the same time; one is lost from
   the rows, against `server/src/db/prisma.ts:79-81`.
5. `ledger_lock_no_debt`: an installment whose principal is paid and whose fee is
   then waived never becomes PAID; the engine locks the phone for it, against clause 4
   of the contract (`contractTerms.ts:293-296`).
6. `location_unanswered`: only the enrolment looks at `reportLocation`, with a client that
   has no credentials yet; a check-in never does, against `DpcSync.kt:112-114` and what the
   dashboard tells the owner (`FindPhoneCard.tsx:44`).
7. `two_live_codes`: two requests for a code of one phone at the same time leave two that can
   be redeemed, against `EnrollmentService.ts:58-61`.
8. `billed_twice`: a restructuring spares a partly paid installment and bills what is left of
   it again in the new ones, against `README.md:52`.

Met on the way and shown by no run: the app says it has let the phone go
(`ReleasedActivity.kt:18-20`, "Every restriction is already gone by the time this shows")
although stepping down was refused or another thread is in the middle of a lock (`StepDown`,
`BeginLock`); a release forgets a phone's last place (`LocationService.ts:24`), and a report
that read the row before it stores one again; a page reloaded while a platform admin has a shop
open has no banner and no guard any more (`AuthContext.tsx:100`, `:190`); the data import's
header says that it moves the old store into this database (section 7).

## 5. Proofs

`LockProtocol_proofs` proves, for any finite or infinite sets of requests, threads
and credentials, with or without the simulator and the offline rule:

| theorem | statement | argument |
|---|---|---|
| `TypeCorrect` | `TypeOK` | one lemma per group of actions |
| `CommandsMatch` | `CommandMatchesStatus` | every write of a status writes the command too (`WritesMatch`), the others leave both; inductive with `TypeOK` |
| `NothingLocks` | `NothingLocksUnsigned` | inductive as it stands with `TypeOK` |
| `ConsentSafe` | `RestrictedOnlyWithConsent` | from `NothingLocksUnsigned` |
| `PromiseKept` | `LockProtocol` implements `HandsetPromise` | each step begins an attempt to restrict, gives one up, carries one out, lifts, steps down, resets, agrees, or changes none of these (`KeptStep`, `ResetStep`) |
| `HandedBackSafe` | `HandedBackStaysFree` | an attempt begins only in an app that is device owner (`AttemptsBegin`), and only one that was begun ends in a lock (`FinishedAttempt`) |

"Nobody who never signed is restricted" is not inductive by itself: a lock acts long
after the consent check, having passed through a request, the row, an answer and
perhaps the phone's cache. `NothingLocksUnsigned` says that without a signature none
of these places holds anything that could become a lock, and each step preserves that,
because it moves a lock only from one of these places to another and the only
entrances ask for consent.

That a phone handed back stays free is less than it may seem, because the code promises less. `released`
is set although stepping down may have been refused, and a thread that had passed the
ownership test before the release can finish its lock after it: such a phone is restricted
with nobody to undo it. Neither is excluded by the theorem's invariant but by its hypothesis,
`HandedBack`: the app has stepped down, holds no lock, and no thread is in the middle of one.
From there no answer still on its way, no watchdog and no staff restricts the phone, until a
factory reset provisions it anew. `HandsetPromise` says the rest with `seizing`, whether some thread is in the
middle of a lock: seizing begins only with ownership and consent, and only what is being seized becomes
restricted.

`lock_enrolment` checks `NothingLocksUnsigned`, from which `RestrictedOnlyWithConsent` follows.

Assumptions on constants: `NoToken` is no credential, `NoSync` no thread, `Simulator`
names known actions, `OfflineRule` is a truth value.

`Enrolment_proofs`, for any numbers of phones, locks, codes, redemptions, clerks and tries:

| theorem | statement | argument |
|---|---|---|
| `EnrolTypeCorrect` | `EnrolTypeOK` | with `Typed`, which also says that a request at work names rows that exist |
| `ManagedPaid` | `ManagedIsPaidFor` | a lock once spent is never taken back (`LocksAreKept`), and a redemption past the claim of its lock holds one for its phone (`PaidInv`): activation comes after it |
| `CodesWorkOnce` | `CodeWorksOnce` | a redemption that has claimed a code is the only one that has, the code is out of circulation while it works, and for good once it has answered (`OnceInv`) |

`ManagedIsPaidFor` is not inductive because the lock is spent several steps before the phone
is activated; `CodeWorksOnce` because the answer is counted after the code has been claimed and
may by then have been written back to WAITING by another redemption that failed: the
invariant has to say that the one that failed was the one that had claimed.

`Accounts_proofs`, for any sets of people and requests and any limit:

| theorem | statement | argument |
|---|---|---|
| `AccountsTypeCorrect` | `AccountsTypeOK` | with `Sound`: counts stay below the limit, requests name accounts that exist |
| `SomebodyManages` | `SomeoneCanManage` | whoever has a change under way and was not changed since can manage, and the change spares themselves (`ManageInv`): after it is carried out its maker is the witness |
| `BlockComesInTime` | `BlockedInTime` | of an account whose sign-ins have not overlapped, the row counts no less than was tried and what a wrong password will write is still one more than the row (`CountInv`) |

`Ledger_proofs`, for any figures, payments, counters and days, any prices, numbers of
installments and administrators:

| theorem | statement | argument |
|---|---|---|
| `PlanIsTyped` | `Typed`: types, and the bounds of every figure of a row | the lemmas about `Allocation` |
| `NeverChargedTwice` | `NoDoubleCharge` | `Bounded`: rows, and copies of rows in requests, carry no more than the fee of the days they are late, and days only pass |
| `EveryRupeeKept`, `PrincipalIsBacked`, `ReleasedWhenPaid` | `MoneyKept`, `PrincipalBacked`, `ReleasedOnlyWhenPaid` | `MoneyUnlessClashed`, below |
| `PlanTypes`, `PaidRowsAreSettled`, `CompletedMeansReleased`, `PhoneFollowsThePlan`, `TotalsAreHonest` | `TypeOK`, `RowsInOrder`, `CompletedIsReleased`, `PhoneFollowsPlan`, `TotalsHonest` | `CalmUnlessClashed`, below |
| `CounterTypeCorrect`, `ScheduleAddsUp` | `CounterTypeOK`, `NeverUnderBilled` | `CounterInv`, below |

All are theorems of the specification as it is: requests of one plan and nightly runs overlap as
the code lets them, and fail anywhere. What an overlap can spoil depends on whether
somebody writes over what he has not seen, and that is what `clashed` records, at the write
itself: "money" if a request writes amounts, a credit or a payment's status and what was
there is not what it had read; "order" if it writes rows of which anything is not as it had read it,
lets a phone go for which an installment has become overdue since, or writes at all while the
nightly run is at work on the plan. Every other overlap is covered. `NeverChargedTwice` and the types need no
exception; the money and the release need "money" not to have happened; the statuses, the totals and
the phone need neither to have happened. `ledger_two_tellers` shows that without the exception a payment is
lost (finding 4). What a failure leaves undone is in `missed`, and `PhoneFollowsPlan` and
`TotalsHonest` except just that: a later run writes the fees and a later payment looks at the
restriction, but no run tries a lock again for a row that is already OVERDUE.

That a plan's money is kept is not inductive, because a request writes absolute values computed
from rows it read: `Money` says that every payment is split soundly, a paid row is paid in full, the money
that stands is on the rows or in the credit, and principal and credit are no more than what came in net of
fees. A write over rows that are as the request saw them keeps all four; any other is a clash. What `Allocate` and `ClawBack` do is in
two lemmas, `Allocated` and `ClawedBack`: the money in is the money on the rows plus what is left,
no row takes more than it asks for, and credit remains only when nothing is owed. Sums over rows
are sums of a function (`SumFunction`), and `SumMoves` says what changing one value does to one.
`Calm` has four parts: a paid row is settled, and credit is there only when
nothing is owed (`Owing`); the plan's totals are those its rows give, unless a write of them is missing and on record
(`Derived`); a restricted phone has an overdue row or a request about to let it go, an overdue row
a restricted phone or a run about to restrict it, and of a phone that is free the run in progress
knows so (`Restraint`); and what the nightly run has still
to look at is as it read it (`Ahead`). What a request has read is not in it: whether that is how
the rows still are is asked when it writes.

That a sale is never billed less than its price is not inductive because a restructuring deletes, by their ids, the
rows it read earlier and writes a schedule for the principal it read earlier. `CounterInv` says
that no two rows share an id and that all of them come from schedules there have been
(`SaleInOrder`), so that a new schedule's rows clash with none; that no more is on the rows and in the
credit than was received; and that what a restructuring is about to bill covers what is still to come,
whatever has been paid or restructured since it read the plan (`Covers`). `SparedSays` gives what the deletion leaves,
`ScheduleSays` the rest: a schedule's rows sum to the amount it was made for, the last one taking up
the rounding. `BilledAllocated` says what a payment does to a schedule, row by row down the
queue. That a plan may ask for more than its price is finding 8.

`Handset_proofs`, for any figures, policies, versions of the terms, clocks and days, any apps,
accounts and check-ins at work, any reports and requests:

| theorem | statement | argument |
|---|---|---|
| `AgreeTypeCorrect` | `AgreeTypeOK` | one step per action |
| `NoMoreThanSigned` | `PowersOnPaper` | inductive with the types: an answer is on the paper when it is made (`ViewOnPaper`), a void keeps the paper's words, and a signature changes them only over a draft, under which no answer gives the phone anything |
| `NoSooner` | `NoSoonerThanSigned` | from that, and from `LateInv`: an installment is marked late, and the phone told so, only after the grace |
| `StagesTypeCorrect`, `WhatIsPutOnComesOff` | `StagesTypeOK`, `StagesInOrder` | `StagesInv`: one check-in at a time is at work unless two crossed; between a call to the platform and the note of it the app's place in its code says what it has not yet noted (`Remembered`), and a release at work still takes off what is on (`TakesAllOff`) |
| `LocationTypeCorrect` | `LocTypeOK` | one step per action |

`SmsRelay_proofs`, for any texts, phones, batches and attempts:

| theorem | statement | argument |
|---|---|---|
| `RelayTypeCorrect` | `RelayTypeOK` | one step per action |
| `SentAtMostOnce` | `SentOnce` | `OnceInv`: of a text nobody has given up on, whoever is about to send it or to tell of it holds its lease (so it is one phone only), a report of failure is true, and a text that has gone is marked SENT or still leased, so nobody can take it (`Known`) |

That a text is sent once cannot be seen from the row alone: it is back in the queue, or its
lease is up, long after a phone decided to send it. `Known` speaks of the phone's requests
under way, and the two ways in which it stops holding are what `unsure` records.

`Dashboard_proofs`, for any tabs, people and shops, any reloads and requests under way, any filters,
searches, lists and sizes of chunk:

| theorem | statement | argument |
|---|---|---|
| `TabsTypeCorrect`, `EditsSwitchedOn` | `TabsTypeOK`, `EditsWereSwitchedOn` | in a tab with a shop open edit mode is on only if it was agreed to since the shop was opened, because every opening switches it off; of a page without a shop open, where the code asks nothing, it says nothing |
| `DeskMeansWhatItSays` | `DeskMeansIt` | `DeskInv`: every dialog and every action remembers a status over which the page offers it, and there is one action at a time; the handlers' guards allow whatever is offered over the status the phone still has |
| `ScreensTypeCorrect`, `ListsAreCurrent` | `ScreensTypeOK`, `ScreenIsCurrent` | the newest request asks for what the controls say (`NewestAsksForIt`), and only its answer is shown |
| `ExportTypeCorrect`, `FileIsWhole` | `ExportTypeOK`, `ExportLosesNothing` | `NothingPassed`: a row that is expected is in the file or below the chunks already read; a row that moves down stays there, one that moves up is expected no longer |

`Shop_proofs`, for any sellers, buyers, phones and presses; any editors, records and columns; any
applicants, addresses, pages and sizes of pack; any registers, requests, references and limits:

| theorem | statement | argument |
|---|---|---|
| `SalesStaySound` | `SoldOnce` | step by step along the wizard: the boxes are filled past the step that asks for them, a request past the transaction has its sale and, if it got so far, its code, and a wizard that was not moved holds what its request asked for |
| `RecordsTypeCorrect`, `SavesMeanWhatTheySay` | `RecordsTypeOK`, `SavedAsMeant` | `RecordsInv`: a form differs from what it was filled from only where it was touched, what was checked is still so unless it was overtaken (`PostOK`), and a request says what its form shows (`SentAsShown`) |
| `OrdersTypeCorrect`, `OrdersStayInOrder` | `OrdersTypeOK`, `OrdersInOrder` | a press under way was made over fewer packs than there are payments (`Short`), and a page whose loads did not cross shows every pack it was told of (`PageTells`), so that the packs it does not know of are those `blind` excepts |
| `TillTypeCorrect`, `TillStaysInOrder` | `TillTypeOK`, `TillInOrder` | `TillInv`: what one opening of a form has sent bears one reference (`SameReference`), no two payments do, what a handler has read still holds unless it is late (`Informed`), and numbers rise (`NumbersRise`) |

That no phone is sold twice rests on the unique index alone (`IndexAllows`), as in the code: the
checks before it are made too early. The proof about orders found an exception that the bounds of
the run had hidden: a page that gave up on its own request and presses again does not know of the
pack that request may still give; `blind` now records it.

Induction over data, of which the prover's library has only a form that no prover here can use,
is done through least elements: were a statement about naturals false somewhere, there would be a
least place where it is, and the step from the one before gives the contradiction (`WFMin`).
`Allocated`, the sums and the oldest lock (`OldestExists`) are proved in this way.

Assumptions on constants: `EnrolmentAssumption` (numbers are naturals, at least one try, the
words for a lock's state are no phone), `AccountsAssumption` (the limit is positive),
`TabsAssumption` (a shop exists, platform admins and owners are different people),
`AgreementAssumption` (days are naturals, a clock may be right), `StagesAssumption` (levels are 0 to
2, the word for no account is none), `LocationAssumption`, `RelayAssumption` (batches and
attempts are positive, the word for no lease is no phone), `WizardAssumption` (an empty box is
no buyer and no phone), `RecordsAssumption` (there are values to type), `OrdersAssumption` (packs and
payments are finitely many, the words for none are no order and no shop), `DeskAssumption`, `ScreensAssumption`, `ExportAssumption` (a page may load, a list has a page,
a chunk a row), `TillAssumption` (references are finitely many, a claim is allowed), and for the ledger
`AmountsAssumption`, `TargetsAssumption`, `PolicyAssumption`, `PaymentsAssumption` (an
installment and a payment are at least 1, a target is an installment or none, figures are naturals,
payments are finitely many) and `CounterAssumption` (figures are naturals, a
schedule has an installment).

Only model-checked:

* liveness (`QueuedCommandSettles`, `UnlockedPhoneIsLetGo`, `ReleaseReachesPhone`, `QueueDrains`,
  `NoCodeStuck`): it needs fairness and ENABLED, which the prover does not handle;
* `ServicesTypeOK`: it is the type invariant of the part at work, and those are part of the
  invariants above;
* the eight disagreements of section 4, which are counterexamples.

## 6. Plan

1. Lock protocol: done, proofs included.
2. Plan ledger, till, overdue engine: done, proofs included. Rescheduling and the schedule: done.
3. Enrolment, licences, orders: done, proofs included.
4. SMS relay, agreement, offline rule, stages, location, accounts, dashboard, registration,
   forms, the page of one phone: done, proofs included.
5. Left: a LOCKED record that becomes ACTIVE when its phone is wiped
   and enrolled again (`DpcSync.kt:66`); the engine's lock that failed and is not tried again
   (`OverdueEngine.ts:156`); the engine's daily duplicate check of notifications.

## 7. Not modelled

* The import of another system's data (`scripts/import-store-json.ts`): it writes
  `dealer.licenseKeyId` (`:154`) and uses `prisma.licenseKey` (`:182`), and `schema.prisma` has
  neither at this commit, so a run that is not a dry run fails at the first dealer, whatever the script's
  header says. Nor does it check that dealer codes and addresses are unique, which the schema
  asks for.
* Cryptography and tokens (signing, hashing, rate limits), validation of inputs, tenant
  isolation: decided inside one request, with nothing that interleaves.
* The audit trail and the transactions table: append-only, and no decision reads them but the
  engine's duplicate check.
* Charts, the printed contract and the wording of receipts, translation, CSV
  formatting and the lock screen: layout over the HTTP API. Most of the lines the map does not
  cover are these, with seed data, tests, the queries of `repositories/index.ts` that only read
  and the schema's descriptive columns; the map covers about a third of the implementation.
* Telemetry and the pairing of relays: writes that no modelled
  decision reads, or initial states. Phones sold without a lock are in `Wizard` and `Desk`;
  every handler of `LockProtocol` refuses them.
* The web site, build tools and deployment: nothing of them runs beside the system.

Each is in `PROJECT.json` (`components`) with its reason.
