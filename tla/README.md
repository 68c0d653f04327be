# A formal model of the EasyRisparmio backend

The backend moves a household's energy bill from upload to a new supplier. This
directory holds TLA+ modules that model its state machines, TLC configurations
that check them on small instances, and TLAPS proofs of the properties that
matter most. Paths below are relative to `src/` (application code in
`src/modules/`).

## The system

A NestJS server over PostgreSQL (TypeORM) and Firebase push. Handlers are
`async` functions in one Node process, possibly several instances of it; control
passes to other handlers at every `await`. Almost nothing runs in a transaction.
`repository.save(entity)` writes back the entity as the handler holds it in memory,
columns it never touched included, so a value stored by someone else since the
entity was read is put back. Each action of the models is what happens between
two awaits.

| Component | State | Operations | Interacts with | What is hard | What makes it correct |
|---|---|---|---|---|---|
| **Bill pipeline** `modules/bills` | `energy_bills` (14 statuses, data read off the bill), `bill_verifications`, `sent_offers` | upload and background OCR, `transitionBillStatus`, `requestVerification`, `submitVerification`, `sendOffersToUser`, `adminUpdateBill` | mirrors its status onto the newest switch case, announces milestones | stale whole-row saves, writes without a transaction, background OCR against operators | a bill waiting for documents has a request to answer; an answered request stays answered; nothing is announced that did not happen |
| **Switch cases** `modules/cases` | `switch_cases` (8 statuses, supply dates), timeline | `createCase` (offer accepted), `updateCase` | reads the bill and its sent offers, moves the bill, announces milestones | check then insert, two endpoints for one pair of dates | one bill, one switch; opened on a proposed offer only; a supply in activation has both dates |
| **Milestone notifications** `modules/notifications` | `notifications` with a unique `(user, dedupe_key)` | `billMilestone`, `caseMilestone`, `offersAvailable`, `sendNotification` | called by both of the above and by the scheduler | three routes to the same milestone, a crash between row and push | true, and pushed at most once |
| **Scheduled reminders** `notification-scheduler.service.ts` | none of its own: requests, bills, dedupe keys | hourly document reminder, daily stalled-application alert | reads rows the pipeline changes | overlapping runs, restarts, the cap on rows | announced only if overdue, at most once per wait, the oldest eventually |
| **Bill intake** `modules/bills` | e-mail placeholders, uploads by both sides, `bill_files`, order of sent offers | upload, placeholder, admin upload, further files, merge, reorder | becomes the input of the pipeline, announces new applications | check then insert, merge in two writes one of which may be rejected | one placeholder of a kind waits; no file is lost; places stay dense |
| **OCR and AI extraction** `modules/bills/ocr` | none until stored on the bill | look, look again at what is missing, retry, validate, derive, merge, store | the vision model; reads files, writes the bill | two partial looks, one derived figure, values typed in before | what was derived follows from the rest |
| **Case documents** `modules/cases` | `case_documents` with replacement links | upload, replace, verify, reject | notifications | verdict against replacement | what was replaced stays rejected |
| **Support tickets** `modules/support` | topics, tickets, messages | topic edits and deletion, open, reply, assign, resolve, close | notifications | count then delete, look then insert, foreign keys as last line | a ticket has its topic |
| **Supplier and offer lifecycle** `modules/suppliers`, `modules/offers` | supplier status, deletion date; offer status | delete or schedule, cancel, nightly execution; delete offer, change its status | reads live utilities, cancels early cases | decision on rows that move on | a supply never loses its supplier while it runs |
| **Referrals** `modules/referrals` | user's code, invites with status and expiry | code, invite, claim under a lock, status, nightly expiry | sign-up, notifications | lock and re-evaluation, expiry against claim | an invite is claimed once; statuses only move forward |
| **Sessions and one-time codes** `modules/auth` | `otp_codes`, `refresh_tokens` | draw, mail, guess, retire codes; login, social login, reset, rotate, logout | e-mail transport, users | a mail that is refused, racing guesses, four handlers that set a password | one code to type in; no guess uncounted; a new password ends the old sessions |
| **Users** `modules/users` | status and password of a user | `update`, `toggleStatus`, `softDelete`, edits of the profile | every login writes the row back | stale whole-row saves | a suspension stays until an operator lifts it |
| **Legal documents and consent** `modules/legal`, `modules/static-pages` | versions per translation, acceptances | create, edit, publish, delete, accept | the app's gate at launch | a version carried over in a second write | who was to be asked stays to be asked |
| **Devices** `modules/notifications` | `push_tokens` | register, hand over, remove, give up | pushes under way | look then insert, give up after a push | a signed-in user is reached |
| Meters, agreements | one row per object | read and save | | stale saves | last write is the intended one |
| Dashboard, deep links, activity log, alerts, e-mail, uploads, database bootstrap | none, or append-only | reads and I/O | | | |

The last two rows are left out: one-row edits without a protocol, or pure I/O whose
failure is an outcome of the callers that are modelled. `PROJECT.json` lists every
component with its status, and under `hazards` each place where the code is hard
to test.

## Modules

| Module | Models |
|---|---|
| `PipelineStatus` | vocabulary: statuses of bill and case, how one maps to the other (`CASE_STATUS_BY_BILL_STATUS`), which are milestones |
| `CustomerNews` | abstract: what notifications promise. Something happens; it is heard at most once, and only afterwards |
| `BillPipeline` | core: bill, cases, requests for documents, offers, milestones |
| `MCBillPipeline`, `MCBillPipeline_*.cfg` | its instances for TLC |
| `BillPipelineProofs` | its theorems |
| `OverdueScan` | the two scheduled jobs over the rows they announce |
| `MCOverdueScan`, `MCOverdueScan_*.cfg` | its instances for TLC |
| `OverdueScanProofs` | its theorems |
| `SupplierLifecycle` | a supplier on its way out: its offers, the cases on them, the nightly deletion |
| `MCSupplierLifecycle`, `MCSupplierLifecycle_*.cfg` | its instances for TLC |
| `SupplierLifecycleProofs` | its theorems |
| `Referrals` | the invites of a referrer: claimed under a lock, lapsed by a job, moved on by operators |
| `MCReferrals`, `MCReferrals_claims.cfg` | its instance for TLC |
| `ReferralsProofs` | its theorems |
| `Calls` | the tasks of the server, for all the modules below: a request arrives, goes on from await to await, ends, dies |
| `Notices` | announcements by key: row, push, swallowed failure. Shared by the parts of `Backoffice` |
| `CaseDocuments`, `SupportTickets`, `BillIntake`, `BillReading`, `SentOfferOrder` | one part each |
| `Backoffice` | their composition over the same tasks and notices; refines `CustomerNews` |
| `MCBackoffice`, `MCBackoffice_desk.cfg` | its instance for TLC |
| `BackofficeProofs` | types and the refinement |
| `BackofficeSafetyProofs` | the safety properties of documents, tickets, intake and the offers' order; the arithmetic of a reading, and that it is kept |
| `OneTimeCodes`, `Accounts`, `Consent`, `Devices` | one part each; `Accounts` extends `OneTimeCodes` |
| `Membership` | their composition over the same tasks |
| `MCMembership`, `MCMembership_customer.cfg` | its instance for TLC |
| `MembershipProofs` | how its tasks move; the theorems about devices and consent |
| `AccountProofs` | what a step of an account, its codes and its sessions may be; the theorems about them, and the types of `Membership` |

### BillPipeline and the code

One bill is modelled, since bills share none of this state. A handler in flight is a
record in `req[r]`: the operation, the await it has reached (`pc`), the entities it
loaded (`brow`, `crow`) and what it is to write. `Read*` actions start a handler
(read, validate, early returns before the first write), the others are its later
steps:

| Handler | Steps |
|---|---|
| `transitionBillStatus` | `ReadTransition`, `ResolvePending`, then `SaveBill` or (to `verification_required`) `InsertVerification`, `SetRequired`; `ReadCase`, `SaveCase` (dates), `MirrorCase`; `Announce`, `Push` |
| `requestVerification` | `ReadRequest`, `ResolvePending`, `InsertVerification`, `SetRequired` |
| `submitVerification` | `ReadSubmit`, `FindPending`, `SaveVerification`, `SaveBill` |
| `sendOffersToUser` | `ReadSend`, `CheckSend`, `DraftOffers`, `SaveOffers`, `SaveBill`, `Announce`, `Push` |
| `createCase` | `ReadAccept`, `CheckAccept`, `CheckProposed`, `DrawNumber`, `InsertCase`, `SaveBill` |
| `updateCase` | `ReadEdit`, `SaveCase`, `Announce`, `Push` |
| `adminUpdateBill` | `ReadCorrect`, `SaveBill` |
| `processOcrInBackground` | `StartOcr`, `SaveBill`, `Extract`, `SaveBill` |

`Fail` ends a handler at any await: the process died, or a call was rejected, and what
was written stays. Data are abstracted to what properties tell apart: the values read
off the bill to who wrote them last (`intake`, `ocr`, `admin`, `customer`), dates to
numbers, an offer to a model value, a verification to its status. `transitionBillStatus`
accepts every bill status from every other, as its DTO does. Guards on payment
method, a supplier about to be deleted and the offer's audience only reject a request,
which `Fail` covers. Left out: the timeline, `contractSentAt`, and announcements that
are not milestones.

Four handlers load the bill with its cases, files and requests (`getBillById`, `WithKin`).
When they save it, TypeORM takes the rows their copy lacks from the bill by setting
`bill_id` to null, which is `NOT NULL`: the save is rejected (`SaveRejected`) if a request or
a case was added since they read (`Orphaning`), and overwrites the row if not (`SaveBill`).

### OverdueScan and the code

`rows` stands for `bill_verifications` or `energy_bills`, according to `kind`; a row
waits, ripens (48 hours, three days), is answered, moves on to a new wait (bills:
`statusChangedAt` is part of the stall key) or loses its bill. `Scan(j)` is the query,
oldest first and capped; `Nudge` inserts the in-app row under the dedupe key,
`Push` sends it, `Trip` is a call that fails for one row and is logged, `Die` a killed
process. `Job` are runs in flight: the schedule does not wait for the last run.
The alert for a stalled application goes to every operator, under one key
each; one recipient is modelled.

### SupplierLifecycle and the code

One supplier with all the offers it ever has, the switch cases opened on them, and the
date. Tasks are records in `req[r]` as in `BillPipeline`:

| Handler | Steps |
|---|---|
| `deleteSupplier` | `ReadDelete`, `CheckLive`, then `FindOffers`, `RemoveOffers`, `RemoveSupplier` or `SaveSupplier`, `CancelEarly` |
| `executeScheduledDeletions` | `Strike`, `CheckLive`, then `FindOffers`, `RemoveOffers`, `RemoveSupplier` or `SaveSupplier` |
| `update`, `toggleStatus` | `ReadSet`, `SaveSupplier` |
| `cancelScheduledDeletion` | `ReadCancel`, `SaveSupplier` |
| `OffersService.create` | `ReadCreateOffer`, `InsertOffer` |
| `OffersService.deleteOffer` | `ReadDeleteOffer`, `CheckActivated`, `CheckActive`, `RemoveOffer` |
| `createCase` | `ReadAccept`, `InsertCase` |
| `updateCase`, `transitionBillStatus` | `MoveCase`, in one step: `BillPipeline` has what they do in detail |

`Tick` is the next day, `Fail` a killed process or a rejected call. `LiveUtilities`
follows TypeORM's inner join, which leaves out soft-deleted offers, and
`SaveSupplier` writes the row as loaded, with its deletion mark. Left out: the
supplier's and the offer's other fields, an offer's own status (deleting does not look at
it) and the public listing.

Nothing keeps overlapping calls apart here, and a few overlaps do harm. Each has a name: an
operator who starts or moves a supply between the checks of a deletion and its removal
(`MovesStayClear`), an offer whose look at the supplier precedes its
deletion and whose insert follows or meets it (`OffersMadeApart`), a save of the supplier while another task goes by what it read of it
(`SavesApart`), an acceptance whose look at the supplier precedes the schedule and whose case
follows it (`AcceptedApart`), a death between the schedule and the cancellation of the early
cases (`SparesCancel`). `NewOffers` is not the code's: identifiers are generated by the
database, while the model lets two requests name one offer.

### Referrals and the code

One referrer and the friends who may sign up. `code` is the referrer's code; codes are
numbered as they are drawn, and a friend may present any that ever was.

| Handler | Steps |
|---|---|
| `getOrGenerateMyCode` | `ReadMyCode`, `DrawCode` |
| `createInvite` | `ReadInvite`, `DrawCode` (if there is no code), `FindInvite`, `InsertInvite` |
| `processReferralCode` | `ReadJoin`, `CheckCode`, then in a transaction `SelectOwn`, `LockOwn`, `SelectAny`, `LockAny`, `Claim` |
| `updateStatus` | `ReadStatus`, `Compare`, `SaveStatus`, `Announce`, `Push` |
| `UsersService.update`, `updateProfile` | `ReadUser`, `SaveUser`: the referral code as it was read |
| `expireStaleReferrals` | `Expire` |

PostgreSQL's part is modelled as the code relies on it under READ COMMITTED: `SELECT ... FOR
UPDATE` sees the rows of the moment it starts, waits for those locked by another,
and looks at each again once it has it; other updates wait for locked rows too. The
query has no `LIMIT` and no order: all that match are locked, one by one (`Select` finds
them, `Lock` takes the next of the scan), and held until the commit, so that sign-ups can
wait for each other in a circle (`Waits`, `Circle`). PostgreSQL breaks one up by aborting one
of them (`Deadlock`); `register` logs that, and the friend is signed up without a referral.
`save` is in two steps here, because a
lock may keep them apart: TypeORM loads the row and finds the columns that differ
from the entity (`Compare`), and then writes those (`SaveStatus`). Left out: amounts of
rewards, phone numbers.

### Backoffice and the code

What operators and a customer do around a switch. The five parts share the server's
tasks and the notifications table and no other row, so a behaviour exercises one part,
chosen at the start (`part`): their interleavings with each other commute. A task is a
record in `task[r]`: the await it has reached (`pc`) and what it holds in memory.

| Handler | Steps |
|---|---|
| `uploadDocument` | `UploadDoc` or `ReplaceDoc`, `InsertDoc`, `Announce`, `Push` |
| `verifyDocument`, `rejectDocument` | `JudgeDoc`, `CheckReplaced`, `SaveVerdict`, `Announce`, `Push` |
| `createTopic`, `updateTopic`, `deleteTopic` | `CreateTopic`; `UpdateTopic`, `SaveTopic`; `DeleteTopic`, `CountTickets`, `RemoveTopic` |
| `createTicket`, `addMessage` | `OpenTicket`, `InsertTicket`; `AddMessage`; both then `InsertMessage`, `Announce`, `Push` |
| `updateTicket` | `UpdateTicket`, `SaveTicket`, `Announce`, `Push` |
| `uploadBill`, `createEmailBillPlaceholder` | `Upload` or `Promise`, `InsertBill`, `InsertFile` (with a file), `Announce`, `Push` twice |
| `adminUploadEmailBill` | `UploadEmail`, `InsertBill` or `SaveUpload`, `InsertFile`, `SaveRead` (when the file was read before) |
| `addFileToBill`, `adminAddFileToBill` | `AddFile`, `InsertAdded` |
| `adminAssociateBillWithUser` | `Merge`, `SaveMerged`, `DropMerged` |
| `processOcrInBackground` | `UploadUnread`, `Look`, `Refused`, `Retry`, `GiveUp`, `LookAgain`, `StoreReading` |
| `sendOffersToUser`, `reorderSentOffers` | `SendOffers`, `InsertSent`; `Reorder`, `SaveOrder` |

`Die` is a killed process or a rejected call; `Swallow` a failure between row and push that
the notification code catches and logs. Foreign keys and unique indexes are modelled as
the database enforces them (`RemoveTopic`, `InsertTicket`, `InsertSent`, `DropMerged`). A bill
that has rows of files cannot be soft-deleted by a merge: they have no deletion date of their
own, and cannot be left without a bill.
`alone` is a history variable: no two tasks ever ran at the same time. Properties that
start with `alone =>` are about sequences of calls, which is what the code defends: with
overlap TLC finds each of them violated, and no text of the repository promises
otherwise. `OneWaits` is about overlap, but for two tasks that are both past their look and
before the store of a placeholder of one kind (`PlaceholdersApart`).

`BillReading` keeps numbers as integers in the smallest unit of each field: money in
cents, prices in tenths of a cent, `Unit` of these per cent. `Round` is `toFixed`, `Worth`
the four-term balance of `deriveFields`, `Plausible` the ranges that decide whether a
number is believed. Upper ends of amounts are left out: they only drop a number, which
not reading it does too. `StoreReading` writes what was read over what was typed in.
A retried answer skips the second look, as in the code.

### Membership and the code

A customer's account with its codes and sessions, the documents it consents to, and its
devices. Again the parts share no row, and a behaviour exercises one. An account's task
carries the list of awaits it has still to run (`todo`), because twelve endpoints are
made of the same dozen steps:

| Handler | Awaits |
|---|---|
| `register` | `insertUser`, `retire`, `insertCode`, `mail`, and `dropCode` when the mail is refused |
| `login` | `readUser`, `saveUser`, `mint`; or a new code when the address is not verified |
| `resendOtp`, `forgotPassword` | `retire`, `insertCode`, `mail` |
| `verifyOtp` | `findCode`, `judge` or `lockCode`, `readUser`, `saveUser`, `mint` |
| `resetPassword` | `findCode`, `judge` (by code), `readUser`, `saveUser`, `deleteCodes`, `revokeAll` |
| `changePassword` | `readUser`, `saveUser`, `revokeAll`, `mint` |
| `socialLogin` | `insertUser` or `readUser`, `saveUser`; `mint` |
| `refreshToken`, `logout` | `rotate`, `revoke` |
| `toggleStatus`, `softDelete`, `adminResetPassword`, profile edits | `saveUser`, and for a reset `revokeAll`, `retire` |
| `createPage`, `updatePage`, `deletePage`, `acceptDocuments` | `readSiblings`, `insertPage`; `savePage`, `propagate`; `removePage`; `persist` |
| `registerPushToken`, `removePushToken`, `deliverPush` | `saveToken` or `insertToken`; `removeToken`; `sendEach`, `deactivate` |

`update` reads the user again, patches it and saves all of it; the hash is a column
TypeORM does not select, so a stale save leaves it alone (`pass` counts how often it was
set). So a save by a task that read the account before an operator suspended it lifts the
suspension; the history field `late` tells those that began afterwards, which never do
(`SuspensionHolds`). `Cool` and `Expire` are time: a code leaves its cooldown, and expires. `Uninstall`
is the one thing that happens outside the server.

## Runs

| Run | Question | Result |
|---|---|---|
| `races` | Two handlers of any kind, interleaved at every await, each of which may die there | `ToldOnlyWhatHappened`, `NoSwitchBeforeReview`, `OpenedOnProposal`, `KeepsThePromise` hold |
| `serial` | One handler at a time to its end, any six in a row, three date pairs, two offers | `RequiredHasPending`, `OnePendingRequest`, `AwaitingHasDates`, `SettledStays`, `TransitionMirrors` hold |
| `twoswitches` | Two acceptances of one bill | `OneOpenSwitch` violated |
| `staleanswer` | An operator's correction while the customer answers a request that was there before | `AnswerKeepsData` violated |
| `movedback` | A case in activation moved back by editing it | `MovedBackClearsDates` violated |
| `overlap` | Two runs of a job, one failure, the cap at 1 of 2 rows, two waits of a bill | `KeepsThePromise`, `OldestAnnounced` hold |
| `starved` | One request more than the cap, none answered | `RestPickedUp` violated |
| `deletion` | A supplier, two offers and two cases over three days; two tasks that keep out of the windows named above, one of which may fail at any await (in that of `SparesCancel` too) | `DeletedTakesOffers`, `NoEarlyUncut`, `OffersOutliveSupply`, `ScheduleStands`, `DeletionEnds` hold |
| `lost` | A supply prolonged after its offer was deleted | `DeletedUnsupplied` violated |
| `claims` | Two tasks of any kind over one referrer's invites, one of which may fail | `ClaimedOnce`, `KeepsThePromise`, `InvitesEnd` hold |
| `desk` | Two tasks of one part of `Backoffice`, one of which may fail at any await | `ReplacedIsRejected`, `TicketsHaveTopic`, `FilesKept`, `ReadingCoheres`, `PlacesDense`, `RestKeepsOrder`, `OneWaitsApart`, `KeepsThePromise` hold |
| `customer` | Two tasks of one part of `Membership`, one of which may fail at any await | `UnmailedIsGone`, `GuessesBounded`, `NewPasswordEvicts`, `SuspensionHolds`, `AsksUntilAccepted`, `OneUnusedApart`, `ActiveApart` hold |

**Bounds.** `MaxRequests` caps handlers started. Four in `races` reach the shortest
path from upload to an opened case (verify, send, accept) with one more handler
interleaved anywhere, two in flight at once: the races in the code are between two
handlers, a third only repeats a role. Six in `serial` reach a supply in activation and
back. One offer suffices where handlers race, two where batches must differ.
Targets leave out statuses whose handling is the same as that of one kept (nothing
distinguishes `analyzed` from `verified` except being read as such by
`sendOffersToUser`). In `OverdueScan` two rows exceed a cap of one, two waits
exercise the key, one failure separates before, between and after row and push.
`CHECK_DEADLOCK FALSE` everywhere: clients may stop calling, and the bounds stop them.

**Fairness.** `BillPipeline` states none: every property is a safety property, and no
code makes a client come back. `OverdueScan` assumes weak fairness of `Scan(j)` (the
cron fires for as long as the server runs) and of `Nudge(j) \/ Push(j)` (a run that is
not killed goes on; both loops await one call after another with no other exit).
`OldestAnnounced` is conditional on the row staying overdue, and failures end
(`MaxFails`): with a database that fails for ever nothing is promised.

In `SupplierLifecycle`: weak fairness of `Tick` (days pass), of `Strike(r)` (the nightly
cron fires while the server runs) and of `Continue(r)` (a task that is not killed goes
on). `DeletionEnds` needs all three. Its bounds: three days tell "expired before",
"expires today" and "still to expire" apart; two cases give a latest and an earlier
expiry, and two offers a supply under an offer that is gone beside one that is not; six
requests reach create offer, accept, activate and schedule, with two more after them or
beside any of them. Where two tasks run at once they keep out of the windows named above
(`Clear` in `MCSupplierLifecycle`, conjoined to `Next`, as is `InOrder`: offers differ by their
names only, so one of them is always made first): outside them TLC would find
`OffersOutliveSupply` and `ScheduleStands` violated, and no text of the repository promises that
overlapping calls are kept apart. The fairness is that of `Spec`: the run is about the
behaviours of `Spec` that keep clear, and one in which a task could only go on by leaving is
not among them. Every behaviour whose tasks run one after the other is.

Three properties of the runs are conditional on a history variable of the MC module, which
no guard reads: `cut` records that a deletion died between its schedule and the
cancellation of the early cases (`~cut => NoEarlyWhileScheduled` is `NoEarlyUncut`), `apart` that
nothing has met so far in the windows `DrawsApart` and `SignInsApart` of `Membership`
(`OneUnusedApart`, `ActiveApart`: `apart => OneUnused`, `apart => ActiveWhereSignedIn`), or in
`PlaceholdersApart` of `Backoffice` (`OneWaitsApart`: `apart => OneWaits`). What happens in a
window is not kept from the other properties of the run. The theorems say the same with
`[][W]_vars` or `[]W` on the left of `=>`. `CaseTarget` holds no early status:
`NoEarlyWhileScheduled` is about cases that are not moved back by hand.

In `Referrals`: weak fairness of `Tick`, of `Expire` (the nightly job fires while the server
runs, and an error is caught) and of `Continue(r)`, without which a sign-up could hold its
locks for ever and keep the job waiting. Bounds: four requests are an invite, two sign-ups
after it and an operator, or an invite moved on twice by operators who both read it
before; two friends are what two sign-ups need, and a third would only repeat them;
invites live for one of two days, so that each is seen before and on its last. Not
stated, because the code does not keep them: that statuses change only along
`NextStatus` (two operators who read one status can take a rewarded referral back), that a
claim survives an operator who read the invite before it, and that a code once shared
stays good. `ClaimedOnce` therefore speaks of claims, kept in the history `claims`, and not of the
column `referred_user_id`.

In `Backoffice` and `Membership` no fairness is stated: their handlers run only because a
client calls, and every property is a safety property. `Quota` gives each part its number of
requests, within `MaxRequests`: five are a document, its rejection, its replacement, a
verdict on either and one more; an upload, a placeholder, a merge and one more in
intake (four); one bill that is read, since readings share nothing; three offers in batches
and two rearrangements. `MCShown` has, for each field, zero, a plausible number and one
that is not, where the code tells them apart, chosen with `Unit`, `MinPrice` and
`MaxPrice` so that prices are derived exactly, rounded up, rounded down and out of range;
`MCTyped` is nothing or everything. `BillType` has one type: types share no row.
`MaxTries` of two separates the first wrong guess from the one that locks, `MaxVersion` of
three a version from the one before and the one after, two locales a row from its sibling,
two devices and two people a hand-over from a sign-in.

## Proofs

TLAPS proves these for every value of the constants. Three kinds of theorem:

- what holds as it stands, however tasks overlap and wherever they die;
- what holds while tasks do not overlap (`OneTask`, or `alone` in the property itself);
- *boundaries*: a property that overlap or a death does break, under a hypothesis that
  names the window in which it can, and nothing else. `[][W]_vars` or `[]W` on the left of
  `=>` says that what happens in that window does not happen in this behaviour, and leaves
  every other interleaving and death in. They say where a lock, a transaction or a
  constraint would have to go, and that one there would do. Such a hypothesis is about when
  things happen: it is true of every sequence of calls made one after another, or of every
  behaviour in which none dies, and of many more. (Three are about what is asked for:
  `NothingReopened` and `NoneRevived` about operators, the one of `NoneLeftOut` about the number
  of rows.) None is idle: without it TLC finds a counterexample to each of these properties
  on a small instance.

In `BillPipelineProofs`:

- `TypeCorrect`: `TypeOK`. Inductive invariant `Typed`: `TypeOK` and `Placed`, that a
  task about to use a case or a milestone has one that exists. Without
  `Placed`, `EXCEPT` on a missing case would be unconstrained.
- `NewsIsTrue`: `ToldOnlyWhatHappened`. Inductive invariant `NewsInv`: every task
  with something to say (`Heralds`) either has already stored the status it is about
  or will store it before it speaks.
- `KeepsItsPromise`: the refinement of `CustomerNews`. `OneVoice` is needed: a
  milestone that is not in `told` was never pushed, and at most one task is between
  inserting the row and pushing it.
- `ReviewedFirst`, `OpensOnProposal`: `ReviewInv` says that an offer sent, and every
  task past the check on it (`Cautious`), implies an operator's status in `reached`.
- `OneRequestWaits` and `SettledForGood`, from `AskInv`: who opens a request closed the
  others, who answers one answers one that waits. Any overlap and any death, but two
  windows (`RequestsApart`): between closing the open requests and inserting the
  next, and between finding the request and saving its answer, nobody else writes one.
- For any number of tasks one after another (`OneTask`): `AskedUnlessCut`, from `WaitInv`,
  which excuses a bill without a request only between closing the old ones and storing what
  comes instead (`Excused`). A death does harm there only (`SparesAnswers`); if none
  dies at all it is `RequiredIsAsked`. `KinInv` rules out rejected saves there: a task that runs
  alone holds the bill with all its requests and cases.
- `CaseFollowsUnlessCut`, from `FollowInv`: a transition works on the newest case, and what
  it is to mirror still follows from that case's status, and nothing is asked of the deaths
  before it. `CaseFollowsBill` is the case without deaths.
- `DatedUnlessCut` also assumes `OnPipeline`, that operators move bills only to statuses
  that are mirrored onto the case. `DateInv`: an undated case in activation is one that
  a transition is about to take out of it, so the one fatal place is between clearing the
  dates and mirroring (`SparesDates`). `AwaitingIsDated` is the case without deaths.
- Boundaries of three findings. `OneSwitchUnderLock`: one open switch, if nobody writes a
  case between `createCase`'s look and its insert (`AcceptsUndisturbed`) and no closed
  case but the newest is opened again (`NothingReopened`; `updateCase` would let it). `AnswerKeepsAlone`: an answer overwrites nothing, if nobody else saves the
  bill while it is held (`AnswersAlone`). `OnlyEditsMoveBack`: a case loses its dates on every way
  back from activation that is not an edit, while no two tasks are about to write a case.

Assumption used: `BillPipelineAssumption`, the shapes of the constants. Bounds
(`MaxRequests`) are arbitrary naturals in the proofs.

In `OverdueScanProofs`, from `OverdueScanAssumption`:

- `ScanTypeCorrect`: `TypeOK`.
- `RemindersKeepThePromise`: the refinement of `CustomerNews`. The inductive invariant
  `Inv` adds to the types that every waiting row that ripened is recorded as overdue
  (`RipeRecorded`), so that a run announces only what was; that whatever a
  run still has in hand was overdue when it read it (`AllOverdue`), rows that changed since
  included; and that of all runs at most one is between inserting a row of the
  notification centre and pushing it (`OneVoice`), which is where the unique key enters.
- `RunsAreCapped`: a run has no more than `MaxRows` rows in hand. `NoneLeftOut`: it takes on all
  that are overdue, while these are no more than the cap: the boundary of `starved`.
- `RunsForgetNothing`: a row leaves a run's list with its notification stored, or by a
  failure. `PushesLostToFailures`: what is stored and will never be pushed (`Lost`) is no more
  than the failures there were. Both for any number of overlapping runs.

In `BackofficeProofs`, from the assumptions of the modules it extends (`CallsAssumption`,
`ReadingAssumption`, `OrderAssumption`, `BackofficeAssumption`):

- `TypeCorrectness`: `TypeOK`. That tables do not outgrow `MaxRequests` is not inductive by
  itself: `Counted` relates the rows of each table, the tasks about to insert one and
  the requests made, so that each request has room for its row.
- `PromiseKept`: the refinement of `CustomerNews`. `AllTruthful` says that what a task
  has left to tell happened, `OneVoice` that of all tasks at most one stands between
  the row of a key and its push.

In `BackofficeSafetyProofs`, with that invariant (`Inv`) and `OneBusy`, that of tasks that
never overlapped one is busy at most:

- `TicketsKeepTopic`: `TicketsHaveTopic`. Every task's topic exists or did (`TopicTasks`),
  a saved ticket keeps its topic; no assumption that tasks are alone.
- `ReplacedStaysRejected`: `ReplacedIsRejected`. A document that is about to be replaced
  is rejected, one about to be ruled on is not replaced (`DocTaskOK`).
- `NoFileLost`: `FilesKept`, from `IntakeTaskOK`: a task still sees what it saw, so what it
  stores over a bill has that bill's file, and what it drops has its file elsewhere.
- `OnePlaceholderWaits`: `OneWaits` for any overlap and any death outside `PlaceholdersApart`. Who
  is past the look left nothing that waits but what it is to overwrite (`Reserves`); that
  stays so, because whoever stores a placeholder of the kind is alone in that.
- `DerivedFollows`: `ReadingCoheres`. `RoundNear` bounds the rounding, `DerivedAdds` turns
  it into the balance of the bill, `FillInHolds` shows that a second look moves nothing a
  derived figure depends on. The invariant (`ReadHeld`) says that the one task that reads is
  coherent at every await, and that nothing is marked as derived before it stores.
- `PlacesStayDense` and `ListKeepsRest`: `PlacesDense` and `RestKeepsOrder`. `OrderInv` says
  that no offer is sent twice, that places are dense, and that a task still sees the list it
  read. As many rows are listed as the list is long (`AsManyListed`), each other row
  counts those before it (`RestFollows`), so the places are an injection between sets of
  one size, which leaves none empty (`ListIsDense`).

In `MembershipProofs`, from `CallsAssumption`, `CodesAssumption`, `ConsentAssumption` and
`MembershipAssumption`:

- `Calling`: while `alone` holds, one task is busy at most. A part says only what a move of
  that one task does (`Moves`).
- `SignedInIsReachedApart`: a task about to deactivate tokens holds devices that nobody is
  signed in on (`Reached`), and only a sign-in can change that: any overlap and any death, but
  nobody signs in on a device whose token is about to be given up (`SignInsApart`). That is
  `ActiveWhereSignedIn`.
- `AskedUntilAccepted`: `AsksUntilAccepted`. `Published` types the pages and the rows in
  hand. `Together` says that all pages have one version, or all but those that
  a running `propagate` is to follow up, so that the version in force never falls (`Rises`).
  That it is a greatest version at all (`GreatestIs`) is the well-foundedness of Nat.

In `AccountProofs`. Fourteen requests and fifteen kinds of
await have few shapes: a request arrives with what `Fresh` says, a task works on and is
over or comes to the next await of its plan, it dies, time passes, or nothing changes (`Shape`). `Planned`
lists the plans, and so the tails of `todo`. With `Steady`, which adds to the types that each
task keeps to a plan and that an account that does not exist has no codes and no sessions, each property
needs only what it adds:

- `OneCodeLivesApart`, that is `OneUnused`: who is about to insert a code has retired the others
  (`OneLive`): any overlap and any death, but no code is inserted while another task is about to
  insert one of its kind (`DrawsApart`).
- `StraysCostFailures`: codes that were not mailed and that nobody will mail or drop any more
  (`Strays`) are never more than the failures there were, whatever overlaps: only a death
  adds one (`StraysGrow`). `UnmailedGoes` is the case without failures.
- `GuessesAreCounted`: `GuessesBounded`. `Guess` adds the guesses under way (`Guessing`) to
  those made. One more gets under way only below the limit, and then no more than the other
  tasks are under way already.
- `SuspensionsHold`: `SuspensionHolds`, whatever overlaps. A customer's task that began while the
  account was suspended holds the status "suspended", and is past its reads of the account
  (`Abides`), so that what it saves lifts nothing.
- `EvictedUnlessCut`, from `Evicting`: sessions are of the password in force or somebody is
  about to revoke them all, so a death does harm there only (`SparesRevoke`). Needs to know
  by which password a task was let in, which the history field `under` records.
  `NewPasswordsEvict` is the case without deaths.

- `MembershipTyped`: `TypeOK` of all four parts, whatever overlaps. `Fits` counts: the rows of
  a table and the tasks that may still insert one never exceed the requests made.

In `ReferralsProofs`, from `ReferralsAssumption`, for any number of tasks that overlap:

- `ReferralsTyped`: `TypeOK`; `Base` adds what each task holds at its await and that there is
  room for the invites still to be sent.
- `InvitesClaimedOnce`: `ClaimedOnce`. A locked invite has one holder (`Disjoint`), an invite about to
  be claimed is held and still pending (`InHand`), and an invite that was claimed or lapsed is never pending again (`Spent`).
- `ReferrerHearsOnce`: the refinement of `CustomerNews`. Whoever has something left to tell
  stored it before (`Happened`), nobody else tells the same (`Alone`), and what is not
  recorded as heard was not heard (`Unheard`).
- `CodeIsKept` and `InvitesLeadBack`: a code that was given out stays, and every invite bears
  it, while no draw overlaps another draw or a save of the user that was read before
  (`UserSavesApart`). Both do happen, and each breaks both properties.
- `CodesBounded`: where draws do overlap, the codes drawn are no more than requests can
  overlap, because who begins when there is a code does not draw. It assumes that no stale save
  of the user empties the column (`CodeNeverEmptied`), after which anyone draws again.

In `SupplierLifecycleProofs`:

- `SupplierTyped`: `TypeOK`, whatever overlaps.
- `OffersGoWithSupplier`, `SupplyOutlived`, `ScheduleIsKept`: `DeletedTakesOffers`,
  `OffersOutliveSupply`, `ScheduleStands`, for any number of offers, cases and requests made one
  at a time (`OneTask`: no two entries of `Req`). `Held` says that what a task loaded is
  still stored (`Loaded`), that what it is about to save keeps a schedule (`Decided`), and that who
  is about to delete found nobody supplied, and deletes offers before their supplier (`Emptied`,
  `Unused`). No transaction or lock spans the checks and the writes, so overlap breaks each of
  them; the next three say where.
- `SupplyOutlivedApart`: `OffersOutliveSupply` for any overlap, if no operator starts a supply, or
  moves one to another offer or status, while a deletion stands between check and removal
  (`MovesStayClear`), and an insert makes a row of its own (`NewOffers`: identifiers are
  generated by the database, while the model lets two requests name one offer).
- `OffersGoApart`: `DeletedTakesOffers` for any overlap, if no deletion gets from reading the
  offers to saving the supplier between a new offer's look at the supplier and its insert
  (`OffersMadeApart`). `Informed` is what an acceptance or a new offer saw of the supplier.
- `ScheduleKeptApart`: `ScheduleStands` for any overlap, if the supplier is not saved while
  another task goes by what it read of it (`SavesApart`). `NightRunsObey`: then the nightly
  run touches only a supplier whose deletion is still scheduled and due. `Follows` is
  what `Held` says of the schedule, task by task.
- `NoEarlyApart`: `NoEarlyWhileScheduled` for any overlap, if the supplier is not saved while
  another task goes by what it read, no deletion is scheduled between an acceptance's
  look at the supplier and its case (`AcceptedApart`), and no task dies between `deleteSupplier`'s save and its update of the cases
  (`SparesCancel`). With `OnlyForward`.
- `DeletedServesNobody`, the boundary of `lost`: with no supply revived under an offer that is gone
  (`NoneRevived`), the live utilities are all there are.
- `ScheduledIsCleared`: `ScheduledHasNoEarly`, with `OnlyForward` too: an operator may move a case
  back to an early status, which nothing checks against a deletion that is scheduled.

Every safety property that a passing run checks is a theorem, those about `apart` and `cut` in
the form with the window on the left. Only model-checked: liveness
(`InvitesEnd`, `DeletionEnds`, `OldestAnnounced`). Each needs fairness, whose rule has
`ENABLED` in its premises, which the provers leave unexpanded, and an induction over a
number (days left, rows ahead, failures to come) whose step is a temporal formula, for which there is no rule
here. What the safety of reminders rests on is proved: a run forgets nothing and
takes on all there is below the cap. That a property
fails, as the `violation` runs show, is not a theorem by nature.

## Findings

`PROJECT.json` quotes the text each contradicts.

- `twoswitches`: `createCase` looks for an open case and inserts one several awaits
  later, nothing in the schema forbids the second.
- `staleanswer`: `submitVerification` loads the bill first and saves all of it last. In the
  trace the request was there before the answer began, so that the save is not rejected.
- `movedback`: `updateCase` leaves dates that `transitionBillStatus` clears.
- `starved`: a request that was reminded of is still pending, so the query selects it again
  and the cap never moves on.
- `lost`: the live utilities of a supplier are found through an inner join on the offer, which
  drops the cases of a deleted one.
- Not a run of its own: the endpoint accepts `error` as a target (the operators' list does not
  offer it). Such a transition clears the dates of the case and mirrors nothing, so a case stays
  in activation without dates: with `error` in `Target`, TLC finds `AwaitingHasDates` violated in `serial`.

## Not modelled

- FAQ rows, meters, agreements, addresses, company and preferences of a user: rows
  edited one at a time that no protocol hangs on. Composing and parsing an address are
  not inverse when the street is missing; nothing stores the result of both.
- `adminAssociateBillWithUser` without a merge: one save of one row, which gives a bill another
  owner. It can hand a waiting placeholder to a customer who has one, so `OneWaits` is about the
  customer's own requests, uploads and merges.
- A page that changes its slug or stops requiring acceptance; audiences; the reading side of
  legal documents.
- Broadcasts and templates of notifications; the cache of the operators' list.
- Text read off a bill, prompts and the rendering of pages; a period half typed in and half
  read, which the code stores as it comes.
- Dashboard, deep links, activity log, alerts, e-mail, uploads, database bootstrap: reads,
  or appends that nothing reads back, or I/O whose failure is an outcome of its callers here.

## Plan

Done: the pipeline, the reminders, suppliers, referrals, `Backoffice`, `Membership`, and the
proofs above. What would come next:

1. Boundaries of what `Backoffice` and `Membership` promise only while tasks do not overlap
   (`alone`): which windows of a merge, a verdict, a rearrangement, a consent or a password
   change matter, as for the pipeline, the suppliers, the devices and the codes.
2. Overlap of `Backoffice` with `BillPipeline` on the bill both write.
