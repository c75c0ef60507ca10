# EduLanka: verification of the offline-first core

TLA+ models of the parts of EduLanka whose correctness depends on the order in
which several actors act, the TLC configurations that check them on small
instances, and the theorems TLAPS proves about them. Every definition is
translated from the code under `src/`; `PROJECT.json` ("map") gives the file and
the lines of each.

## 1. The system

| Component | State it keeps | Operations | Talks to |
|---|---|---|---|
| **Sync event log** (migration `20261007000000`, PostgreSQL) | `tenant_sync_counters.last_sequence`, `sync_events` | `append_sync_event`, `purge_old_sync_events`, `scrub_user_sync_events_pii` | called by the API |
| **Sync ingest** (`mobile-sync.service.ts`, `appendSyncEvent`) | `sync_events.applied`, `attendance`, `attendance_conflicts_log`, `chat_messages`, blog tables | role checks, idempotent append, materialisation per entity type | log, tables, device registry |
| **Sync delivery** (`getSyncEvents`, `getSnapshot`, `getSyncHealth`) | `device_tokens.last_synced_sequence` | paged pull with role filter, 410, snapshot | log, devices |
| **Mobile app sync** (`sync_service.dart`, `local_database.dart`) | `sync_outbox`, `sync_metadata.last_sequence`, offline tables | queue, push, pull, apply, recover, prune, retry | API |
| **Mobile session** (`auth_state.dart`, `api_client.dart`, `token_storage.dart`) | tokens, account | login, logout with wipe, refresh on 401, session expiry | sync service, local database |
| **Attendance REST** (`attendance.service.ts`) | `attendance` | `recordAttendance` (upsert plus events), reports | log |
| **SMS** (`sms.service.ts`, `sms.processor.ts`) | Redis reservation counter, `sms_usage_logs`, BullMQ jobs | reserve, enqueue, send through Twilio, log, release, retry | Twilio, Redis, billing plan |
| **Billing** (`billing.service.ts`, `billing.processor.ts`) | `billing_snapshots`, `invoices`, in-memory lock cache | snapshot, issue, pay, mark overdue, lock account | Stripe-like checkout, guards |
| **Sponsorship** (`sponsorship.service.ts`) | `sponsorship_pools`, `sponsorship_grants` | compute pool, award, revoke, expire | billing, tenants |
| **Auth** (`auth.service.ts`) | Redis refresh tokens, attempt counters, Supabase users | login, refresh rotation, logout, OTP, reset | Redis, Supabase |
| **Push** (`mobile-push.service.ts`, `fcm.processor.ts`) | `device_tokens`, BullMQ jobs | register, enqueue, deliver, deactivate dead tokens | FCM |
| **Disaster mode** (`tenant.service.ts`, `sms.controller.ts`, `mobile-disaster.service.ts`) | `tenants.disaster_mode`, `disaster_events` and its counters, `sms_logs` | toggle, text every parent, delivery callbacks, packs | SMS, Twilio, push, log |
| **Chat** (`chat.service.ts`, `chat.gateway.ts`) | conversations, participants, messages | send, mute, read, sockets | log, notifications |
| **Notices, notifications, homework, paper hub, tutorials, media, downloads** | own tables, files | CRUD, moderation, quotas, encrypted downloads | log, Cloudinary |
| **Blog** (`blog.service.ts`, triggers of `20261016000001`) | `blogs` with two counters and a flag, comments, reactions, reports | edit, take down, restore, comment, moderate, react, report; tell the phones | log of its school or of all, devices |
| **Roll** (`students.service.ts`, `classes.service.ts`, `users.service.ts`, `chat.service.ts` `syncClassParticipants`) | Supabase Auth accounts, `users`, `students`, `class_teachers`, chat participants, a lock in Redis | enrol, move, deactivate, remove; appoint and dismiss teachers; bring the class's group in step | Supabase, Redis, chat, policy |
| **Tenant, teachers, parents, grades, marks, report cards, policy** | own tables | CRUD under role guards | Supabase |
| **Audit logs, health, system admin, Redis and Supabase clients, analytics service, web app, shared packages** | none or read-mostly | reporting and presentation | all |

The hard behaviours are in the rows down to the roll: handlers that are chains of
separate database calls (every `await` is a point where another handler runs),
retries by devices and job queues of work that may already be done, counters and
caches read before and used after such a point, purges that remove what a reader
is about to read, and a device that is killed or signed out in the middle of a
pass.

What makes each of them correct:

* **Log**: numbers follow commit order without gaps; a retry gets the number of
  its first attempt; a refusal means other content; nobody waits for ever.
* **Pull**: no retained event is skipped; the cursor does not go back, or if it
  does, then to the very start; a device that keeps pulling catches up; a device
  too far behind is told so.
* **Attendance**: an acknowledged edit was decided; the newest mark prevails;
  what is overwritten is logged; every edit is synced in the end.
* **Chat ingest**: an acknowledged message is one that web users can read.
* **Mobile session**: nothing queued or learned under one account is used under
  another; everything queued leaves the queue.
* **SMS**: the plan's ceiling is respected, reservations are returned, a parent
  gets a message once; a month's counter loses nothing unnoticed.
* **Billing and sponsorship**: a paid invoice stays paid, a pool is never
  overspent, money returns once, an expired grant ends.
* **Disaster mode**: it is on while exactly one event is active; what became of
  a text is neither forgotten nor counted twice.
* **Sessions**: a tab is signed out only for a reason; no refresh token outlives
  a revocation; a deactivated account is served no more.
* **Roll**: the caps hold, a class has one homeroom teacher, its chat group has
  its members, a refused enrolment leaves nothing behind.
* **Blog**: the counters count, a post is flagged by as many users as it takes,
  and a phone that has read its log shows what the web shows.

## 2. The modules

```
EventLog          what the log promises: an append is one indivisible step
  ^ refined by SyncLog      append_sync_event as PostgreSQL runs it     -- SyncProof
  ^ extended by SyncPull    devices following that log                  -- SyncProof
AttendanceSync    roll-call edits, from the outboxes to public.attendance -- RollCallProof
RollCallCache     offline_attendance on one phone against the log       -- RollCallProof
ChatIngest        chat messages, from the outbox to chat_messages       -- MessageProof
SmsDispatch       reservation, queue, Twilio, records                   -- MessageProof
DisasterAlerts    disaster mode, its texts and their delivery reports   -- DisasterProof
BillingInvoices   invoices, nightly jobs and the account lock           -- BillingProof
GrantPool         what a sponsorship pool promises: indivisible steps of a ledger
  ^ refined by Sponsorship  pools and grants, one database call a step  -- SponsorshipProof
Sessions          one account's token pairs, the tabs that use them,
                  and the administrators who end them                   -- SessionsProof
MobileSession     sign-in, sign-out, sync pass and tokens on one phone  -- SessionsProof
ClassRoll         enrolments, transfers, teachers and chat groups       -- SchoolProof
BlogDiscourse     a post, its comments, reactions and reports, and what
                  phones show of them                                   -- SchoolProof
```

`EventLog` is the log's abstract specification. `SyncLog` extends it with the steps of
the transaction and is shown to implement it (same variables, so the refinement
mapping is the identity; the additional variables are hidden by it), after which
the other modules may take the append as one step (`SyncProof` composes the two:
devices that follow the log as the transactions write it): `SyncPull` extends
`EventLog`, and `AttendanceSync` and `ChatIngest` append in one action. The
device-side modules do not share variables with the server-side ones. Each is
bounded by what the other side can do to it: `MobileSession` and
`RollCallCache` see the server as logs and answers, `AttendanceSync` and
`ChatIngest` see a device as an outbox that retries.

`GrantPool` is the other abstract specification. `Sponsorship` implements it
under the mapping `INSTANCE GrantPool WITH balance <- Balance, held <- HeldFrom,
mixed <- crossed`: a pool's balance is the row's, what a grant holds is computed
from the grant and from the calls under way (a cost deducted for a grant not yet
inserted is held, the cost of a revoked grant is held until it is given back).

A proof module holds the proofs of one or two components. Modules that share one, or
that `MCSchool` checks together, are written with names of their own
(`PullInit`, `ChatNext`, `CacheSpec`, `PhoneTypeOK`, `BlogSpec`) and share no variable.

Most calls to the database go through supabase-js, which does not throw: the
caller gets `{ data, error }`, and much of the code looks at `data` only. A query that
fails is then read as "no such row", a write that fails as done, and the handler
goes on. The modules model each call by what its caller does with the error:
where nobody looks, the action has a branch (or a twin named `...Fails`,
`...Unread`, `Unseeing`) that costs one failure and continues; where the code throws, the
request ends; and a call may also take effect and have its answer lost. Where such
a failure defeats a property, a history variable names the call that failed and
the property exempts that and nothing else.

The order in which they were written is the order of what depends on what: the
log, its readers, what is written through it, the device around both, and then
the components that share nothing with the log: messages, money, sessions, the
roll; `BlogDiscourse` takes the log's order and its repetition of an entry as given. `SmsDispatch` and `DisasterAlerts` model the same processor with different
questions: the first its reservations and repetitions, the second the life of a
text's row under the callbacks.

### EventLog, SyncLog (`supabase/migrations/20261007000000...sql`)

| Model | Code |
|---|---|
| `rows`, `counter` | `sync_events`, `tenant_sync_counters.last_sequence` of one tenant |
| `reply` | what the caller gets: a sequence number or 409 |
| `pc`, `started`, `alloc`, `lock` | statement reached, `NOW()`, the number of the uncommitted `INSERT`, holder of `pg_advisory_xact_lock` |
| `Append` | the whole function, as one step |
| `Transaction(r)` | its statements: look-up without lock, lock, look-up again, counter `UPDATE`, `INSERT`, commit |
| `Abort(r)` | roll-back at any statement |
| `PurgeOldSyncEvents`, `ScrubUserPii` | the two maintenance functions |

The content of an event is a body that is equal to another one or not; that is
all the comparison in the function can tell. The scrub replaces the body of a
row that holds personal data, so that a retry arriving after it is compared with
the redacted text.

### SyncPull (`mobile-sync.service.ts` `getSyncEvents`, `getSnapshot`; `sync_service.dart` `pullSyncEvents`)

`call[d]` is the pull in progress: on the server the retention check, the counter
read, the page query and the registry update are separate steps between which
the log grows or is purged; on the device the events are applied one by one and
the cursor is stored last. `got` and `base` record what the device has applied
and what a snapshot stood for. `Break(d)` is a lost response, a server error or a
kill. Of the server's queries only the page looks at its error: the retention check
that fails lets the request through, a failed counter counts as 0 (`unread` in the
call), and a failed look-up behind the role filter leaves out events (`veiled`).
The snapshot's number is stored by the device whatever it is, so that an
unread counter sends the cursor back to 0. `HeaderId` and `RowId` are the two device ids the code keeps apart: the
one the app makes up and sends, and the primary key of `device_tokens` the API
updates by.

### AttendanceSync (`mobile-sync.service.ts` `appendSyncEvent`; `attendance.service.ts` `recordAttendance`)

One cell of the roll call (student, class, date, period: the table's unique
key). `Handle(w)` is the chain of database calls of the handler: the teacher's
classes, pre-check, append, enrolment, read of the row (with clamping), conflict log,
insert or update, `applied = TRUE`, answer, or a refusal (403, 409). `Push`, `GiveUp`,
`BreakUnknown` (an error that the app does not count among the passing ones) and
`RetryFailed` are the device's; `RestRead`, `RestLog`, `RestUpsert` the web's;
`LeaveClass`, `Reassign`, `ScrubEvents` and `Tick` the environment's. `ServerError(w)`
ends a handler anywhere; the other failures go on as the code does: an unread
class list is a 403, an unread enrolment is "not enrolled" and answered as success
(`misread`), an unread row is no row, and two writes are only logged. `refused` are
the edits a device was told, or took, to be refused.

### ChatIngest (the `chat_message` part of `appendSyncEvent`)

`Handle(w)`: authorise the sender, put the participants into the payload,
pre-check (and 409 when the payload has changed), append, look for the row,
insert it. The participants come and go (`Join`, `Leave`) between these calls. A look-up
that fails is answered 404 or 403, or leaves out the participants, or the earlier
event, or the row; `BreakUnknown` is an error that the app takes for a permanent one.
`cut` is a history variable: the messages for which a handler stopped between
append and insert.

### MobileSession (`auth_state.dart`, `api_client.dart`, `sync_service.dart`)

`pass` is the running `syncAll`: the list of entries it read at its start, the
entry whose request is out, the pull. The account whose token goes with a
request is `account` at that moment, not the account the list was read for.
`Logout`, `LogoutWipe` and `LogoutClear` are the three awaits of signing out;
`SessionRevoked` is a 401 whose refresh was rejected; `Kill` stops the app at any
of these. `crossed` is a history variable: a pass, a recording or a kill has
overlapped a sign-in or a sign-out.

### RollCallCache (`local_database.dart` `saveSyncedAttendance`, `pruneExpiredCache`)

The rows of one student, class and date. A mark has up to three ids: of the
local row, of its event and of the web's attendance row, because nothing in the
table is unique but the id. `ApplyEvent` is the compare-and-replace,
`Throw` the exception of `getSingleOrNull` when the query matches two rows.

### SmsDispatch (`sms.service.ts`, `sms.processor.ts`)

`Sender(b)` is `sendBatchSms` (usage query, Lua reservation, `addBulk`, give
back on failure). `Worker(j)` is an attempt of a job (tenant check, Twilio call,
sid stored in the job, record, release). Each call has a failure that leaves
what was done before it, and `WorkerDies` leaves a stalled job, which BullMQ
runs again once. A reservation goes to the counter of the month in which the batch was
sent (`send[b].month`), what is given back to that of the month it is by then
(`GiveBack`, `NextMonth`). A job of a suspended tenant is skipped, but not one of a
disaster batch, and not one whose look-up of the tenant fails (`TakeUnread`).
`astray` and `lost` are history variables: how many reservations a month's counter
is known to have lost, and which sids.

### DisasterAlerts (`tenant.service.ts`, `sms.processor.ts`, `sms.controller.ts`)

| Model | Code |
|---|---|
| `mode`, `events` | `tenants.disaster_mode`, `disaster_events` with `is_active` and `sms_queued_count` |
| `admin[a]` | a request of `toggleDisasterMode`, which has read the mode and not yet called the stored procedure, or is texting the parents |
| `text[e][p]` | job, `sms_logs` row and counter of one recipient of one event |
| `Activate`, `Deactivate` | `activate_disaster_mode`, `deactivate_disaster_mode`, one statement each |
| `QueueTexts`, `Tell` | `sendBatchSms` for the parents, the update of the event's count |
| `Send`, `Record`, `WorkerDies` | Twilio's answer, the upsert of the `QUEUED` row by sid, a stalled job |
| `Lookup`, `Apply`, `Count` | the webhook's three calls; `seen` is the status read by the first. A failed look-up goes on to the update without the rank (`unread`), a failed update is counted and answered all the same |

`slip` and a text's `missed` are history variables: the texts a callback reached
before their row was there, or while another one, or a repeated record, wrote it;
and how many of the webhook's queries about a text failed.

### BillingInvoices (`billing.service.ts`, `billing.processor.ts`, `account-lock` guard)

`invoice` is a tenant's rows of `billing_snapshots`, `cache[p]` the
`lockStatusCache` of an API process, `request`, `admin` and `job` the handlers
under way in it. Issue, payment and generation read first and write later, as
in the code; the clearing of the cache is a step after the write, in the
process that wrote only. The nightly job reads the months that are overdue in one query
and updates them in another.

### GrantPool, Sponsorship (`sponsorship.service.ts`, `billing.processor.ts`)

`pools[p]` is the `remaining_lkr` of the month's rows, oldest first: with more
than one, `maybeSingle` errs and the calculation inserts another, and so it does when
the query of a single row fails (`missed`). `admin[a]` is
a call of a super admin with the balance it has read (`seen`): `Fund` (find the
pool, write it back or insert it), `Give` (check the balance, deduct, insert the
grant, log the event), `Revoke` (read the grant, deactivate it, give the cost
back, log). `Night` is `processExpiredGrants` with the ids it has read. `Cross`
notes a pool whose balance another call wrote between a read and a write
(`crossed`), `raced` the grants that two calls ended, `twice` two calculations
that overlapped.

### Sessions (`auth.service.ts`, `redis.service.ts`, `users.service.ts`, `api-client.ts`)

A pair is an access and a refresh token signed together. `keys` and `index` are
the refresh tokens' keys and the account's set of them, `revoked` the time of
the last revocation, `cached` the account state that lives a minute. `tab[t]` is
what a browser tab waits for: `Request` (the access token, the account), `Refresh`
after a 401 (the key, the account, revoke, sign, store the key, store the
member, answer), `Login`, `Logout`. Revoking one token is three calls, `FindOwner`,
`Unlist`, `Revoke` (get, srem, del), and may end after any of them (`RevokeFails`). The
tabs share `cookie`. `admin` is `setActivationStatus`: the row, the cache, and the four
calls of the revocation. `loose` and `excused` are history variables that name the
exceptions.

### ClassRoll (`students.service.ts`, `classes.service.ts`, `chat.service.ts`)

`Enrol` counts the class and starts the chain `CreateAuth`, `InsertUser`,
`InsertStudent`, with `Undo` when a step is refused; the school's cap is checked
in the inserts, where the triggers check it. `Move` counts and then writes;
`Deactivate`, `Reactivate`, `Remove` write at once. `Appoint` takes the lock of the
class or goes on without it, `Unset` and `Set` are its two updates, `Unlock` gives
the lock back unless it has expired. Whoever changed a class goes through
`syncClassParticipants`: `ReadMembers`, `AddMembers`, `ListStale`, `Prune`.
`Withdraw` is a member who leaves the group or is taken out of it by hand. What fails
is as in the code: an unread policy or count admits to a full class (`unread`), an
insert or `createUser` may take effect and answer with an error (`InsertFails`,
`AuthFails`), `deleteUser` may fail unnoticed (`UndoFails`), and so may the unset of the
former homeroom teacher (`UnsetFails`, `uncleared`).
`crossed`, `unread`, `unlocked`, `uncleared`, `behind` and `stray` are history variables: what
overlapped, which class was not counted, what ran without lock or unset, which group was
not brought in step, which enrolment was not undone.

### BlogDiscourse (`blog.service.ts`, `mobile-sync.service.ts`, `local_database.dart`)

| Model | Code |
|---|---|
| `post`, `count`, `likes` | the row of `blogs`: `deleted_at`, `is_taken_down`, `is_published`, `is_flagged`; `comments_count`, `likes_count` |
| `comment`, `reactions`, `reports` | `blog_comments`, `blog_reactions` of the post, `blog_reports` as numbers of pending and closed ones |
| `h[w]` | a request under way: what it found, what it has still to write, count, store and tell |
| `BeginCall`, the `Write...` actions, `CountLikes` / `StoreLikes`, `CountReports` / `StoreFlag`, `EmitSyncEvent` | the database calls of a request, in order |
| `CountAfterDelete` | the trigger `trg_sync_blog_comments_count` |
| `air`, `Land`, `Miss` | `emitSyncEvent` and `broadcastPlatformSyncEvent` for a PLATFORM post: one append per school that nobody waits for |
| `Ingest` to `AnswerEntry`, `logged`, `acked` | what `appendSyncEvent` does with a comment or reaction of a phone, until the phone knows |
| `shown`, `Apply` | what a phone shows that has applied all of its school's log |

Phones write for posts of their own school; a post, a comment and a reaction are
identified by their ids, and what they say is left out. `Unseeing` is a look-up of the
caller's report or reaction that fails and finds none; `DeleteFails`, `CloseFails`,
`CountReportsFails`, `CountLikesFails`, `StoreLikesFails` are the calls whose error nobody
looks at. `blurred`, `uncounted` and `unseen` are history variables: which topics were
touched by crossing requests, failed calls or repeated entries, in which school; that a
phone's reaction has come in since the likes were counted, or the counting failed; and
whose earlier report was missed.

## 3. What the runs check

The invariant that ends in `Inv` is the type invariant of its module together
with the safety property in brackets.

| Run | States | Instance | What it shows |
|---|---|---|---|
| `sync_log` | 200,019 | four transactions: two retries of one event, one reuse of its uuid, one unrelated | `AnswerInv` (`AnsweredIsStored`), `GaplessCommitOrder`, `ConflictOnlyOnOtherContent`, `AllAnswered`, and `ImplementsEventLog` |
| `sync_pull` | 345,382 | one device that may see two of three events, pages of one, two failures | `PullInv` (`NoRetainedEventSkipped`), `CursorBackOnlyUnread`, `CaughtUp` |
| `attendance` | 1,374,625 | two devices with an edit each (one clock far ahead), one web roll call, two handlers, one failure, reassignment or scrub | `AttendanceInv` (`SyncedMeansDecided`, `NeverFromTheFuture`), `RegressionNeedsStaleRead`, `EveryEditSyncs` |
| `chat` | 805,004 | two messages, two handlers, one member who comes and goes, two failures | `ChatInv` (`LossNeedsCut`), `EveryMessageSettles` |
| `session` | 248,898 | two accounts, three entries (one refused, one that changes with every attempt), two sign-ins, two failures | `PhoneInv` (`SyncedIsStored`, `LeakNeedsCrossing`), `EveryEntrySettles` |
| `roll_call_cache` | 546,161 | two local marks, two web periods, log of three, pages of two, one kill | `CacheInv` (`PulledIsShown`), `OneRowCatchesUp` |
| `sms` | 1,024,851 | a batch of two and a disaster batch of one, two months, two attempts, two failures | `SmsInv` (`OpenIsReserved`), `DuplicateNeedsLostSid`, `EveryJobEnds` |
| `billing` | 543,080 | one invoice, two processes, one failure | `LockInv` (`CacheIsCurrent`), `FinalAmountFixed`, `ReopenedByScanOnly`, `UnpaidBecomesOverdue` |
| `disaster` | 4,249,444 | two administrators, one parent, two events, two callbacks at a time, one failure | `ModeInv` (`OneActiveEvent`), `AnsweredIsKept`, `CountedOnce` |
| `sponsorship` | 683,948 | two super admins, two grants, two calculations, one failure | `LedgerInv` (`OnePool`), `EndsOnce`, `ExpiredEnds`, and `ImplementsGrantPool` |
| `sessions` | 2,241,351 | two tabs, two pairs, an account that begins active or not and changes once, one failure | `SessionInv` (`KickedNeedsCause`), `RevokedIsGone`, `DeactivatedStops` |
| `school` | 1,643,240 | three requests, two at a time, one failure: on three students, two teachers, two classes; or on a post with two comments, two types of reactions, two reporters, and another school | `RollInv` (`CapKept`, `CapacityKept`), `GroupInStep`, `OneHomeroom`, `NoOrphanAccount`; `DiscourseInv` (`CommentsCounted`, `LikesCounted`, `FlagNeedsReporters`), `PhonesInStep` |

Most of the code here works without transactions, so that many a promise holds
but for named exceptions, and that is what several properties say:
`LossNeedsCut` that a message is lost in one way only, `LeakNeedsCrossing` that
nothing leaks unless a sign-in or sign-out was overlapped, `OneRowCatchesUp` that
the pull works as long as a day has one row, `OpenIsReserved` and
`DuplicateNeedsLostSid` which failures undo the counter and repeat a text, and in
the last four rows the history variables name the crossings. The other kind of
exception is the error nobody looks at: `CursorBackOnlyUnread`, `SyncedMeansDecided`,
`EveryEditSyncs`, `AnsweredIsKept`, `CountedOnce`, `OnePool`, `CapacityKept`,
`OneHomeroom`, `NoOrphanAccount` and `FlagNeedsReporters` each say that one failed call,
the one they name, is all it takes, and that nothing else does. Together they say how
far the code can be relied on and where it ends; section 5 lists what lies beyond.

Every property has a mutant: a variant of one definition with a plausible bug,
defined just before it under a comment that says so, under which TLC finds the
property violated. The mutants are never part of the specifications.

### Bounds

* **Actors.** Two concurrent handlers, passes or processes are enough for every
  hazard listed: each is one actor overtaking another between two steps. `sync_log` has four,
  so that a retry, a conflict and an unrelated event can all wait for one lock.
* **Failures** (`MaxFailures`, `MaxSetbacks`, `MaxMishaps`, `MaxKills`). One or two, at any step. Two let a
  failure hit the recovery from the first one. Nothing forces them.
* **Clocks.** `MaxTime = 2` with `Retention = 0` lets an event be younger than,
  as old as and older than the window; `MaxClock = 3` with `Retention = 1`
  does so for local rows. `Skew = 1` and `MaxTime = 1` let a device's clock (9)
  be clamped, and the clamped time be overtaken. `Grace = 0`: days are only
  compared with the grace period, and `Days` keeps one value beyond it.
* **Pages.** One event (`sync_pull`) makes every event a page boundary; two
  (`roll_call_cache`) leave a page half applied.
* **Log.** Three events (`MaxLog`): the two marks of the phone come back and one
  of the web's crosses them.
* **Sign-ins.** Two (`MaxLogins`): one account after another.
* **Attempts.** `MaxAttempts = 2` stands for the queue's five: an attempt that is
  repeated, and the last one, whose failure ends the job.
* **Amounts.** Two, so that one generation can overwrite another's.
* **Disaster.** `MaxEvents = 2`: texts of an event that is over meet a new one.
  `MaxCounted = 1`: a text that is counted gets no further callbacks, but those under
  way may still count it, which is where a second count can come from; Twilio's later
  repetitions meet a final row, or repeat the same failure.
* **Pools.** `MaxFunds = 2` calculations, so that a month can get a second pool.
* **Sessions.** `MaxPairs = 2` pairs let one replace another or both tabs have
  their own; `MaxChanges = 1` is a deactivation, or a reactivation of an account
  that began deactivated.
* **Months.** Two (`MaxMonth = 1`): a job may end in the month after its batch's.
* **Roll.** `Cap = 2` with three students and `Capacity = 1`: the school's and a class's
  last place are both contended. `MaxCalls = 3` requests, two at a time: a third can
  meet what two have left.
* **Blog.** `Threshold = 2` with two reporters stands for the code's 3. The roll and
  the blog share no state, nor do the comments, the reactions, and the post with its
  reports, except `post.deleted`, which only refuses requests. `MCSchool` therefore
  lets a behaviour be about one of the four (`part`): what would be seen of them
  together is what is seen of each. `MaxRequests = 3`, two at a time.

Deadlock is checked where the system never stops by itself (`sync_pull`, `chat`,
`billing`). `CHECK_DEADLOCK FALSE` is set where it ends: all transactions
answered and the clock at its bound (`sync_log`), all edits synced
(`attendance`), the log at its bound (`roll_call_cache`), every job ended
(`sms`), the last permitted sign-in used up with the app killed (`session`), all
activations used (`disaster`), every grant ended (`sponsorship`), no pair left to
sign (`sessions`), no request left to make (`school`).

### Fairness

Liveness is claimed under the fairness the scheduling gives:

* the database goes on with a transaction it has begun (`Transaction`);
* the app's 30-second timer starts passes again and again and an awaited call
  returns (`Push`, `Pull`, `StartPass(TRUE)`, `PassStep`, `PullStep`), because
  `startAutoSync` is a periodic timer; in `MobileSession` it is part of the state whether
  the timer runs;
* the API runs a request it has accepted, BullMQ's workers run jobs and repeat
  attempts (`Handle(w)`, `Worker(j)`);
* time passes where something waits for it (`Tick`, `Wake`, `NextDay`), and pruning follows a
  pass (`Prune`);
* a request's handler runs to its end and Redis drops what has expired
  (`Handler(t)` and `CacheExpires` of `Sessions`: the key is set with a time to live);
* the nightly job of the grants runs again whatever became of the last one
  (`Night` of `Sponsorship`, a repeatable BullMQ job);
* the nightly cron job starts. This is strong fairness of `ScanOverdue`: a generation by
  hand may occupy the process's job slot every time, without ever keeping it.

No fairness is assumed of users, administrators, failures, purges, the web or
the clock of the log: a property that needed them would not hold. `disaster` and
`school` check safety only: what could stop there (a batch that failed, a sync that
died, a broadcast that missed a school) is never taken up again by the code.

## 4. What is proved

TLAPS checks the following for every value of the constants, and so for any
number of actors, messages, failures and requests: the bounds of section 3 are
constants too. The assumptions are the named `ASSUME`s of the modules; TLC
evaluates them in every run. They give the constants their types, make the sets
finite that are counted, and tell special values from ordinary ones
(`NobodyAssumption`, `UsersAssumption`, `NothingAssumption`, `TopicsAssumption`).

Every invariant and action property of a passing run is a theorem, and so are
both refinements. Each proof has one inductive invariant per specification,
preserved by one lemma per action or per group of alike ones; it was checked by
TLC on the run's instance before it was proved.

**`SyncProof`, the log** (any requests, uuids, bodies and contents, any retention
window; assumptions of `EventLog` and `NobodyAssumption`).
`IInv` is the type invariant together with:

* `Exclusion`: a transaction is between lock and commit iff it holds the lock;
* `SeqsBounded`, `SeqsUnique`, `UuidsUnique`: the stored numbers are `1..counter`
  and number and uuid are keys;
* `Reserved`: between its second look-up and its commit a transaction's uuid
  stays unused and the number it carries stays the next one;
* `Stamps`, `Pending`: no transaction starts in the future, and a request has
  no answer before its transaction ends.

None of the properties is inductive alone. That a number is the next one at
commit needs that nobody else took it since (`Exclusion`), and that the row is
new needs `Reserved`, which again needs `Exclusion`. From `IInv` follow
`SpecAnswerInv`, `SpecGapless`, `SpecConflict`, and `SpecImplementsEventLog`:
every step of the transaction is an abstract append, a purge, a scrub, a tick, or
changes nothing of the log.

**`SyncProof`, the devices** (any devices, any role filter, page size and number
of failures). `PullIInv` follows a pull from request to stored cursor:
`CursorsBounded` (no cursor and no answer is past the counter, and a request began
where the cursor still stands), `PageComplete` (what the cursor is going to pass
is on the page or applied: it holds because the counter is read before the page,
and new events come after it), `SnapshotAhead` (a snapshot stands for
no less than the cursor it replaces, or for nothing, as its counter was not read).
`NothingRetainedIsSkipped` is `PullInv`, `CursorGoesBackOnlyUnread` is
`CursorBackOnlyUnread`. `NothingCommittedIsSkipped` states both of `JoinedSpec`, in which devices read the log that the transactions of
`SyncLog` write statement by statement: a step of the whole is a step of the
transactions, by the refinement a step of the indivisible log, and so one of
`SyncPull`.

**`BillingProof`** (any months, processes, amounts and length of the grace
period; assumption `BillingAssumption`). `IInv` is the type invariant,
`CacheIsCurrent`, and `RequestIsCurrent`: an answer on its way into the cache is
as current as a cached one has to be. Without it a process could cache, after a
write, an answer read before it. The central lemma is that a step that leaves
the verdict alone, or marks every process it does not tell as stale, preserves
both. From it: `SpecLockInv`, `SpecFinalAmountFixed`,
`SpecReopenedByScanOnly`.

**`MessageProof`, `ChatIngest`** (any messages, ranks, users, handlers). `ChatInv`
rests on what the steps of a handler imply: `FlagIsKnown` (a payload marked as
applied is in the log), `HandlerKnows` (a handler past the append, or one that
read the mark, works on a known message), `SyncedIsKnown`, and `Written`: a known
message is in `chat_messages`, was cut, or has a handler between append and
insert. Every way a handler leaves that interval keeps `Written`. `SpecChatInv`.

**`MessageProof`, `SmsDispatch`** (any batches, jobs, attempts and ceiling; `Jobs`
finite). `JobsTell` says what a job's record tells of the texts sent for it: not
more than its attempts and one repetition after a death account for, none before
it is queued, and, if no sid was lost, at most one, whose sid is in the job or
being stored. With it `DuplicateNeedsLostSid` is immediate. `OpenIsReserved` is
proved by cardinalities, month by month: a reservation adds the batch, a failed enqueue
takes it away whole, every other step closes one job at most and gives back one at most,
that of a closed job of the same month, or it is counted in `astray`. `SpecSmsInv`,
`SpecDuplicateNeedsLostSid`.

**`RollCallProof`, `AttendanceSync`** (any edits, devices, clocks, roll calls and
failures). `HandlerKnows`: a handler past the decision, or one that found it taken,
speaks of an edit that is decided or was misread. `TimesClamped`: what is going to be stored was compared
with the clock before, and the clock only goes on. `ConflictsWithARow`: only a row
that was there is logged as overwritten. `AcknowledgedIsDecided` is
`AttendanceInv`. `NewerMarkLostOnlyToAStaleRead` is the action property
`RegressionNeedsStaleRead`: of every action that writes the row it is shown that an
older mark prevails only where the row has changed since it was read.

**`RollCallProof`, `RollCallCache`** (any recordings, periods, page size, retention and
kills). `AppliedIsKept` speaks of every event that was applied, whether the cursor
was stored or not: it has its row, or a row of the phone's own that is not older, or
has passed the retention, or a later event under its id is in the log no further
than a page past the cursor. The last case is why the invariant cannot speak of
the cursor alone: after a kill the phone applies a page again from its start, and
the row of a late event must not be undone by an early one for good.
`PageFollows`: the page is what follows the cursor. `PulledMarksAreShown` is
`CacheInv`.

**`DisasterProof`** (any administrators, callbacks, activations; `Parents`
finite). `Queues` and `Fresh`: an event's texts are queued once, by the request that
activated it. `Hooked` and `SeenNone`: what a callback has read of a row that
nobody slipped on is what the row says, or `none`, unless its look-up failed.
`CountsOnce`: a text that has not slipped has at most as many counts, made or about to be
made, as its queries that failed, and one more if its final status was written. `SpecModeInv`, `SpecAnsweredIsKept`, `SpecCountedOnce`.

**`SponsorshipProof`** (any admins, grants, amounts, costs). `Counted` (pools and
grants against the calculations), `Linked` (`Works`, `OwnGrant`, `PaidFrom`: which
grant and pool a call works on), `OneRestore` (one call gives a grant's money back
unless two raced), `Alone` (one calculation at a time unless `twice`, and one row
unless a look-up was `missed`) and `Ended`
(how a grant ended, read from its events). `SpecLedgerInv`, `SpecEndsOnce`.
`SpecImplementsGrantPool`: for every action, on every pool that has not been
crossed the step is a step of `GrantPool` under the mapping; `Held` is shown
unchanged for the grants and pools an action does not touch.

**`SessionsProof`, `Sessions`** (any tabs, pairs, changes). `PairsKnown`: a pair being
handed out is nobody else's. `Listed`, `Emptied`, `OnTheWay` follow a revocation:
what is stored is in the set, being added to it, or loose; after the set was read,
among what was read; after the deletion, loose; a key that its own revocation has
taken off the set is about to be deleted. Hence `SpecRevokedIsGone`. `Calm`:
as long as nothing excuses a sign-out, one tab refreshes at a time, with a stored
token, and the browser's token is stored unless it is being replaced. Hence
`SpecSessionInv`.

**`SessionsProof`, `MobileSession`** (any users, entries, sign-ins and mishaps).
`PhoneIInv` says what holds until something crosses (`crossed \/ Apart`): no pass
runs beside a sign-out; what is queued and the cursor belong to the account whose
tokens are stored, or are about to be wiped; a pass sends, and pulls, for that
account. `AcceptedIsStored`: what the server has accepted is stored for the account it
was sent with. A sign-in then finds an empty outbox and no cursor.
`LeaksNeedACrossing` is `PhoneInv`. The lemma `FirstIsOne` (the first of some entries
is one of them) is proved with the well-foundedness of `\subset` on finite sets.

**`SchoolProof`, `ClassRoll`** (any requests, students, teachers, classes, cap,
capacity). `Identity` and `Known` keep an address with one enrolment. `CapKept` is
proved with `Room`: in a class not crossed, nor admitted to unread, the active students and those about to be
never exceed its places. The proof needs an inactive student who is being moved counted
as coming, which is how it was found that reactivation has to be an exception.
`Locked`: the lock is held through an appointment in a class that was never
unlocked, and, unless the unset failed, the former homeroom teacher is gone before
the new one is set.
`NoGhosts` and `InStep` say what each step of a sync still has to do.
`SpecRollInv`, `SpecGroupInStep`, `SpecOneHomeroom`, `SpecNoOrphanAccount`.

**`SchoolProof`, `BlogDiscourse`** (any comments, users, types of reactions,
reporters, schools and requests, any threshold; what is counted is finite).
`BlogIInv` (`BlogSpecIInv`) has, beside the types of a request's record by its kind
and step (`CallTyped`):

* `ByItself`: where nothing is blurred, a request is alone with its topic and no
  broadcast about it is under way. What blurs is exactly what breaks this.
* `Reliable`: such a request still finds what it read, up to its write.
* `InTune`: of every thing and school that are not blurred, whoever is about to tell of
  it tells what the web shows, every append under way does, and if there is neither
  the phone shows it (`Promised`: a comment of a phone is in its school's log before
  it has its row).
* `CommentKnown`, `HasRow`: a comment under way is new, or has its row; one whose
  phone was told has its row.
* `LikesKnown`: likes are right, or uncounted, or somebody is counting them alone.
* `ReportsKnown`: a user whom nothing blurs and whose report was not unseen has filed once, and the number read for
  the flag is not more than the users who filed (an injection of pending reports into
  users).

`DiscourseHolds` is `DiscourseInv`, `PhonesFollowTheWeb` is `PhonesInStep`.

**Only model-checked:** the liveness properties (`AllAnswered`, `CaughtUp`,
`EveryEditSyncs`, `EveryMessageSettles`, `EveryEntrySettles`,
`OneRowCatchesUp`, `EveryJobEnds`, `UnpaidBecomesOverdue`, `ExpiredEnds`,
`DeactivatedStops`): they need fairness, whose `ENABLED` is out of the prover's
reach.

## 5. Where code and documentation differ

These were met while modelling. The models follow the code.

Sync and chat:

* The chat event is stored with `applied = TRUE` before the message is inserted.
  If the handler stops in between, the retry takes the message as persisted and
  answers success; a failed insert is only logged. The web never shows the
  message (`LossNeedsCut`).
* The wipe at sign-in compares with a stored user id that sign-out and expiry have
  already cleared. Entries a pass had read before the sign-out, or an
  interrupted expiry left behind, go out with the next account's token
  (`LeakNeedsCrossing`).
* Two local rows of one student and day make `getSingleOrNull` throw at the first
  event about that day, before the cursor is stored; each later pull ends at the
  same event (`OneRowCatchesUp`).
* The page query of a pull runs after the retention check, so a purge between
  the two leaves a hole in the page that no 410 announces (ADR-002 promises
  one).
  `NoRetainedEventSkipped` speaks of events still retained for that reason.
* The health registry is updated by the primary key of `device_tokens`, which the
  app does not know (it sends a uuid of its own): the acknowledged sequence is never
  recorded for it.
* An older mark may overwrite a newer one, and without an entry in the conflict
  log, when the row changed between read and write (ADR-002 says the newest
  mark wins and every overwrite is logged). `RegressionNeedsStaleRead` states
  what does hold.
* The account lock counts its grace period from the creation of the oldest
  invoice that is issued or overdue, a comment in `billing.service.ts` from the
  moment an invoice becomes overdue. An invoice issued more than 14 days after
  its draft was made locks the account at once.
* The overdue job updates the invoices it found by id only, and so reopens one paid
  since. `ReopenedByScanOnly` states that nothing else does.
* A message is refused with 409 on retry when the conversation's participants
  changed, or attachments were uploaded anew, since its first attempt (ADR-002:
  retries are idempotent). In `chat` and `session` this is why a message may
  settle as failed.
* The snapshot's counter query is not checked (`mobile-sync.service.ts:1211`): when it fails the
  snapshot stands for sequence 0, the app stores that, and the next pull begins at
  the start (`CursorBackOnlyUnread`). It costs a repetition, no event.
* An enrolment look-up that fails is read as "not an active student": the edit is marked
  applied, answered as success, and the mark is not in the roll call
  (`mobile-sync.service.ts:505`, `SyncedMeansDecided`).
* A look-up of the teacher's classes that fails, a redacted event, or an error of type
  `unknown` on the phone makes an edit FAILED until the teacher retries it by hand
  (`EveryEditSyncs`).
* A pass that broke off still reports success, so no back-off follows it
  (`sync_service.dart`).
* An expired session (a 401 with a rejected refresh) wipes the outbox, unsent
  entries included.
* The snapshot holds classes and notices only; ADR-002 speaks of the tenant's
  state. In `SyncPull` a snapshot counts as standing for everything before it.
* Homework submissions pushed as sync events are appended to the log and not
  materialised.

Texts and disaster mode:

* SMS usage is read before the reservation. What is recorded and released between
  the two is in neither number, and a batch is admitted over the ceiling without
  any failure.
* The reservation goes to the month of the send, what is given back to the month it is
  then (`sms.processor.ts:152`): a job that ends in the next month takes from that
  month's counter and leaves its own (`OpenIsReserved` counts both in `astray`).
* The webhook looks neither at the error of its look-up nor at that of its update
  (`sms.controller.ts:103`, `124`): a status is set back, or counted and not stored, and
  Twilio is answered 200 (`AnsweredIsKept`, `CountedOnce`).
* The mode stays on when the batch of texts fails (`tenant.service.ts:454`): the
  request answers with an error after the mode was stored, a second try is refused
  as already active, and no parent is told.
* A callback that comes before the text's row finds none; the row that is inserted then says
  `QUEUED` for good (`AnsweredIsKept`).
* `fcm.processor.ts:160` fails "loudly so BullMQ retries"; the jobs are added
  with one attempt.

Sponsorship:

* The calculation reads `id, remaining_lkr` of a month's row and not the former
  amount, which so counts as 0: each repetition adds the whole new amount
  (`sponsorship.service.ts:70-76`).
* The rows of a month are not unique. With two of them `maybeSingle` errs, and each further
  calculation inserts another. A look-up of the only row that fails has the same effect
  (`OnePool`).
* An award deducts and then inserts: when the insert fails the money is gone. A
  restore that fails is never repeated.

Blog:

* "prevent multiple reports from the same user" (`blog.service.ts:1271`): there is no
  unique index, so two crossing reports of a user both count; and with two of
  them the lookup fails, and the user may report again and again; one failed lookup is
  enough to begin with (`FlagNeedsReporters`).
* A post or reaction whose deletion failed is told as deleted (`blog.service.ts:831`,
  `1130`, `1229`): phones drop it, the web goes on showing it. Likes whose count failed are
  stored as 0.
* Resolving or dismissing a report does not count again: a flagged post stays
  flagged until it is restored or reported once more.
* "If clicking the same reaction, remove it (toggle off)" (`blog.service.ts:1129`):
  a reaction of any type is removed. A user who has two (one from a phone) can remove
  neither, because the lookup of one row fails.
* A reaction that comes from a phone is not counted in `likes_count` until
  somebody reacts on the web (`uncounted`).
* A takedown is not respected by the author's next edit: `updateBlog` can publish
  the post again, and phones then show it although the web does not.
* `assertCanViewBlog` refuses what is taken down, but the lookups of
  `createComment`, `toggleReaction`, `removeReaction` and `reportBlog` do not
  select `is_taken_down`: these go through.
* A comment or reaction of a phone is written again, and told to the other
  schools again, with each repetition. There a comment hidden or deleted
  meanwhile comes back; in the phone's own school it does not (`PhonesInStep`).

Sessions and roll:

* Refreshing is single-flight per tab. Two tabs that refresh with one cookie race
  for the rotation and the second is signed out (`KickedNeedsCause`).
* Revoking a refresh token takes it off the account's set and then deletes its key
  (`redis.service.ts:61`). If the second call fails the token works on, and no later
  revocation of the account finds it (`RevokedIsGone`).
* `assignToClass` does not bring the group of the class a student leaves in step
  (a comment at `students.service.ts:446` says both are).
* The lock of a homeroom appointment is not required: without Redis the code
  goes on (`classes.service.ts:202`). Nor is the unset of the former homeroom teacher
  checked: if it fails, the class has two.
* The capacity of a class is read some calls before the student is written, and not at
  all when an inactive student is reactivated; a query that fails is taken as no limit.
* An enrolment refused after its `users` row was written leaves that row, so that the
  address cannot be enrolled again; a hard delete keeps the account. `createUser` that
  succeeds and whose answer is lost leaves an account nobody deletes, and so does a
  `deleteUser` that fails.
* A sync whose query of the members fails takes the class as empty and prunes
  everybody from its group.

## 6. What is not modelled, and what comes next

`PROJECT.json` lists every component with its status and reason. Left out for
good: presentation (web app, screens, design tokens), read-only reporting, CRUD
guarded by a role and one database call, and vendor clients. The database's row
security and the role guards are outside the scope of these models; the models
take requests as authorised unless the handler itself decides (chat).

Within the modelled components the following is abstracted: payloads (only
equality matters), several tenants (the log is per tenant; `MobileSession` keeps
the tenants of its accounts apart), entity types other than attendance, chat
and the blog's comments and reactions, the amounts of an invoice
beyond "as computed at a moment", and SMS of more than one segment.

Also left out, with the reason:

* Of authentication: attempt counters and lockout, one-time codes, password
  reset, sign-up by invitation and the seven-day life of a refresh token: single
  requests over single keys, without interleavings worth a state.
* Of the roll: creation of classes, bulk import, self-registration, staff and
  parents (the enrolment's pattern again).
* Of chat: REST and socket messages, receipts, muting: one write each (leaving a
  class's group is `Withdraw` of `ClassRoll`).
* Of the blog: the creation of posts, posts written offline (append, upsert by id
  and broadcast, as for a comment), reactions to comments, the teacher's daily
  limit, and phones of other schools that comment on a platform post.
* Push delivery: one attempt, nothing repeated, nothing counted.
* Device tokens and entitlement events.

The map covers a small part of the repository's lines, because most of them are
screens, listings, validation and single writes. What has several steps, several
actors and a promise to keep is modelled.

What could come next, in this order:

1. **Abstract specifications** of the device side: the phone's outbox as a set
   of entries that are queued, stored or refused, with `MobileSession` and the
   handlers of `AttendanceSync` and `ChatIngest` as its implementations.
2. **Homework submissions and disaster packs** on the device, as further entity
   types of `MobileSession`.
3. **Individual plans** (`billing.service.ts`, checkout and webhook).
